-------------------------- MODULE CheckSchedulingProofs ---------------------------
(***************************************************************************)
(* The event list and the pointers to it agree, no service that should be  *)
(* scheduled is forgotten, and running checks are counted up to the faults *)
(* there were, for every number of services, limit, interval and bound of  *)
(* CheckScheduling.                                                        *)
(*                                                                         *)
(* The lemmas say what the operations on the list do to the set of its     *)
(* events.  Three invariants rest on them: IInv on the events and the      *)
(* pointers, Timely on the order of the list and the range of every time,  *)
(* and CountInv on the checks that are out, a set of numbered checks that  *)
(* a step changes by the checks it starts and the one it ends.             *)
(***************************************************************************)
EXTENDS CheckScheduling, SequenceTheorems, FiniteSetTheorems, TLAPS

Rec == [svc : Services, at : Int, options : Options]
Svc == [enabled : BOOLEAN, should : BOOLEAN, linked : BOOLEAN, executing : BOOLEAN,
        freshening : BOOLEAN, stale : BOOLEAN, options : Options, next_check : Int]

\* A list of events, at most one of a service.
One(q) == \A i, j \in DOMAIN q : q[i].svc = q[j].svc => i = j

\* A list in the order of time.
Sorted(q) == \A i, j \in DOMAIN q : i < j => q[i].at <= q[j].at

---------------------------------------------------------------------------------
(* Operations on the list *)

\* The numbers up to n that are in a set with all smaller ones are counted by their
\* cardinality.
LEMMA Prefix ==
    ASSUME NEW n \in Nat, NEW D \in SUBSET (1..n),
           \A i \in D : \A j \in 1..i : j \in D
    PROVE  Cardinality(D) \in Nat /\ Cardinality(D) <= n /\ D = 1..Cardinality(D)
<1> DEFINE c == Cardinality(D)
<1>1. ASSUME NEW m \in Nat PROVE IsFiniteSet(1..m) /\ Cardinality(1..m) = m
  <2>1. 1 \in Int /\ m \in Int
    OBVIOUS
  <2>2. IsFiniteSet(1..m) /\ Cardinality(1..m) = IF 1 > m THEN 0 ELSE m - 1 + 1
    BY ONLY <2>1, FS_Interval
  <2> QED BY <2>2
<1>2. IsFiniteSet(D) /\ c <= n
  <2>1. IsFiniteSet(1..n) /\ Cardinality(1..n) = n
    BY <1>1
  <2>2. IsFiniteSet(D) /\ Cardinality(D) <= Cardinality(1..n)
    BY <2>1, FS_Subset
  <2> QED BY <2>1, <2>2
<1>3. c \in Nat
  BY <1>2, FS_CardinalityType
<1>4. ASSUME NEW i \in D PROVE i <= c
  <2>1. i \in Nat /\ 1..i \in SUBSET D
    OBVIOUS
  <2>2. Cardinality(1..i) <= c
    BY <1>2, <2>1, FS_Subset
  <2> QED BY <1>1, <2>1, <2>2
<1>5. D \in SUBSET (1..c)
  BY <1>3, <1>4
<1>6. Cardinality(1..c) = c /\ IsFiniteSet(1..c)
  BY <1>1, <1>3
<1> HIDE DEF c
<1>7. Cardinality(D) = Cardinality(1..c)
  BY <1>6 DEF c
<1>8. D = 1..c
  BY <1>5, <1>6, <1>7, FS_Subset
<1> QED BY <1>2, <1>3, <1>8 DEF c

\* Inserting an event adds it to the events of the list.
LEMMA InsertedEvents ==
    ASSUME NEW q \in Seq(Rec), NEW e \in Rec
    PROVE  /\ Inserted(q, e) \in Seq(Rec)
           /\ Range(Inserted(q, e)) = Range(q) \cup {e}
           /\ One(q) /\ (\A f \in Range(q) : f.svc # e.svc) => One(Inserted(q, e))
           /\ Sorted(q) => Sorted(Inserted(q, e))
<1> DEFINE before == {i \in DOMAIN q : q[i].at <= e.at}
           k == Cardinality(before) + 1
           a == SubSeq(q, 1, k - 1)
           b == SubSeq(q, k, Len(q))
           c == a \o <<e>>
           r == Inserted(q, e)
<1>1. Len(q) \in Nat /\ DOMAIN q = 1..Len(q) /\ \A i \in 1..Len(q) : q[i] \in Rec
  BY LenProperties, ElementOfSeq
<1>2. k \in Int /\ 1 <= k /\ k <= Len(q) + 1
  <2>1. IsFiniteSet(1..Len(q)) /\ Cardinality(1..Len(q)) = Len(q)
    <3>1. 1 \in Int /\ Len(q) \in Int
      BY <1>1
    <3>2. /\ IsFiniteSet(1..Len(q))
          /\ Cardinality(1..Len(q)) = IF 1 > Len(q) THEN 0 ELSE Len(q) - 1 + 1
      BY ONLY <3>1, FS_Interval
    <3> QED BY <1>1, <3>2
  <2>2. before \in SUBSET (1..Len(q))
    BY <1>1
  <2>3. IsFiniteSet(before) /\ Cardinality(before) <= Len(q)
    BY <2>1, <2>2, FS_Subset
  <2>4. Cardinality(before) \in Nat
    BY <2>3, FS_CardinalityType
  <2> HIDE DEF before
  <2> QED BY <1>1, <2>3, <2>4
<1>3. r = c \o b
  BY DEF Inserted, InsertAt
<1> HIDE DEF k, r
<1>4. /\ a \in Seq(Rec) /\ Len(a) = k - 1
      /\ \A i \in 1..k - 1 : a[i] = q[i]
  <2>1. \A i \in 1..k - 1 : q[i] \in Rec
    BY <1>1, <1>2
  <2> QED BY <1>2, <2>1, SubSeqProperties
<1>5. /\ b \in Seq(Rec) /\ Len(b) = Len(q) - k + 1
      /\ \A i \in 1..Len(q) - k + 1 : b[i] = q[k + i - 1]
  <2>1. \A i \in k..Len(q) : q[i] \in Rec
    BY <1>1, <1>2
  <2> QED BY <1>1, <1>2, <2>1, SubSeqProperties
<1> HIDE DEF a, b
<1>6. <<e>> \in Seq(Rec) /\ Len(<<e>>) = 1 /\ <<e>>[1] = e
  OBVIOUS
<1>7. /\ c \in Seq(Rec) /\ Len(c) = k
      /\ \A i \in 1..k : c[i] = IF i < k THEN q[i] ELSE e
  BY <1>2, <1>4, <1>6, ConcatProperties
<1> HIDE DEF c
<1>8. /\ r \in Seq(Rec) /\ Len(r) = Len(q) + 1
      /\ \A i \in 1..Len(q) + 1 :
            r[i] = IF i < k THEN q[i] ELSE IF i = k THEN e ELSE q[i - 1]
  <2>1. /\ r \in Seq(Rec) /\ Len(r) = Len(q) + 1
        /\ \A i \in 1..Len(q) + 1 :
              r[i] = IF i <= k THEN c[i] ELSE b[i - k]
    <3>1. c \in Seq(Rec) /\ b \in Seq(Rec)
      BY <1>5, <1>7
    <3>2. /\ c \o b \in Seq(Rec) /\ Len(c \o b) = Len(c) + Len(b)
          /\ \A i \in 1..Len(c) + Len(b) :
                (c \o b)[i] = IF i <= Len(c) THEN c[i] ELSE b[i - Len(c)]
      BY ONLY <3>1, ConcatProperties
    <3>3. Len(c) + Len(b) = Len(q) + 1 /\ Len(c) = k
      BY <1>1, <1>2, <1>5, <1>7
    <3> QED BY <1>3, <3>2, <3>3
  <2>2. \A i \in 1..Len(q) + 1 : i > k => b[i - k] = q[i - 1]
    BY <1>1, <1>2, <1>5
  <2> QED BY <1>1, <1>2, <1>7, <2>1, <2>2
<1>9. DOMAIN r = 1..Len(q) + 1
  BY <1>8, LenProperties
<1>10. Range(r) = Range(q) \cup {e}
  <2>1. ASSUME NEW i \in DOMAIN r PROVE r[i] \in Range(q) \cup {e}
    <3>1. CASE i < k
      BY <3>1, <1>1, <1>2, <1>8, <1>9 DEF Range
    <3>2. CASE i = k
      BY <3>2, <1>1, <1>2, <1>8, <1>9
    <3>3. CASE i > k
      <4>1. i - 1 \in DOMAIN q /\ r[i] = q[i - 1]
        BY <3>3, <1>1, <1>2, <1>8, <1>9
      <4> QED BY <4>1 DEF Range
    <3> QED BY <3>1, <3>2, <3>3, <1>1, <1>2, <1>9
  <2>2. ASSUME NEW i \in DOMAIN q PROVE \E j \in DOMAIN r : r[j] = q[i]
    <3>1. CASE i < k
      BY <3>1, <1>1, <1>2, <1>8, <1>9
    <3>2. CASE i >= k
      <4>1. i + 1 \in DOMAIN r /\ r[i + 1] = q[i]
        BY <3>2, <1>1, <1>2, <1>8, <1>9
      <4> QED BY <4>1
    <3> QED BY <3>1, <3>2, <1>1, <1>2
  <2>3. k \in DOMAIN r /\ r[k] = e
    BY <1>1, <1>2, <1>8, <1>9
  <2> QED BY <2>1, <2>2, <2>3 DEF Range
<1>11. ASSUME One(q), \A f \in Range(q) : f.svc # e.svc
       PROVE  One(r)
  <2>1. \A i \in 1..Len(q) : q[i].svc # e.svc
    BY <1>1, <1>11 DEF Range
  <2>2. \A i, j \in 1..Len(q) : q[i].svc = q[j].svc => i = j
    BY <1>1, <1>11 DEF One
  <2>3. ASSUME NEW i \in 1..Len(q) + 1, NEW j \in 1..Len(q) + 1, r[i].svc = r[j].svc
        PROVE  i = j
    <3> DEFINE Place(n) == IF n < k THEN n ELSE n - 1
    <3>1. ASSUME NEW n \in 1..Len(q) + 1, n # k
          PROVE  Place(n) \in 1..Len(q) /\ r[n] = q[Place(n)]
      BY <3>1, <1>1, <1>2, <1>8
    <3>2. r[k] = e /\ k \in 1..Len(q) + 1
      BY <1>1, <1>2, <1>8
    <3>3. i = k <=> j = k
      <4> HIDE DEF Place
      <4> QED BY <2>1, <2>3, <3>1, <3>2
    <3>4. CASE i # k /\ j # k
      <4>1. Place(i) = Place(j)
        <5> HIDE DEF Place
        <5> QED BY <2>2, <2>3, <3>1, <3>4
      <4>2. i \in Int /\ j \in Int /\ k \in Int
        BY <1>1, <1>2
      <4> QED BY ONLY <3>4, <4>1, <4>2 DEF Place
    <3> QED BY <3>3, <3>4
  <2> QED BY <1>9, <2>3 DEF One
<1>12. ASSUME Sorted(q) PROVE Sorted(r)
  <2>1. \A i, j \in 1..Len(q) : i < j => q[i].at <= q[j].at
    BY <1>1, <1>12 DEF Sorted
  <2>2. \A i \in 1..Len(q) : q[i].at \in Int /\ e.at \in Int
    BY <1>1 DEF Rec
  <2>3. before \in SUBSET (1..Len(q)) /\ \A i \in before : \A j \in 1..i : j \in before
    <3> SUFFICES ASSUME NEW i \in before, NEW j \in 1..i PROVE j \in before
      BY <1>1
    <3>1. i \in 1..Len(q) /\ j \in 1..Len(q) /\ (j = i \/ j < i) /\ q[i].at <= e.at
      BY <1>1
    <3>2. q[j].at <= q[i].at
      BY <2>1, <2>2, <3>1
    <3> QED BY <1>1, <2>2, <3>1, <3>2
  <2> HIDE DEF before
  <2>4. before = 1..Cardinality(before) /\ Cardinality(before) \in Nat
    BY <1>1, <2>3, Prefix
  <2>5. \A i \in 1..Len(q) : i < k <=> q[i].at <= e.at
    <3>1. \A i \in 1..Len(q) : i \in before <=> q[i].at <= e.at
      BY <1>1 DEF before
    <3> QED BY <1>1, <2>4, <3>1 DEF k
  <2>6. ASSUME NEW i \in 1..Len(q) + 1, NEW j \in 1..Len(q) + 1, i < j
        PROVE  r[i].at <= r[j].at
    <3>1. CASE j < k
      BY <1>2, <1>8, <2>1, <2>6, <3>1
    <3>2. CASE j = k
      BY <1>2, <1>8, <2>5, <2>6, <3>2
    <3>3. CASE j > k /\ i > k
      <4>1. i - 1 \in 1..Len(q) /\ j - 1 \in 1..Len(q) /\ i - 1 < j - 1
        BY <1>1, <1>2, <2>6, <3>3
      <4>2. r[i] = q[i - 1] /\ r[j] = q[j - 1]
        BY <1>1, <1>2, <1>8, <2>6, <3>3
      <4> QED BY <2>1, <4>1, <4>2
    <3>4. CASE j > k /\ i <= k
      <4>1. j - 1 \in 1..Len(q) /\ r[j] = q[j - 1] /\ ~(j - 1 < k)
        BY <1>1, <1>2, <1>8, <2>6, <3>4
      <4>2. e.at < q[j - 1].at
        BY <2>2, <2>5, <4>1
      <4>3. CASE i = k
        BY <1>2, <1>8, <2>2, <4>1, <4>2, <4>3
      <4>4. CASE i < k
        <5>1. i \in 1..Len(q) /\ r[i] = q[i] /\ i < j - 1
          BY <1>1, <1>2, <1>8, <2>6, <3>4, <4>4
        <5> QED BY <2>1, <4>1, <5>1
      <4> QED BY <1>1, <1>2, <3>4, <4>3, <4>4
    <3> QED BY <1>1, <1>2, <3>1, <3>2, <3>3, <3>4
  <2> QED BY <1>9, <2>6 DEF Sorted
<1> QED BY <1>8, <1>10, <1>11, <1>12 DEF r

\* Removing the event of a service removes this one.
LEMMA WithoutEvents ==
    ASSUME NEW q \in Seq(Rec), One(q), NEW s,
           \E e \in Range(q) : e.svc = s
    PROVE  /\ Without(q, s) \in Seq(Rec)
           /\ Range(Without(q, s)) = {e \in Range(q) : e.svc # s}
           /\ One(Without(q, s)) /\ (Sorted(q) => Sorted(Without(q, s)))
           /\ EventOf(q, s) \in Range(q) /\ EventOf(q, s).svc = s
<1> DEFINE k == IndexOf(q, s)
           a == SubSeq(q, 1, k - 1)
           b == SubSeq(q, k + 1, Len(q))
           r == Without(q, s)
<1>1. Len(q) \in Nat /\ DOMAIN q = 1..Len(q) /\ \A i \in 1..Len(q) : q[i] \in Rec
  BY LenProperties, ElementOfSeq
<1>2. k \in DOMAIN q /\ q[k].svc = s
  <2>1. \E i \in DOMAIN q : q[i].svc = s
    BY DEF Range
  <2> QED BY <2>1 DEF IndexOf
<1>3. r = a \o b
  BY DEF Without, RemoveAt
<1>a. EventOf(q, s) = q[k]
  BY DEF EventOf
<1> HIDE DEF k, r
<1>4. k \in Int /\ 1 <= k /\ k <= Len(q)
  BY <1>1, <1>2
<1>5. /\ a \in Seq(Rec) /\ Len(a) = k - 1
      /\ \A i \in 1..k - 1 : a[i] = q[i]
  <2>1. \A i \in 1..k - 1 : q[i] \in Rec
    BY <1>1, <1>4
  <2> QED BY <1>4, <2>1, SubSeqProperties
<1>6. /\ b \in Seq(Rec) /\ Len(b) = Len(q) - k
      /\ \A i \in 1..Len(q) - k : b[i] = q[k + i]
  <2>1. \A i \in k + 1..Len(q) : q[i] \in Rec
    BY <1>1, <1>4
  <2>2. /\ b \in Seq(Rec)
        /\ Len(b) = IF k + 1 <= Len(q) THEN Len(q) - (k + 1) + 1 ELSE 0
        /\ \A i \in 1..Len(q) - (k + 1) + 1 : b[i] = q[k + 1 + i - 1]
    BY <1>1, <1>4, <2>1, SubSeqProperties
  <2> HIDE DEF b
  <2>3. Len(b) = Len(q) - k
    <3>1. Len(b) = IF k + 1 <= Len(q) THEN Len(q) - (k + 1) + 1 ELSE 0
      BY <2>2
    <3>2. Len(q) \in Int /\ k \in Int /\ k <= Len(q)
      BY <1>1, <1>4
    <3> QED BY ONLY <3>1, <3>2
  <2>4. ASSUME NEW i \in 1..Len(q) - k PROVE b[i] = q[k + i]
    <3>1. i \in 1..Len(q) - (k + 1) + 1 /\ k + 1 + i - 1 = k + i
      BY <1>1, <1>4
    <3> QED BY <2>2, <3>1
  <2> QED BY <2>2, <2>3, <2>4
<1> HIDE DEF a, b
<1>7. /\ r \in Seq(Rec) /\ Len(r) = Len(q) - 1
      /\ \A i \in 1..Len(q) - 1 : r[i] = IF i < k THEN q[i] ELSE q[i + 1]
  <2>1. /\ r \in Seq(Rec) /\ Len(r) = Len(q) - 1
        /\ \A i \in 1..Len(q) - 1 : r[i] = IF i <= k - 1 THEN a[i] ELSE b[i - (k - 1)]
    <3>1. a \in Seq(Rec) /\ b \in Seq(Rec)
      BY <1>5, <1>6
    <3>2. /\ a \o b \in Seq(Rec) /\ Len(a \o b) = Len(a) + Len(b)
          /\ \A i \in 1..Len(a) + Len(b) :
                (a \o b)[i] = IF i <= Len(a) THEN a[i] ELSE b[i - Len(a)]
      BY ONLY <3>1, ConcatProperties
    <3>3. Len(a) + Len(b) = Len(q) - 1 /\ Len(a) = k - 1
      BY <1>1, <1>4, <1>5, <1>6
    <3> QED BY <1>3, <3>2, <3>3
  <2>2. \A i \in 1..Len(q) - 1 : i >= k => b[i - (k - 1)] = q[i + 1]
    BY <1>1, <1>4, <1>6
  <2>3. ASSUME NEW i \in 1..Len(q) - 1 PROVE r[i] = IF i < k THEN q[i] ELSE q[i + 1]
    <3>1. CASE i < k
      <4>1. i <= k - 1 /\ i \in 1..k - 1
        BY <3>1, <1>1, <1>4
      <4> QED BY <3>1, <4>1, <1>5, <2>1
    <3>2. CASE i >= k
      <4>1. ~(i <= k - 1) /\ ~(i < k)
        BY <3>2, <1>1, <1>4
      <4> QED BY <3>2, <4>1, <2>1, <2>2
    <3> QED BY <3>1, <3>2, <1>1, <1>4
  <2> QED BY <2>1, <2>3
<1>8. DOMAIN r = 1..Len(q) - 1
  BY <1>7, LenProperties
<1>9. \A i, j \in 1..Len(q) : q[i].svc = q[j].svc => i = j
  BY <1>1 DEF One
<1>10. One(r)
  <2>1. ASSUME NEW i \in 1..Len(q) - 1, NEW j \in 1..Len(q) - 1, r[i].svc = r[j].svc
        PROVE  i = j
    BY <1>1, <1>4, <1>7, <1>9, <2>1
  <2> QED BY <1>8, <2>1 DEF One
<1>11. Range(r) = {e \in Range(q) : e.svc # s}
  <2>1. ASSUME NEW i \in DOMAIN r PROVE r[i] \in Range(q) /\ r[i].svc # s
    <3>1. CASE i < k
      BY <3>1, <1>1, <1>2, <1>4, <1>7, <1>8, <1>9 DEF Range
    <3>2. CASE i >= k
      <4>1. i + 1 \in DOMAIN q /\ r[i] = q[i + 1] /\ i + 1 # k
        BY <3>2, <1>1, <1>4, <1>7, <1>8
      <4> QED BY <4>1, <1>1, <1>2, <1>9 DEF Range
    <3> QED BY <3>1, <3>2, <1>4, <1>8, <1>1
  <2>2. ASSUME NEW i \in DOMAIN q, q[i].svc # s PROVE \E j \in DOMAIN r : r[j] = q[i]
    <3>1. CASE i < k
      BY <3>1, <1>1, <1>4, <1>7, <1>8
    <3>2. CASE i > k
      <4>1. i - 1 \in DOMAIN r /\ r[i - 1] = q[i]
        BY <3>2, <1>1, <1>4, <1>7, <1>8
      <4> QED BY <4>1
    <3> QED BY <3>1, <3>2, <2>2, <1>1, <1>2, <1>4
  <2> QED BY <2>1, <2>2 DEF Range
<1>12. ASSUME Sorted(q) PROVE Sorted(r)
  <2>1. \A i, j \in 1..Len(q) : i < j => q[i].at <= q[j].at
    BY <1>1, <1>12 DEF Sorted
  <2>2. \A i, j \in 1..Len(q) - 1 : i < j => r[i].at <= r[j].at
    BY <1>1, <1>4, <1>7, <2>1
  <2> QED BY <1>8, <2>2 DEF Sorted
<1> QED BY <1>2, <1>7, <1>10, <1>11, <1>12, <1>a DEF r, Range

\* So does taking the first.
LEMMA TailEvents ==
    ASSUME NEW q \in Seq(Rec), One(q), q # <<>>
    PROVE  /\ Head(q) \in Rec /\ Head(q) \in Range(q)
           /\ Tail(q) \in Seq(Rec)
           /\ Range(Tail(q)) = {e \in Range(q) : e.svc # Head(q).svc}
           /\ One(Tail(q)) /\ (Sorted(q) => Sorted(Tail(q)))
<1>1. Len(q) \in Nat \ {0} /\ DOMAIN q = 1..Len(q) /\ \A i \in 1..Len(q) : q[i] \in Rec
  BY LenProperties, ElementOfSeq, EmptySeq
<1>2. /\ Head(q) = q[1] /\ Tail(q) \in Seq(Rec) /\ Len(Tail(q)) = Len(q) - 1
      /\ \A i \in 1..Len(q) - 1 : Tail(q)[i] = q[i + 1]
  BY HeadTailProperties
<1>3. DOMAIN Tail(q) = 1..Len(q) - 1
  BY <1>2, LenProperties
<1>4. \A i, j \in 1..Len(q) : q[i].svc = q[j].svc => i = j
  BY <1>1 DEF One
<1>5. One(Tail(q))
  BY <1>1, <1>2, <1>3, <1>4 DEF One
<1>6. Range(Tail(q)) = {e \in Range(q) : e.svc # Head(q).svc}
  <2>1. ASSUME NEW i \in 1..Len(q) - 1
        PROVE  Tail(q)[i] \in Range(q) /\ Tail(q)[i].svc # Head(q).svc
    <3>1. i + 1 \in DOMAIN q /\ Tail(q)[i] = q[i + 1] /\ i + 1 # 1 /\ 1 \in DOMAIN q
      BY <1>1, <1>2
    <3> QED BY <3>1, <1>1, <1>2, <1>4 DEF Range
  <2>2. ASSUME NEW i \in DOMAIN q, q[i].svc # Head(q).svc
        PROVE  \E j \in DOMAIN Tail(q) : Tail(q)[j] = q[i]
    <3>1. i # 1
      BY <2>2, <1>2
    <3>2. i - 1 \in DOMAIN Tail(q) /\ Tail(q)[i - 1] = q[i]
      BY <3>1, <1>1, <1>2, <1>3
    <3> QED BY <3>2
  <2> QED BY <2>1, <2>2, <1>3 DEF Range
<1>7. ASSUME Sorted(q) PROVE Sorted(Tail(q))
  <2>1. \A i, j \in 1..Len(q) : i < j => q[i].at <= q[j].at
    BY <1>1, <1>7 DEF Sorted
  <2> QED BY <1>1, <1>2, <1>3, <2>1 DEF Sorted
<1> QED BY <1>1, <1>2, <1>5, <1>6, <1>7 DEF Range

\* The lists the daemon starts with: the events of some services, in any order.
LEMMA ListOfEvents ==
    ASSUME NEW S \in SUBSET Services, NEW E \in [S -> Rec], \A s \in S : E[s].svc = s,
           NEW q \in SetToSeqs({E[s] : s \in S})
    PROVE  q \in Seq(Rec) /\ Range(q) = {E[s] : s \in S} /\ One(q)
<1> DEFINE T == {E[s] : s \in S}
           n == Cardinality(T)
<1>1. IsFiniteSet(T)
  <2>1. IsFiniteSet(S)
    BY BoundAssumption, FS_Subset
  <2>2. E \in Surjection(S, T)
    BY DEF Surjection
  <2> QED BY <2>1, <2>2, FS_Surjection
<1>2. n \in Nat
  BY <1>1, FS_CardinalityType
<1>3. T \subseteq Rec /\ \A e, f \in T : e.svc = f.svc => e = f
  OBVIOUS
<1>4. q \in [1..n -> T] /\ \A i, j \in 1..n : i # j => q[i] # q[j]
  BY DEF SetToSeqs
<1> HIDE DEF T
<1>5. IsFiniteSet(1..n) /\ Cardinality(1..n) = n
  <2>1. 1 \in Int /\ n \in Int
    BY <1>2
  <2>2. IsFiniteSet(1..n) /\ Cardinality(1..n) = IF 1 > n THEN 0 ELSE n - 1 + 1
    BY ONLY <2>1, FS_Interval
  <2> HIDE DEF n
  <2> QED BY <1>2, <2>2
<1>6. q \in Surjection(1..n, T)
  <2>1. q \in Injection(1..n, T)
    BY <1>4 DEF Injection, IsInjective
  <2> QED BY ONLY <1>1, <1>5, <2>1, FS_Injection
<1> HIDE DEF n
<1>7. Range(q) = T
  BY <1>6 DEF Surjection, Range
<1>8. q \in Seq(Rec)
  BY <1>2, <1>3, <1>4, IsASeq
<1>9. One(q)
  BY <1>3, <1>4 DEF One
<1> QED BY <1>7, <1>8, <1>9 DEF T

---------------------------------------------------------------------------------
(* The invariant *)

\* The fields of a service and the events of the service agree.
Agrees(r, s, q) ==
    /\ r.linked <=> \E e \in Range(q) : e.svc = s
    /\ \A e \in Range(q) : e.svc = s => e.options = r.options

\* Only enabled services should be scheduled, and no freshness check is scheduled
\* for a regular one.
Proper(r, s, options) ==
    /\ r.should => r.enabled
    /\ s \in Regular => r.options # "FRESHNESS" /\ options # "FRESHNESS"

Found(r, s) == s \in Regular /\ r.should => r.linked \/ r.executing

Listed ==
    /\ svc \in [Services -> Svc] /\ queue \in Seq(Rec) /\ One(queue)
    /\ \A s \in Services : Agrees(svc[s], s, queue)
    /\ \A s \in Services : Proper(svc[s], s, "NONE") /\ Found(svc[s], s)

\* Every check of a regular service reschedules it when it reports.
Quiet ==
    /\ outstanding \in [Services -> [Kinds -> Int]]
    /\ \A s \in Regular : outstanding[s]["FRESHNESS"] = 0 /\ outstanding[s]["DEMAND"] = 0

IInv == Listed /\ Quiet

\* Two lists have the same events of all services but one.
Same(q, p, s) == \A e \in Rec : e.svc # s => (e \in Range(q) <=> e \in Range(p))

\* The event of s in the list p is not later than the one in q.
NotLater(p, q, s) ==
    \A e \in Range(p), f \in Range(q) : e.svc = s /\ f.svc = s => e.at <= f.at

\* A forced check stays, when r and q, the service and the list, become t and p.
Kept(r, q, t, p, s) ==
    r.linked /\ Forced(r.options) => t.linked /\ Forced(t.options) /\ NotLater(p, q, s)

\* What a step does to the checks of all services but s, and to a forced one of s.
Others(s) ==
    /\ Same(queue', queue, s)
    /\ \A x \in Services \ {s} :
          svc'[x].linked = svc[x].linked /\ svc'[x].options = svc[x].options

Keeps(s) == Kept(svc[s], queue, svc'[s], queue', s) \/ svc'[s].executing

\* A list is not later than itself.
LEMMA NotLaterItself ==
    ASSUME NEW q \in Seq(Rec), One(q), NEW s
    PROVE  NotLater(q, q, s)
<1>1. Len(q) \in Nat /\ DOMAIN q = 1..Len(q) /\ \A i \in 1..Len(q) : q[i] \in Rec
  BY LenProperties, ElementOfSeq
<1>2. ASSUME NEW e \in Range(q), NEW f \in Range(q), e.svc = s, f.svc = s
      PROVE  e.at <= f.at
  <2>1. e = f /\ e \in Rec
    BY <1>1, <1>2 DEF One, Range
  <2> QED BY <2>1 DEF Rec
<1> QED BY <1>2 DEF NotLater

\* A step that changes one service and its event, and is_executing of others.
LEMMA OneService ==
    ASSUME Listed, NEW s \in Services, NEW r \in Svc, NEW q \in Seq(Rec), One(q),
           Agrees(r, s, q), Proper(r, s, "NONE"), Found(r, s), Same(q, queue, s),
           queue' = q, svc' \in [Services -> Svc], svc'[s] = r,
           \A x \in Services \ {s} :
              /\ svc'[x].enabled = svc[x].enabled /\ svc'[x].should = svc[x].should
              /\ svc'[x].linked = svc[x].linked /\ svc'[x].options = svc[x].options
              /\ svc[x].executing => svc'[x].executing
    PROVE  Listed' /\ Others(s)
<1>1. Range(q) \subseteq Rec /\ Range(queue) \subseteq Rec
  BY ElementOfSeq DEF Range, Listed
<1>2. ASSUME NEW x \in Services PROVE Agrees(svc'[x], x, q)
  <2>1. CASE x = s
    BY <2>1
  <2>2. CASE x # s
    <3>1. \A e \in Rec : e.svc = x => (e \in Range(q) <=> e \in Range(queue))
      BY <2>2 DEF Same
    <3>2. Agrees(svc[x], x, queue)
      BY DEF Listed
    <3> QED BY <2>2, <3>1, <3>2, <1>1 DEF Agrees
  <2> QED BY <2>1, <2>2
<1>3. ASSUME NEW x \in Services PROVE Proper(svc'[x], x, "NONE") /\ Found(svc'[x], x)
  <2>1. CASE x = s
    BY <2>1
  <2>2. CASE x # s
    BY <2>2 DEF Listed, Proper, Found
  <2> QED BY <2>1, <2>2
<1> QED BY <1>2, <1>3 DEF Listed, Others

\* What schedule_service_check() makes of a service and a list that agree.
LEMMA ScheduledAgrees ==
    ASSUME NEW q \in Seq(Rec), One(q), NEW s \in Services, NEW r \in Svc, Agrees(r, s, q),
           NEW at \in Int, NEW options \in Options, Proper(r, s, options),
           NEW done, done = Scheduled(r, q, s, at, options)
    PROVE  /\ done.queue \in Seq(Rec) /\ One(done.queue) /\ Same(done.queue, q, s)
           /\ done.svc \in Svc /\ Agrees(done.svc, s, done.queue)
           /\ Proper(done.svc, s, "NONE") /\ Found(done.svc, s)
           /\ done.svc.executing = r.executing /\ Kept(r, q, done.svc, done.queue, s)
<1> DEFINE e == Event(s, at, options)
           rest == IF r.linked THEN Without(q, s) ELSE q
           p == Inserted(rest, e)
<1>0. NotLater(q, q, s)
  BY NotLaterItself
<1>1. CASE ~r.enabled /\ ~Forced(options)
  <2>1. done.svc = r /\ done.queue = q
    BY <1>1 DEF Scheduled
  <2>2. ~r.should
    BY <1>1 DEF Proper
  <2> QED BY <1>0, <2>1, <2>2 DEF Same, Proper, Found, Kept
<1>2. CASE r.enabled \/ Forced(options)
  <2>1. CASE r.linked /\ ~UsesNew(EventOf(q, s), at, options)
    <3>1. EventOf(q, s) \in Range(q)
      BY <2>1, WithoutEvents DEF Agrees
    <3>2. EventOf(q, s).at \in Int
      <4>1. Range(q) \subseteq Rec
        BY ElementOfSeq DEF Range
      <4> QED BY <3>1, <4>1 DEF Rec
    <3>3. done.svc = [r EXCEPT !.next_check = EventOf(q, s).at] /\ done.queue = q
      BY <1>2, <2>1 DEF Scheduled
    <3> HIDE DEF Agrees
    <3>4. /\ done.svc \in Svc /\ done.svc.linked = r.linked /\ done.svc.options = r.options
          /\ done.svc.should = r.should /\ done.svc.enabled = r.enabled
          /\ done.svc.executing = r.executing
      BY <3>2, <3>3 DEF Svc
    <3> QED BY <1>0, <2>1, <3>3, <3>4 DEF Same, Proper, Found, Agrees, Kept
  <2>2. CASE ~(r.linked /\ ~UsesNew(EventOf(q, s), at, options))
    <3>1. /\ done.svc = [r EXCEPT !.linked = TRUE, !.next_check = at, !.options = options]
          /\ done.queue = p
      BY <1>2, <2>2 DEF Scheduled
    <3>2. /\ rest \in Seq(Rec) /\ One(rest) /\ Same(rest, q, s)
          /\ \A f \in Range(rest) : f.svc # s
      <4>1. CASE r.linked
        BY <4>1, WithoutEvents DEF Agrees, Same
      <4>2. CASE ~r.linked
        BY <4>2 DEF Agrees, Same
      <4> QED BY <4>1, <4>2 DEF Svc
    <3>3. e \in Rec /\ e.svc = s /\ e.options = options /\ e.at = at
      BY DEF Event, Rec
    <3> HIDE DEF e, rest
    <3>4. p \in Seq(Rec) /\ Range(p) = Range(rest) \cup {e} /\ One(p)
      BY <3>2, <3>3, InsertedEvents
    <3> HIDE DEF p
    <3>5. Same(p, q, s)
      BY <3>2, <3>3, <3>4 DEF Same
    <3>6. /\ done.svc \in Svc /\ done.svc.linked /\ done.svc.options = options
          /\ done.svc.should = r.should /\ done.svc.enabled = r.enabled
          /\ done.svc.executing = r.executing
      BY <3>1 DEF Svc
    <3>7. Agrees(done.svc, s, p)
      BY <3>2, <3>3, <3>4, <3>6 DEF Agrees
    <3>8. ASSUME r.linked, Forced(r.options)
          PROVE  Forced(options) /\ NotLater(p, q, s)
      <4>1. EventOf(q, s) \in Range(q) /\ EventOf(q, s).svc = s
        BY <3>8, WithoutEvents DEF Agrees
      <4>2. Forced(options) /\ at < EventOf(q, s).at
        BY <2>2, <3>8, <4>1 DEF Agrees, UsesNew
      <4>3. \A f \in Range(p) : f.svc = s => f.at = at
        BY <3>2, <3>3, <3>4
      <4>4. \A g \in Range(q) : g.svc = s => EventOf(q, s).at <= g.at
        BY <1>0, <4>1 DEF NotLater
      <4>5. \A g \in Range(q) : g.at \in Int
        <5>1. Range(q) \subseteq Rec
          BY ElementOfSeq DEF Range
        <5> QED BY <5>1 DEF Rec
      <4> QED BY <4>1, <4>2, <4>3, <4>4, <4>5 DEF NotLater
    <3> QED BY <3>1, <3>4, <3>5, <3>6, <3>7, <3>8 DEF Proper, Found, Kept
  <2> QED BY <2>1, <2>2
<1> QED BY <1>1, <1>2

\* schedule_service_check() for a service s, whose fields and events are r and q.
LEMMA ScheduleListed ==
    ASSUME Listed, NEW s \in Services, NEW r \in Svc, NEW q \in Seq(Rec), One(q),
           Agrees(r, s, q), Same(q, queue, s),
           NEW at \in Int, NEW options \in Options, Proper(r, s, options),
           Schedule(r, q, s, at, options)
    PROVE  /\ Listed' /\ Others(s)
           /\ svc'[s].executing = r.executing /\ Kept(r, q, svc'[s], queue', s)
<1> DEFINE done == Scheduled(r, q, s, at, options)
<1>1. svc' = [svc EXCEPT ![s] = done.svc] /\ queue' = done.queue
  BY DEF Schedule
<1>2. /\ done.queue \in Seq(Rec) /\ One(done.queue) /\ Same(done.queue, q, s)
      /\ done.svc \in Svc /\ Agrees(done.svc, s, done.queue)
      /\ Proper(done.svc, s, "NONE") /\ Found(done.svc, s)
      /\ done.svc.executing = r.executing /\ Kept(r, q, done.svc, done.queue, s)
  BY ScheduledAgrees
<1> HIDE DEF done
<1>3. Same(done.queue, queue, s)
  BY <1>2 DEF Same
<1>4. /\ svc' \in [Services -> Svc] /\ svc'[s] = done.svc
      /\ \A x \in Services \ {s} : svc'[x] = svc[x]
  BY <1>1, <1>2 DEF Listed
<1> QED BY <1>1, <1>2, <1>3, <1>4, OneService

\* The first event is taken from the list.
LEMMA TakenEvent ==
    ASSUME Listed, NEW s \in Services, Due(s)
    PROVE  /\ Tail(queue) \in Seq(Rec) /\ One(Tail(queue)) /\ Same(Tail(queue), queue, s)
           /\ \A e \in Range(Tail(queue)) : e.svc # s
           /\ Head(queue) \in Rec /\ Head(queue).svc = s
           /\ Head(queue).options = svc[s].options
           /\ svc[s] \in Svc /\ svc[s].linked /\ Proper(svc[s], s, svc[s].options)
<1>1. queue \in Seq(Rec) /\ One(queue) /\ queue # <<>> /\ Head(queue).svc = s
  BY DEF Listed, Due
<1>2. /\ Head(queue) \in Rec /\ Head(queue) \in Range(queue)
      /\ Tail(queue) \in Seq(Rec) /\ One(Tail(queue))
      /\ Range(Tail(queue)) = {e \in Range(queue) : e.svc # Head(queue).svc}
  BY <1>1, TailEvents
<1>3. svc[s] \in Svc /\ Agrees(svc[s], s, queue) /\ Proper(svc[s], s, "NONE")
  BY DEF Listed
<1>4. Same(Tail(queue), queue, s)
  BY <1>1, <1>2 DEF Same
<1> QED BY <1>1, <1>2, <1>3, <1>4 DEF Agrees, Proper

\* The event loop puts the event back.
LEMMA PostponeListed ==
    ASSUME Listed, NEW s \in Services, Due(s), NEW by \in Int, Postpone(s, by)
    PROVE  Listed' /\ Others(s)
<1> DEFINE later == svc[s].next_check + by
           e == [Head(queue) EXCEPT !.at = later]
           r == [svc[s] EXCEPT !.next_check = later]
<1>1. /\ Tail(queue) \in Seq(Rec) /\ One(Tail(queue)) /\ Same(Tail(queue), queue, s)
      /\ \A f \in Range(Tail(queue)) : f.svc # s
      /\ Head(queue) \in Rec /\ Head(queue).svc = s
      /\ Head(queue).options = svc[s].options
      /\ svc[s] \in Svc /\ svc[s].linked
  BY TakenEvent
<1>2. later \in Int
  BY <1>1 DEF Svc
<1>3. queue' = Inserted(Tail(queue), e) /\ svc' = [svc EXCEPT ![s] = r]
  BY DEF Postpone, Listed
<1> HIDE DEF later
<1>4. e \in Rec /\ e.svc = s /\ e.options = svc[s].options
  BY <1>1, <1>2 DEF Rec
<1>5. /\ r \in Svc /\ r.linked /\ r.options = svc[s].options /\ r.enabled = svc[s].enabled
      /\ r.should = svc[s].should
  BY <1>1, <1>2 DEF Svc
<1> HIDE DEF e, r
<1>6. /\ queue' \in Seq(Rec) /\ One(queue')
      /\ Range(queue') = Range(Tail(queue)) \cup {e}
  BY <1>1, <1>3, <1>4, InsertedEvents
<1>7. Same(queue', queue, s) /\ Agrees(r, s, queue')
  BY <1>1, <1>4, <1>5, <1>6 DEF Same, Agrees
<1>8. Proper(r, s, "NONE") /\ Found(r, s)
  BY <1>5 DEF Listed, Proper, Found
<1>9. /\ svc' \in [Services -> Svc] /\ svc'[s] = r
      /\ \A x \in Services \ {s} : svc'[x] = svc[x]
  BY <1>3, <1>5 DEF Listed
<1> QED BY <1>5, <1>6, <1>7, <1>8, <1>9, OneService

\* A check that was due is not started.
LEMMA RetryListed ==
    ASSUME Listed, NEW s \in Services, Due(s), NEW r \in Svc, ~r.linked,
           r.enabled = svc[s].enabled, r.should = svc[s].should,
           r.options \in {svc[s].options, "NONE"},
           Retry(r, Tail(queue), s, Head(queue).options)
    PROVE  Listed' /\ Others(s) /\ svc'[s].executing = r.executing
<1>1. /\ Tail(queue) \in Seq(Rec) /\ One(Tail(queue)) /\ Same(Tail(queue), queue, s)
      /\ \A e \in Range(Tail(queue)) : e.svc # s
      /\ Head(queue).options \in Options /\ Head(queue).options = svc[s].options
      /\ Proper(svc[s], s, svc[s].options)
  BY TakenEvent DEF Rec
<1>2. Agrees(r, s, Tail(queue))
  BY <1>1 DEF Agrees
<1>3. Proper(r, s, Head(queue).options) /\ Proper(r, s, "NONE")
  BY <1>1 DEF Proper
<1>4. CASE r.should
  <2> DEFINE again == [r EXCEPT !.next_check = Interval]
  <2>1. Schedule(again, Tail(queue), s, Interval, Head(queue).options)
    BY <1>4 DEF Retry
  <2>2. Interval \in Int
    BY TimeAssumption
  <2>3. /\ again \in Svc /\ again.linked = r.linked /\ again.options = r.options
        /\ again.enabled = r.enabled /\ again.should = r.should
        /\ again.executing = r.executing
    BY <2>2 DEF Svc
  <2> HIDE DEF again
  <2>4. Agrees(again, s, Tail(queue)) /\ Proper(again, s, Head(queue).options)
    BY <1>2, <1>3, <2>3 DEF Agrees, Proper
  <2> QED BY <1>1, <2>1, <2>2, <2>3, <2>4, ScheduleListed
<1>5. CASE ~r.should
  <2>1. svc' = [svc EXCEPT ![s] = r] /\ queue' = Tail(queue)
    BY <1>5 DEF Retry
  <2>2. /\ svc' \in [Services -> Svc] /\ svc'[s] = r
        /\ \A x \in Services \ {s} : svc'[x] = svc[x]
    BY <2>1 DEF Listed
  <2>3. Found(r, s)
    BY <1>5 DEF Found
  <2> QED BY <1>1, <1>2, <1>3, <2>1, <2>2, <2>3, OneService
<1> QED BY <1>4, <1>5 DEF Svc

---------------------------------------------------------------------------------
(* The steps *)

\* What the event loop does with the event of s.
LEMMA LoopInv ==
    ASSUME IInv, NEW s \in Services,
           Nudge(s) \/ Defer(s) \/ Refuse(s) \/ Start(s) \/ ForkFails(s)
    PROVE  IInv' /\ Others(s) /\ Keeps(s)
<1>0. Listed /\ Quiet
  BY DEF IInv
<1>1. CASE Nudge(s)
  <2>1. Due(s) /\ Postpone(s, 1) /\ UNCHANGED outstanding /\ ~Overridden(s)
    BY <1>1 DEF Nudge, Postpone
  <2> QED BY <1>0, <2>1, PostponeListed DEF IInv, Quiet, Keeps, Kept, Overridden
<1>2. CASE Defer(s)
  <2>1. Due(s) /\ Postpone(s, Interval) /\ UNCHANGED outstanding /\ ~Overridden(s)
    BY <1>2 DEF Defer, Runs, Postpone
  <2>2. Interval \in Int
    BY TimeAssumption
  <2> QED BY <1>0, <2>1, <2>2, PostponeListed DEF IInv, Quiet, Keeps, Kept, Overridden
<1>3. CASE Refuse(s)
  <2> DEFINE r == [svc[s] EXCEPT !.linked = FALSE]
  <2>1. /\ Due(s) /\ Retry(r, Tail(queue), s, Head(queue).options)
        /\ UNCHANGED outstanding /\ ~Forced(Head(queue).options)
    BY <1>3 DEF Refuse, Runs
  <2>2. /\ r \in Svc /\ ~r.linked /\ r.options = svc[s].options
        /\ r.enabled = svc[s].enabled /\ r.should = svc[s].should
    BY <1>0 DEF Listed, Svc
  <2> HIDE DEF r
  <2>3. Listed' /\ Others(s)
    BY <1>0, <2>1, <2>2, RetryListed
  <2>4. ~Forced(svc[s].options)
    BY <1>0, <2>1, TakenEvent
  <2> QED BY <1>0, <2>1, <2>3, <2>4 DEF IInv, Quiet, Keeps, Kept
<1>4. Executing(svc[s]) \in Svc
  BY <1>0 DEF Executing, Listed, Svc, Options
<1>5. /\ ~Executing(svc[s]).linked /\ Executing(svc[s]).executing
      /\ Executing(svc[s]).options = "NONE"
      /\ Executing(svc[s]).enabled = svc[s].enabled
      /\ Executing(svc[s]).should = svc[s].should
  BY <1>0 DEF Executing, Listed, Svc
<1>6. CASE ForkFails(s)
  <2>1. /\ Due(s) /\ Retry(Executing(svc[s]), Tail(queue), s, Head(queue).options)
        /\ UNCHANGED outstanding
    BY <1>6 DEF ForkFails, Viable, Runs
  <2>2. Listed' /\ Others(s) /\ svc'[s].executing
    BY <1>0, <1>4, <1>5, <2>1, RetryListed
  <2> QED BY <1>0, <2>1, <2>2 DEF IInv, Quiet, Keeps
<1>7. CASE Start(s)
  <2> DEFINE r == Executing(svc[s])
             kind == KindOf(Head(queue).options)
  <2>1. /\ Due(s) /\ svc' = [svc EXCEPT ![s] = r] /\ queue' = Tail(queue)
        /\ outstanding' = [outstanding EXCEPT ![s][kind] = @ + 1]
    BY <1>7 DEF Start, Viable, Runs
  <2>2. /\ Tail(queue) \in Seq(Rec) /\ One(Tail(queue)) /\ Same(Tail(queue), queue, s)
        /\ \A e \in Range(Tail(queue)) : e.svc # s
        /\ Proper(svc[s], s, svc[s].options) /\ Head(queue).options = svc[s].options
    BY <1>0, <2>1, TakenEvent
  <2> HIDE DEF r
  <2>3. /\ r \in Svc /\ ~r.linked /\ r.executing /\ r.options = "NONE"
        /\ r.enabled = svc[s].enabled /\ r.should = svc[s].should
    BY <1>4, <1>5 DEF r
  <2>4. Agrees(r, s, Tail(queue)) /\ Proper(r, s, "NONE") /\ Found(r, s)
    BY <2>2, <2>3 DEF Agrees, Proper, Found
  <2>5. /\ svc' \in [Services -> Svc] /\ svc'[s] = r
        /\ \A x \in Services \ {s} : svc'[x] = svc[x]
    BY <1>0, <2>1, <2>3 DEF Listed
  <2>6. Listed' /\ Others(s)
    BY <1>0, <2>1, <2>2, <2>3, <2>4, <2>5, OneService
  <2>7. kind \in Kinds /\ (s \in Regular => kind = "SCHEDULED")
    BY <2>2 DEF KindOf, Kinds, Proper
  <2> HIDE DEF kind
  <2>8. Quiet'
    <3>1. /\ outstanding' \in [Services -> [Kinds -> Int]]
          /\ \A x \in Services : x # s => outstanding'[x] = outstanding[x]
          /\ \A k \in Kinds : k # kind => outstanding'[s][k] = outstanding[s][k]
      BY <1>0, <2>1, <2>7 DEF Quiet
    <3>2. Regular \subseteq Services /\ "FRESHNESS" \in Kinds /\ "DEMAND" \in Kinds
      BY DEF Regular, Kinds
    <3> QED BY <1>0, <2>7, <3>1, <3>2 DEF Quiet
  <2> QED BY <2>3, <2>5, <2>6, <2>8 DEF IInv, Keeps
<1> QED BY <1>1, <1>2, <1>3, <1>6, <1>7

\* The steps that schedule a check, or nothing, for one service.
LEMMA ScanInv ==
    ASSUME IInv, NEW s \in Services,
           Orphan(s) \/ Freshen(s) \/ Command(s) \/ Enable(s) \/ Disable(s)
    PROVE  IInv' /\ Others(s) /\ Keeps(s)
<1>0. Listed /\ Quiet
  BY DEF IInv
<1>1. /\ svc[s] \in Svc /\ queue \in Seq(Rec) /\ One(queue) /\ Agrees(svc[s], s, queue)
      /\ Proper(svc[s], s, "NONE") /\ Same(queue, queue, s)
      /\ "NONE" \in Options /\ "FORCE" \in Options /\ "FRESHNESS" \in Options
      /\ 0 \in Int
  BY <1>0 DEF Listed, Same, Options
<1>2. UNCHANGED outstanding
  BY DEF Orphan, Freshen, Command, Enable, Disable
<1>3. CASE Orphan(s)
  <2> DEFINE r == [svc[s] EXCEPT !.executing = FALSE]
  <2>1. Schedule(r, queue, s, 0, "NONE")
    BY <1>3 DEF Orphan
  <2>2. /\ r \in Svc /\ r.linked = svc[s].linked /\ r.options = svc[s].options
        /\ r.enabled = svc[s].enabled /\ r.should = svc[s].should
    BY <1>1 DEF Svc
  <2> HIDE DEF r
  <2>3. Agrees(r, s, queue) /\ Proper(r, s, "NONE")
    BY <1>1, <2>2 DEF Agrees, Proper
  <2> QED BY <1>0, <1>1, <1>2, <2>1, <2>2, <2>3, ScheduleListed DEF IInv, Quiet, Keeps, Kept
<1>4. CASE Freshen(s)
  <2> DEFINE r == [svc[s] EXCEPT !.freshening = TRUE]
  <2>1. Schedule(r, queue, s, 0, "FRESHNESS") /\ s \notin Regular
    BY <1>4 DEF Freshen, Regular
  <2>2. /\ r \in Svc /\ r.linked = svc[s].linked /\ r.options = svc[s].options
        /\ r.enabled = svc[s].enabled /\ r.should = svc[s].should
    BY <1>1 DEF Svc
  <2> HIDE DEF r
  <2>3. Agrees(r, s, queue) /\ Proper(r, s, "FRESHNESS")
    BY <1>1, <2>1, <2>2 DEF Agrees, Proper
  <2> QED BY <1>0, <1>1, <1>2, <2>1, <2>2, <2>3, ScheduleListed DEF IInv, Quiet, Keeps, Kept
<1>5. CASE Command(s)
  <2>1. PICK at \in CommandTimes, options \in {"NONE", "FORCE"} :
           Schedule(svc[s], queue, s, at, options)
    BY <1>5 DEF Command
  <2>2. at \in Int /\ options \in Options
    BY <1>1, TimeAssumption
  <2>3. Proper(svc[s], s, options)
    BY <1>1, <2>1 DEF Proper
  <2> QED BY <1>0, <1>1, <1>2, <2>1, <2>2, <2>3, ScheduleListed DEF IInv, Quiet, Keeps, Kept
<1>6. CASE Enable(s)
  <2> DEFINE r == [svc[s] EXCEPT !.enabled = TRUE, !.should = TRUE, !.next_check = 0]
  <2>1. Schedule(r, queue, s, 0, "NONE")
    BY <1>6 DEF Enable
  <2>2. /\ r \in Svc /\ r.linked = svc[s].linked /\ r.options = svc[s].options
        /\ r.enabled
    BY <1>1 DEF Svc
  <2> HIDE DEF r
  <2>3. Agrees(r, s, queue) /\ Proper(r, s, "NONE")
    BY <1>1, <2>2 DEF Agrees, Proper
  <2> QED BY <1>0, <1>1, <1>2, <2>1, <2>2, <2>3, ScheduleListed DEF IInv, Quiet, Keeps, Kept
<1>7. CASE Disable(s)
  <2> DEFINE r == [svc[s] EXCEPT !.enabled = FALSE, !.should = FALSE]
  <2>1. svc' = [svc EXCEPT ![s] = r] /\ queue' = queue
    BY <1>0, <1>7 DEF Disable, Listed
  <2>2. /\ r \in Svc /\ r.linked = svc[s].linked /\ r.options = svc[s].options
        /\ ~r.enabled /\ ~r.should
    BY <1>1 DEF Svc
  <2> HIDE DEF r
  <2>3. Agrees(r, s, queue) /\ Proper(r, s, "NONE") /\ Found(r, s)
    BY <1>1, <2>2 DEF Agrees, Proper, Found
  <2>4. /\ svc' \in [Services -> Svc] /\ svc'[s] = r
        /\ \A x \in Services \ {s} : svc'[x] = svc[x]
    BY <1>0, <2>1, <2>2 DEF Listed
  <2>5. Listed' /\ Others(s)
    BY <1>0, <1>1, <2>1, <2>2, <2>3, <2>4, OneService
  <2>6. Keeps(s)
    BY <1>1, <2>1, <2>2, <2>4, NotLaterItself DEF Keeps, Kept
  <2> QED BY <1>0, <1>2, <2>5, <2>6 DEF IInv, Quiet
<1> QED BY <1>3, <1>4, <1>5, <1>6, <1>7

\* A result that is accepted: a regular service is scheduled again, or it was
\* passive and changes nothing that scheduling needs.
LEMMA AcceptListed ==
    ASSUME Listed, NEW s \in Services, NEW kind \in Kinds \cup {"PASSIVE"},
           s \in Regular => kind \in {"SCHEDULED", "PASSIVE"},
           NEW changed \in BOOLEAN, NEW next \in 1..Interval, NEW demanded,
           Accept(s, kind, changed, next, demanded)
    PROVE  Listed' /\ Others(s) /\ Keeps(s)
<1> DEFINE r == [Received(s, kind) EXCEPT !.stale = FALSE]
           again == [r EXCEPT !.should = r.enabled, !.next_check = next]
           done == Accepted(s, kind, changed, next)
<1>1. /\ svc[s] \in Svc /\ queue \in Seq(Rec) /\ One(queue) /\ Agrees(svc[s], s, queue)
      /\ Proper(svc[s], s, "NONE") /\ Found(svc[s], s) /\ Same(queue, queue, s)
      /\ "NONE" \in Options /\ next \in Int /\ NotLater(queue, queue, s)
  BY TimeAssumption, NotLaterItself DEF Listed, Same, Options
<1>2. /\ r \in Svc /\ r.linked = svc[s].linked /\ r.options = svc[s].options
      /\ r.enabled = svc[s].enabled /\ r.should = svc[s].should
      /\ kind = "PASSIVE" => r.executing = svc[s].executing
  BY <1>1 DEF Received, Svc
<1>3. done = IF ~Reschedules(kind, changed) THEN [svc |-> r, queue |-> queue]
             ELSE IF again.should THEN Scheduled(again, queue, s, next, "NONE")
             ELSE [svc |-> again, queue |-> queue]
  BY DEF Accepted
<1>4. svc' = [x \in Services |-> IF x = s THEN done.svc
                                 ELSE [svc[x] EXCEPT !.executing = @ \/ x \in demanded]]
      /\ queue' = done.queue
  BY DEF Accept
<1> HIDE DEF r
<1>5. /\ again \in Svc /\ again.linked = svc[s].linked /\ again.options = svc[s].options
      /\ again.enabled = svc[s].enabled /\ again.should = svc[s].enabled
  BY <1>1, <1>2 DEF Svc
<1> HIDE DEF again, done
<1>6. /\ done.queue \in Seq(Rec) /\ One(done.queue) /\ Same(done.queue, queue, s)
      /\ done.svc \in Svc /\ Agrees(done.svc, s, done.queue)
      /\ Proper(done.svc, s, "NONE") /\ Found(done.svc, s)
      /\ Kept(svc[s], queue, done.svc, done.queue, s)
  <2>1. CASE ~Reschedules(kind, changed)
    <3>1. done.svc = r /\ done.queue = queue
      BY <1>3, <2>1
    <3>2. s \in Regular => kind = "PASSIVE"
      BY <2>1 DEF Reschedules
    <3> QED BY <1>1, <1>2, <3>1, <3>2 DEF Agrees, Proper, Found, Kept
  <2>2. CASE Reschedules(kind, changed) /\ again.should
    <3>1. done = Scheduled(again, queue, s, next, "NONE")
      BY <1>3, <2>2
    <3>2. Agrees(again, s, queue) /\ Proper(again, s, "NONE")
      BY <1>1, <1>5 DEF Agrees, Proper
    <3> QED BY <1>1, <1>5, <3>1, <3>2, ScheduledAgrees DEF Kept
  <2>3. CASE Reschedules(kind, changed) /\ ~again.should
    <3>1. done.svc = again /\ done.queue = queue
      BY <1>3, <2>3
    <3> QED BY <1>1, <1>5, <2>3, <3>1 DEF Agrees, Proper, Found, Kept
  <2> QED BY <2>1, <2>2, <2>3
<1>7. ASSUME NEW x \in Services \ {s}
      PROVE  /\ svc'[x] \in Svc
             /\ svc'[x].enabled = svc[x].enabled /\ svc'[x].should = svc[x].should
             /\ svc'[x].linked = svc[x].linked /\ svc'[x].options = svc[x].options
             /\ svc[x].executing => svc'[x].executing
  <2>1. svc'[x] = [svc[x] EXCEPT !.executing = @ \/ x \in demanded] /\ svc[x] \in Svc
    BY <1>4 DEF Listed
  <2> QED BY <2>1 DEF Svc
<1>8. svc'[s] = done.svc /\ svc' \in [Services -> Svc]
  <2>1. svc'[s] = done.svc
    BY <1>4
  <2>2. \A x \in Services : svc'[x] \in Svc
    BY <1>6, <1>7, <2>1
  <2>3. svc' = [x \in Services |-> svc'[x]]
    BY <1>4
  <2> QED BY <2>1, <2>2, <2>3
<1>9. queue' = done.queue
  BY <1>4
<1> QED BY <1>6, <1>7, <1>8, <1>9, OneService DEF Keeps

\* The result of a check, or a passive one.
LEMMA ResultInv ==
    ASSUME IInv, NEW s \in Services, Reap(s) \/ Passive(s)
    PROVE  IInv' /\ Others(s) /\ Keeps(s)
<1>0. Listed /\ Quiet
  BY DEF IInv
<1>1. PICK kind \in Kinds \cup {"PASSIVE"}, demanded \in Demands(s) :
         /\ kind = "PASSIVE" \/ outstanding[s][kind] > 0
         /\ Handle(s, kind, demanded)
         /\ outstanding' = Reported(s, kind, demanded)
  BY DEF Reap, Passive
<1>2. s \in Regular => kind \in {"SCHEDULED", "PASSIVE"}
  BY <1>0, <1>1 DEF Quiet, Kinds
<1>3. Listed' /\ Others(s) /\ Keeps(s)
  <2>1. CASE Discard(s, kind)
    <3> DEFINE r == Received(s, kind)
    <3>1. svc' = [svc EXCEPT ![s] = r] /\ queue' = queue /\ s \notin Regular
      BY <2>1, <1>2 DEF Discard, Discarded
    <3>2. svc[s] \in Svc /\ queue \in Seq(Rec) /\ One(queue) /\ Agrees(svc[s], s, queue)
          /\ Proper(svc[s], s, "NONE") /\ Same(queue, queue, s)
      BY <1>0 DEF Listed, Same
    <3>3. /\ r \in Svc /\ r.linked = svc[s].linked /\ r.options = svc[s].options
          /\ r.enabled = svc[s].enabled /\ r.should = svc[s].should
      BY <3>2 DEF Received, Svc
    <3> HIDE DEF r
    <3>4. Agrees(r, s, queue) /\ Proper(r, s, "NONE") /\ Found(r, s)
      BY <3>1, <3>2, <3>3 DEF Agrees, Proper, Found
    <3>5. /\ svc' \in [Services -> Svc] /\ svc'[s] = r
          /\ \A x \in Services \ {s} : svc'[x] = svc[x]
      BY <1>0, <3>1, <3>3 DEF Listed
    <3>6. Keeps(s)
      BY <3>1, <3>2, <3>3, <3>5, NotLaterItself DEF Keeps, Kept
    <3> QED BY <1>0, <3>1, <3>2, <3>3, <3>4, <3>5, <3>6, OneService
  <2>2. ASSUME NEW changed \in BOOLEAN, NEW next \in 1..Interval,
               Accept(s, kind, changed, next, demanded)
        PROVE  Listed' /\ Others(s) /\ Keeps(s)
    BY <1>0, <1>2, <2>2, AcceptListed
  <2> QED BY <1>1, <2>1, <2>2 DEF Handle
<1>4. Quiet'
  <2>1. demanded \subseteq OnDemand
    BY DEF Demands
  <2>2. outstanding \in [Services -> [Kinds -> Int]]
    BY <1>0 DEF Quiet
  <2>3. \A x \in Services, k \in Kinds : outstanding[x][k] \in Int
    BY <2>2
  <2>4. outstanding' \in [Services -> [Kinds -> Int]]
    BY <1>1, <2>3 DEF Reported
  <2>5. ASSUME NEW x \in Regular, NEW k \in {"FRESHNESS", "DEMAND"}
        PROVE  outstanding'[x][k] = outstanding[x][k]
    <3>1. x \in Services /\ k \in Kinds /\ x \notin demanded
      BY <2>1 DEF Regular, Kinds
    <3>2. ~(x = s /\ k = kind)
      BY <1>2
    <3> QED BY <1>1, <3>1, <3>2 DEF Reported
  <2> QED BY <1>0, <2>4, <2>5 DEF Quiet
<1> QED BY <1>3, <1>4 DEF IInv

\* A start: the list is made from the services.
LEMMA MadeList ==
    ASSUME NEW S \in SUBSET Services, NEW at \in [S -> Int], NEW options \in [S -> Options],
           NEW q \in SetToSeqs({Event(s, at[s], options[s]) : s \in S})
    PROVE  /\ q \in Seq(Rec) /\ One(q)
           /\ \A e \in Range(q) :
                 e.svc \in S /\ e.options = options[e.svc] /\ e.at = at[e.svc]
           /\ \A s \in S : \E e \in Range(q) : e.svc = s
<1> DEFINE E == [s \in S |-> Event(s, at[s], options[s])]
<1>1. \A s \in S : Event(s, at[s], options[s]) \in Rec
  BY DEF Event, Rec
<1>2. /\ E \in [S -> Rec]
      /\ \A s \in S : E[s].svc = s /\ E[s].options = options[s] /\ E[s].at = at[s]
  BY <1>1 DEF Event
<1>3. {Event(s, at[s], options[s]) : s \in S} = {E[s] : s \in S}
  OBVIOUS
<1> HIDE DEF E
<1>4. q \in Seq(Rec) /\ Range(q) = {E[s] : s \in S} /\ One(q)
  BY <1>2, <1>3, ListOfEvents
<1> QED BY <1>2, <1>4

LEMMA InitInv == Init => IInv
<1> SUFFICES ASSUME Init PROVE IInv
  OBVIOUS
<1> DEFINE at == [s \in Services |-> 0]
           options == [s \in Services |-> "NONE"]
<1>1. Fresh \in Svc /\ Fresh.linked /\ Fresh.enabled /\ Fresh.options = "NONE"
  BY DEF Fresh, Svc, Options
<1>2. svc \in [Services -> Svc] /\ \A s \in Services : svc[s] = Fresh
  BY <1>1 DEF Init
<1>3. queue \in SetToSeqs({Event(s, at[s], options[s]) : s \in Services})
  <2>1. {Event(s, at[s], options[s]) : s \in Services} = {Event(s, 0, "NONE") : s \in Services}
    OBVIOUS
  <2> QED BY <2>1 DEF Init
<1>4. at \in [Services -> Int] /\ options \in [Services -> Options]
  BY DEF Options
<1>5. \A s \in Services : options[s] = "NONE"
  OBVIOUS
<1> HIDE DEF at, options
<1>6. /\ queue \in Seq(Rec) /\ One(queue)
      /\ \A e \in Range(queue) : e.svc \in Services /\ e.options = options[e.svc]
      /\ \A s \in Services : \E e \in Range(queue) : e.svc = s
  <2>1. Services \in SUBSET Services
    OBVIOUS
  <2> QED BY ONLY <2>1, <1>3, <1>4, MadeList
<1>7. Listed
  BY <1>1, <1>2, <1>5, <1>6 DEF Listed, Agrees, Proper, Found
<1>8. Quiet
  BY DEF Init, Quiet, Regular, Kinds
<1> QED BY <1>7, <1>8 DEF IInv

LEMMA RestartInv == IInv /\ Restart => IInv'
<1> SUFFICES ASSUME IInv, Restart PROVE IInv'
  OBVIOUS
<1>0. Listed /\ Quiet
  BY DEF IInv
<1> DEFINE S == {x \in Services : AtStart(x)}
           Next0(spread, s) == IF s \in DOMAIN spread THEN spread[s] ELSE svc[s].next_check
<1>1. PICK spread \in [{s \in Services : svc[s].enabled /\ svc[s].next_check <= 0} -> 0..Interval],
           stale \in SUBSET {s \in Services : svc[s].stale} :
         /\ svc' = [s \in Services |->
                      [svc[s] EXCEPT !.should = svc[s].enabled, !.linked = AtStart(s),
                                     !.executing = FALSE, !.freshening = FALSE,
                                     !.stale = s \in stale, !.next_check = Next0(spread, s)]]
         /\ queue' \in SetToSeqs({Event(s, Next0(spread, s), svc[s].options) : s \in S})
         /\ UNCHANGED outstanding
  BY DEF Restart
<1> DEFINE at == [s \in S |-> Next0(spread, s)]
           options == [s \in S |-> svc[s].options]
<1>2. \A s \in Services : Next0(spread, s) \in Int /\ AtStart(s) \in BOOLEAN /\ svc[s] \in Svc
  BY <1>0, TimeAssumption DEF Listed, Svc, AtStart
<1>3. at \in [S -> Int] /\ options \in [S -> Options]
  BY <1>2 DEF Svc
<1>4. queue' \in SetToSeqs({Event(s, at[s], options[s]) : s \in S})
  <2>1. {Event(s, at[s], options[s]) : s \in S}
          = {Event(s, Next0(spread, s), svc[s].options) : s \in S}
    OBVIOUS
  <2> QED BY <1>1, <2>1
<1>5. ASSUME NEW s \in Services
      PROVE  /\ svc'[s] \in Svc /\ svc'[s].should = svc[s].enabled
             /\ svc'[s].enabled = svc[s].enabled
             /\ svc'[s].linked = AtStart(s) /\ svc'[s].options = svc[s].options
  <2> DEFINE n == Next0(spread, s)
             l == AtStart(s)
             m == s \in stale
  <2>1. svc'[s] = [svc[s] EXCEPT !.should = svc[s].enabled, !.linked = l,
                                 !.executing = FALSE, !.freshening = FALSE,
                                 !.stale = m, !.next_check = n]
    BY <1>1
  <2>2. n \in Int /\ l \in BOOLEAN /\ m \in BOOLEAN /\ svc[s] \in Svc
    BY <1>2
  <2> HIDE DEF n, l, m
  <2>3. /\ svc'[s] \in Svc /\ svc'[s].should = svc[s].enabled
        /\ svc'[s].enabled = svc[s].enabled
        /\ svc'[s].linked = l /\ svc'[s].options = svc[s].options
    BY <2>1, <2>2 DEF Svc
  <2> QED BY <2>3 DEF l
<1>6. \A s \in S : s \in Services /\ AtStart(s) /\ options[s] = svc[s].options
  OBVIOUS
<1>7. \A s \in Services : AtStart(s) => s \in S
  OBVIOUS
<1>8. S \in SUBSET Services
  OBVIOUS
<1> HIDE DEF S, at, options, Next0
<1>9. /\ queue' \in Seq(Rec) /\ One(queue')
      /\ \A e \in Range(queue') :
            e.svc \in S /\ e.options = options[e.svc] /\ e.at = at[e.svc]
      /\ \A s \in S : \E e \in Range(queue') : e.svc = s
  BY ONLY <1>3, <1>4, <1>8, MadeList
<1>10. \A s \in Services : Agrees(svc'[s], s, queue')
  BY <1>5, <1>6, <1>7, <1>9 DEF Agrees
<1>11. ASSUME NEW s \in Services PROVE Proper(svc'[s], s, "NONE") /\ Found(svc'[s], s)
  <2>1. Proper(svc[s], s, "NONE")
    BY <1>0 DEF Listed
  <2> QED BY <2>1, <1>5 DEF Proper, Found, AtStart
<1>12. svc' \in [Services -> Svc]
  <2> HIDE DEF Svc
  <2> QED BY <1>1, <1>5
<1> QED BY <1>0, <1>1, <1>9, <1>10, <1>11, <1>12 DEF IInv, Listed, Quiet

\* The clock moves every event and every next_check, and nothing else of them.
LEMMA TickInv == IInv /\ Tick => IInv'
<1> SUFFICES ASSUME IInv, Tick PROVE IInv'
  OBVIOUS
<1>0. Listed /\ Quiet
  BY DEF IInv
<1>1. PICK old \in SUBSET {s \in Freshness : ~svc[s].stale} :
         svc' = [s \in Services |-> [svc[s] EXCEPT !.next_check = Earlier(@),
                                                   !.stale = @ \/ s \in old]]
  BY DEF Tick
<1>2. ASSUME NEW s \in Services
      PROVE  /\ svc'[s] \in Svc
             /\ svc'[s].enabled = svc[s].enabled /\ svc'[s].should = svc[s].should
             /\ svc'[s].linked = svc[s].linked /\ svc'[s].options = svc[s].options
             /\ svc'[s].executing = svc[s].executing
  <2> DEFINE n == Earlier(svc[s].next_check)
             m == svc[s].stale \/ s \in old
  <2>1. svc'[s] = [svc[s] EXCEPT !.next_check = n, !.stale = m] /\ svc[s] \in Svc
    BY <1>0, <1>1 DEF Listed
  <2>2. n \in Int /\ m \in BOOLEAN
    BY <2>1, TimeAssumption DEF Earlier, Svc
  <2> HIDE DEF n, m
  <2> QED BY <2>1, <2>2 DEF Svc
<1>3. Len(queue) \in Nat /\ DOMAIN queue = 1..Len(queue) /\ \A i \in 1..Len(queue) : queue[i] \in Rec
  BY <1>0, LenProperties, ElementOfSeq DEF Listed
<1>4. queue' = [i \in 1..Len(queue) |-> [queue[i] EXCEPT !.at = @ - 1]]
  BY <1>3 DEF Tick
<1>5. \A i \in 1..Len(queue) : /\ queue'[i] \in Rec /\ queue'[i].svc = queue[i].svc
                               /\ queue'[i].options = queue[i].options
  BY <1>3, <1>4 DEF Rec
<1>6. queue' \in Seq(Rec) /\ DOMAIN queue' = 1..Len(queue)
  <2>1. queue' \in [1..Len(queue) -> Rec]
    BY <1>4, <1>5
  <2> QED BY <1>3, <2>1, IsASeq
<1>7. One(queue')
  BY <1>0, <1>3, <1>5, <1>6 DEF One, Listed
<1>8. ASSUME NEW s \in Services PROVE Agrees(svc'[s], s, queue')
  <2>1. Agrees(svc[s], s, queue)
    BY <1>0 DEF Listed
  <2>2. \A e \in Range(queue') : e.svc = s => e.options = svc[s].options
    BY <2>1, <1>3, <1>5, <1>6 DEF Agrees, Range
  <2>3. (\E e \in Range(queue') : e.svc = s) <=> (\E e \in Range(queue) : e.svc = s)
    BY <1>3, <1>5, <1>6 DEF Range
  <2> QED BY <2>1, <2>2, <2>3, <1>2 DEF Agrees
<1>9. ASSUME NEW s \in Services PROVE Proper(svc'[s], s, "NONE") /\ Found(svc'[s], s)
  <2>1. Proper(svc[s], s, "NONE") /\ Found(svc[s], s)
    BY <1>0 DEF Listed
  <2> QED BY <2>1, <1>2 DEF Proper, Found
<1>10. svc' \in [Services -> Svc]
  BY <1>1, <1>2
<1> QED BY <1>0, <1>6, <1>7, <1>8, <1>9, <1>10 DEF IInv, Listed, Quiet, Tick

\* A check or its result is lost.
LEMMA LoseInv ==
    ASSUME IInv, NEW s \in Services, Lose(s)
    PROVE  IInv'
<1>0. Listed /\ Quiet
  BY DEF IInv
<1>1. PICK kind \in Kinds : /\ outstanding[s][kind] > 0
                            /\ outstanding' = [outstanding EXCEPT ![s][kind] = @ - 1]
  BY DEF Lose
<1>2. /\ outstanding' \in [Services -> [Kinds -> Int]]
      /\ \A x \in Services : x # s => outstanding'[x] = outstanding[x]
      /\ \A k \in Kinds : k # kind => outstanding'[s][k] = outstanding[s][k]
  BY <1>0, <1>1 DEF Quiet
<1>3. Regular \subseteq Services /\ "FRESHNESS" \in Kinds /\ "DEMAND" \in Kinds
  BY DEF Regular, Kinds
<1>4. s \in Regular => kind # "FRESHNESS" /\ kind # "DEMAND"
  BY <1>0, <1>1 DEF Quiet
<1>5. Quiet'
  BY <1>0, <1>2, <1>3, <1>4 DEF Quiet
<1> QED BY <1>0, <1>5 DEF IInv, Listed, Lose

LEMMA StepInv == IInv /\ [Next]_vars => IInv'
<1> SUFFICES ASSUME IInv, [Next]_vars PROVE IInv'
  OBVIOUS
<1>1. CASE EventLoop
  BY <1>1, LoopInv DEF EventLoop
<1>2. ASSUME NEW s \in Services, Reap(s) \/ Scan(s) \/ Outside(s) PROVE IInv'
  BY <1>2, ResultInv, ScanInv, LoseInv DEF Scan, Outside
<1>3. CASE Tick \/ Restart
  BY <1>3, TickInv, RestartInv
<1>4. CASE UNCHANGED vars
  BY <1>4 DEF vars, IInv, Listed, Quiet
<1> QED BY <1>1, <1>2, <1>3, <1>4 DEF Next

LEMMA Invariant == Spec => []IInv
BY InitInv, StepInv, PTL DEF Spec

---------------------------------------------------------------------------------
(* Times *)

InTimes(q) == \A e \in Range(q) : e.at \in Times

\* next_check is at most one interval ahead, unless the event is as far ahead.
Early(r, s, q) ==
    /\ r.next_check \in Times
    /\ \A e \in Range(q) : e.svc = s => r.next_check <= Interval \/ r.next_check <= e.at

Timely == Sorted(queue) /\ InTimes(queue) /\ \A s \in Services : Early(svc[s], s, queue)

LEMMA TimesAre ==
    /\ \A t : t \in Times <=> t \in Int /\ -(Slack + 1) <= t /\ t <= 2 * Interval
    /\ \A t \in 0..Interval : t \in Times /\ t \in Int /\ t <= Interval
    /\ Interval \in Int /\ Slack \in Int /\ 0 <= Slack /\ 0 < Interval
BY TimeAssumption DEF Times

LEMMA EventsAre ==
    ASSUME NEW q \in Seq(Rec)
    PROVE  \A e \in Range(q) : e \in Rec /\ e.svc \in Services /\ e.at \in Int
<1>1. Range(q) \subseteq Rec
  BY ElementOfSeq DEF Range
<1> QED BY <1>1 DEF Rec

\* A step that changes the event and next_check of one service.
LEMMA OneTimely ==
    ASSUME Listed, Timely, Listed', NEW s \in Services, Others(s), Sorted(queue'),
           \A e \in Range(queue') : e.svc = s => e.at \in Times,
           Early(svc'[s], s, queue'),
           \A x \in Services \ {s} : svc'[x].next_check = svc[x].next_check
    PROVE  Timely'
<1>1. \A e \in Range(queue') : e \in Rec /\ e.svc \in Services
  BY EventsAre DEF Listed
<1>2. \A e \in Range(queue') : e.svc # s => e \in Range(queue)
  BY <1>1 DEF Others, Same
<1>3. InTimes(queue')
  BY <1>2 DEF Timely, InTimes
<1>4. ASSUME NEW x \in Services PROVE Early(svc'[x], x, queue')
  <2>1. CASE x = s
    BY <2>1
  <2>2. CASE x # s
    <3>1. Early(svc[x], x, queue)
      BY DEF Timely
    <3> QED BY <1>2, <2>2, <3>1 DEF Early
  <2> QED BY <2>1, <2>2
<1> QED BY <1>3, <1>4 DEF Timely

\* schedule_service_check() keeps the list in order and next_check in its range.
LEMMA ScheduledTimely ==
    ASSUME NEW q \in Seq(Rec), One(q), NEW s \in Services, NEW r \in Svc, Agrees(r, s, q),
           NEW at \in 0..Interval, NEW options \in Options,
           NEW done, done = Scheduled(r, q, s, at, options),
           Sorted(q), InTimes(q), Early(r, s, q)
    PROVE  Sorted(done.queue) /\ InTimes(done.queue) /\ Early(done.svc, s, done.queue)
<1> DEFINE e == Event(s, at, options)
           rest == IF r.linked THEN Without(q, s) ELSE q
           p == Inserted(rest, e)
<1>1. CASE ~r.enabled /\ ~Forced(options)
  BY <1>1 DEF Scheduled
<1>2. CASE (r.enabled \/ Forced(options)) /\ r.linked /\ ~UsesNew(EventOf(q, s), at, options)
  <2>1. done.svc = [r EXCEPT !.next_check = EventOf(q, s).at] /\ done.queue = q
    BY <1>2 DEF Scheduled
  <2>2. EventOf(q, s) \in Range(q) /\ EventOf(q, s).svc = s
    BY <1>2, WithoutEvents DEF Agrees
  <2>3. \A f \in Range(q) : f.svc = s => f = EventOf(q, s)
    BY <2>2 DEF Range, One
  <2>4. done.svc.next_check = EventOf(q, s).at
    BY <2>1 DEF Svc
  <2>5. EventOf(q, s).at \in Int
    BY <2>2, EventsAre
  <2> QED BY <2>1, <2>2, <2>3, <2>4, <2>5 DEF InTimes, Early
<1>3. CASE (r.enabled \/ Forced(options)) /\ ~(r.linked /\ ~UsesNew(EventOf(q, s), at, options))
  <2>1. /\ done.svc = [r EXCEPT !.linked = TRUE, !.next_check = at, !.options = options]
        /\ done.queue = p
    BY <1>3 DEF Scheduled
  <2>2. /\ rest \in Seq(Rec) /\ Sorted(rest) /\ Range(rest) \subseteq Range(q)
    BY WithoutEvents DEF Agrees
  <2>3. e \in Rec /\ e.at = at
    BY TimesAre DEF Event, Rec
  <2> HIDE DEF e, rest
  <2>4. Range(p) = Range(rest) \cup {e} /\ Sorted(p)
    BY <2>2, <2>3, InsertedEvents
  <2> HIDE DEF p
  <2>5. done.svc.next_check = at
    BY <2>1 DEF Svc
  <2> QED BY <2>1, <2>2, <2>3, <2>4, <2>5, TimesAre DEF InTimes, Early
<1> QED BY <1>1, <1>2, <1>3

LEMMA ScheduleTimely ==
    ASSUME Listed, Timely, Listed', NEW s \in Services, Others(s), NEW r \in Svc,
           NEW q \in Seq(Rec), One(q), Agrees(r, s, q), Sorted(q), InTimes(q), Early(r, s, q),
           NEW at \in 0..Interval, NEW options \in Options, Schedule(r, q, s, at, options)
    PROVE  Timely'
<1> DEFINE done == Scheduled(r, q, s, at, options)
<1>1. svc' = [svc EXCEPT ![s] = done.svc] /\ queue' = done.queue
  BY DEF Schedule
<1>2. Sorted(done.queue) /\ InTimes(done.queue) /\ Early(done.svc, s, done.queue)
  BY ScheduledTimely
<1> HIDE DEF done
<1>3. svc'[s] = done.svc /\ \A x \in Services \ {s} : svc'[x] = svc[x]
  BY <1>1 DEF Listed
<1> QED BY <1>1, <1>2, <1>3, OneTimely DEF InTimes

\* The list without its first event, which is that of s.
LEMMA TakenTimely ==
    ASSUME Listed, Timely, NEW s \in Services, Due(s)
    PROVE  /\ Sorted(Tail(queue)) /\ InTimes(Tail(queue))
           /\ svc[s].next_check \in Times /\ svc[s].next_check <= Interval
<1>1. queue \in Seq(Rec) /\ One(queue) /\ queue # <<>> /\ Head(queue).svc = s /\ Head(queue).at <= 0
  BY DEF Listed, Due
<1>2. /\ Head(queue) \in Rec /\ Head(queue) \in Range(queue)
      /\ Range(Tail(queue)) \subseteq Range(queue) /\ Sorted(Tail(queue))
  BY <1>1, TailEvents DEF Timely
<1>3. Early(svc[s], s, queue)
  BY DEF Timely
<1>4. svc[s].next_check <= Interval \/ svc[s].next_check <= Head(queue).at
  BY <1>1, <1>2, <1>3 DEF Early
<1>5. Head(queue).at \in Int /\ svc[s].next_check \in Times
  BY <1>2, <1>3 DEF Rec, Early
<1> QED BY <1>1, <1>2, <1>4, <1>5, TimesAre DEF Timely, InTimes

LEMMA PostponeTimely ==
    ASSUME Listed, Timely, Listed', NEW s \in Services, Others(s), Due(s),
           NEW by \in 1..Interval, Postpone(s, by)
    PROVE  Timely'
<1> DEFINE later == svc[s].next_check + by
           e == [Head(queue) EXCEPT !.at = later]
           r == [svc[s] EXCEPT !.next_check = later]
<1>1. /\ Tail(queue) \in Seq(Rec) /\ Head(queue) \in Rec /\ Head(queue).svc = s
      /\ \A f \in Range(Tail(queue)) : f.svc # s
      /\ svc[s] \in Svc
  BY TakenEvent
<1>2. Sorted(Tail(queue)) /\ svc[s].next_check \in Times /\ svc[s].next_check <= Interval
  BY TakenTimely
<1>3. later \in Times /\ later \in Int
  BY <1>2, TimesAre
<1>4. queue' = Inserted(Tail(queue), e) /\ svc' = [svc EXCEPT ![s] = r]
  BY DEF Postpone, Listed
<1> HIDE DEF later
<1>5. e \in Rec /\ e.svc = s /\ e.at = later /\ r.next_check = later
  BY <1>1, <1>3 DEF Rec, Svc
<1> HIDE DEF e, r
<1>6. Range(queue') = Range(Tail(queue)) \cup {e} /\ Sorted(queue')
  BY <1>1, <1>2, <1>4, <1>5, InsertedEvents
<1>7. svc'[s] = r /\ \A x \in Services \ {s} : svc'[x] = svc[x]
  BY <1>4 DEF Listed
<1>8. \A f \in Range(queue') : f.svc = s => f.at = later
  BY <1>1, <1>5, <1>6
<1>9. Early(svc'[s], s, queue')
  BY <1>3, <1>5, <1>7, <1>8 DEF Early
<1> QED BY <1>3, <1>6, <1>7, <1>8, <1>9, OneTimely

LEMMA RetryTimely ==
    ASSUME Listed, Timely, Listed', NEW s \in Services, Others(s), Due(s),
           NEW r \in Svc, ~r.linked, r.next_check = svc[s].next_check,
           Retry(r, Tail(queue), s, Head(queue).options)
    PROVE  Timely'
<1>1. /\ Tail(queue) \in Seq(Rec) /\ One(Tail(queue))
      /\ \A e \in Range(Tail(queue)) : e.svc # s
      /\ Head(queue).options \in Options
  BY TakenEvent DEF Rec
<1>2. Sorted(Tail(queue)) /\ InTimes(Tail(queue)) /\ r.next_check \in Times
  BY TakenTimely
<1>3. CASE r.should
  <2> DEFINE again == [r EXCEPT !.next_check = Interval]
  <2>1. Schedule(again, Tail(queue), s, Interval, Head(queue).options)
    BY <1>3 DEF Retry
  <2>2. again \in Svc /\ ~again.linked /\ again.next_check = Interval
    BY TimesAre DEF Svc
  <2> HIDE DEF again
  <2>3. Agrees(again, s, Tail(queue)) /\ Early(again, s, Tail(queue)) /\ Interval \in 0..Interval
    BY <1>1, <2>2, TimesAre DEF Agrees, Early
  <2> QED BY <1>1, <1>2, <2>1, <2>2, <2>3, ScheduleTimely
<1>4. CASE ~r.should
  <2>1. svc' = [svc EXCEPT ![s] = r] /\ queue' = Tail(queue)
    BY <1>4 DEF Retry
  <2>2. svc'[s] = r /\ \A x \in Services \ {s} : svc'[x] = svc[x]
    BY <2>1 DEF Listed
  <2>3. Early(svc'[s], s, queue')
    BY <1>1, <1>2, <2>1, <2>2 DEF Early
  <2> QED BY <1>1, <1>2, <2>1, <2>2, <2>3, OneTimely
<1> QED BY <1>3, <1>4 DEF Svc

LEMMA LoopTimely ==
    ASSUME Listed, Timely, Listed', NEW s \in Services, Others(s),
           Nudge(s) \/ Defer(s) \/ Refuse(s) \/ Start(s) \/ ForkFails(s)
    PROVE  Timely'
<1>0. svc[s] \in Svc /\ "NONE" \in Options
  BY DEF Listed, Options
<1>1. CASE Nudge(s) \/ Defer(s)
  <2>1. Due(s) /\ (Postpone(s, 1) \/ Postpone(s, Interval))
    BY <1>1 DEF Nudge, Defer, Runs
  <2>2. 1 \in 1..Interval /\ Interval \in 1..Interval
    BY TimesAre
  <2> QED BY <2>1, <2>2, PostponeTimely
<1>2. CASE Refuse(s)
  <2> DEFINE r == [svc[s] EXCEPT !.linked = FALSE]
  <2>1. Due(s) /\ Retry(r, Tail(queue), s, Head(queue).options)
    BY <1>2 DEF Refuse, Runs
  <2>2. r \in Svc /\ ~r.linked /\ r.next_check = svc[s].next_check
    BY <1>0 DEF Svc
  <2> HIDE DEF r
  <2> QED BY <2>1, <2>2, RetryTimely
<1>3. /\ Executing(svc[s]) \in Svc /\ ~Executing(svc[s]).linked
      /\ Executing(svc[s]).next_check = svc[s].next_check
  BY <1>0 DEF Executing, Svc
<1>4. CASE ForkFails(s)
  <2>1. Due(s) /\ Retry(Executing(svc[s]), Tail(queue), s, Head(queue).options)
    BY <1>4 DEF ForkFails, Viable, Runs
  <2> QED BY <1>3, <2>1, RetryTimely
<1>5. CASE Start(s)
  <2>1. Due(s) /\ svc' = [svc EXCEPT ![s] = Executing(svc[s])] /\ queue' = Tail(queue)
    BY <1>5 DEF Start, Viable, Runs, Listed
  <2>2. \A e \in Range(Tail(queue)) : e.svc # s
    BY <2>1, TakenEvent
  <2>3. Sorted(Tail(queue)) /\ svc[s].next_check \in Times
    BY <2>1, TakenTimely
  <2>4. svc'[s] = Executing(svc[s]) /\ \A x \in Services \ {s} : svc'[x] = svc[x]
    BY <2>1 DEF Listed
  <2>5. Early(svc'[s], s, queue')
    BY <1>3, <2>1, <2>2, <2>3, <2>4 DEF Early
  <2> QED BY <2>1, <2>2, <2>3, <2>4, <2>5, OneTimely
<1> QED BY <1>1, <1>2, <1>4, <1>5

\* The scans and the commands of a user.
LEMMA ScanTimely ==
    ASSUME Listed, Timely, Listed', NEW s \in Services, Others(s),
           Orphan(s) \/ Freshen(s) \/ Command(s) \/ Enable(s) \/ Disable(s)
    PROVE  Timely'
<1>1. /\ svc[s] \in Svc /\ queue \in Seq(Rec) /\ One(queue) /\ Agrees(svc[s], s, queue)
      /\ Sorted(queue) /\ InTimes(queue) /\ Early(svc[s], s, queue)
      /\ "NONE" \in Options /\ "FORCE" \in Options /\ "FRESHNESS" \in Options
      /\ 0 \in 0..Interval
  BY TimesAre DEF Listed, Timely, Options
<1>2. CASE Orphan(s)
  <2> DEFINE r == [svc[s] EXCEPT !.executing = FALSE]
  <2>1. Schedule(r, queue, s, 0, "NONE")
    BY <1>2 DEF Orphan
  <2>2. /\ r \in Svc /\ r.linked = svc[s].linked /\ r.options = svc[s].options
        /\ r.next_check = svc[s].next_check
    BY <1>1 DEF Svc
  <2> HIDE DEF r
  <2>3. Agrees(r, s, queue) /\ Early(r, s, queue)
    BY <1>1, <2>2 DEF Agrees, Early
  <2> QED BY <1>1, <2>1, <2>2, <2>3, ScheduleTimely
<1>3. CASE Freshen(s)
  <2> DEFINE r == [svc[s] EXCEPT !.freshening = TRUE]
  <2>1. Schedule(r, queue, s, 0, "FRESHNESS")
    BY <1>3 DEF Freshen
  <2>2. /\ r \in Svc /\ r.linked = svc[s].linked /\ r.options = svc[s].options
        /\ r.next_check = svc[s].next_check
    BY <1>1 DEF Svc
  <2> HIDE DEF r
  <2>3. Agrees(r, s, queue) /\ Early(r, s, queue)
    BY <1>1, <2>2 DEF Agrees, Early
  <2> QED BY <1>1, <2>1, <2>2, <2>3, ScheduleTimely
<1>4. CASE Command(s)
  <2>1. PICK at \in CommandTimes, options \in {"NONE", "FORCE"} :
           Schedule(svc[s], queue, s, at, options)
    BY <1>4 DEF Command
  <2>2. at \in 0..Interval /\ options \in Options
    BY <1>1, TimeAssumption
  <2> QED BY <1>1, <2>1, <2>2, ScheduleTimely
<1>5. CASE Enable(s)
  <2> DEFINE r == [svc[s] EXCEPT !.enabled = TRUE, !.should = TRUE, !.next_check = 0]
  <2>1. Schedule(r, queue, s, 0, "NONE")
    BY <1>5 DEF Enable
  <2>2. r \in Svc
    <3>1. TRUE \in BOOLEAN /\ 0 \in Int
      OBVIOUS
    <3> QED BY ZenonT(60), <1>1, <3>1 DEF Svc
  <2>3. r.linked = svc[s].linked /\ r.options = svc[s].options /\ r.next_check = 0
    BY <1>1 DEF Svc
  <2> HIDE DEF r
  <2>4. Agrees(r, s, queue) /\ Early(r, s, queue)
    BY <1>1, <2>3, TimesAre DEF Agrees, Early
  <2> QED BY <1>1, <2>1, <2>2, <2>4, ScheduleTimely
<1>6. CASE Disable(s)
  <2> DEFINE r == [svc[s] EXCEPT !.enabled = FALSE, !.should = FALSE]
  <2>1. svc' = [svc EXCEPT ![s] = r] /\ queue' = queue
    BY <1>6 DEF Disable, Listed
  <2>2. r.next_check = svc[s].next_check
    BY <1>1 DEF Svc
  <2> HIDE DEF r
  <2>3. svc'[s] = r /\ \A x \in Services \ {s} : svc'[x] = svc[x]
    BY <2>1 DEF Listed
  <2>4. Early(svc'[s], s, queue') /\ \A e \in Range(queue') : e.at \in Times
    BY <1>1, <2>1, <2>2, <2>3 DEF Early, InTimes
  <2> QED BY <1>1, <2>1, <2>3, <2>4, OneTimely
<1> QED BY <1>2, <1>3, <1>4, <1>5, <1>6

LEMMA ResultTimely ==
    ASSUME Listed, Timely, Listed', NEW s \in Services, Others(s),
           NEW kind, NEW demanded, Handle(s, kind, demanded)
    PROVE  Timely'
<1>1. /\ svc[s] \in Svc /\ queue \in Seq(Rec) /\ One(queue) /\ Agrees(svc[s], s, queue)
      /\ Sorted(queue) /\ InTimes(queue) /\ Early(svc[s], s, queue)
      /\ \A e \in Range(queue) : e.at \in Times
      /\ "NONE" \in Options
  BY DEF Listed, Timely, Options, InTimes
<1>2. CASE Discard(s, kind)
  <2> DEFINE r == Received(s, kind)
  <2>1. svc' = [svc EXCEPT ![s] = r] /\ queue' = queue
    BY <1>2 DEF Discard
  <2>2. r.next_check = svc[s].next_check
    BY <1>1 DEF Received, Svc
  <2> HIDE DEF r
  <2>3. svc'[s] = r /\ \A x \in Services \ {s} : svc'[x] = svc[x]
    BY <2>1 DEF Listed
  <2>4. Early(svc'[s], s, queue')
    BY <1>1, <2>1, <2>2, <2>3 DEF Early
  <2> QED BY <1>1, <2>1, <2>3, <2>4, OneTimely
<1>3. ASSUME NEW changed \in BOOLEAN, NEW next \in 1..Interval,
             Accept(s, kind, changed, next, demanded)
      PROVE  Timely'
  <2> DEFINE r == [Received(s, kind) EXCEPT !.stale = FALSE]
             again == [r EXCEPT !.should = r.enabled, !.next_check = next]
             done == Accepted(s, kind, changed, next)
  <2>1. /\ r \in Svc /\ r.linked = svc[s].linked /\ r.options = svc[s].options
        /\ r.next_check = svc[s].next_check
    BY <1>1 DEF Received, Svc
  <2>2. done = IF ~Reschedules(kind, changed) THEN [svc |-> r, queue |-> queue]
               ELSE IF again.should THEN Scheduled(again, queue, s, next, "NONE")
               ELSE [svc |-> again, queue |-> queue]
    BY DEF Accepted
  <2>3. svc' = [x \in Services |-> IF x = s THEN done.svc
                                   ELSE [svc[x] EXCEPT !.executing = @ \/ x \in demanded]]
        /\ queue' = done.queue
    BY <1>3 DEF Accept
  <2> HIDE DEF r
  <2>4. next \in 0..Interval /\ next \in Int /\ next \in Times /\ next <= Interval
    BY TimesAre
  <2>5. /\ again \in Svc /\ again.linked = svc[s].linked /\ again.options = svc[s].options
        /\ again.next_check = next
    BY <2>1, <2>4 DEF Svc
  <2> HIDE DEF again, done
  <2>6. Early(again, s, queue) /\ Early(r, s, queue) /\ Agrees(again, s, queue)
    BY <1>1, <2>1, <2>4, <2>5 DEF Early, Agrees
  <2>7. Sorted(done.queue) /\ InTimes(done.queue) /\ Early(done.svc, s, done.queue)
    <3>1. CASE ~Reschedules(kind, changed)
      BY <1>1, <2>2, <2>6, <3>1
    <3>2. CASE Reschedules(kind, changed) /\ again.should
      BY <1>1, <2>2, <2>4, <2>5, <2>6, <3>2, ScheduledTimely
    <3>3. CASE Reschedules(kind, changed) /\ ~again.should
      BY <1>1, <2>2, <2>6, <3>3
    <3> QED BY <3>1, <3>2, <3>3
  <2>8. svc'[s] = done.svc /\ queue' = done.queue
    BY <2>3
  <2>9. ASSUME NEW x \in Services \ {s} PROVE svc'[x].next_check = svc[x].next_check
    <3>1. svc'[x] = [svc[x] EXCEPT !.executing = @ \/ x \in demanded] /\ svc[x] \in Svc
      BY <2>3 DEF Listed
    <3> QED BY <3>1 DEF Svc
  <2>10. \A e \in Range(queue') : e.at \in Times
    BY <2>7, <2>8 DEF InTimes
  <2> QED BY <2>7, <2>8, <2>9, <2>10, OneTimely
<1> QED BY <1>2, <1>3 DEF Handle

LEMMA TickTimely ==
    ASSUME Listed, Timely, Tick
    PROVE  Timely'
<1>1. PICK old \in SUBSET {s \in Freshness : ~svc[s].stale} :
         svc' = [s \in Services |-> [svc[s] EXCEPT !.next_check = Earlier(@),
                                                   !.stale = @ \/ s \in old]]
  BY DEF Tick
<1>2. ASSUME NEW s \in Services PROVE svc'[s].next_check = Earlier(svc[s].next_check)
  <2> DEFINE n == Earlier(svc[s].next_check)
             m == svc[s].stale \/ s \in old
  <2>1. svc'[s] = [svc[s] EXCEPT !.next_check = n, !.stale = m] /\ svc[s] \in Svc
    BY <1>1 DEF Listed
  <2> HIDE DEF n, m
  <2>2. svc'[s].next_check = n
    BY <2>1 DEF Svc
  <2> QED BY <2>2 DEF n
<1>3. Len(queue) \in Nat /\ DOMAIN queue = 1..Len(queue) /\ \A i \in 1..Len(queue) : queue[i] \in Rec
  BY LenProperties, ElementOfSeq DEF Listed
<1>4. queue' = [i \in 1..Len(queue) |-> [queue[i] EXCEPT !.at = @ - 1]]
  BY <1>3 DEF Tick
<1>5. \A i \in 1..Len(queue) :
         /\ queue[i].at \in Int /\ queue[i].at > 0 /\ queue[i] \in Range(queue)
         /\ queue'[i].svc = queue[i].svc /\ queue'[i].at = queue[i].at - 1
  BY <1>3, <1>4 DEF Tick, Rec, Range
<1>6. DOMAIN queue' = 1..Len(queue)
  BY <1>4
<1>7. Sorted(queue')
  BY <1>3, <1>5, <1>6 DEF Sorted, Timely
<1>8. \A e \in Range(queue') :
         \E f \in Range(queue) : f.svc = e.svc /\ e.at = f.at - 1 /\ f.at > 0 /\ f.at \in Int
  BY <1>5, <1>6 DEF Range
<1>9. InTimes(queue')
  BY <1>8, TimesAre DEF InTimes, Timely
<1>10. ASSUME NEW s \in Services PROVE Early(svc'[s], s, queue')
  <2> DEFINE t == svc[s].next_check
  <2>1. t \in Times /\ \A e \in Range(queue) : e.svc = s => t <= Interval \/ t <= e.at
    BY DEF Timely, Early
  <2> HIDE DEF t
  <2>2. Earlier(t) \in Times /\ Earlier(t) \in Int
        /\ (Earlier(t) = t - 1 \/ (Earlier(t) = t /\ t = -(Slack + 1)))
    <3>1. t \in Int /\ -(Slack + 1) <= t /\ t <= 2 * Interval
      BY <2>1, TimesAre
    <3>2. CASE t > -(Slack + 1)
      <4>1. t - 1 \in Times
        BY <3>1, <3>2, TimeAssumption DEF Times
      <4>2. Earlier(t) = t - 1
        BY <3>2 DEF Earlier
      <4>3. t - 1 \in Int
        BY <3>1
      <4> QED BY <4>1, <4>2, <4>3
    <3>3. CASE ~(t > -(Slack + 1))
      BY <2>1, <3>1, <3>3, TimeAssumption DEF Earlier
    <3> QED BY <3>2, <3>3
  <2>3. ASSUME NEW e \in Range(queue'), e.svc = s
        PROVE  Earlier(t) <= Interval \/ Earlier(t) <= e.at
    <3>1. PICK f \in Range(queue) : f.svc = s /\ e.at = f.at - 1 /\ f.at > 0 /\ f.at \in Int
      BY <1>8, <2>3
    <3> QED BY <2>1, <2>2, <3>1, TimesAre
  <2>4. svc'[s].next_check = Earlier(t)
    BY <1>2 DEF t
  <2> QED BY <2>2, <2>3, <2>4 DEF Early
<1> QED BY <1>7, <1>9, <1>10 DEF Timely

\* A start spreads what is due over the first interval and keeps the other times.
LEMMA RestartTimely ==
    ASSUME Listed, Timely, Restart
    PROVE  Timely'
<1> DEFINE S == {x \in Services : AtStart(x)}
           Next0(spread, s) == IF s \in DOMAIN spread THEN spread[s] ELSE svc[s].next_check
<1>1. PICK spread \in [{s \in Services : svc[s].enabled /\ svc[s].next_check <= 0} -> 0..Interval],
           stale \in SUBSET {s \in Services : svc[s].stale} :
         /\ svc' = [s \in Services |->
                      [svc[s] EXCEPT !.should = svc[s].enabled, !.linked = AtStart(s),
                                     !.executing = FALSE, !.freshening = FALSE,
                                     !.stale = s \in stale, !.next_check = Next0(spread, s)]]
         /\ queue' \in SetToSeqs({Event(s, Next0(spread, s), svc[s].options) : s \in S})
  BY DEF Restart
<1>2. Sorted(queue')
  BY DEF Restart, Sorted
<1> DEFINE at == [s \in S |-> Next0(spread, s)]
           options == [s \in S |-> svc[s].options]
<1>3. \A s \in Services : Next0(spread, s) \in Times /\ Next0(spread, s) \in Int
  BY TimesAre DEF Timely, Early
<1>4. at \in [S -> Int] /\ options \in [S -> Options]
  BY <1>3 DEF Svc, Listed
<1>5. queue' \in SetToSeqs({Event(s, at[s], options[s]) : s \in S})
  <2>1. {Event(s, at[s], options[s]) : s \in S}
          = {Event(s, Next0(spread, s), svc[s].options) : s \in S}
    OBVIOUS
  <2> QED BY <1>1, <2>1
<1>6. ASSUME NEW s \in Services PROVE svc'[s].next_check = Next0(spread, s)
  <2> DEFINE n == Next0(spread, s)
             l == AtStart(s)
             m == s \in stale
  <2>1. svc'[s] = [svc[s] EXCEPT !.should = svc[s].enabled, !.linked = l,
                                 !.executing = FALSE, !.freshening = FALSE,
                                 !.stale = m, !.next_check = n]
        /\ svc[s] \in Svc
    BY <1>1 DEF Listed
  <2> HIDE DEF n, l, m
  <2>2. svc'[s].next_check = n
    BY <2>1 DEF Svc
  <2> QED BY <2>2 DEF n
<1>7. S \in SUBSET Services /\ \A s \in S : at[s] = Next0(spread, s)
  OBVIOUS
<1> HIDE DEF S, at, options, Next0
<1>8. \A e \in Range(queue') : e.svc \in S /\ e.at = at[e.svc]
  BY ONLY <1>4, <1>5, <1>7, MadeList
<1>9. \A e \in Range(queue') : e.svc \in Services /\ e.at = Next0(spread, e.svc)
  BY <1>7, <1>8
<1>10. InTimes(queue')
  BY <1>3, <1>9 DEF InTimes
<1>11. \A s \in Services : Early(svc'[s], s, queue')
  BY <1>3, <1>6, <1>9 DEF Early
<1> QED BY <1>2, <1>10, <1>11 DEF Timely

LEMMA InitTimely == Init => Timely
<1> SUFFICES ASSUME Init PROVE Timely
  OBVIOUS
<1> DEFINE at == [s \in Services |-> 0]
           options == [s \in Services |-> "NONE"]
<1>1. Fresh.next_check = 0
  BY DEF Fresh
<1>2. \A s \in Services : svc[s].next_check = 0
  BY <1>1 DEF Init
<1>3. queue \in SetToSeqs({Event(s, at[s], options[s]) : s \in Services})
  <2>1. {Event(s, at[s], options[s]) : s \in Services} = {Event(s, 0, "NONE") : s \in Services}
    OBVIOUS
  <2> QED BY <2>1 DEF Init
<1>4. at \in [Services -> Int] /\ options \in [Services -> Options] /\ Services \in SUBSET Services
  BY DEF Options
<1>5. \A s \in Services : at[s] = 0
  OBVIOUS
<1> HIDE DEF at, options
<1>6. \A e \in Range(queue) : e.svc \in Services /\ e.at = at[e.svc]
  BY ONLY <1>3, <1>4, MadeList
<1>7. \A e \in Range(queue) : e.at = 0
  BY <1>5, <1>6
<1>8. Len(queue) \in Nat /\ DOMAIN queue = 1..Len(queue)
  <2>1. Listed
    BY InitInv DEF IInv
  <2> QED BY <2>1, LenProperties DEF Listed
<1>9. Sorted(queue)
  BY <1>7, <1>8 DEF Sorted, Range
<1> QED BY <1>2, <1>7, <1>9, TimesAre DEF Timely, InTimes, Early

LEMMA StepTimely == IInv /\ Timely /\ [Next]_vars => Timely'
<1> SUFFICES ASSUME IInv, Timely, [Next]_vars PROVE Timely'
  OBVIOUS
<1>0. Listed /\ Listed'
  BY StepInv DEF IInv
<1>1. CASE EventLoop
  <2>1. PICK x \in Services : Nudge(x) \/ Defer(x) \/ Refuse(x) \/ Start(x) \/ ForkFails(x)
    BY <1>1 DEF EventLoop
  <2>2. Others(x)
    BY <2>1, LoopInv
  <2> QED BY <1>0, <2>1, <2>2, LoopTimely
<1>2. ASSUME NEW x \in Services, Reap(x) \/ Scan(x) \/ Outside(x)
      PROVE  Timely'
  <2>1. CASE Reap(x) \/ Passive(x)
    <3>1. Others(x)
      BY <2>1, ResultInv
    <3>2. \E kind, demanded : Handle(x, kind, demanded)
      BY <2>1 DEF Reap, Passive
    <3> QED BY <1>0, <3>1, <3>2, ResultTimely
  <2>2. CASE Orphan(x) \/ Freshen(x) \/ Command(x) \/ Enable(x) \/ Disable(x)
    <3>1. Others(x)
      BY <2>2, ScanInv
    <3> QED BY <1>0, <2>2, <3>1, ScanTimely
  <2>3. CASE Lose(x)
    BY <2>3 DEF Lose, Timely
  <2> QED BY <1>2, <2>1, <2>2, <2>3 DEF Scan, Outside
<1>3. CASE Tick
  BY <1>0, <1>3, TickTimely
<1>4. CASE Restart
  BY <1>0, <1>4, RestartTimely
<1>5. CASE UNCHANGED vars
  BY <1>5 DEF vars, Timely
<1> QED BY <1>1, <1>2, <1>3, <1>4, <1>5 DEF Next

---------------------------------------------------------------------------------
(* Checks that are out *)

Counts == [Services -> [Kinds -> 0..MaxFlight]]

\* The checks that are out when o counts them.
Numbered == Services \X Kinds \X (1..MaxFlight)
OutOf(o) == {c \in Numbered : c[3] <= o[c[1]][c[2]]}

CountInv ==
    /\ outstanding \in Counts
    /\ running \in Nat /\ faults \in 0..MaxFaults
    /\ running <= InFlight + faults

LEMMA SameNumbered ==
    ASSUME NEW S \in SUBSET Numbered, NEW T \in SUBSET Numbered,
           \A s \in Services, k \in Kinds, i \in 1..MaxFlight : <<s, k, i>> \in S <=> <<s, k, i>> \in T
    PROVE  S = T
<1>1. ASSUME NEW c \in Numbered PROVE c \in S <=> c \in T
  <2>1. PICK s \in Services, k \in Kinds, i \in 1..MaxFlight : c = <<s, k, i>>
    BY DEF Numbered
  <2> QED BY <2>1
<1> QED BY <1>1

LEMMA OutFinite ==
    ASSUME NEW o \in Counts
    PROVE  /\ IsFiniteSet(OutOf(o)) /\ Cardinality(OutOf(o)) \in Nat
           /\ OutOf(o) \in SUBSET Numbered
           /\ \A s \in Services, k \in Kinds, i \in 1..MaxFlight :
                 <<s, k, i>> \in OutOf(o) <=> i <= o[s][k]
<1> DEFINE A == Services \X Kinds
           B == A \X (1..MaxFlight)
           C == Numbered
           f == [b \in B |-> <<b[1][1], b[1][2], b[2]>>]
<1>1. IsFiniteSet(Kinds)
  <2>1. IsFiniteSet({})
    BY FS_EmptySet
  <2>2. IsFiniteSet({} \cup {"SCHEDULED"})
    BY ONLY <2>1, FS_AddElement
  <2>3. IsFiniteSet(({} \cup {"SCHEDULED"}) \cup {"FRESHNESS"})
    BY ONLY <2>2, FS_AddElement
  <2>4. IsFiniteSet((({} \cup {"SCHEDULED"}) \cup {"FRESHNESS"}) \cup {"DEMAND"})
    BY ONLY <2>3, FS_AddElement
  <2>5. Kinds = (({} \cup {"SCHEDULED"}) \cup {"FRESHNESS"}) \cup {"DEMAND"}
    BY DEF Kinds
  <2> QED BY <2>4, <2>5
<1>2. IsFiniteSet(1..MaxFlight)
  <2>1. 1 \in Int /\ MaxFlight \in Int
    BY BoundAssumption
  <2> QED BY ONLY <2>1, FS_Interval
<1>3. IsFiniteSet(Services)
  BY BoundAssumption
<1>4. IsFiniteSet(A)
  BY ONLY <1>1, <1>3, FS_Product
<1> HIDE DEF A
<1>5. IsFiniteSet(B)
  BY ONLY <1>2, <1>4, FS_Product
<1>6. f \in Surjection(B, C)
  <2>1. \A b \in B : b[1] \in A /\ b[2] \in 1..MaxFlight
    OBVIOUS
  <2>2. \A x \in A : x[1] \in Services /\ x[2] \in Kinds
    BY DEF A
  <2>3. f \in [B -> C]
    BY <2>1, <2>2 DEF Numbered
  <2>4. ASSUME NEW c \in C PROVE \E b \in B : f[b] = c
    <3>1. PICK s \in Services, k \in Kinds, i \in 1..MaxFlight : c = <<s, k, i>>
      BY DEF Numbered
    <3>2. <<s, k>> \in A
      BY DEF A
    <3>3. <<<<s, k>>, i>> \in B
      BY <3>2
    <3>4. f[<<<<s, k>>, i>>] = c
      BY <3>1, <3>3
    <3> QED BY <3>3, <3>4
  <2> QED BY <2>3, <2>4 DEF Surjection
<1> HIDE DEF B, C, f
<1>7. IsFiniteSet(C)
  BY ONLY <1>5, <1>6, FS_Surjection
<1>8. OutOf(o) \in SUBSET C
  BY DEF OutOf, C
<1>9. IsFiniteSet(OutOf(o))
  BY ONLY <1>7, <1>8, FS_Subset
<1>10. Cardinality(OutOf(o)) \in Nat
  BY ONLY <1>9, FS_CardinalityType
<1>11. \A s \in Services, k \in Kinds, i \in 1..MaxFlight :
          <<s, k, i>> \in OutOf(o) <=> i <= o[s][k]
  BY DEF OutOf, Numbered
<1> QED BY <1>8, <1>9, <1>10, <1>11 DEF C

\* No service has more checks of a kind out than there are.
LEMMA EachOut ==
    ASSUME NEW o \in Counts, NEW s \in Services, NEW k \in Kinds
    PROVE  o[s][k] \in 0..MaxFlight /\ o[s][k] <= Cardinality(OutOf(o))
<1> DEFINE n == o[s][k]
           f == [i \in 1..n |-> <<s, k, i>>]
<1>1. n \in 0..MaxFlight /\ n \in Int /\ 1 \in Int /\ MaxFlight \in Nat
  BY BoundAssumption DEF Counts
<1>2. IsFiniteSet(1..n) /\ Cardinality(1..n) = IF 1 > n THEN 0 ELSE n - 1 + 1
  <2> HIDE DEF n
  <2> QED BY ONLY <1>1, FS_Interval
<1>3. Cardinality(1..n) = n
  <2> HIDE DEF n
  <2> QED BY <1>1, <1>2
<1>4. \A i \in 1..n : <<s, k, i>> \in OutOf(o)
  BY <1>1, OutFinite
<1> HIDE DEF n
<1>5. f \in Injection(1..n, OutOf(o))
  <2>1. f \in [1..n -> OutOf(o)]
    BY <1>4
  <2>2. \A i, j \in 1..n : f[i] = f[j] => i = j
    OBVIOUS
  <2> QED BY <2>1, <2>2 DEF Injection, IsInjective
<1>6. IsFiniteSet(OutOf(o))
  BY OutFinite
<1> HIDE DEF f
<1>7. Cardinality(1..n) <= Cardinality(OutOf(o))
  BY ONLY <1>5, <1>6, FS_Injection
<1> QED BY <1>1, <1>3, <1>7 DEF n

\* One more check of a kind, and one less.
LEMMA OneMore ==
    ASSUME NEW o \in Counts, NEW s \in Services, NEW k \in Kinds, o[s][k] < MaxFlight,
           NEW p, p = [o EXCEPT ![s][k] = @ + 1]
    PROVE  p \in Counts /\ Cardinality(OutOf(p)) = Cardinality(OutOf(o)) + 1
<1> DEFINE n == o[s][k]
           new == <<s, k, n + 1>>
<1>1. n \in 0..MaxFlight /\ MaxFlight \in Nat /\ n + 1 \in 1..MaxFlight
  BY BoundAssumption DEF Counts
<1>2. /\ p \in [Services -> [Kinds -> Int]] /\ p[s][k] = n + 1
      /\ \A x \in Services, y \in Kinds : x # s \/ y # k => p[x][y] = o[x][y]
  BY <1>1 DEF Counts
<1> HIDE DEF n
<1>3. p \in Counts
  BY <1>1, <1>2 DEF Counts
<1>4. new \notin OutOf(o)
  BY <1>1, OutFinite DEF n
<1>5. OutOf(p) = OutOf(o) \cup {new}
  <2>1. ASSUME NEW x \in Services, NEW y \in Kinds, NEW i \in 1..MaxFlight
        PROVE  i <= p[x][y] <=> i <= o[x][y] \/ <<x, y, i>> = new
    <3>1. CASE x = s /\ y = k
      BY <1>1, <1>2, <3>1 DEF n
    <3>2. CASE x # s \/ y # k
      BY <1>2, <3>2
    <3> QED BY <3>1, <3>2
  <2>2. /\ OutOf(p) \in SUBSET Numbered
        /\ \A x \in Services, y \in Kinds, i \in 1..MaxFlight : <<x, y, i>> \in OutOf(p) <=> i <= p[x][y]
    BY ONLY <1>3, OutFinite
  <2>3. /\ OutOf(o) \in SUBSET Numbered
        /\ \A x \in Services, y \in Kinds, i \in 1..MaxFlight : <<x, y, i>> \in OutOf(o) <=> i <= o[x][y]
    BY OutFinite
  <2>4. new \in Numbered
    BY <1>1 DEF Numbered
  <2> HIDE DEF new
  <2>5. OutOf(o) \cup {new} \in SUBSET Numbered
    BY <2>3, <2>4
  <2>6. \A x \in Services, y \in Kinds, i \in 1..MaxFlight :
           <<x, y, i>> \in OutOf(p) <=> <<x, y, i>> \in OutOf(o) \cup {new}
    BY <2>1, <2>2, <2>3
  <2> QED BY ONLY <2>2, <2>5, <2>6, SameNumbered
<1>6. IsFiniteSet(OutOf(o))
  BY OutFinite
<1> HIDE DEF new
<1>7. Cardinality(OutOf(o) \cup {new}) = Cardinality(OutOf(o)) + 1
  BY ONLY <1>4, <1>6, FS_AddElement
<1> QED BY <1>3, <1>5, <1>7

LEMMA OneLess ==
    ASSUME NEW o \in Counts, NEW s \in Services, NEW k \in Kinds, o[s][k] > 0,
           NEW p, p = [o EXCEPT ![s][k] = @ - 1]
    PROVE  p \in Counts /\ Cardinality(OutOf(p)) = Cardinality(OutOf(o)) - 1
<1>1. o[s][k] \in 0..MaxFlight /\ MaxFlight \in Nat /\ o[s][k] - 1 \in 0..MaxFlight
  BY BoundAssumption DEF Counts
<1>2. /\ p \in [Services -> [Kinds -> Int]] /\ p[s][k] = o[s][k] - 1
      /\ \A x \in Services, y \in Kinds : x # s \/ y # k => p[x][y] = o[x][y]
  BY <1>1 DEF Counts
<1>3. p \in Counts
  BY <1>1, <1>2 DEF Counts
<1>4. p[s][k] < MaxFlight /\ o = [p EXCEPT ![s][k] = @ + 1]
  <2>1. p[s][k] < MaxFlight /\ p[s][k] + 1 = o[s][k]
    BY <1>1, <1>2
  <2> DEFINE r == [p EXCEPT ![s][k] = @ + 1]
  <2>2. /\ r \in [Services -> [Kinds -> Int]] /\ r[s][k] = p[s][k] + 1
        /\ \A x \in Services, y \in Kinds : x # s \/ y # k => r[x][y] = p[x][y]
    BY <1>1, <1>2
  <2> HIDE DEF r
  <2>3. \A x \in Services, y \in Kinds : r[x][y] = o[x][y]
    BY <1>2, <2>1, <2>2
  <2>4. o \in [Services -> [Kinds -> Int]]
    BY DEF Counts
  <2>5. r = o
    BY <2>2, <2>3, <2>4
  <2> QED BY <2>1, <2>5 DEF r
<1>5. Cardinality(OutOf(o)) = Cardinality(OutOf(p)) + 1
  BY ONLY ZenonT(60), <1>3, <1>4, s \in Services, k \in Kinds, OneMore
<1>6. Cardinality(OutOf(p)) \in Nat
  BY <1>3, OutFinite
<1> QED BY <1>3, <1>5, <1>6

\* A result of s takes one check of its kind from those that are out and adds the
\* checks on demand that it starts.
LEMMA ReportedOut ==
    ASSUME outstanding \in Counts, NEW s \in Services, NEW kind, NEW demanded \in Demands(s),
           kind = "PASSIVE" \/ (kind \in Kinds /\ outstanding[s][kind] > 0)
    PROVE  /\ Reported(s, kind, demanded) \in Counts
           /\ IsFiniteSet(demanded) /\ Cardinality(demanded) \in Nat
           /\ Cardinality(OutOf(Reported(s, kind, demanded)))
                = InFlight + Cardinality(demanded) - (IF kind = "PASSIVE" THEN 0 ELSE 1)
<1> DEFINE o == IF kind = "PASSIVE" THEN outstanding ELSE [outstanding EXCEPT ![s][kind] = @ - 1]
           p == Reported(s, kind, demanded)
           less == IF kind = "PASSIVE" THEN 0 ELSE 1
           new(x) == <<x, "DEMAND", outstanding[x]["DEMAND"] + 1>>
           New == {new(x) : x \in demanded}
<1>1. demanded \subseteq Services \ {s} /\ "DEMAND" \in Kinds /\ ~("PASSIVE" \in Kinds)
  BY ServiceAssumption DEF Demands, Kinds
<1>2. IsFiniteSet(demanded) /\ Cardinality(demanded) \in Nat
  <2>1. IsFiniteSet(Services) /\ demanded \in SUBSET Services
    BY <1>1, BoundAssumption
  <2>2. IsFiniteSet(demanded)
    BY ONLY <2>1, FS_Subset
  <2> QED BY ONLY <2>2, FS_CardinalityType
<1>3. o \in Counts /\ Cardinality(OutOf(o)) = InFlight - less
  <2>1. InFlight = Cardinality(OutOf(outstanding)) /\ InFlight \in Nat
    BY OutFinite DEF InFlight, Out, OutOf, Numbered
  <2>2. CASE kind = "PASSIVE"
    BY <2>1, <2>2
  <2>3. CASE kind # "PASSIVE"
    <3>1. kind \in Kinds /\ outstanding[s][kind] > 0
      BY <2>3
    <3>2. o = [outstanding EXCEPT ![s][kind] = @ - 1] /\ less = 1
      BY <2>3
    <3> HIDE DEF o
    <3>3. o \in Counts /\ Cardinality(OutOf(o)) = Cardinality(OutOf(outstanding)) - 1
      BY ONLY <3>1, <3>2, outstanding \in Counts, s \in Services, OneLess
    <3> QED BY <2>1, <3>2, <3>3
  <2> QED BY <2>2, <2>3
<1>4. \A x \in Services, y \in Kinds :
         o[x][y] = IF x = s /\ y = kind THEN outstanding[x][y] - 1 ELSE outstanding[x][y]
  BY <1>1 DEF Counts
<1>5. \A x \in Services, y \in Kinds :
         p[x][y] = IF x \in demanded /\ y = "DEMAND" THEN o[x][y] + 1 ELSE o[x][y]
  BY <1>1, <1>4 DEF Reported
<1>6. p \in [Services -> [Kinds -> Int]]
  <2>1. \A x \in Services, y \in Kinds : outstanding[x][y] \in Int
    BY DEF Counts
  <2> QED BY <2>1 DEF Reported
<1>7. \A x \in demanded : x \in Services /\ x # s /\ o[x]["DEMAND"] = outstanding[x]["DEMAND"]
  BY <1>1, <1>4
<1> HIDE DEF o, p, less
<1>8. \A x \in Services, y \in Kinds : o[x][y] \in 0..MaxFlight
  BY <1>3 DEF Counts
<1>9. ASSUME NEW x \in demanded PROVE outstanding[x]["DEMAND"] + 1 \in 1..MaxFlight
  <2>1. InFlight + Cardinality(demanded) < MaxFlight
    BY DEF Demands
  <2>2. outstanding[x]["DEMAND"] \in 0..MaxFlight
        /\ outstanding[x]["DEMAND"] <= Cardinality(OutOf(outstanding))
    BY <1>1, <1>7, EachOut
  <2>3. InFlight = Cardinality(OutOf(outstanding)) /\ InFlight \in Nat
    BY OutFinite DEF InFlight, Out, OutOf, Numbered
  <2> QED BY <1>2, <2>1, <2>2, <2>3, BoundAssumption
<1>10. p \in Counts
  <2>1. ASSUME NEW x \in Services, NEW y \in Kinds PROVE p[x][y] \in 0..MaxFlight
    BY <1>5, <1>7, <1>8, <1>9
  <2> QED BY <1>6, <2>1 DEF Counts
<1>11. OutOf(p) = OutOf(o) \cup New
  <2>1. ASSUME NEW x \in Services, NEW y \in Kinds, NEW i \in 1..MaxFlight
        PROVE  i <= p[x][y] <=> i <= o[x][y] \/ <<x, y, i>> \in New
    <3>1. <<x, y, i>> \in New <=> x \in demanded /\ y = "DEMAND" /\ i = outstanding[x]["DEMAND"] + 1
      OBVIOUS
    <3> HIDE DEF New
    <3>2. CASE x \in demanded /\ y = "DEMAND"
      BY <1>5, <1>7, <1>8, <3>1, <3>2
    <3>3. CASE ~(x \in demanded /\ y = "DEMAND")
      BY <1>5, <3>1, <3>3
    <3> QED BY <3>2, <3>3
  <2>2. /\ OutOf(p) \in SUBSET Numbered
        /\ \A x \in Services, y \in Kinds, i \in 1..MaxFlight : <<x, y, i>> \in OutOf(p) <=> i <= p[x][y]
    BY ONLY <1>10, OutFinite
  <2>3. /\ OutOf(o) \in SUBSET Numbered
        /\ \A x \in Services, y \in Kinds, i \in 1..MaxFlight : <<x, y, i>> \in OutOf(o) <=> i <= o[x][y]
    BY ONLY <1>3, OutFinite
  <2>4. New \in SUBSET Numbered
    BY <1>1, <1>7, <1>9 DEF Numbered
  <2> HIDE DEF New
  <2>5. OutOf(o) \cup New \in SUBSET Numbered
    BY <2>3, <2>4
  <2>6. \A x \in Services, y \in Kinds, i \in 1..MaxFlight :
           <<x, y, i>> \in OutOf(p) <=> <<x, y, i>> \in OutOf(o) \cup New
    BY <2>1, <2>2, <2>3
  <2> QED BY ONLY <2>2, <2>5, <2>6, SameNumbered
<1>12. IsFiniteSet(New) /\ Cardinality(New) = Cardinality(demanded)
  <2> DEFINE f == [x \in demanded |-> new(x)]
  <2>1. f \in [demanded -> New] /\ \A c \in New : \E x \in demanded : f[x] = c
    OBVIOUS
  <2>2. \A x, y \in demanded : f[x] = f[y] => x = y
    OBVIOUS
  <2> HIDE DEF f, New
  <2>3. f \in Bijection(demanded, New)
    BY <2>1, <2>2 DEF Bijection, Injection, Surjection, IsInjective
  <2>4. ExistsBijection(demanded, New)
    BY <2>3 DEF ExistsBijection
  <2> QED BY ONLY <1>2, <2>4, FS_Bijection
<1>13. OutOf(o) \cap New = {}
  <2>1. ASSUME NEW x \in demanded PROVE new(x) \notin OutOf(o)
    <3>1. ~(outstanding[x]["DEMAND"] + 1 <= o[x]["DEMAND"])
      BY <1>1, <1>7, <1>8
    <3>2. \A i \in 1..MaxFlight : <<x, "DEMAND", i>> \in OutOf(o) <=> i <= o[x]["DEMAND"]
      BY <1>1, <1>3, <1>7, OutFinite
    <3> QED BY <1>9, <3>1, <3>2
  <2> QED BY <2>1
<1> HIDE DEF New
<1>14. IsFiniteSet(OutOf(o)) /\ Cardinality(OutOf(o)) \in Nat
  BY ONLY <1>3, OutFinite
<1>15. Cardinality(OutOf(o) \cup New)
         = Cardinality(OutOf(o)) + Cardinality(New) - Cardinality(OutOf(o) \cap New)
  BY ONLY <1>12, <1>14, FS_Union
<1>16. Cardinality({}) = 0
  BY FS_EmptySet
<1>17. Cardinality(OutOf(p)) = Cardinality(OutOf(o)) + Cardinality(demanded)
  <2> DEFINE all == Cardinality(OutOf(o) \cup New)
             both == Cardinality(OutOf(o) \cap New)
             was == Cardinality(OutOf(o))
             add == Cardinality(demanded)
  <2>1. all = was + add - both
    BY ONLY <1>12, <1>15
  <2>2. both = 0
    BY ONLY <1>13, <1>16
  <2>3. was \in Nat /\ add \in Nat
    BY ONLY <1>2, <1>14
  <2>4. all = Cardinality(OutOf(p))
    BY ONLY <1>11
  <2> HIDE DEF all, both, was, add
  <2>5. all = was + add
    BY ONLY <2>1, <2>2, <2>3
  <2> QED BY ONLY <2>4, <2>5 DEF was, add
<1>18. InFlight \in Nat /\ less \in {0, 1}
  BY OutFinite DEF InFlight, Out, OutOf, Numbered, less
<1>19. Cardinality(OutOf(p)) = InFlight + Cardinality(demanded) - less
  BY <1>2, <1>3, <1>14, <1>17, <1>18
<1> QED BY <1>2, <1>10, <1>19 DEF p, less

LEMMA LoopCount ==
    ASSUME CountInv, NEW s \in Services, queue # <<>> => Head(queue) \in Rec,
           Nudge(s) \/ Defer(s) \/ Refuse(s) \/ Start(s) \/ ForkFails(s)
    PROVE  CountInv'
<1>1. CASE Nudge(s) \/ Defer(s) \/ Refuse(s)
  <2>1. UNCHANGED <<outstanding, running, faults>>
    BY <1>1 DEF Nudge, Defer, Refuse, Postpone
  <2> QED BY <2>1 DEF CountInv, InFlight, Out
<1>2. CASE ForkFails(s)
  <2>1. running' = running + 1 /\ faults' = faults + 1 /\ outstanding' = outstanding /\ faults < MaxFaults
    BY <1>2 DEF ForkFails
  <2>2. InFlight' = InFlight /\ InFlight \in Nat
    BY <2>1, OutFinite DEF InFlight, Out, OutOf, Numbered, CountInv
  <2> QED BY <2>1, <2>2, BoundAssumption DEF CountInv
<1>3. CASE Start(s)
  <2> DEFINE k == KindOf(Head(queue).options)
  <2>1. /\ running' = running + 1 /\ faults' = faults /\ InFlight < MaxFlight
        /\ outstanding' = [outstanding EXCEPT ![s][k] = @ + 1]
    BY <1>3 DEF Start, Viable, Runs
  <2>2. k \in Kinds
    BY DEF KindOf, Kinds
  <2> HIDE DEF k
  <2>3. outstanding \in Counts /\ InFlight = Cardinality(OutOf(outstanding)) /\ InFlight \in Nat
    BY OutFinite DEF InFlight, Out, OutOf, Numbered, CountInv
  <2>4. outstanding[s][k] < MaxFlight
    <3>1. outstanding[s][k] \in 0..MaxFlight /\ outstanding[s][k] <= Cardinality(OutOf(outstanding))
      BY ONLY <2>2, <2>3, s \in Services, EachOut
    <3> QED BY <2>1, <2>3, <3>1, BoundAssumption
  <2>5. /\ outstanding' \in Counts
        /\ Cardinality(OutOf(outstanding')) = Cardinality(OutOf(outstanding)) + 1
    BY ONLY <2>1, <2>2, <2>3, <2>4, s \in Services, OneMore
  <2>6. InFlight' = Cardinality(OutOf(outstanding'))
    BY DEF InFlight, Out, OutOf, Numbered
  <2> QED BY <2>1, <2>3, <2>5, <2>6 DEF CountInv
<1> QED BY <1>1, <1>2, <1>3

LEMMA ResultCount ==
    ASSUME CountInv, NEW s \in Services, Reap(s) \/ Passive(s)
    PROVE  CountInv'
<1>1. PICK kind \in Kinds \cup {"PASSIVE"}, demanded \in Demands(s) :
         /\ kind = "PASSIVE" \/ (kind \in Kinds /\ outstanding[s][kind] > 0)
         /\ Handle(s, kind, demanded)
         /\ outstanding' = Reported(s, kind, demanded)
  BY DEF Reap, Passive
<1> DEFINE less == IF kind = "PASSIVE" THEN 0 ELSE 1
           add == Cardinality(demanded)
<1>2. outstanding \in Counts /\ InFlight = Cardinality(OutOf(outstanding)) /\ InFlight \in Nat
  BY OutFinite DEF InFlight, Out, OutOf, Numbered, CountInv
<1>3. /\ outstanding' \in Counts /\ add \in Nat
      /\ Cardinality(OutOf(outstanding')) = InFlight + add - less
  BY ONLY <1>1, <1>2, s \in Services, ReportedOut
<1>4. InFlight' = InFlight + add - less
  BY <1>3 DEF InFlight, Out, OutOf, Numbered
<1>5. faults' = faults /\ running' = Counted(s, kind) + add
  <2>1. CASE Discard(s, kind) /\ demanded = {}
    <3>1. Cardinality({}) = 0
      BY FS_EmptySet
    <3>2. Counted(s, kind) \in Nat
      BY DEF Counted, Less, CountInv
    <3> QED BY <2>1, <3>1, <3>2 DEF Discard
  <2>2. ASSUME NEW changed \in BOOLEAN, NEW next \in 1..Interval,
               Accept(s, kind, changed, next, demanded)
        PROVE  faults' = faults /\ running' = Counted(s, kind) + add
    BY <2>2 DEF Accept
  <2> QED BY <1>1, <2>1, <2>2 DEF Handle
<1>6. CASE kind = "PASSIVE"
  <2>1. running' = running + add /\ InFlight' = InFlight + add
    BY <1>2, <1>3, <1>4, <1>5, <1>6 DEF Counted
  <2> QED BY <1>2, <1>3, <1>5, <2>1 DEF CountInv
<1>7. CASE kind # "PASSIVE"
  <2>1. running' = Less(running) + add /\ InFlight' = InFlight + add - 1
    BY <1>2, <1>3, <1>4, <1>5, <1>7 DEF Counted
  <2>2. InFlight >= 1
    <3>1. outstanding[s][kind] \in 0..MaxFlight /\ outstanding[s][kind] <= Cardinality(OutOf(outstanding))
      BY <1>1, <1>2, <1>7, EachOut
    <3> QED BY <1>1, <1>2, <1>7, <3>1, BoundAssumption
  <2> QED BY <1>2, <1>3, <1>5, <2>1, <2>2, BoundAssumption DEF CountInv, Less
<1> QED BY <1>6, <1>7

LEMMA LoseCount ==
    ASSUME CountInv, NEW s \in Services, Lose(s)
    PROVE  CountInv'
<1>1. PICK k \in Kinds :
         outstanding[s][k] > 0 /\ outstanding' = [outstanding EXCEPT ![s][k] = @ - 1]
  BY DEF Lose
<1>2. outstanding \in Counts /\ InFlight = Cardinality(OutOf(outstanding)) /\ InFlight \in Nat
  BY OutFinite DEF InFlight, Out, OutOf, Numbered, CountInv
<1>3. /\ outstanding' \in Counts
      /\ Cardinality(OutOf(outstanding')) = Cardinality(OutOf(outstanding)) - 1
  BY ONLY <1>1, <1>2, s \in Services, OneLess
<1>4. InFlight' = InFlight - 1
  BY <1>2, <1>3 DEF InFlight, Out, OutOf, Numbered
<1>5. running' = running /\ faults' = faults + 1 /\ faults < MaxFaults
  BY DEF Lose
<1> QED BY <1>2, <1>3, <1>4, <1>5, BoundAssumption DEF CountInv

LEMMA StepCount == IInv /\ CountInv /\ [Next]_vars => CountInv'
<1> SUFFICES ASSUME IInv, CountInv, [Next]_vars PROVE CountInv'
  OBVIOUS
<1>0. InFlight \in Nat /\ (outstanding' = outstanding => InFlight' = InFlight)
  BY OutFinite DEF CountInv, InFlight, Out, OutOf, Numbered
<1>1. CASE EventLoop
  <2>1. PICK x \in Services : Nudge(x) \/ Defer(x) \/ Refuse(x) \/ Start(x) \/ ForkFails(x)
    BY <1>1 DEF EventLoop
  <2>2. queue # <<>> => Head(queue) \in Rec
    BY HeadTailProperties DEF IInv, Listed
  <2> QED BY <2>1, <2>2, LoopCount
<1>2. ASSUME NEW x \in Services, Reap(x) \/ Scan(x) \/ Outside(x)
      PROVE  CountInv'
  <2>1. CASE Reap(x) \/ Passive(x)
    BY <2>1, ResultCount
  <2>2. CASE Freshen(x) \/ Command(x) \/ Enable(x) \/ Disable(x)
    <3>1. UNCHANGED <<outstanding, running, faults>>
      BY <2>2 DEF Freshen, Command, Enable, Disable
    <3> QED BY <1>0, <3>1 DEF CountInv
  <2>3. CASE Lose(x)
    BY <2>3, LoseCount
  <2>4. CASE Orphan(x)
    <3>1. outstanding' = outstanding /\ faults' = faults /\ running' = Less(running)
      BY <2>4 DEF Orphan
    <3>2. Less(running) \in Nat /\ Less(running) <= running
      BY DEF CountInv, Less
    <3> QED BY <1>0, <3>1, <3>2, BoundAssumption DEF CountInv
  <2> QED BY <1>2, <2>1, <2>2, <2>3, <2>4 DEF Scan, Outside
<1>3. CASE Tick
  BY <1>0, <1>3 DEF Tick, CountInv
<1>4. CASE Restart
  <2>1. outstanding' = outstanding /\ running' = 0 /\ faults' = faults + 1 /\ faults < MaxFaults
    BY <1>4 DEF Restart
  <2> QED BY <1>0, <2>1, BoundAssumption DEF CountInv
<1>5. CASE UNCHANGED vars
  BY <1>0, <1>5 DEF vars, CountInv
<1> QED BY <1>1, <1>2, <1>3, <1>4, <1>5 DEF Next

LEMMA InitCount == Init => CountInv
<1> SUFFICES ASSUME Init PROVE CountInv
  OBVIOUS
<1>1. outstanding = [s \in Services |-> [k \in Kinds |-> 0]] /\ running = 0 /\ faults = 0
  BY DEF Init
<1>2. outstanding \in Counts
  BY <1>1, BoundAssumption DEF Counts
<1>3. InFlight \in Nat
  BY <1>2, OutFinite DEF InFlight, Out, OutOf, Numbered
<1> QED BY <1>1, <1>2, <1>3, BoundAssumption DEF CountInv

---------------------------------------------------------------------------------
(* Forced checks *)

StaysForced(s) ==
    svc[s].linked /\ Overridden(s) =>
        \/ svc'[s].linked /\ Forced(svc'[s].options) /\ (NotLater(queue', queue, s) \/ Restart)
        \/ svc'[s].executing

\* A step for one service keeps its forced check and those of the others.
LEMMA OneStays ==
    ASSUME Listed, Listed', NEW x \in Services, Others(x), Keeps(x), NEW s \in Services
    PROVE  StaysForced(s)
<1>1. CASE s = x
  BY <1>1 DEF Keeps, Kept, Overridden, StaysForced
<1>2. CASE s # x
  <2>1. NotLater(queue, queue, s)
    BY NotLaterItself DEF Listed
  <2>2. Range(queue') \subseteq Rec
    <3>1. queue' \in Seq(Rec)
      BY DEF Listed
    <3> QED BY <3>1, ElementOfSeq DEF Range
  <2>3. NotLater(queue', queue, s)
    BY <1>2, <2>1, <2>2 DEF Others, Same, NotLater
  <2> QED BY <1>2, <2>3 DEF Others, Overridden, StaysForced
<1> QED BY <1>1, <1>2

\* The clock brings every event nearer.
LEMMA TickStays ==
    ASSUME Listed, Tick, NEW s \in Services
    PROVE  StaysForced(s)
<1>1. svc'[s].linked = svc[s].linked /\ svc'[s].options = svc[s].options
  <2>1. PICK old \in SUBSET {x \in Freshness : ~svc[x].stale} :
           svc' = [x \in Services |-> [svc[x] EXCEPT !.next_check = Earlier(@),
                                                     !.stale = @ \/ x \in old]]
    BY DEF Tick
  <2> DEFINE n == Earlier(svc[s].next_check)
             m == svc[s].stale \/ s \in old
  <2>2. svc'[s] = [svc[s] EXCEPT !.next_check = n, !.stale = m] /\ svc[s] \in Svc
    BY <2>1 DEF Listed
  <2> HIDE DEF n, m
  <2> QED BY <2>2 DEF Svc
<1>2. Len(queue) \in Nat /\ DOMAIN queue = 1..Len(queue) /\ \A i \in 1..Len(queue) : queue[i] \in Rec
  BY LenProperties, ElementOfSeq DEF Listed
<1>3. queue' = [i \in 1..Len(queue) |-> [queue[i] EXCEPT !.at = @ - 1]]
  BY <1>2 DEF Tick
<1>4. \A i \in 1..Len(queue) : queue'[i].svc = queue[i].svc /\ queue'[i].at <= queue[i].at
  BY <1>2, <1>3 DEF Rec
<1>5. DOMAIN queue' = 1..Len(queue)
  BY <1>3
<1>6. ASSUME NEW e \in Range(queue'), NEW f \in Range(queue), e.svc = s, f.svc = s
      PROVE  e.at <= f.at
  <2>1. PICK i \in 1..Len(queue) : e = queue'[i]
    BY <1>5 DEF Range
  <2>2. PICK j \in 1..Len(queue) : f = queue[j]
    BY <1>2 DEF Range
  <2>3. i = j
    BY <1>2, <1>4, <1>6, <2>1, <2>2 DEF Listed, One
  <2> QED BY <1>4, <2>1, <2>2, <2>3
<1> QED BY <1>1, <1>6 DEF NotLater, Overridden, StaysForced

\* A restart schedules a check of every service whose options force one.
LEMMA RestartStays ==
    ASSUME Listed, Restart, NEW s \in Services
    PROVE  StaysForced(s)
<1>1. svc[s] \in Svc
  BY DEF Listed
<1>2. \E n, m : svc'[s] = [svc[s] EXCEPT !.should = svc[s].enabled, !.linked = AtStart(s),
                                        !.executing = FALSE, !.freshening = FALSE,
                                        !.stale = m, !.next_check = n]
  BY DEF Restart
<1>3. svc'[s].linked = AtStart(s) /\ svc'[s].options = svc[s].options
  BY <1>1, <1>2 DEF Svc
<1> QED BY <1>3 DEF AtStart, Overridden, StaysForced

LEMMA StepStays ==
    ASSUME IInv, [Next]_vars, NEW s \in Services
    PROVE  StaysForced(s)
<1>0. Listed /\ Listed'
  BY StepInv DEF IInv
<1>1. CASE EventLoop
  <2>1. PICK x \in Services : Nudge(x) \/ Defer(x) \/ Refuse(x) \/ Start(x) \/ ForkFails(x)
    BY <1>1 DEF EventLoop
  <2>2. Others(x) /\ Keeps(x)
    BY <2>1, LoopInv
  <2> QED BY <1>0, <2>2, OneStays
<1>2. ASSUME NEW x \in Services, Reap(x) \/ Scan(x) \/ Outside(x)
      PROVE  StaysForced(s)
  <2>1. CASE Reap(x) \/ Passive(x)
    <3>1. Others(x) /\ Keeps(x)
      BY <2>1, ResultInv
    <3> QED BY <1>0, <3>1, OneStays
  <2>2. CASE Orphan(x) \/ Freshen(x) \/ Command(x) \/ Enable(x) \/ Disable(x)
    <3>1. Others(x) /\ Keeps(x)
      BY <2>2, ScanInv
    <3> QED BY <1>0, <3>1, OneStays
  <2>3. CASE Lose(x)
    BY <1>0, <2>3, NotLaterItself DEF Lose, Listed, Overridden, StaysForced
  <2> QED BY <1>2, <2>1, <2>2, <2>3 DEF Scan, Outside
<1>3. CASE Tick
  BY <1>0, <1>3, TickStays
<1>4. CASE Restart
  BY <1>0, <1>4, RestartStays
<1>5. CASE UNCHANGED vars
  BY <1>0, <1>5, NotLaterItself DEF vars, Listed, Overridden, StaysForced
<1> QED BY <1>1, <1>2, <1>3, <1>4, <1>5 DEF Next

---------------------------------------------------------------------------------
(* Theorems *)

\* The event list holds at most one check of a service, and does exactly when the
\* pointer of the service is set (schedule_service_check(),
\* run_scheduled_service_check()).
THEOREM OneEventAlways == Spec => []OneEvent
<1>1. IInv => OneEvent
  <2> SUFFICES ASSUME Listed PROVE OneEvent
    BY DEF IInv
  <2>1. \A s \in Services : svc[s].linked <=> \E e \in Range(queue) : e.svc = s
    BY DEF Listed, Agrees
  <2>2. \A s : (\E e \in Range(queue) : e.svc = s) <=> \E i \in DOMAIN queue : queue[i].svc = s
    BY DEF Range
  <2> QED BY <2>1, <2>2 DEF Listed, One, OneEvent
<1> QED BY <1>1, Invariant, PTL

\* The check options of a service are those of its event (handle_timed_event()).
THEOREM OptionsAlwaysAgree == Spec => []OptionsAgree
<1>1. IInv => OptionsAgree
  <2> SUFFICES ASSUME Listed, NEW i \in DOMAIN queue
               PROVE  queue[i].options = svc[queue[i].svc].options
    BY DEF IInv, OptionsAgree
  <2>1. queue[i] \in Range(queue)
    BY DEF Range
  <2>2. queue[i].svc \in Services
    <3>1. queue[i] \in Rec
      BY LenProperties, ElementOfSeq DEF Listed
    <3> QED BY <3>1 DEF Rec
  <2> QED BY <2>1, <2>2 DEF Listed, Agrees
<1> QED BY <1>1, Invariant, PTL

\* A service that should be scheduled is in the list, or it executes and the
\* orphan check finds it (check_for_orphaned_services()).
THEOREM WatchedAlways == Spec => []Watched
<1>1. IInv => Watched
  BY DEF IInv, Listed, Found, Watched, Regular
<1> QED BY <1>1, Invariant, PTL

\* A check that was forced stays in the event list until it is run, and no other
\* request makes it later (schedule_service_check() and the event loop).
THEOREM ForcedAlwaysStays == Spec => ForcedStays
<1> DEFINE Stays(s) ==
        svc[s].linked /\ Overridden(s) =>
            \/ svc'[s].linked /\ Forced(svc'[s].options)
               /\ (EventOf(queue', s).at <= EventOf(queue, s).at \/ Restart)
            \/ svc'[s].executing
<1>1. ASSUME IInv, [Next]_vars, NEW s \in Services PROVE Stays(s)
  <2>1. Listed /\ Listed'
    BY <1>1, StepInv DEF IInv
  <2>2. StaysForced(s)
    BY <1>1, StepStays
  <2>3. ASSUME svc[s].linked, svc'[s].linked, NotLater(queue', queue, s)
        PROVE  EventOf(queue', s).at <= EventOf(queue, s).at
    <3>1. queue \in Seq(Rec) /\ One(queue) /\ \E e \in Range(queue) : e.svc = s
      BY <2>1, <2>3 DEF Listed, Agrees
    <3>2. queue' \in Seq(Rec) /\ One(queue') /\ \E e \in Range(queue') : e.svc = s
      BY <2>1, <2>3 DEF Listed, Agrees
    <3>3. EventOf(queue, s) \in Range(queue) /\ EventOf(queue, s).svc = s
      BY <3>1, WithoutEvents
    <3>4. EventOf(queue', s) \in Range(queue') /\ EventOf(queue', s).svc = s
      BY <3>2, WithoutEvents
    <3> QED BY <2>3, <3>3, <3>4 DEF NotLater
  <2> QED BY <2>2, <2>3 DEF StaysForced
<1>2. ASSUME IInv, [Next]_vars PROVE [\A s \in Services : Stays(s)]_vars
  BY <1>1, <1>2
<1>3. IInv /\ [Next]_vars => [\A s \in Services : Stays(s)]_vars
  BY <1>2
<1> QED BY <1>3, Invariant, PTL DEF Spec, ForcedStays

\* Every field keeps its range, the list is in the order of time, and
\* currently_running_service_checks is above the number of checks that are out by at
\* most the number of faults (run_scheduled_service_check(),
\* handle_async_service_check_result(), check_for_orphaned_services()).
THEOREM CountAlwaysBounded == Spec => []CountIsBounded
<1>1. IInv /\ Timely /\ CountInv => CountIsBounded
  <2> SUFFICES ASSUME Listed, Timely, CountInv PROVE CountIsBounded
    BY DEF IInv
  <2>1. svc \in [Services -> Service]
    <3>1. ASSUME NEW s \in Services PROVE svc[s] \in Service
      <4>1. svc[s] \in Svc /\ svc[s].next_check \in Times
        BY DEF Listed, Timely, Early
      <4> QED BY ZenonT(60), <4>1 DEF Svc, Service
    <3> QED BY <3>1 DEF Listed
  <2>2. ASSUME NEW i \in DOMAIN queue
        PROVE  queue[i] \in [svc : Services, at : Times, options : Options]
    <3>1. queue[i] \in Range(queue) /\ queue[i] \in Rec
      BY LenProperties, ElementOfSeq DEF Listed, Range
    <3>2. queue[i].at \in Times
      BY <3>1 DEF Timely, InTimes
    <3> QED BY <3>1, <3>2 DEF Rec
  <2> QED BY <2>1, <2>2 DEF Timely, Sorted, CountInv, Counts, TypeOK, CountIsBounded
<1>2. Init => IInv /\ Timely /\ CountInv
  BY InitInv, InitTimely, InitCount
<1>3. (IInv /\ Timely /\ CountInv) /\ [Next]_vars => (IInv /\ Timely /\ CountInv)'
  BY StepInv, StepTimely, StepCount
<1> QED BY <1>1, <1>2, <1>3, PTL DEF Spec
=================================================================================
