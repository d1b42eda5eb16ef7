-------------------------- MODULE JudgeServiceProofs --------------------------
(***************************************************************************)
(* Proofs about JudgeService for any tasks, runs, cache size, costs and    *)
(* number of handlers: types, that the cache holds the maxsize keys used   *)
(* last, how far the lives of the process overrun the budget, and that the *)
(* answers are those of VerdictMemo.                                       *)
(***************************************************************************)
EXTENDS JudgeService, FiniteSetTheorems, SequenceTheorems, TLAPS

(* Removing a position. *)
LEMMA RemoveAtProperties ==
    ASSUME NEW S, NEW s \in Seq(S), NEW i \in 1..Len(s)
    PROVE  /\ RemoveAt(s, i) \in Seq(S)
           /\ Len(RemoveAt(s, i)) = Len(s) - 1
           /\ \A j \in 1..(Len(s) - 1) :
                 RemoveAt(s, i)[j] = IF j < i THEN s[j] ELSE s[j + 1]
<1> DEFINE a == SubSeq(s, 1, i - 1)
           b == SubSeq(s, i + 1, Len(s))
<1>1. /\ Len(s) \in Nat /\ i \in Nat /\ i >= 1 /\ i <= Len(s) /\ i - 1 \in Int /\ i + 1 \in Int
      /\ 1 \in Int /\ Len(s) \in Int
  OBVIOUS
<1>2. \A j \in 1..Len(s) : s[j] \in S
  OBVIOUS
<1>3. /\ a \in Seq(S) /\ Len(a) = i - 1
      /\ \A j \in 1..(i - 1) : a[j] = s[j]
  <2>1. \A j \in 1..(i - 1) : s[j] \in S
    BY <1>1, <1>2
  <2>2. /\ a \in Seq(S) /\ Len(a) = IF 1 <= i - 1 THEN (i - 1) - 1 + 1 ELSE 0
        /\ \A j \in 1..((i - 1) - 1 + 1) : a[j] = s[1 + j - 1]
    BY <1>1, <2>1, SubSeqProperties, SMTT(20)
  <2> HIDE DEF a
  <2> QED
    BY <1>1, <2>2
<1>4. /\ b \in Seq(S) /\ Len(b) = Len(s) - i
      /\ \A j \in 1..(Len(s) - i) : b[j] = s[i + j]
  <2>1. \A j \in (i + 1)..Len(s) : s[j] \in S
    BY <1>1, <1>2
  <2>2. /\ b \in Seq(S) /\ Len(b) = IF i + 1 <= Len(s) THEN Len(s) - (i + 1) + 1 ELSE 0
        /\ \A j \in 1..(Len(s) - (i + 1) + 1) : b[j] = s[(i + 1) + j - 1]
    BY <1>1, <2>1, SubSeqProperties, SMTT(20)
  <2> HIDE DEF b
  <2> QED
    BY <1>1, <2>2
<1>5. RemoveAt(s, i) = a \o b
  BY DEF RemoveAt
<1> HIDE DEF a, b
<1>6. /\ a \o b \in Seq(S) /\ Len(a \o b) = Len(a) + Len(b)
      /\ \A j \in 1..(Len(a) + Len(b)) :
            (a \o b)[j] = IF j <= Len(a) THEN a[j] ELSE b[j - Len(a)]
  BY <1>3, <1>4, ConcatProperties, Zenon
<1> QED
  BY <1>1, <1>3, <1>4, <1>5, <1>6

-----------------------------------------------------------------------------
(* The cache against the history of uses, position by position. *)
Distinct(s) == \A i, j \in 1..Len(s) : s[i] = s[j] => i = j

LRUInv ==
    /\ Distinct(recency)
    /\ Len(cache) = IF Len(recency) <= MaxSize THEN Len(recency) ELSE MaxSize
    /\ \A i \in 1..Len(cache) :
          cache[i].key = recency[Len(recency) - Len(cache) + i]

LEMMA SeqFacts ==
    ASSUME TypeOK
    PROVE  /\ Len(cache) \in Nat /\ DOMAIN cache = 1..Len(cache)
           /\ Len(recency) \in Nat /\ DOMAIN recency = 1..Len(recency)
  BY DEF TypeOK

(* What Use(k) makes of the history. *)
LEMMA UseProperties ==
    ASSUME TypeOK, Distinct(recency), NEW k \in Keys, Use(k)
    PROVE  /\ recency' \in Seq(Keys) /\ Distinct(recency')
           /\ ~Used(k) => /\ Len(recency') = Len(recency) + 1
                          /\ recency'[Len(recency) + 1] = k
                          /\ \A i \in 1..Len(recency) : recency'[i] = recency[i]
           /\ Used(k) => /\ Since(k) \in 1..Len(recency) /\ recency[Since(k)] = k
                         /\ Len(recency') = Len(recency)
                         /\ recency'[Len(recency)] = k
                         /\ \A i \in 1..(Len(recency) - 1) :
                               recency'[i] = IF i < Since(k) THEN recency[i]
                                                             ELSE recency[i + 1]
<1> DEFINE n == Len(recency)
           q == Since(k)
<1>1. recency \in Seq(Keys) /\ n \in Nat /\ DOMAIN recency = 1..n
  BY DEF TypeOK
<1>2. CASE ~Used(k)
  <2>1. recency' = Append(recency, k)
    BY <1>2 DEF Use
  <2>2. /\ recency' \in Seq(Keys) /\ Len(recency') = n + 1 /\ recency'[n + 1] = k
        /\ \A i \in 1..n : recency'[i] = recency[i]
    BY <1>1, <2>1
  <2>3. \A i \in 1..n : recency[i] # k
    BY <1>1, <1>2 DEF Used
  <2>4. Distinct(recency')
    BY <1>1, <2>2, <2>3 DEF Distinct
  <2> QED
    BY <1>2, <2>2, <2>4
<1>3. CASE Used(k)
  <2>1. q \in 1..n /\ recency[q] = k
    BY <1>1, <1>3 DEF Used, Since
  <2> DEFINE r == RemoveAt(recency, q)
  <2>2. /\ r \in Seq(Keys) /\ Len(r) = n - 1
        /\ \A j \in 1..(n - 1) : r[j] = IF j < q THEN recency[j] ELSE recency[j + 1]
    BY <1>1, <2>1, RemoveAtProperties
  <2>3. recency' = Append(r, k)
    BY <1>3 DEF Use
  <2> HIDE DEF r, q, n
  <2>4. /\ recency' \in Seq(Keys) /\ Len(recency') = n /\ recency'[n] = k
        /\ \A j \in 1..(n - 1) : recency'[j] = r[j]
    BY <1>1, <2>1, <2>2, <2>3
  <2>5. \A i, j \in 1..n : recency[i] = recency[j] => i = j
    BY DEF Distinct, n
  <2>6. \A j \in 1..(n - 1) : r[j] # k
    BY <1>1, <2>1, <2>2, <2>5
  <2>7. ASSUME NEW i \in 1..n, NEW j \in 1..n, recency'[i] = recency'[j] PROVE i = j
    <3>1. CASE i = n \/ j = n
      BY <1>1, <2>1, <2>4, <2>6, <2>7, <3>1
    <3>2. CASE i # n /\ j # n
      <4>1. i \in 1..(n - 1) /\ j \in 1..(n - 1)
        BY <1>1, <3>2
      <4>2. r[i] = r[j]
        BY <2>4, <2>7, <4>1
      <4>3. ASSUME NEW l \in 1..(n - 1)
            PROVE  \E u \in 1..n : /\ r[l] = recency[u]
                                   /\ u = IF l < q THEN l ELSE l + 1
        BY <1>1, <2>1, <2>2
      <4>4. PICK u \in 1..n : r[i] = recency[u] /\ u = IF i < q THEN i ELSE i + 1
        BY <4>1, <4>3
      <4>5. PICK v \in 1..n : r[j] = recency[v] /\ v = IF j < q THEN j ELSE j + 1
        BY <4>1, <4>3
      <4>6. u = v
        BY <2>5, <4>2, <4>4, <4>5
      <4> QED
        BY <1>1, <2>1, <4>1, <4>4, <4>5, <4>6
    <3> QED
      BY <3>1, <3>2
  <2>8. Distinct(recency')
    BY <2>4, <2>7 DEF Distinct
  <2> QED
    BY <1>3, <2>1, <2>2, <2>4, <2>8 DEF n, q
<1> QED
  BY <1>2, <1>3

(* An entry that becomes the last one used, with the eviction that may cost. *)
LEMMA TouchKeeps ==
    ASSUME TypeOK, LRUInv, NEW k \in Keys, NEW e \in Entries, e.key = k,
           cache' = Evicted(Append(Without(k), e)), Use(k)
    PROVE  cache' \in Seq(Entries) /\ recency' \in Seq(Keys) /\ LRUInv'
<1> DEFINE n == Len(recency)
           m == Len(cache)
           w == Without(k)
           a == Append(w, e)
<1>1. /\ cache \in Seq(Entries) /\ m \in Nat /\ DOMAIN cache = 1..m
      /\ recency \in Seq(Keys) /\ n \in Nat /\ DOMAIN recency = 1..n
      /\ MaxSize \in Nat \ {0}
  BY ConstantsAssumption DEF TypeOK
<1>2. /\ Distinct(recency)
      /\ m = IF n <= MaxSize THEN n ELSE MaxSize
      /\ \A i \in 1..m : cache[i].key = recency[n - m + i]
  BY DEF LRUInv
<1>3. /\ recency' \in Seq(Keys) /\ Distinct(recency')
      /\ ~Used(k) => /\ Len(recency') = n + 1 /\ recency'[n + 1] = k
                     /\ \A i \in 1..n : recency'[i] = recency[i]
      /\ Used(k) => /\ Since(k) \in 1..n /\ recency[Since(k)] = k
                    /\ Len(recency') = n /\ recency'[n] = k
                    /\ \A i \in 1..(n - 1) :
                          recency'[i] = IF i < Since(k) THEN recency[i] ELSE recency[i + 1]
  BY <1>2, UseProperties
<1>4. cache' = IF Len(a) > MaxSize THEN Tail(a) ELSE a
  BY DEF Evicted
<1>5. CASE Holds(k)
  <2> DEFINE p == Place(k)
  <2>1. p \in 1..m /\ cache[p].key = k
    BY <1>1, <1>5 DEF Holds, Place
  <2>2. /\ w \in Seq(Entries) /\ Len(w) = m - 1
        /\ \A j \in 1..(m - 1) : w[j] = IF j < p THEN cache[j] ELSE cache[j + 1]
    BY <1>1, <1>5, <2>1, RemoveAtProperties DEF Without
  <2> HIDE DEF p, w, n, m
  <2>3. /\ a \in Seq(Entries) /\ Len(a) = m /\ a[m] = e
        /\ \A j \in 1..(m - 1) : a[j] = w[j]
    BY <1>1, <2>1, <2>2
  <2> HIDE DEF a
  <2>4. cache' = a
    BY <1>1, <1>2, <1>4, <2>3
  <2>5. recency[n - m + p] = k /\ n - m + p \in 1..n
    BY <1>1, <1>2, <2>1
  <2>6. Used(k) /\ Since(k) = n - m + p
    <3>1. Used(k)
      BY <1>1, <2>5 DEF Used
    <3>2. \A i, j \in 1..n : recency[i] = recency[j] => i = j
      BY <1>2 DEF Distinct, n
    <3> QED
      BY <1>3, <2>5, <3>1, <3>2
  <2>7. Len(recency') = n /\ Len(cache') = m
    BY <1>3, <2>3, <2>4, <2>6
  <2>8. ASSUME NEW i \in 1..m PROVE cache'[i].key = recency'[n - m + i]
    <3>1. CASE i = m
      BY <1>1, <1>3, <2>3, <2>4, <2>6, <3>1
    <3>2. CASE i # m
      <4>1. i \in 1..(m - 1) /\ n - m + i \in 1..(n - 1)
        BY <1>1, <1>2, <3>2
      <4>2. cache'[i] = IF i < p THEN cache[i] ELSE cache[i + 1]
        BY <2>2, <2>3, <2>4, <4>1
      <4>3. recency'[n - m + i] = IF i < p THEN recency[n - m + i]
                                           ELSE recency[n - m + i + 1]
        BY <1>1, <1>3, <2>1, <2>6, <4>1
      <4>4. i \in 1..m /\ i + 1 \in 1..m /\ n - m + (i + 1) = n - m + i + 1
        BY <1>1, <4>1
      <4> QED
        BY <1>2, <4>2, <4>3, <4>4
    <3> QED
      BY <3>1, <3>2
  <2>9. LRUInv'
    BY <1>2, <1>3, <2>7, <2>8 DEF LRUInv
  <2> QED
    BY <1>3, <2>3, <2>4, <2>9
<1>6. CASE ~Holds(k)
  <2>1. w = cache
    BY <1>6 DEF Without
  <2>2. \A i \in 1..m : cache[i].key # k
    BY <1>1, <1>6 DEF Holds
  <2> HIDE DEF w, n
  <2>3. /\ a \in Seq(Entries) /\ Len(a) = m + 1 /\ a[m + 1] = e
        /\ \A j \in 1..m : a[j] = cache[j]
    BY <1>1, <2>1
  <2> HIDE DEF a, m
  <2>4. /\ Tail(a) \in Seq(Entries) /\ Len(Tail(a)) = m
        /\ \A j \in 1..m : Tail(a)[j] = a[j + 1]
    <3>1. a # <<>>
      BY <1>1, <2>3
    <3>2. /\ Tail(a) \in Seq(Entries) /\ Len(Tail(a)) = Len(a) - 1
          /\ \A j \in 1..Len(Tail(a)) : Tail(a)[j] = a[j + 1]
      BY <2>3, <3>1, HeadTailProperties
    <3> QED
      BY <1>1, <2>3, <3>2
  <2>5. CASE n < MaxSize
    <3>1. m = n /\ cache' = a
      BY <1>1, <1>2, <1>4, <2>3, <2>5
    <3>2. ~Used(k)
      <4>1. \A i \in 1..n : i \in 1..m /\ n - m + i = i
        BY <1>1, <3>1
      <4>2. \A i \in 1..n : recency[i] # k
        BY <1>2, <2>2, <4>1
      <4> QED
        BY <1>1, <4>2 DEF Used
    <3>3. Len(recency') = n + 1 /\ Len(cache') = n + 1
      BY <1>3, <2>3, <3>1, <3>2
    <3>4. \A i \in 1..(n + 1) : cache'[i].key = recency'[i]
      BY <1>1, <1>2, <1>3, <2>3, <3>1, <3>2
    <3>5. LRUInv'
      BY <1>1, <1>3, <2>5, <3>3, <3>4 DEF LRUInv
    <3> QED
      BY <1>3, <2>3, <3>1, <3>5
  <2>6. CASE n >= MaxSize
    <3>1. m = MaxSize /\ cache' = Tail(a)
      BY <1>1, <1>2, <1>4, <2>3, <2>6
    <3>2. ASSUME NEW i \in 1..m
          PROVE  cache'[i].key = IF i = m THEN k ELSE recency[n - m + i + 1]
      <4>1. cache'[i] = a[i + 1]
        BY <2>4, <3>1
      <4>2. CASE i = m
        BY <2>3, <4>1, <4>2
      <4>3. CASE i # m
        <5>1. i + 1 \in 1..m /\ n - m + (i + 1) = n - m + i + 1
          BY <1>1, <4>3
        <5> QED
          BY <1>2, <2>3, <4>1, <4>3, <5>1
      <4> QED
        BY <4>2, <4>3
    <3>3. CASE ~Used(k)
      <4>1. Len(recency') = n + 1 /\ Len(cache') = m
        BY <1>3, <2>4, <3>1, <3>3
      <4>2. ASSUME NEW i \in 1..m PROVE cache'[i].key = recency'[n + 1 - m + i]
        <5>1. CASE i = m
          BY <1>1, <1>3, <3>2, <3>3, <5>1
        <5>2. CASE i # m
          <6>1. n - m + i + 1 \in 1..n /\ n + 1 - m + i = n - m + i + 1
            BY <1>1, <2>6, <3>1, <5>2
          <6> QED
            BY <1>3, <3>2, <3>3, <5>2, <6>1
        <5> QED
          BY <5>1, <5>2
      <4>3. Len(cache') = IF Len(recency') <= MaxSize THEN Len(recency') ELSE MaxSize
        BY <1>1, <2>6, <3>1, <4>1
      <4>4. LRUInv'
        <5>1. \A i \in 1..Len(cache') :
                 cache'[i].key = recency'[Len(recency') - Len(cache') + i]
          BY <1>1, <4>1, <4>2
        <5> QED
          BY <1>3, <4>3, <5>1 DEF LRUInv
      <4> QED
        BY <1>3, <2>4, <3>1, <4>4
    <3>4. CASE Used(k)
      <4> DEFINE q == Since(k)
      <4>1. q \in 1..n /\ recency[q] = k /\ Len(recency') = n /\ recency'[n] = k
        BY <1>3, <3>4
      <4>2. q <= n - m
        <5> SUFFICES ASSUME q > n - m PROVE FALSE
          BY <1>1, <4>1
        <5>1. q - (n - m) \in 1..m /\ n - m + (q - (n - m)) = q
          BY <1>1, <4>1
        <5> QED
          BY <1>2, <2>2, <4>1, <5>1
      <4>3. Len(cache') = m
        BY <2>4, <3>1
      <4>4. ASSUME NEW i \in 1..m PROVE cache'[i].key = recency'[n - m + i]
        <5>1. CASE i = m
          BY <1>1, <3>2, <4>1, <5>1
        <5>2. CASE i # m
          <6>1. n - m + i \in 1..(n - 1) /\ ~(n - m + i < q)
            BY <1>1, <2>6, <3>1, <4>1, <4>2, <5>2
          <6> QED
            BY <1>3, <3>2, <3>4, <5>2, <6>1
        <5> QED
          BY <5>1, <5>2
      <4>5. Len(cache') = IF Len(recency') <= MaxSize THEN Len(recency') ELSE MaxSize
        BY <1>1, <2>6, <3>1, <4>1, <4>3
      <4>6. LRUInv'
        BY <1>3, <4>1, <4>3, <4>4, <4>5 DEF LRUInv
      <4> QED
        BY <1>3, <2>4, <3>1, <4>6
    <3> QED
      BY <3>3, <3>4
  <2> QED
    BY <1>1, <2>5, <2>6
<1> QED
  BY <1>5, <1>6

LEMMA GetKeeps ==
    ASSUME TypeOK, LRUInv, NEW k \in Keys, Holds(k), Get(k), Use(k)
    PROVE  cache' \in Seq(Entries) /\ recency' \in Seq(Keys) /\ LRUInv'
<1> DEFINE e == cache[Place(k)]
           w == Without(k)
<1>1. cache \in Seq(Entries) /\ Len(cache) \in Nat /\ DOMAIN cache = 1..Len(cache)
  BY DEF TypeOK
<1>2. Place(k) \in 1..Len(cache) /\ e.key = k
  BY <1>1 DEF Holds, Place
<1>3. e \in Entries
  BY <1>1, <1>2
<1>4. w \in Seq(Entries) /\ Len(w) = Len(cache) - 1
  BY <1>1, <1>2, RemoveAtProperties DEF Without
<1>5. Len(cache) <= MaxSize
  BY <1>1, SeqFacts, ConstantsAssumption DEF LRUInv
<1>6. cache' = Append(w, e)
  BY DEF Get
<1> HIDE DEF w, e
<1>7. Evicted(Append(w, e)) = Append(w, e)
  BY <1>1, <1>3, <1>4, <1>5, ConstantsAssumption DEF Evicted
<1> QED
  BY <1>2, <1>3, <1>6, <1>7, TouchKeeps DEF w

LEMMA ConcludeKeeps ==
    ASSUME TypeOK, LRUInv, NEW r \in Requests, NEW x \in Scores, Conclude(r, x)
    PROVE  /\ cache' \in Seq(Entries) /\ recency' \in Seq(Keys) /\ LRUInv'
           /\ reply' \in Replies
<1> DEFINE v == [score |-> x, of |-> r.run]
           e == [key |-> KeyOf(r), verdict |-> v]
<1>1. v \in Verdicts
  BY DEF Verdicts, Requests
<1>2. KeyOf(r) \in Keys
  BY DEF KeyOf, Keys, TrajectoryHash, Hashes, Requests
<1>3. e \in Entries /\ e.key = KeyOf(r)
  BY <1>1, <1>2 DEF Entries
<1>4. cache' = Evicted(Append(Without(KeyOf(r)), e)) /\ Use(KeyOf(r))
  BY DEF Conclude, Set
<1>5. reply' = [from |-> "strategy", request |-> SubjectOf(r), verdict |-> v]
  BY DEF Conclude
<1>6. reply' \in Replies
  BY <1>1, <1>5 DEF Replies, SubjectOf, Subjects, Requests
<1> HIDE DEF e
<1> QED
  BY <1>2, <1>3, <1>4, <1>6, TouchKeeps

-----------------------------------------------------------------------------
(* The budget. *)
LEMMA ProductBound ==
    ASSUME NEW a \in Nat, NEW b \in Nat, NEW c \in Nat, b <= c
    PROVE  /\ a * b \in Nat /\ a * c \in Nat /\ a * b <= a * c
           /\ a * (b + 1) = a * b + a
<1>1. PICK d \in Nat : c = b + d
  <2>1. c - b \in Nat /\ c = b + (c - b)
    OBVIOUS
  <2> QED
    BY <2>1
<1>2. a * d \in Nat /\ a * b \in Nat
  OBVIOUS
<1>3. a * (b + d) = a * b + a * d
  OBVIOUS
<1> QED
  BY <1>1, <1>2, <1>3

LEMMA InFlightFacts ==
    /\ IsFiniteSet(InFlight)
    /\ Cardinality(InFlight) \in Nat /\ Cardinality(Handlers) \in Nat
    /\ Cardinality(InFlight) <= Cardinality(Handlers)
<1>1. InFlight \subseteq Handlers
  BY DEF InFlight
<1>2. IsFiniteSet(Handlers)
  BY ConstantsAssumption
<1> QED
  BY <1>1, <1>2, FS_Subset, FS_CardinalityType

(* What was billed and the tracker does not know of, on its own. *)
UnrecordedBounded == unrecorded <= OneLife * restarts + CallCost * (ungated + lost)

Inv == TypeOK /\ LRUInv /\ UnrecordedBounded /\ BilledBounded

LEMMA BudgetTypes ==
    ASSUME TypeOK
    PROVE  /\ OneLife \in Nat /\ CallCost \in Nat /\ unrecorded \in Nat /\ spent \in Nat
           /\ restarts \in Nat /\ ungated \in Nat /\ lost \in Nat
           /\ OneLife * restarts \in Nat /\ CallCost * (ungated + lost) \in Nat
           /\ OneLife * (1 + restarts) = OneLife * restarts + OneLife
           /\ CallCost * (ungated + 1 + lost) = CallCost * (ungated + lost) + CallCost
           /\ CallCost * (ungated + (lost + 1)) = CallCost * (ungated + lost) + CallCost
           /\ CallCost * Cardinality(InFlight) \in Nat
<1>1. /\ CallCost \in Nat /\ MaxCost - Estimate \in Nat
      /\ unrecorded \in Nat /\ spent \in Nat /\ restarts \in Nat
      /\ ungated \in Nat /\ lost \in Nat
  BY ConstantsAssumption DEF TypeOK
<1>2. CallCost * Cardinality(Handlers) \in Nat /\ CallCost * Cardinality(InFlight) \in Nat
  BY <1>1, InFlightFacts, ProductBound
<1>3. OneLife \in Nat
  BY <1>1, <1>2 DEF OneLife
<1>4. /\ OneLife * restarts \in Nat /\ OneLife * (restarts + 1) = OneLife * restarts + OneLife
      /\ 1 + restarts = restarts + 1
  BY <1>1, <1>3, ProductBound
<1>5. /\ ungated + lost \in Nat
      /\ ungated + 1 + lost = (ungated + lost) + 1
      /\ ungated + (lost + 1) = (ungated + lost) + 1
  BY <1>1
<1>6. /\ CallCost * (ungated + lost) \in Nat
      /\ CallCost * ((ungated + lost) + 1) = CallCost * (ungated + lost) + CallCost
  BY <1>1, <1>5, ProductBound
<1> QED
  BY <1>1, <1>2, <1>3, <1>4, <1>5, <1>6

LEMMA FlightType ==
    ASSUME TypeOK, NEW h \in Handlers, flight[h] # None
    PROVE  /\ flight[h] \in Flights
           /\ flight[h].kind = "evaluate" => flight[h].request \in Requests
  BY DEF TypeOK, Flights

(* A call that ends is no longer in flight. *)
LEMMA LandFrees ==
    ASSUME TypeOK, NEW h \in Handlers, flight[h] # None, Land(h)
    PROVE  /\ flight' \in [Handlers -> Flights \union {None}]
           /\ Cardinality(InFlight') \in Nat
           /\ Cardinality(InFlight) = Cardinality(InFlight') + 1
<1>1. flight \in [Handlers -> Flights \union {None}]
  BY DEF TypeOK
<1>2. InFlight' = InFlight \ {h} /\ h \in InFlight
  BY <1>1 DEF Land, InFlight
<1> QED
  BY <1>1, <1>2, InFlightFacts, FS_RemoveElement, FS_CardinalityType, FS_Subset DEF Land

(* It adds at most its cost, if that is recorded. *)
LEMMA LandKeeps ==
    ASSUME Inv, NEW h \in Handlers, flight[h] # None, Land(h), UNCHANGED <<ungated, lives>>,
           NEW c \in 0..CallCost, spent' = spent + c
    PROVE  spent' \in Nat /\ UnrecordedBounded' /\ BilledBounded'
<1> USE DEF Inv
<1>1. spent \in Nat /\ CallCost \in Nat /\ c \in Nat /\ c <= CallCost
  BY ConstantsAssumption DEF TypeOK
<1> DEFINE n == Cardinality(InFlight)
           m == Cardinality(InFlight')
           rhs == OneLife * (1 + restarts) + CallCost * (ungated + lost)
<1>2. m \in Nat /\ n = m + 1
  BY LandFrees
<1>3. CallCost * (m + 1) = CallCost * m + CallCost /\ CallCost * m \in Nat
  BY <1>1, <1>2, ProductBound
<1>4. rhs \in Nat /\ unrecorded \in Nat
  BY BudgetTypes
<1>5. BilledBounded <=> unrecorded + spent + CallCost * n <= rhs
  BY DEF BilledBounded
<1>6. BilledBounded' <=> unrecorded + spent' + CallCost * m <= rhs
  BY DEF BilledBounded, OneLife, lives
<1>7. UnrecordedBounded'
  BY DEF UnrecordedBounded, OneLife, lives
<1> HIDE DEF n, m, rhs
<1> QED
  BY <1>1, <1>2, <1>3, <1>4, <1>5, <1>6, <1>7

(* A request that was billed and lost adds as much to the bound as it cost. *)
LEMMA LoseKeeps ==
    ASSUME Inv, BilledInVain, UNCHANGED <<spent, ungated, restarts>>,
           Cardinality(InFlight') \in Nat, Cardinality(InFlight') <= Cardinality(InFlight)
    PROVE  lost' \in Nat /\ unrecorded' \in Nat /\ UnrecordedBounded' /\ BilledBounded'
<1> USE DEF Inv
<1>1. PICK c \in 1..CallCost : unrecorded' = unrecorded + c
  BY DEF BilledInVain
<1> DEFINE n == Cardinality(InFlight)
           m == Cardinality(InFlight')
           P == OneLife * restarts
           PP == OneLife * (1 + restarts)
           U == CallCost * (ungated + lost)
           UU == CallCost * (ungated + (lost + 1))
<1>2. /\ CallCost \in Nat /\ unrecorded \in Nat /\ spent \in Nat /\ lost \in Nat
      /\ P \in Nat /\ PP \in Nat /\ U \in Nat /\ UU = U + CallCost
  BY BudgetTypes
<1>3. lost' = lost + 1 /\ c \in Nat /\ c <= CallCost
  BY <1>2 DEF BilledInVain
<1>4. CallCost * m \in Nat /\ CallCost * n \in Nat /\ CallCost * m <= CallCost * n
  BY <1>2, InFlightFacts, ProductBound
<1>5. unrecorded <= P + U /\ unrecorded + spent + CallCost * n <= PP + U
  BY DEF UnrecordedBounded, BilledBounded
<1>6. UnrecordedBounded' <=> unrecorded' <= P + UU
  BY <1>3 DEF UnrecordedBounded, OneLife
<1>7. BilledBounded' <=> unrecorded' + spent + CallCost * m <= PP + UU
  BY <1>3 DEF BilledBounded, OneLife
<1> HIDE DEF n, m, P, PP, U, UU
<1> QED
  BY <1>1, <1>2, <1>3, <1>4, <1>5, <1>6, <1>7

(* A call starts that can be afforded. *)
LEMMA StartKeeps ==
    ASSUME Inv, CanAfford, UNCHANGED <<spent, ungated, lives>>
    PROVE  UnrecordedBounded' /\ BilledBounded'
<1> DEFINE m == Cardinality(InFlight')
           C == Cardinality(Handlers)
<1>1. m \in Nat /\ C \in Nat /\ m <= C
  <2>1. InFlight' \subseteq Handlers
    BY DEF InFlight
  <2> QED
    BY <2>1, ConstantsAssumption, FS_Subset, FS_CardinalityType
<1>2. /\ spent \in Nat /\ MaxCost \in Nat /\ Estimate \in Nat /\ CallCost \in Nat
      /\ spent + Estimate <= MaxCost
  BY ConstantsAssumption DEF Inv, TypeOK, CanAfford
<1>3. CallCost * m \in Nat /\ CallCost * C \in Nat /\ CallCost * m <= CallCost * C
  BY <1>1, <1>2, ProductBound
<1>4. spent + CallCost * m <= OneLife
  <2>1. OneLife = MaxCost - Estimate + CallCost * C
    BY DEF OneLife
  <2> HIDE DEF m, C
  <2> QED
    BY <1>2, <1>3, <2>1
<1>5. UnrecordedBounded'
  BY DEF Inv, UnrecordedBounded, OneLife, lives
<1>6. unrecorded <= OneLife * restarts + CallCost * (ungated + lost)
  BY DEF Inv, UnrecordedBounded
<1>7. /\ OneLife \in Nat /\ unrecorded \in Nat /\ OneLife * restarts \in Nat
      /\ CallCost * (ungated + lost) \in Nat
      /\ OneLife * (1 + restarts) = OneLife * restarts + OneLife
  BY BudgetTypes DEF Inv
<1>8. unrecorded + spent + CallCost * m <= OneLife * (1 + restarts) + CallCost * (ungated + lost)
  <2> HIDE DEF m
  <2> QED
    BY <1>2, <1>3, <1>4, <1>6, <1>7
<1>9. BilledBounded'
  BY <1>8 DEF BilledBounded, OneLife, lives
<1> QED
  BY <1>5, <1>9

(* A call starts that nobody asked to be affordable. *)
LEMMA AskKeeps ==
    ASSUME Inv, NEW h \in Handlers, flight[h] = None, NEW f \in Flights,
           flight' = [flight EXCEPT ![h] = f], ungated' = ungated + 1, UNCHANGED <<spent, lives>>
    PROVE  UnrecordedBounded' /\ BilledBounded'
<1> USE DEF Inv
<1>1. flight \in [Handlers -> Flights \union {None}] /\ CallCost \in Nat /\ ungated \in Nat
  BY ConstantsAssumption DEF TypeOK
<1>2. f # None
  BY DEF Flights, None
<1>3. InFlight' = InFlight \union {h} /\ h \notin InFlight
  BY <1>1, <1>2 DEF InFlight
<1> DEFINE n == Cardinality(InFlight)
           m == Cardinality(InFlight')
           L == OneLife * restarts
           LL == OneLife * (1 + restarts)
<1>4. n \in Nat /\ m = n + 1
  BY <1>3, InFlightFacts, FS_AddElement
<1>5. CallCost * (n + 1) = CallCost * n + CallCost /\ CallCost * n \in Nat
  <2> HIDE DEF n
  <2> QED
    BY <1>1, <1>4, ProductBound
<1>6. /\ unrecorded \in Nat /\ spent \in Nat /\ L \in Nat /\ CallCost * (ungated + lost) \in Nat
      /\ OneLife \in Nat /\ LL = L + OneLife
      /\ CallCost * (ungated + 1 + lost) = CallCost * (ungated + lost) + CallCost
  BY BudgetTypes
<1>7. unrecorded + spent + CallCost * n <= LL + CallCost * (ungated + lost)
  BY DEF BilledBounded
<1>8. unrecorded <= L + CallCost * (ungated + lost)
  BY DEF UnrecordedBounded
<1>9. BilledBounded' <=> unrecorded + spent + CallCost * m <= LL + CallCost * (ungated + 1 + lost)
  BY DEF BilledBounded, OneLife, lives
<1>10. UnrecordedBounded' <=> unrecorded <= L + CallCost * (ungated + 1 + lost)
  BY DEF UnrecordedBounded, OneLife, lives
<1> HIDE DEF n, m, L, LL
<1> QED
  BY <1>1, <1>4, <1>5, <1>6, <1>7, <1>8, <1>9, <1>10

(* The process is started again: what it spent, and what the calls under way
   may have cost, is within one more life. *)
LEMMA RestartKeeps == ASSUME Inv, Restart PROVE Inv'
<1> USE DEF Inv
<1>1. PICK c \in 0..(CallCost * Cardinality(InFlight)) : unrecorded' = unrecorded + spent + c
  BY DEF Restart
<1>2. /\ restarts' = restarts + 1 /\ cache' = <<>> /\ recency' = <<>> /\ spent' = 0
      /\ flight' = [h \in Handlers |-> None] /\ ungated' = ungated
      /\ lost' = lost /\ reply' = reply
  BY DEF Restart
<1> DEFINE k == CallCost * Cardinality(InFlight)
           LL == OneLife * (1 + restarts)
           U == CallCost * (ungated + lost)
<1>3. /\ k \in Nat /\ unrecorded \in Nat /\ spent \in Nat /\ restarts \in Nat /\ OneLife \in Nat
      /\ U \in Nat /\ LL \in Nat
  BY BudgetTypes
<1>4. unrecorded + spent + k <= LL + U
  BY DEF BilledBounded
<1> HIDE DEF k, LL, U
<1>5. c \in Nat /\ c <= k /\ unrecorded' = unrecorded + spent + c
  BY <1>1, <1>3 DEF k
<1>6. unrecorded' \in Nat /\ unrecorded' <= LL + U
  BY <1>3, <1>4, <1>5
<1>7. TypeOK'
  BY <1>2, <1>3, <1>6 DEF TypeOK
<1>8. LRUInv'
  BY <1>2, ConstantsAssumption DEF LRUInv, Distinct
<1>9. UnrecordedBounded'
  <2>1. restarts' = 1 + restarts
    BY <1>2, <1>3
  <2> QED
    BY <1>2, <1>6, <2>1 DEF UnrecordedBounded, OneLife, LL, U
<1>10. BilledBounded'
  <2>1. InFlight' = {}
    BY <1>2 DEF InFlight
  <2>2. Cardinality(InFlight') = 0
    BY <2>1, FS_EmptySet
  <2> DEFINE P == OneLife * restarts'
             Q == CallCost * (ungated' + lost')
  <2>3. /\ OneLife \in Nat /\ P \in Nat /\ Q \in Nat
        /\ OneLife * (1 + restarts') = P + OneLife
    <3>1. restarts' \in Nat /\ ungated' + lost' \in Nat /\ 1 + restarts' = restarts' + 1
      BY <1>2, <1>3, <1>7 DEF TypeOK
    <3>0. \A a, b \in Nat : a * b \in Nat /\ a * (b + 1) = a * b + a
      BY ProductBound
    <3>2. P \in Nat /\ OneLife * (restarts' + 1) = P + OneLife
      BY <1>3, <3>0, <3>1
    <3>3. Q \in Nat
      BY <3>0, <3>1, ConstantsAssumption
    <3> QED
      BY <1>3, <3>1, <3>2, <3>3
  <2>4. unrecorded' <= P + Q
    BY <1>9 DEF UnrecordedBounded, OneLife
  <2>5. CallCost * 0 = 0
    BY ConstantsAssumption
  <2> HIDE DEF P, Q
  <2>6. unrecorded' + 0 + CallCost * 0 <= (P + OneLife) + Q
    BY <1>6, <2>3, <2>4, <2>5
  <2>7. BilledBounded' <=> unrecorded' + spent' + CallCost * Cardinality(InFlight')
                              <= OneLife * (1 + restarts') + Q
    BY DEF BilledBounded, OneLife, Q
  <2> QED
    BY <1>2, <2>2, <2>3, <2>6, <2>7
<1> QED
  BY <1>7, <1>8, <1>9, <1>10

(* The stage of a call changes. *)
LEMMA StageKeeps ==
    ASSUME Inv, NEW h \in Handlers, flight[h] # None, NEW t \in Stages,
           flight' = [flight EXCEPT ![h].stage = t], UNCHANGED <<cache, spent, recency, ungated, lives, reply>>
    PROVE  Inv'
<1> USE DEF Inv
<1>1. flight[h] \in Flights
  BY FlightType
<1> DEFINE f == [flight[h] EXCEPT !.stage = t]
<1>2. f \in Flights /\ f # None
  BY <1>1 DEF Flights, None
<1>3. flight' = [flight EXCEPT ![h] = f]
  OBVIOUS
<1> HIDE DEF f
<1>4. flight \in [Handlers -> Flights \union {None}]
  BY DEF TypeOK
<1>5. flight' \in [Handlers -> Flights \union {None}] /\ InFlight' = InFlight
  BY <1>2, <1>3, <1>4 DEF InFlight
<1> QED
  BY <1>5 DEF TypeOK, LRUInv, UnrecordedBounded, BilledBounded, OneLife, lives

-----------------------------------------------------------------------------
LEMMA InitInv == Init => Inv
<1> SUFFICES ASSUME Init PROVE Inv
  OBVIOUS
<1> USE DEF Init
<1>1. TypeOK
  BY DEF TypeOK
<1>2. LRUInv
  BY ConstantsAssumption DEF LRUInv, Distinct
<1>3. InFlight = {}
  BY DEF InFlight
<1>4. /\ OneLife \in Nat /\ OneLife * restarts \in Nat /\ CallCost * (ungated + lost) \in Nat
      /\ OneLife * (1 + restarts) = OneLife * restarts + OneLife
  BY <1>1, BudgetTypes
<1>5. Cardinality(InFlight) = 0 /\ CallCost * 0 = 0
  BY <1>3, FS_EmptySet, ConstantsAssumption
<1>6. UnrecordedBounded
  BY <1>4 DEF UnrecordedBounded
<1>7. BilledBounded
  BY <1>4, <1>5 DEF BilledBounded
<1> QED
  BY <1>1, <1>2, <1>6, <1>7 DEF Inv

(* The cache and the answers change, the budget and the calls do not. *)
LEMMA AnswerKeeps ==
    ASSUME Inv, UNCHANGED <<spent, flight, ungated, lives>>, cache' \in Seq(Entries),
           recency' \in Seq(Keys), LRUInv', reply' \in Replies \union {NoReply}
    PROVE  Inv'
  BY DEF Inv, TypeOK, UnrecordedBounded, BilledBounded, OneLife, InFlight, lives

LEMMA EvaluateInv ==
    ASSUME Inv, NEW r \in Requests, Evaluate(r) PROVE Inv'
<1> USE DEF Inv
<1>0. KeyOf(r) \in Keys
  BY DEF KeyOf, Keys, TrajectoryHash, Hashes, Requests
<1>00. SubjectOf(r) \in Subjects
  BY DEF SubjectOf, Subjects, Requests
<1>1. CASE EvaluateHit(r)
  <2> DEFINE e == cache[Place(KeyOf(r))]
  <2>1. e \in Entries
    BY <1>1, SeqFacts DEF EvaluateHit, Holds, Place, TypeOK
  <2>2. reply' = [from |-> "cache", request |-> SubjectOf(r), verdict |-> e.verdict]
    BY <1>1 DEF EvaluateHit
  <2> HIDE DEF e
  <2>3. reply' \in Replies
    BY <1>00, <2>1, <2>2 DEF Replies, Entries
  <2>4. cache' \in Seq(Entries) /\ recency' \in Seq(Keys) /\ LRUInv'
    BY <1>0, <1>1, GetKeeps DEF EvaluateHit
  <2> QED
    BY <1>1, <2>3, <2>4, AnswerKeeps DEF EvaluateHit
<1>2. CASE EvaluateByRules(r)
  <2>1. RuleScore(r) \in Scores
    BY DEF RuleScore, Scores
  <2> QED
    BY <1>2, <2>1, ConcludeKeeps, AnswerKeeps DEF EvaluateByRules
<1>3. CASE EvaluateRefused(r)
  <2>1. reply' \in Replies
    BY <1>00, <1>3 DEF EvaluateRefused, Replies
  <2>2. UNCHANGED <<cache, spent, flight, recency, ungated, lives>>
    BY <1>3 DEF EvaluateRefused
  <2>3. cache' \in Seq(Entries) /\ recency' \in Seq(Keys) /\ LRUInv'
    BY <2>2 DEF TypeOK, LRUInv
  <2> QED
    BY <2>1, <2>2, <2>3, AnswerKeeps
<1>4. ASSUME NEW h \in Handlers, EvaluateByModel(h, r) PROVE Inv'
  <2> DEFINE f == [kind |-> "evaluate", stage |-> "call", request |-> r]
  <2>1. f \in Flights
    BY DEF Flights, Stages
  <2>2. /\ CanAfford /\ flight' = [flight EXCEPT ![h] = f]
        /\ UNCHANGED <<cache, spent, recency, ungated, lives, reply>>
    BY <1>4 DEF EvaluateByModel
  <2> HIDE DEF f
  <2>3. UnrecordedBounded' /\ BilledBounded'
    BY <2>2, StartKeeps
  <2> QED
    BY <2>1, <2>2, <2>3 DEF TypeOK, LRUInv, lives
<1> QED
  BY <1>1, <1>2, <1>3, <1>4 DEF Evaluate

LEMMA ModelStepInv ==
    ASSUME Inv, NEW h \in Handlers, ModelStep(h) PROVE Inv'
<1> USE DEF Inv
(* A call that ends, with a verdict if it was an evaluation. *)
<1>1. ASSUME flight[h] # None, Land(h), spent' \in Nat, lost' \in Nat, unrecorded' \in Nat,
             UNCHANGED <<ungated, restarts>>, UnrecordedBounded', BilledBounded',
             IF flight[h].kind = "evaluate"
             THEN \E x \in Scores : Conclude(flight[h].request, x)
             ELSE UNCHANGED <<cache, recency, reply>>
      PROVE  Inv'
  <2>1. flight' \in [Handlers -> Flights \union {None}]
    BY <1>1, LandFrees
  <2>2. CASE flight[h].kind = "evaluate"
    <3>1. PICK x \in Scores : Conclude(flight[h].request, x)
      BY <1>1, <2>2
    <3>2. flight[h].request \in Requests
      BY <1>1, <2>2, FlightType
    <3>3. /\ cache' \in Seq(Entries) /\ recency' \in Seq(Keys) /\ LRUInv'
          /\ reply' \in Replies
      BY <3>1, <3>2, ConcludeKeeps
    <3> QED
      BY <1>1, <2>1, <3>3 DEF TypeOK
  <2>3. CASE flight[h].kind # "evaluate"
    <3>1. UNCHANGED <<cache, recency, reply>>
      BY <1>1, <2>3
    <3> QED
      BY <1>1, <2>1, <3>1 DEF TypeOK, LRUInv
  <2> QED
    BY <2>2, <2>3
<1>2. CASE ModelAnswers(h)
  <2>1. PICK c \in 0..CallCost : spent' = spent + c
    BY <1>2 DEF ModelAnswers
  <2>2. ModelScores \union {0} \subseteq Scores
    BY ConstantsAssumption DEF Scores
  <2>3. flight[h] # None /\ Land(h) /\ UNCHANGED <<ungated, lives>>
    BY <1>2 DEF ModelAnswers, Calling
  <2>4. spent' \in Nat /\ UnrecordedBounded' /\ BilledBounded'
    BY <2>1, <2>3, LandKeeps
  <2>5. lost' \in Nat /\ unrecorded' \in Nat /\ UNCHANGED restarts
    BY <2>3 DEF TypeOK, lives
  <2> QED
    BY <1>1, <1>2, <2>2, <2>3, <2>4, <2>5 DEF ModelAnswers
<1>3. CASE ModelFails(h)
  <2>1. /\ flight[h] # None /\ Land(h) /\ UNCHANGED <<spent, ungated, restarts>>
        /\ 0 \in Scores
    BY <1>3 DEF ModelFails, Calling, Scores
  <2>2. CASE UNCHANGED <<lost, unrecorded>>
    <3>1. 0 \in 0..CallCost /\ spent' = spent + 0
      BY <2>1, ConstantsAssumption DEF TypeOK
    <3>2. spent' \in Nat /\ UnrecordedBounded' /\ BilledBounded'
      BY <2>1, <2>2, <3>1, LandKeeps DEF lives
    <3>3. lost' \in Nat /\ unrecorded' \in Nat
      BY <2>2 DEF TypeOK
    <3> QED
      BY <1>1, <1>3, <2>1, <3>2, <3>3 DEF ModelFails
  <2>3. CASE BilledInVain
    <3>1. Cardinality(InFlight') \in Nat /\ Cardinality(InFlight') <= Cardinality(InFlight)
      BY <2>1, LandFrees
    <3>2. lost' \in Nat /\ unrecorded' \in Nat /\ UnrecordedBounded' /\ BilledBounded'
      BY <2>1, <2>3, <3>1, LoseKeeps
    <3>3. spent' \in Nat
      BY <2>1 DEF TypeOK
    <3> QED
      BY <1>1, <1>3, <2>1, <3>2, <3>3 DEF ModelFails
  <2> QED
    BY <1>3, <2>2, <2>3 DEF ModelFails
<1>4. CASE RateLimited(h)
  BY <1>4, StageKeeps DEF RateLimited, Stages
<1>5. CASE Retry(h)
  BY <1>5, StageKeeps DEF Retry, Stages
<1> QED
  BY <1>2, <1>3, <1>4, <1>5 DEF ModelStep

LEMMA NextInv == Inv /\ [Next]_vars => Inv'
<1> SUFFICES ASSUME Inv, [Next]_vars PROVE Inv'
  OBVIOUS
<1>1. ASSUME NEW h \in Handlers, Pairwise(h) PROVE Inv'
  <2> DEFINE f == [kind |-> "pairwise", stage |-> "call"]
  <2>1. f \in Flights
    BY DEF Flights, Stages
  <2>2. /\ flight[h] = None /\ flight' = [flight EXCEPT ![h] = f]
        /\ ungated' = ungated + 1
        /\ UNCHANGED <<cache, spent, recency, lives, reply>>
    BY <1>1 DEF Pairwise
  <2> HIDE DEF f
  <2>3. UnrecordedBounded' /\ BilledBounded'
    BY <2>1, <2>2, AskKeeps
  <2> QED
    BY <2>1, <2>2, <2>3 DEF Inv, TypeOK, LRUInv, lives
<1>2. CASE ClearCache
  <2>1. cache' = <<>> /\ recency' = <<>> /\ UNCHANGED <<spent, flight, ungated, lives, reply>>
    BY <1>2 DEF ClearCache
  <2>2. LRUInv'
    BY <2>1, ConstantsAssumption DEF LRUInv, Distinct
  <2>3. reply' \in Replies \union {NoReply}
    BY <2>1 DEF Inv, TypeOK
  <2> QED
    BY <2>1, <2>2, <2>3, AnswerKeeps
<1>3. ASSUME NEW h \in Handlers, LibraryRetries(h) PROVE Inv'
  <2>1. /\ BilledInVain /\ UNCHANGED <<spent, ungated, restarts>>
        /\ UNCHANGED <<cache, flight, recency, reply>>
    BY <1>3 DEF LibraryRetries
  <2>2. InFlight' = InFlight
    BY <2>1 DEF InFlight
  <2>3. lost' \in Nat /\ unrecorded' \in Nat /\ UnrecordedBounded' /\ BilledBounded'
    BY <2>1, <2>2, InFlightFacts, LoseKeeps
  <2> QED
    BY <2>1, <2>3 DEF Inv, TypeOK, LRUInv
<1>4. CASE UNCHANGED vars
  BY <1>4 DEF vars, lives, Inv, TypeOK, LRUInv, UnrecordedBounded, BilledBounded, OneLife, InFlight
<1> QED
  BY <1>1, <1>2, <1>3, <1>4, RestartKeeps, EvaluateInv, ModelStepInv DEF Next

THEOREM Invariance == Spec => []Inv
<1> QED
  BY InitInv, NextInv, PTL DEF Spec

(* Types hold, for any cache size, budget and number of handlers. *)
THEOREM TypeCorrect == Spec => []TypeOK
<1>1. Inv => TypeOK
  BY DEF Inv
<1> QED
  BY Invariance, <1>1, PTL

(* What the model bills to all lives of the process, whether the tracker hears of
   it or not, is over max_cost_usd, once for every life, by the calls that were
   under way together, and besides by the comparisons and by the requests billed
   for a call that raised or was sent again, and by no more: for any number of
   handlers, restarts, comparisons and lost requests, and any prices. *)
THEOREM BudgetOvershoot == Spec => []BilledBounded
<1>1. Inv => BilledBounded
  BY DEF Inv
<1> QED
  BY Invariance, <1>1, PTL

(* JudgeCache is an LRU cache for any maxsize: get and set, in the order the
   event loop runs them, leave the maxsize keys used last. *)
THEOREM CacheIsLeastRecentlyUsed == Spec => []CacheIsLRU
<1>1. Inv => CacheIsLRU
  <2> SUFFICES ASSUME Inv PROVE CacheIsLRU
    OBVIOUS
  <2> DEFINE n == Len(recency)
             m == Len(cache)
             keys == [i \in DOMAIN cache |-> cache[i].key]
  <2>1. /\ n \in Nat /\ m \in Nat /\ DOMAIN cache = 1..m /\ recency \in Seq(Keys)
        /\ DOMAIN recency = 1..n /\ MaxSize \in Nat \ {0}
    BY SeqFacts, ConstantsAssumption DEF Inv, TypeOK
  <2>2. /\ m = IF n <= MaxSize THEN n ELSE MaxSize
        /\ \A i \in 1..m : cache[i].key = recency[n - m + i]
    BY DEF Inv, LRUInv
  <2>3. CASE n <= MaxSize
    <3>1. m = n /\ recency = [i \in 1..n |-> recency[i]]
      BY <2>1, <2>2, <2>3
    <3>2. \A i \in 1..n : cache[i].key = recency[i]
      BY <2>1, <2>2, <3>1
    <3>3. keys = [i \in 1..n |-> recency[i]]
      BY <2>1, <3>1, <3>2
    <3>4. keys = recency
      BY <3>1, <3>3
    <3> QED
      BY <2>3, <3>4 DEF CacheIsLRU, LastOf
  <2>4. CASE n > MaxSize
    <3> DEFINE t == SubSeq(recency, n - MaxSize + 1, n)
    <3>1. /\ t \in Seq(Keys)
          /\ Len(t) = IF n - MaxSize + 1 <= n THEN n - (n - MaxSize + 1) + 1 ELSE 0
          /\ \A i \in 1..(n - (n - MaxSize + 1) + 1) : t[i] = recency[(n - MaxSize + 1) + i - 1]
      <4>1. n - MaxSize + 1 \in Int /\ n \in Int
        BY <2>1
      <4>2. \A i \in (n - MaxSize + 1)..n : recency[i] \in Keys
        BY <2>1, <2>4
      <4> QED
        BY <4>1, <4>2, SubSeqProperties, SMTT(20)
    <3> HIDE DEF t
    <3>2. t \in Seq(Keys) /\ Len(t) = m /\ \A i \in 1..m : t[i] = recency[n - m + i]
      <4> HIDE DEF n, m
      <4>0. m = MaxSize
        <5>1. ~(n <= MaxSize)
          BY <2>1, <2>4
        <5> QED
          BY <2>2, <5>1
      <4>1. m = MaxSize /\ n - MaxSize + 1 <= n /\ n - (n - MaxSize + 1) + 1 = m
        BY <2>1, <4>0
      <4>2. \A i \in 1..m : (n - MaxSize + 1) + i - 1 = n - m + i
        BY <2>1, <4>1
      <4> QED
        BY <3>1, <4>1, <4>2
    <3>3. t = [i \in 1..m |-> t[i]]
      BY <2>1, <3>2
    <3>4. \A i \in 1..m : t[i] = cache[i].key
      BY <2>2, <3>2
    <3>5. t = keys
      BY <2>1, <3>3, <3>4
    <3>6. LastOf(recency, MaxSize) = t
      BY <2>1, <2>4 DEF LastOf, t
    <3> QED
      BY <3>5, <3>6 DEF CacheIsLRU
  <2> QED
    BY <2>1, <2>3, <2>4
<1> QED
  BY Invariance, <1>1, PTL
-----------------------------------------------------------------------------
(* The cache as a memory of verdicts. *)
Remembered(k) == {cache[i].verdict : i \in {j \in DOMAIN cache : cache[j].key = k}}

LEMMA OneEntryAKey ==
    ASSUME TypeOK, LRUInv
    PROVE  \A i, j \in 1..Len(cache) : cache[i].key = cache[j].key => i = j
<1> DEFINE n == Len(recency)
           m == Len(cache)
<1>1. m \in Nat /\ n \in Nat /\ m <= n
  BY SeqFacts, ConstantsAssumption DEF LRUInv
<1> SUFFICES ASSUME NEW i \in 1..m, NEW j \in 1..m, cache[i].key = cache[j].key PROVE i = j
  OBVIOUS
<1>2. n - m + i \in 1..n /\ n - m + j \in 1..n
  BY <1>1
<1>3. recency[n - m + i] = recency[n - m + j]
  BY DEF LRUInv
<1>4. n - m + i = n - m + j
  BY <1>2, <1>3 DEF LRUInv, Distinct
<1> QED
  BY <1>1, <1>4

(* A hit moves its entry; the memory is the same. *)
LEMMA HitRemembers ==
    ASSUME TypeOK, LRUInv, NEW k \in Keys, Holds(k), Get(k), NEW l
    PROVE  Remembered(l)' = Remembered(l)
<1> DEFINE m == Len(cache)
           q == Place(k)
           w == RemoveAt(cache, q)
<1>1. /\ cache \in Seq(Entries) /\ m \in Nat /\ DOMAIN cache = 1..m /\ q \in 1..m
  BY SeqFacts DEF TypeOK, Holds, Place
<1>2. /\ w \in Seq(Entries) /\ Len(w) = m - 1
      /\ \A j \in 1..(m - 1) : w[j] = IF j < q THEN cache[j] ELSE cache[j + 1]
  BY <1>1, RemoveAtProperties
<1>3. cache' = Append(w, cache[q]) /\ cache[q] \in Entries
  BY <1>1 DEF Get, Without
<1> HIDE DEF w, q, m
<1>4. /\ DOMAIN cache' = 1..m /\ cache'[m] = cache[q]
      /\ \A j \in 1..(m - 1) : cache'[j] = w[j]
  BY <1>1, <1>2, <1>3
<1>5. ASSUME NEW i \in 1..m PROVE \E j \in 1..m : cache'[i] = cache[j]
  <2>1. CASE i = m
    BY <1>1, <1>4, <2>1
  <2>2. CASE i # m
    <3>1. i \in 1..(m - 1) /\ i + 1 \in 1..m
      BY <1>1, <2>2
    <3> QED
      BY <1>2, <1>4, <3>1
  <2> QED
    BY <2>1, <2>2
<1>6. ASSUME NEW i \in 1..m PROVE \E j \in 1..m : cache[i] = cache'[j]
  <2>1. CASE i = q
    BY <1>1, <1>4, <2>1
  <2>2. CASE i < q
    <3>1. i \in 1..(m - 1)
      BY <1>1, <2>2
    <3> QED
      BY <1>2, <1>4, <2>2, <3>1
  <2>3. CASE i > q
    <3>1. i - 1 \in 1..(m - 1) /\ ~(i - 1 < q) /\ (i - 1) + 1 = i
      BY <1>1, <2>3
    <3>2. w[i - 1] = cache[i] /\ cache'[i - 1] = w[i - 1]
      BY <1>2, <1>4, <3>1
    <3>3. i - 1 \in 1..m
      BY <1>1, <3>1
    <3> QED
      BY <3>2, <3>3
  <2> QED
    BY <1>1, <2>1, <2>2, <2>3
<1>7. \A v : v \in Remembered(l) <=> \E i \in 1..m : cache[i].key = l /\ v = cache[i].verdict
  BY <1>1 DEF Remembered
<1>8. \A v : v \in Remembered(l)' <=> \E i \in 1..m : cache'[i].key = l /\ v = cache'[i].verdict
  BY <1>4 DEF Remembered
<1>9. \A v : v \in Remembered(l)' <=> v \in Remembered(l)
  BY <1>5, <1>6, <1>7, <1>8
<1> QED
  BY <1>9

(* A verdict that is written is remembered, what else was remembered is still,
   or forgotten. *)
LEMMA SetRemembers ==
    ASSUME TypeOK, LRUInv, NEW k \in Keys, NEW e \in Entries, e.key = k,
           cache' = Evicted(Append(Without(k), e))
    PROVE  /\ Remembered(k)' = {e.verdict}
           /\ \A l \in Keys \ {k} : Remembered(l)' \in {Remembered(l), {}}
<1> DEFINE m == Len(cache)
           q == Place(k)
           w == Without(k)
           a == Append(w, e)
<1>1. /\ cache \in Seq(Entries) /\ m \in Nat /\ DOMAIN cache = 1..m
  BY SeqFacts DEF TypeOK
<1>2. /\ w \in Seq(Entries) /\ Len(w) \in Nat
      /\ \A i \in 1..Len(w) : \E j \in 1..m : w[i] = cache[j] /\ cache[j].key # k
  <2>1. CASE ~Holds(k)
    <3>1. w = cache /\ \A j \in 1..m : cache[j].key # k
      BY <1>1, <2>1 DEF Holds, Without
    <3> QED
      BY <1>1, <3>1
  <2>2. CASE Holds(k)
    <3>1. q \in 1..m /\ cache[q].key = k
      BY <1>1, <2>2 DEF Holds, Place
    <3>2. w = RemoveAt(cache, q)
      BY <2>2 DEF Without
    <3>3. /\ w \in Seq(Entries) /\ Len(w) = m - 1
          /\ \A j \in 1..(m - 1) : w[j] = IF j < q THEN cache[j] ELSE cache[j + 1]
      BY <1>1, <3>1, <3>2, RemoveAtProperties
    <3>4. \A i, j \in 1..m : cache[i].key = cache[j].key => i = j
      BY OneEntryAKey
    <3> HIDE DEF w, q, m
    <3>5. ASSUME NEW i \in 1..Len(w) PROVE \E j \in 1..m : w[i] = cache[j] /\ cache[j].key # k
      <4>1. CASE i < q
        <5>1. i \in 1..(m - 1) /\ i \in 1..m /\ i # q
          BY <1>1, <3>1, <3>3, <4>1
        <5>2. cache[i].key # k
          BY <3>1, <3>4, <5>1
        <5> QED
          BY <3>3, <4>1, <5>1, <5>2
      <4>2. CASE ~(i < q)
        <5>1. i \in 1..(m - 1) /\ i + 1 \in 1..m /\ i + 1 # q
          BY <1>1, <3>1, <3>3, <4>2
        <5>2. cache[i + 1].key # k
          BY <3>1, <3>4, <5>1
        <5> QED
          BY <3>3, <4>2, <5>1, <5>2
      <4> QED
        BY <4>1, <4>2
    <3> QED
      BY <1>1, <3>1, <3>3, <3>5
  <2> QED
    BY <2>1, <2>2
<1> HIDE DEF w, m
<1>3. /\ a \in Seq(Entries) /\ Len(a) = Len(w) + 1 /\ a[Len(w) + 1] = e
      /\ \A i \in 1..Len(w) : a[i] = w[i]
  BY <1>2
<1>4. cache' = IF Len(a) > MaxSize THEN Tail(a) ELSE a
  BY DEF Evicted, w
<1> HIDE DEF a
<1>5. \E f \in {0, 1} : /\ DOMAIN cache' = 1..(Len(a) - f) /\ Len(a) - f >= 1
                         /\ \A i \in 1..(Len(a) - f) : cache'[i] = a[i + f]
  <2>1. CASE Len(a) > MaxSize
    <3>1. a # <<>>
      BY <1>2, <1>3
    <3>2. /\ DOMAIN Tail(a) = 1..(Len(a) - 1)
          /\ \A i \in 1..(Len(a) - 1) : Tail(a)[i] = a[i + 1]
      BY <1>3, <3>1
    <3>3. Len(a) - 1 >= 1
      BY <1>2, <1>3, <2>1, ConstantsAssumption
    <3> QED
      BY <1>4, <2>1, <3>2, <3>3
  <2>2. CASE ~(Len(a) > MaxSize)
    <3>1. cache' = a /\ DOMAIN a = 1..Len(a) /\ Len(a) >= 1 /\ Len(a) \in Nat
      BY <1>2, <1>3, <1>4, <2>2
    <3>2. Len(a) - 0 = Len(a) /\ \A i \in 1..Len(a) : i + 0 = i
      BY <3>1
    <3>3. \A i \in 1..Len(a) : cache'[i] = a[i + 0]
      BY <3>1, <3>2
    <3> QED
      BY <3>1, <3>2, <3>3
  <2> QED
    BY <2>1, <2>2
<1>6. PICK f \in {0, 1} : /\ DOMAIN cache' = 1..(Len(a) - f) /\ Len(a) - f >= 1
                          /\ \A i \in 1..(Len(a) - f) : cache'[i] = a[i + f]
  BY <1>5
<1>7. \E i \in DOMAIN cache' : cache'[i] = e
  <2>1. Len(a) - f \in 1..(Len(a) - f) /\ (Len(a) - f) + f = Len(w) + 1
    BY <1>2, <1>3, <1>6
  <2> QED
    BY <1>3, <1>6, <2>1
<1>8. \A i \in DOMAIN cache' :
          cache'[i] = e \/ \E j \in 1..m : cache'[i] = cache[j] /\ cache[j].key # k
  <2> SUFFICES ASSUME NEW i \in DOMAIN cache', cache'[i] # e
               PROVE  \E j \in 1..m : cache'[i] = cache[j] /\ cache[j].key # k
    OBVIOUS
  <2>1. i + f \in 1..(Len(w) + 1) /\ cache'[i] = a[i + f]
    BY <1>2, <1>3, <1>6
  <2>2. i + f # Len(w) + 1
    BY <1>3, <2>1
  <2>3. i + f \in 1..Len(w)
    BY <1>2, <2>1, <2>2
  <2> QED
    BY <1>2, <1>3, <2>1, <2>3
<1>9. Remembered(k)' = {e.verdict}
  <2>1. \A i \in DOMAIN cache' : cache'[i].key = k => cache'[i] = e
    BY <1>8
  <2> QED
    BY <1>7, <2>1 DEF Remembered
<1>10. ASSUME NEW l \in Keys \ {k} PROVE Remembered(l)' \in {Remembered(l), {}}
  <2>1. \A v \in Remembered(l)' : v \in Remembered(l)
    <3> SUFFICES ASSUME NEW v \in Remembered(l)' PROVE v \in Remembered(l)
      OBVIOUS
    <3>1. PICK i \in DOMAIN cache' : cache'[i].key = l /\ v = cache'[i].verdict
      BY DEF Remembered
    <3>2. cache'[i] # e
      BY <3>1
    <3>3. PICK j \in 1..m : cache'[i] = cache[j]
      BY <1>8, <3>2
    <3> QED
      BY <1>1, <3>1, <3>3 DEF Remembered
  <2>2. \A u, v \in Remembered(l) : u = v
    <3>1. \A i, j \in DOMAIN cache : cache[i].key = cache[j].key => i = j
      BY <1>1, OneEntryAKey DEF m
    <3> QED
      BY <3>1 DEF Remembered
  <2>3. CASE Remembered(l)' = {}
    BY <2>3
  <2>4. CASE Remembered(l)' # {}
    <3>1. PICK v \in Remembered(l)' : TRUE
      BY <2>4
    <3>2. \A u \in Remembered(l) : u = v
      BY <2>1, <2>2, <3>1
    <3>3. \A u : u \in Remembered(l) <=> u \in Remembered(l)'
      BY <2>1, <3>1, <3>2
    <3> QED
      BY <3>3
  <2> QED
    BY <2>3, <2>4
<1> QED
  BY <1>9, <1>10

(* What the memory and the last answer make of each step. *)
LEMMA MemoStutter ==
    ASSUME UNCHANGED <<cache, reply>>
    PROVE  [Memo!Next]_(Memo!vars)
  BY DEF Memo!vars

LEMMA ConcludeComputes ==
    ASSUME Inv, NEW r \in Requests, NEW x \in Scores, Conclude(r, x)
    PROVE  Memo!Compute
<1> DEFINE v == [score |-> x, of |-> r.run]
           e == [key |-> KeyOf(r), verdict |-> v]
<1>1. v \in Verdicts /\ KeyOf(r) \in Keys
  BY DEF Verdicts, Requests, KeyOf, Keys, TrajectoryHash, Hashes
<1>2. e \in Entries /\ e.key = KeyOf(r) /\ e.verdict = v
  BY <1>1 DEF Entries
<1>3. cache' = Evicted(Append(Without(KeyOf(r)), e))
  BY DEF Conclude, Set
<1>4. reply' = [from |-> "strategy", request |-> SubjectOf(r), verdict |-> v]
  BY DEF Conclude
<1>5. KeyOf(reply'.request) = KeyOf(r)
  BY <1>4 DEF KeyOf, SubjectOf, TrajectoryHash
<1> HIDE DEF e, v
<1>6. /\ Remembered(KeyOf(r))' = {v}
      /\ \A l \in Keys \ {KeyOf(r)} : Remembered(l)' \in {Remembered(l), {}}
  BY <1>1, <1>2, <1>3, SetRemembers DEF Inv
<1> QED
  BY <1>1, <1>4, <1>5, <1>6 DEF Memo!Compute, Remembered

LEMMA StepRemembers == Inv /\ [Next]_vars => [Memo!Next]_(Memo!vars)
<1> SUFFICES ASSUME Inv, [Next]_vars PROVE [Memo!Next]_(Memo!vars)
  OBVIOUS
<1>1. ASSUME NEW r \in Requests, EvaluateHit(r) PROVE Memo!Recall
  <2> DEFINE e == cache[Place(KeyOf(r))]
  <2>1. KeyOf(r) \in Keys /\ Holds(KeyOf(r)) /\ Get(KeyOf(r))
    BY <1>1 DEF EvaluateHit, KeyOf, Keys, TrajectoryHash, Hashes, Requests
  <2>2. reply' = [from |-> "cache", request |-> SubjectOf(r), verdict |-> e.verdict]
    BY <1>1 DEF EvaluateHit
  <2>3. KeyOf(reply'.request) = KeyOf(r)
    BY <2>2 DEF KeyOf, SubjectOf, TrajectoryHash
  <2>4. e.verdict \in Remembered(KeyOf(r))
    BY <2>1 DEF Holds, Place, Remembered
  <2>5. \A l \in Keys : Remembered(l)' = Remembered(l)
    BY <2>1, HitRemembers DEF Inv
  <2> HIDE DEF e
  <2> QED
    BY <2>1, <2>2, <2>3, <2>4, <2>5 DEF Memo!Recall, Remembered
<1>2. ASSUME NEW r \in Requests, EvaluateByRules(r) PROVE Memo!Compute
  BY <1>2, ConcludeComputes DEF EvaluateByRules, RuleScore, Scores
<1>3. ASSUME NEW r \in Requests, EvaluateRefused(r) PROVE Memo!Refuse
  BY <1>3 DEF EvaluateRefused, Memo!Refuse
<1>4. ASSUME NEW h \in Handlers, Calling(h), NEW x \in Scores,
             IF flight[h].kind = "evaluate" THEN Conclude(flight[h].request, x)
             ELSE UNCHANGED <<cache, recency, reply>>
      PROVE  [Memo!Next]_(Memo!vars)
  <2>1. CASE flight[h].kind = "evaluate"
    <3>1. flight[h].request \in Requests
      BY <1>4, <2>1, FlightType DEF Inv, Calling
    <3> QED
      BY <1>4, <2>1, <3>1, ConcludeComputes DEF Memo!Next
  <2>2. CASE flight[h].kind # "evaluate"
    BY <1>4, <2>2, MemoStutter
  <2> QED
    BY <2>1, <2>2
<1>5. ASSUME NEW h \in Handlers, ModelStep(h) PROVE [Memo!Next]_(Memo!vars)
  <2>1. CASE ModelAnswers(h)
    <3>1. ModelScores \union {0} \subseteq Scores
      BY ConstantsAssumption DEF Scores
    <3>2. PICK x \in Scores :
              IF flight[h].kind = "evaluate" THEN Conclude(flight[h].request, x)
              ELSE UNCHANGED <<cache, recency, reply>>
      BY <2>1, <3>1 DEF ModelAnswers
    <3> QED
      BY <1>4, <2>1, <3>2 DEF ModelAnswers
  <2>2. CASE ModelFails(h)
    BY <1>4, <2>2 DEF ModelFails, Scores
  <2>3. CASE RateLimited(h) \/ Retry(h)
    BY <2>3, MemoStutter DEF RateLimited, Retry
  <2> QED
    BY <1>5, <2>1, <2>2, <2>3 DEF ModelStep
<1>6. ASSUME NEW h \in Handlers, Pairwise(h) PROVE [Memo!Next]_(Memo!vars)
  BY <1>6, MemoStutter DEF Pairwise
<1>7. ASSUME NEW r \in Requests, NEW h \in Handlers, EvaluateByModel(h, r)
      PROVE  [Memo!Next]_(Memo!vars)
  BY <1>7, MemoStutter DEF EvaluateByModel
<1>8. ASSUME NEW h \in Handlers, LibraryRetries(h) PROVE [Memo!Next]_(Memo!vars)
  BY <1>8, MemoStutter DEF LibraryRetries
<1>9. CASE ClearCache \/ Restart
  <2>1. cache' = <<>> /\ reply' = reply
    BY <1>9 DEF ClearCache, Restart
  <2>2. DOMAIN cache' = {}
    BY <2>1
  <2> QED
    BY <2>1, <2>2 DEF Memo!Clear, Memo!Nothing, Memo!Next
<1>10. CASE UNCHANGED vars
  BY <1>10, MemoStutter DEF vars
<1> QED
  BY <1>1, <1>2, <1>3, <1>5, <1>6, <1>7, <1>8, <1>9, <1>10 DEF Next, Evaluate, Memo!Next

(* The judge's answers are those of a memory that may forget a verdict but
   recalls none but the last one computed under a key, however many handlers
   compute, hit, clear and evict at once. *)
THEOREM RecallsLastVerdict == Spec => ImplementsMemo
<1>1. Init => Memo!Init
  BY DEF Init, Memo!Init, Memo!Nothing, NoReply
<1> QED
  BY Invariance, StepRemembers, <1>1, PTL DEF Spec, ImplementsMemo, Memo!Spec
=============================================================================
