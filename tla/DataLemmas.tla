------------------------------ MODULE DataLemmas ------------------------------
(***************************************************************************)
(* Facts about data that the proofs about the modules share: induction     *)
(* over the naturals, ranks in a finite order, the selection of the        *)
(* elements of a sequence and the sum over a finite set.  An induction is  *)
(* over the set of the numbers that have the property in question.         *)
(***************************************************************************)
EXTENDS Integers, Sequences, FiniteSetTheorems, SequenceTheorems, TLAPS

LEMMA LeastNatural ==
    ASSUME NEW T \in SUBSET Nat, T # {}
    PROVE  \E x \in T : \A y \in T : x <= y
PROOF
<1>1. PICK x \in T : \A y \in T : ~(<<y, x>> \in OpToRel(<, Nat))
  BY NatLessThanWellFounded, WFMin
<1>2. \A y \in T : ~(y < x)
  BY <1>1 DEF OpToRel
<1> QED
  BY <1>2

LEMMA ByInduction ==
    ASSUME NEW T \in SUBSET Nat, 0 \in T, \A n \in T : n + 1 \in T
    PROVE  T = Nat
PROOF
<1> SUFFICES ASSUME Nat \ T # {} PROVE FALSE
  OBVIOUS
<1>1. PICK x \in Nat \ T : \A y \in Nat \ T : x <= y
  BY LeastNatural
<1>2. x - 1 \in Nat /\ x = (x - 1) + 1 /\ ~(x <= x - 1)
  OBVIOUS
<1> QED
  BY <1>1, <1>2

LEMMA GreatestNatural ==
    ASSUME NEW n \in Nat, NEW D \in SUBSET (1..n), D # {}
    PROVE  \E x \in D : \A y \in D : y <= x
PROOF
<1> DEFINE T == {n - d : d \in D}
<1>1. T \in SUBSET Nat /\ T # {}
  <2>1. \A d \in D : n - d \in Nat
    OBVIOUS
  <2> QED
    BY <2>1
<1>2. PICK m \in T : \A k \in T : m <= k
  BY <1>1, LeastNatural
<1>3. PICK x \in D : m = n - x
  BY <1>2
<1>4. \A y \in D : n - x <= n - y
  BY <1>2, <1>3
<1> QED
  BY <1>3, <1>4
-----------------------------------------------------------------------------
Below(R, O, r) == {s \in R : <<s, r>> \in O}

(* O orders the elements of R, one after the other. *)
Orders(O, R) ==
    /\ \A r \in R : <<r, r>> \notin O
    /\ \A r, s \in R : r # s => <<r, s>> \in O \/ <<s, r>> \in O
    /\ \A r, s, t \in R : <<r, s>> \in O /\ <<s, t>> \in O => <<r, t>> \in O

(* In a finite order every rank is taken. *)
LEMMA RankIsTaken ==
    ASSUME NEW R, IsFiniteSet(R), NEW O, Orders(O, R), NEW k \in 0..(Cardinality(R) - 1)
    PROVE  \E r \in R : Cardinality(Below(R, O, r)) = k
PROOF
<1> DEFINE n == Cardinality(R)
           rank == [r \in R |-> Cardinality(Below(R, O, r))]
<1>1. n \in Nat
  BY FS_CardinalityType
<1>2. \A r \in R : IsFiniteSet(Below(R, O, r)) /\ rank[r] \in 0..(n - 1)
  <2> SUFFICES ASSUME NEW r \in R
               PROVE  IsFiniteSet(Below(R, O, r)) /\ Cardinality(Below(R, O, r)) \in 0..(n - 1)
    OBVIOUS
  <2>1. Below(R, O, r) \in SUBSET R /\ r \notin Below(R, O, r)
    BY DEF Below, Orders
  <2>2. IsFiniteSet(Below(R, O, r)) /\ Cardinality(Below(R, O, r)) <= n /\ Cardinality(Below(R, O, r)) # n
    BY <2>1, FS_Subset
  <2>3. Cardinality(Below(R, O, r)) \in Nat
    BY <2>2, FS_CardinalityType
  <2> QED
    BY <2>2, <2>3, <1>1
<1>3. ASSUME NEW r \in R, NEW s \in R, <<r, s>> \in O
      PROVE  rank[r] # rank[s]
  <2>1. Below(R, O, r) \in SUBSET Below(R, O, s)
    BY <1>3 DEF Below, Orders
  <2>2. r \in Below(R, O, s) /\ r \notin Below(R, O, r)
    BY <1>3 DEF Below, Orders
  <2>3. Cardinality(Below(R, O, s)) # Cardinality(Below(R, O, r))
    BY <1>2, <2>1, <2>2, FS_Subset
  <2> QED
    BY <2>3
<1>4. rank \in Injection(R, 0..(n - 1))
  <2>1. rank \in [R -> 0..(n - 1)]
    BY <1>2
  <2>2. \A r, s \in R : rank[r] = rank[s] => r = s
    BY <1>3 DEF Orders
  <2> HIDE DEF rank, n
  <2> QED
    BY <2>1, <2>2 DEF Injection, IsInjective
<1>5. IsFiniteSet(0..(n - 1)) /\ Cardinality(0..(n - 1)) = n
  BY <1>1, FS_Interval
<1>6. rank \in Surjection(R, 0..(n - 1))
  BY <1>4, <1>5, FS_Injection
<1> QED
  BY <1>6 DEF Surjection
-----------------------------------------------------------------------------
(* The equation of the elements of s in K, up to each place of s. *)
Selecting(f, s, K, m) ==
    f = [n \in 0..m |-> IF n = 0 THEN <<>>
                        ELSE IF s[n] \in K THEN Append(f[n - 1], s[n]) ELSE f[n - 1]]

(* t holds the elements of s up to n that are in K, in order: its place i comes
   from place at[i] of s. *)
PicksOut(at, t, s, K, n) ==
    /\ at \in [1..Len(t) -> {i \in 1..n : s[i] \in K}]
    /\ \A i, k \in 1..Len(t) : i < k => at[i] < at[k]
    /\ \A i \in 1..n : s[i] \in K => \E k \in 1..Len(t) : at[k] = i
    /\ \A k \in 1..Len(t) : t[k] = s[at[k]]

LEMMA SelectingHasSolution ==
    ASSUME NEW s, NEW K, NEW m \in Nat
    PROVE  \E f : Selecting(f, s, K, m)
PROOF
<1> DEFINE T == {n \in Nat : \E f : Selecting(f, s, K, n)}
<1>1. 0 \in T
  <2>1. Selecting([n \in 0..0 |-> <<>>], s, K, 0)
    BY DEF Selecting
  <2> QED
    BY <2>1
<1>2. ASSUME NEW n \in T PROVE n + 1 \in T
  <2>1. PICK f : Selecting(f, s, K, n)
    OBVIOUS
  <2> DEFINE Next(h, i) == IF i = 0 THEN <<>>
                           ELSE IF s[i] \in K THEN Append(h[i - 1], s[i]) ELSE h[i - 1]
             g == [i \in 0..(n + 1) |-> Next(f, i)]
  <2>2. \A i \in 0..n : f[i] = Next(f, i)
    BY <2>1 DEF Selecting
  <2>3. \A i \in 0..n : g[i] = f[i]
    BY <2>2
  <2>4. \A i \in 0..(n + 1) : i # 0 => i - 1 \in 0..n
    OBVIOUS
  <2> HIDE DEF g
  <2>5. \A i \in 0..(n + 1) : Next(f, i) = Next(g, i)
    BY <2>3, <2>4
  <2>6. g = [i \in 0..(n + 1) |-> Next(g, i)]
    BY <2>5 DEF g
  <2>7. Selecting(g, s, K, n + 1)
    BY <2>6 DEF Selecting
  <2> QED
    BY <2>7
<1> HIDE DEF T
<1>3. T = Nat
  BY <1>1, <1>2, ByInduction DEF T
<1> QED
  BY <1>3 DEF T

LEMMA SelectingPicksOut ==
    ASSUME NEW V, NEW s \in Seq(V), NEW K, NEW f, Selecting(f, s, K, Len(s))
    PROVE  f[Len(s)] \in Seq(V) /\ \E at : PicksOut(at, f[Len(s)], s, K, Len(s))
PROOF
<1> DEFINE Good(n) == f[n] \in Seq(V) /\ \E at : PicksOut(at, f[n], s, K, n)
           T == {n \in Nat : n <= Len(s) => Good(n)}
<1>0. Len(s) \in Nat
  OBVIOUS
<1>1. 0 \in T
  <2>1. f[0] = <<>>
    BY <1>0 DEF Selecting
  <2>2. PicksOut(<<>>, <<>>, s, K, 0)
    BY DEF PicksOut
  <2>3. f[0] \in Seq(V) /\ PicksOut(<<>>, f[0], s, K, 0)
    BY <2>1, <2>2
  <2>4. Good(0)
    BY <2>3
  <2> HIDE DEF Good
  <2> QED
    BY <2>4
<1>2. ASSUME NEW n \in T PROVE n + 1 \in T
  <2> SUFFICES ASSUME n + 1 <= Len(s) PROVE Good(n + 1)
    OBVIOUS
  <2> DEFINE t == f[n]
  <2>1. t \in Seq(V) /\ n + 1 \in 1..Len(s) /\ s[n + 1] \in V
    BY <1>0
  <2>2. PICK at : PicksOut(at, t, s, K, n)
    BY <1>0
  <2>3. f[n + 1] = IF s[n + 1] \in K THEN Append(t, s[n + 1]) ELSE t
    <3>1. n + 1 \in 0..Len(s) /\ n + 1 # 0 /\ (n + 1) - 1 = n
      BY <2>1
    <3> QED
      BY <3>1 DEF Selecting
  <2> HIDE DEF t
  <2>4. CASE s[n + 1] \notin K
    <3>1. PicksOut(at, t, s, K, n + 1)
      BY <2>2, <2>4 DEF PicksOut
    <3> QED
      BY <3>1, <2>1, <2>3, <2>4
  <2>5. CASE s[n + 1] \in K
    <3> DEFINE u == Append(t, s[n + 1])
               l == Len(t)
               bt == [k \in 1..(l + 1) |-> IF k = l + 1 THEN n + 1 ELSE at[k]]
    <3>1. /\ u \in Seq(V) /\ l \in Nat /\ Len(u) = l + 1
          /\ \A k \in 1..l : u[k] = t[k]
          /\ u[l + 1] = s[n + 1]
      BY <2>1
    <3> HIDE DEF u
    <3>2. \A k \in 1..l : at[k] \in 1..n /\ s[at[k]] \in K
      BY <2>2 DEF PicksOut
    <3>3. \A k \in 1..(l + 1) : k = l + 1 \/ k \in 1..l
      BY <3>1
    <3>7. l + 1 \notin 1..l /\ l + 1 \in 1..(l + 1) /\ \A k \in 1..l : k \in 1..(l + 1) /\ k # l + 1
      BY <3>1
    <3> HIDE DEF l
    <3>8. bt[l + 1] = n + 1 /\ \A k \in 1..l : bt[k] = at[k]
      BY <3>7
    <3>4. bt \in [1..(l + 1) -> {i \in 1..(n + 1) : s[i] \in K}]
      BY <3>2, <3>3, <2>5
    <3> HIDE DEF bt
    <3>5. \A i, k \in 1..(l + 1) : i < k => bt[i] < bt[k]
      <4> SUFFICES ASSUME NEW i \in 1..(l + 1), NEW k \in 1..(l + 1), i < k
                   PROVE  bt[i] < bt[k]
        OBVIOUS
      <4>1. i \in 1..l
        BY <3>1
      <4>2. CASE k = l + 1
        BY <4>1, <4>2, <3>2, <3>8
      <4>3. CASE k \in 1..l
        BY <4>1, <4>3, <3>8, <2>2 DEF PicksOut, l
      <4> QED
        BY <4>2, <4>3, <3>3
    <3>6. \A i \in 1..(n + 1) : s[i] \in K => \E k \in 1..(l + 1) : bt[k] = i
      <4> SUFFICES ASSUME NEW i \in 1..(n + 1), s[i] \in K
                   PROVE  \E k \in 1..(l + 1) : bt[k] = i
        OBVIOUS
      <4>1. CASE i = n + 1
        BY <4>1, <3>7, <3>8
      <4>2. CASE i \in 1..n
        BY <4>2, <2>2, <3>7, <3>8 DEF PicksOut, l
      <4> QED
        BY <4>1, <4>2
    <3>9. \A k \in 1..(l + 1) : u[k] = s[bt[k]]
      <4> SUFFICES ASSUME NEW k \in 1..(l + 1) PROVE u[k] = s[bt[k]]
        OBVIOUS
      <4>1. CASE k = l + 1
        BY <4>1, <3>1, <3>8
      <4>2. CASE k \in 1..l
        <5>1. t[k] = s[at[k]]
          BY <4>2, <2>2 DEF PicksOut, l
        <5> QED
          BY <5>1, <4>2, <3>1, <3>8
      <4> QED
        BY <4>1, <4>2, <3>3
    <3>10. PicksOut(bt, u, s, K, n + 1)
      BY <3>1, <3>4, <3>5, <3>6, <3>9 DEF PicksOut
    <3> QED
      BY <3>1, <3>10, <2>3, <2>5 DEF u
  <2> QED
    BY <2>4, <2>5
<1> HIDE DEF T
<1>3. T = Nat
  BY <1>1, <1>2, ByInduction DEF T
<1> QED
  BY <1>0, <1>3 DEF T
-----------------------------------------------------------------------------
(* The equation of the sum of g over the subsets of S, element by element. *)
Any(s) == CHOOSE x \in s : TRUE

Summing(f, g, D) == f = [s \in D |-> IF s = {} THEN 0 ELSE g[Any(s)] + f[s \ {Any(s)}]]

LEMMA SumIsNatural ==
    ASSUME NEW S, IsFiniteSet(S), NEW g \in [S -> Nat]
    PROVE  /\ \E f : Summing(f, g, SUBSET S)
           /\ \A f : Summing(f, g, SUBSET S) => f[S] \in Nat
PROOF
<1> DEFINE Small(n) == {s \in SUBSET S : Cardinality(s) <= n}
           E == {n \in Nat : \E f : Summing(f, g, Small(n))}
<1>1. \A s \in SUBSET S : IsFiniteSet(s) /\ Cardinality(s) \in Nat
  BY FS_Subset, FS_CardinalityType
<1>2. \A s \in SUBSET S : s # {} =>
         Any(s) \in s /\ s \ {Any(s)} \in SUBSET S
            /\ Cardinality(s \ {Any(s)}) = Cardinality(s) - 1 /\ Cardinality(s) # 0
  <2> SUFFICES ASSUME NEW s \in SUBSET S, s # {}
               PROVE  Any(s) \in s /\ s \ {Any(s)} \in SUBSET S
                         /\ Cardinality(s \ {Any(s)}) = Cardinality(s) - 1 /\ Cardinality(s) # 0
    OBVIOUS
  <2>1. Any(s) \in s
    BY DEF Any
  <2> QED
    BY <2>1, <1>1, FS_RemoveElement, FS_EmptySet
<1>3. 0 \in E
  <2>1. \A s \in Small(0) : s = {}
    BY <1>1, FS_EmptySet
  <2>2. Summing([s \in Small(0) |-> 0], g, Small(0))
    BY <2>1 DEF Summing
  <2> QED
    BY <2>2
<1>4. ASSUME NEW n \in E PROVE n + 1 \in E
  <2>1. PICK f : Summing(f, g, Small(n))
    OBVIOUS
  <2> DEFINE Sum(h, s) == IF s = {} THEN 0 ELSE g[Any(s)] + h[s \ {Any(s)}]
             h == [s \in Small(n + 1) |-> Sum(f, s)]
  <2>2. \A s \in Small(n) : s \in Small(n + 1) /\ f[s] = Sum(f, s)
    <3>1. \A s \in Small(n) : s \in Small(n + 1)
      BY <1>1
    <3>2. \A s \in Small(n) : f[s] = Sum(f, s)
      <4> HIDE DEF Small
      <4> QED
        BY <2>1 DEF Summing
    <3> QED
      BY <3>1, <3>2
  <2>3. \A s \in Small(n) : h[s] = f[s]
    BY <2>2
  <2>4. \A s \in Small(n + 1) : s # {} => s \ {Any(s)} \in Small(n)
    BY <1>1, <1>2
  <2> HIDE DEF h
  <2>5. \A s \in Small(n + 1) : Sum(f, s) = Sum(h, s)
    BY <2>3, <2>4
  <2>6. h = [s \in Small(n + 1) |-> Sum(h, s)]
    BY <2>5 DEF h
  <2>7. Summing(h, g, Small(n + 1))
    BY <2>6 DEF Summing
  <2>8. \E k : Summing(k, g, Small(n + 1))
    BY <2>7
  <2> HIDE DEF Small
  <2> QED
    BY <2>8
<1>5. E = Nat
  <2> HIDE DEF E
  <2>1. E \in SUBSET Nat
    BY DEF E
  <2> QED
    BY <1>3, <1>4, <2>1, ByInduction
<1>6. Small(Cardinality(S)) = SUBSET S
  BY FS_Subset
<1>7. \E f : Summing(f, g, SUBSET S)
  <2>1. Cardinality(S) \in E
    BY <1>1, <1>5
  <2>2. \E f : Summing(f, g, Small(Cardinality(S)))
    <3> HIDE DEF Small
    <3> QED
      BY <2>1
  <2> QED
    BY <2>2, <1>6
<1>8. ASSUME NEW f, Summing(f, g, SUBSET S) PROVE f[S] \in Nat
  <2> DEFINE N == {n \in Nat : \A s \in SUBSET S : Cardinality(s) = n => f[s] \in Nat}
  <2>1. 0 \in N
    BY <1>1, <1>8, FS_EmptySet DEF Summing
  <2>2. ASSUME NEW n \in N PROVE n + 1 \in N
    <3> SUFFICES ASSUME NEW s \in SUBSET S, Cardinality(s) = n + 1
                 PROVE  f[s] \in Nat
      OBVIOUS
    <3>1. s # {}
      <4>1. n + 1 # 0
        OBVIOUS
      <4> QED
        BY <4>1, FS_EmptySet
    <3>2. f[s \ {Any(s)}] \in Nat
      BY <1>2, <3>1
    <3>3. g[Any(s)] \in Nat
      BY <1>2, <3>1
    <3>4. f[s] = g[Any(s)] + f[s \ {Any(s)}]
      BY <1>8, <3>1 DEF Summing
    <3> QED
      BY <3>2, <3>3, <3>4
  <2>3. N = Nat
    <3> HIDE DEF N
    <3>1. N \in SUBSET Nat
      BY DEF N
    <3> QED
      BY <2>1, <2>2, <3>1, ByInduction
  <2> QED
    BY <1>1, <2>3
<1> QED
  BY <1>7, <1>8
=============================================================================
