---------------------------- MODULE RunListProofs ----------------------------
(***************************************************************************)
(* Proofs about RunList for any finite number of runs, any page sizes and  *)
(* any readers: type correctness, that a reading misses no run, that pages *)
(* repeat no more rows than came in, and that listed runs are found.       *)
(***************************************************************************)
EXTENDS RunList, FiniteSetTheorems, TLAPS

(* The rows a run is ranked by. *)
Newer(r, status) == {s \in Listed(status) : Started[s] > Started[r]}

LEMMA ListedIsFinite ==
    ASSUME NEW status PROVE IsFiniteSet(Listed(status)) /\ Cardinality(Listed(status)) \in Nat
<1>1. Listed(status) \in SUBSET RunIds
  BY DEF Listed
<1> QED
  BY <1>1, RunsAssumption, FS_Subset, FS_CardinalityType

LEMMA RankIsBounded ==
    ASSUME NEW status, NEW r \in Listed(status)
    PROVE  Rank(r, status) \in Nat /\ Rank(r, status) < Cardinality(Listed(status))
<1>1. Newer(r, status) \in SUBSET Listed(status) /\ r \notin Newer(r, status)
  BY RunsAssumption DEF Newer, Listed
<1>2. IsFiniteSet(Listed(status)) /\ Cardinality(Listed(status)) \in Nat
  BY ListedIsFinite
<1>3. /\ IsFiniteSet(Newer(r, status))
      /\ Cardinality(Newer(r, status)) <= Cardinality(Listed(status))
      /\ Cardinality(Newer(r, status)) # Cardinality(Listed(status))
  BY <1>1, <1>2, FS_Subset
<1>4. Cardinality(Newer(r, status)) \in Nat
  BY <1>3, FS_CardinalityType
<1> QED
  BY <1>2, <1>3, <1>4 DEF Rank, Newer

(* A run that started later has a smaller rank. *)
LEMMA RankOrders ==
    ASSUME NEW status, NEW r \in Listed(status), NEW s \in Listed(status),
           Started[r] > Started[s]
    PROVE  Rank(r, status) < Rank(s, status)
<1>1. Started[r] \in Nat /\ Started[s] \in Nat /\ \A t \in Listed(status) : Started[t] \in Nat
  BY RunsAssumption DEF Listed
<1>2. Newer(r, status) \in SUBSET Newer(s, status)
      /\ r \in Newer(s, status) /\ r \notin Newer(r, status)
  BY <1>1 DEF Newer
<1>3. IsFiniteSet(Newer(s, status))
  <2>1. Newer(s, status) \in SUBSET Listed(status)
    BY DEF Newer
  <2> QED
    BY <2>1, ListedIsFinite, FS_Subset
<1>4. /\ Cardinality(Newer(r, status)) <= Cardinality(Newer(s, status))
      /\ Cardinality(Newer(r, status)) # Cardinality(Newer(s, status))
  BY <1>2, <1>3, FS_Subset
<1>5. Rank(r, status) \in Nat /\ Rank(s, status) \in Nat
  BY RankIsBounded
<1> QED
  BY <1>4, <1>5 DEF Rank, Newer

(* The ranks of n listed runs are 0 .. n - 1. *)
LEMMA RankIsBijective ==
    ASSUME NEW status
    PROVE  LET f == [r \in Listed(status) |-> Rank(r, status)]
               K == 0..(Cardinality(Listed(status)) - 1)
           IN  f \in Injection(Listed(status), K) /\ f \in Surjection(Listed(status), K)
<1> DEFINE M == Listed(status)
           n == Cardinality(M)
           f == [r \in M |-> Rank(r, status)]
           K == 0..(n - 1)
<1>1. IsFiniteSet(M) /\ n \in Nat
  BY ListedIsFinite
<1>2. f \in [M -> K]
  <2>1. \A r \in M : Rank(r, status) \in K
    BY <1>1, RankIsBounded
  <2> QED
    BY <2>1
<1>3. \A r, s \in M : f[r] = f[s] => r = s
  <2> SUFFICES ASSUME NEW r \in M, NEW s \in M, r # s PROVE f[r] # f[s]
    OBVIOUS
  <2>1. Started[r] # Started[s] /\ Started[r] \in Nat /\ Started[s] \in Nat
    BY RunsAssumption DEF Listed
  <2>2. Started[r] > Started[s] \/ Started[s] > Started[r]
    BY <2>1
  <2>3. f[r] = Rank(r, status) /\ f[s] = Rank(s, status) /\ f[r] \in Nat /\ f[s] \in Nat
    BY RankIsBounded
  <2> QED
    BY <2>2, <2>3, RankOrders
<1>4. f \in Injection(M, K)
  BY <1>2, <1>3 DEF Injection, IsInjective
<1>5. IsFiniteSet(K) /\ Cardinality(K) = n
  BY <1>1, FS_Interval
<1>6. f \in Surjection(M, K)
  BY <1>4, <1>5, FS_Injection
<1> QED
  BY <1>4, <1>6

(* How many rows there are in a range of ranks the list has. *)
LEMMA RanksInRange ==
    ASSUME NEW status, NEW a \in Nat, NEW b \in Nat, a <= b,
           b <= Cardinality(Listed(status))
    PROVE  LET S == {r \in Listed(status) : Rank(r, status) \in a..(b - 1)}
           IN  IsFiniteSet(S) /\ Cardinality(S) = b - a
<1> DEFINE M == Listed(status)
           n == Cardinality(M)
           f == [r \in M |-> Rank(r, status)]
           S == {r \in M : Rank(r, status) \in a..(b - 1)}
           g == [r \in S |-> Rank(r, status)]
<1>1. IsFiniteSet(M) /\ n \in Nat
  BY ListedIsFinite
<1>2. f \in Injection(M, 0..(n - 1)) /\ f \in Surjection(M, 0..(n - 1))
  BY RankIsBijective
<1>3. g \in Injection(S, a..(b - 1))
  <2>1. g \in [S -> a..(b - 1)]
    OBVIOUS
  <2>2. \A r, s \in S : g[r] = g[s] => r = s
    BY <1>2 DEF Injection, IsInjective
  <2> QED
    BY <2>1, <2>2 DEF Injection, IsInjective
<1>4. g \in Surjection(S, a..(b - 1))
  <2>1. g \in [S -> a..(b - 1)]
    OBVIOUS
  <2>2. ASSUME NEW k \in a..(b - 1) PROVE \E r \in S : g[r] = k
    <3>1. k \in 0..(n - 1)
      BY <1>1
    <3>2. PICK r \in M : f[r] = k
      BY <1>2, <3>1 DEF Surjection
    <3> QED
      BY <3>2
  <2> QED
    BY <2>1, <2>2 DEF Surjection
<1>5. IsFiniteSet(a..(b - 1)) /\ Cardinality(a..(b - 1)) = b - a
  <2> DEFINE c == b - 1
  <2>1. a \in Int /\ c \in Int
    OBVIOUS
  <2>2. (IF a > c THEN 0 ELSE c - a + 1) = b - a
    OBVIOUS
  <2> HIDE DEF c
  <2>3. IsFiniteSet(a..c) /\ Cardinality(a..c) = IF a > c THEN 0 ELSE c - a + 1
    BY <2>1, FS_Interval
  <2> QED
    BY <2>2, <2>3 DEF c
<1> HIDE DEF S, g
<1>6. /\ IsFiniteSet(S)
      /\ Cardinality(S) = Cardinality(a..(b - 1)) <=> g \in Surjection(S, a..(b - 1))
  BY <1>3, <1>5, FS_Injection
<1> USE DEF S
<1> QED
  BY <1>4, <1>5, <1>6

(* A page that is not full ends the list. *)
LEMMA ShortPageIsLast ==
    ASSUME NEW status, NEW limit \in Nat, NEW offset \in Nat,
           Cardinality(Page(status, limit, offset)) < limit,
           NEW r \in Listed(status)
    PROVE  Rank(r, status) < offset + limit
<1> SUFFICES ASSUME Rank(r, status) >= offset + limit PROVE FALSE
  BY RankIsBounded
<1>1. offset + limit <= Cardinality(Listed(status))
  BY RankIsBounded, ListedIsFinite
<1>2. Cardinality(Page(status, limit, offset)) = (offset + limit) - offset
  BY <1>1, RanksInRange DEF Page
<1> QED
  BY <1>2

LEMMA PageIsFinite ==
    ASSUME NEW status, NEW limit, NEW offset
    PROVE  /\ IsFiniteSet(Page(status, limit, offset))
           /\ Cardinality(Page(status, limit, offset)) \in Nat
<1>1. Page(status, limit, offset) \in SUBSET Listed(status)
  BY DEF Page
<1> QED
  BY <1>1, ListedIsFinite, FS_Subset, FS_CardinalityType
LEMMA PageIsNotLonger ==
    ASSUME NEW status, NEW limit \in Nat, NEW offset \in Nat
    PROVE  Cardinality(Page(status, limit, offset)) <= limit
<1> DEFINE page == Page(status, limit, offset)
           c == offset + limit - 1
           f == [r \in page |-> Rank(r, status)]
<1>1. f \in Injection(page, offset..c)
  <2>1. \A r \in page : r \in Listed(status) /\ f[r] \in offset..c
    BY DEF Page
  <2>2. \A r, s \in page : f[r] = f[s] => r = s
    BY <2>1, RankIsBijective DEF Injection, IsInjective
  <2> QED
    BY <2>1, <2>2 DEF Injection, IsInjective
<1>2. c \in Int /\ offset \in Int /\ (IF offset > c THEN 0 ELSE c - offset + 1) = limit
  OBVIOUS
<1> HIDE DEF c
<1>3. IsFiniteSet(offset..c) /\ Cardinality(offset..c) = limit
  BY <1>2, FS_Interval
<1> HIDE DEF f
<1> QED
  BY <1>1, <1>3, FS_Injection
-----------------------------------------------------------------------------
(* What a reading knows: runs it must show and has the page of behind it were
   shown, with the status they still have. *)
Saw(e, r) == \E s \in e.shown : s.run = r

GoodReading(e) ==
    /\ e.wanted \subseteq Listed(e.status)
    /\ IsFiniteSet(e.shown) /\ \A s \in e.shown : rows[s.run] = s.status
    /\ \A r \in e.wanted : e.stage = "over" \/ Rank(r, e.status) < e.offset => Saw(e, r)
    /\ e.got <= e.offset
    /\ e.got <= Cardinality(e.shown) + Cardinality(Listed(e.status) \ e.wanted)

ReadingInv == \A c \in Clients, e \in Readings : reading[c] = e => GoodReading(e)

GoodAnswer(c) ==
    /\ reading[c] # Idle
    /\ [run |-> answer[c].run, status |-> answer[c].status] \in reading[c].shown
    /\ answer[c].of = "detail" => answer[c].found

AnswerInv == \A c \in Clients : answer[c] # NoAnswer => GoodAnswer(c)

Inv == TypeOK /\ ReadingInv /\ AnswerInv

LEMMA BusyReading == Idle \notin Readings /\ \A e \in Readings : e # Idle
  BY DEF Idle, Readings

LEMMA GivenAnswer == NoAnswer \notin Answers /\ \A a \in Answers : a # NoAnswer
  BY DEF NoAnswer, Answers

LEMMA InvInit == Init => Inv
  BY BusyReading DEF Init, Inv, TypeOK, ReadingInv, AnswerInv

(* A commit only adds to a list, and moves its rows down. *)
LEMMA RowsGrow ==
    ASSUME TypeOK, CommitSuite, NEW status \in Filters
    PROVE  /\ \A r \in RunIds : rows[r] # "absent" => rows'[r] = rows[r]
           /\ Listed(status) \subseteq Listed(status)'
           /\ \A r \in Listed(status) : Rank(r, status) <= Rank(r, status)'
<1>1. \A r \in RunIds : rows[r] # "absent" => rows'[r] = rows[r]
  BY DEF CommitSuite
<1>2. Listed(status) \subseteq Listed(status)'
  BY <1>1 DEF Listed
<1>3. ASSUME NEW r \in Listed(status) PROVE Rank(r, status) <= Rank(r, status)'
  <2>1. Newer(r, status) \in SUBSET Newer(r, status)'
    BY <1>2 DEF Newer
  <2>2. Newer(r, status)' \in SUBSET RunIds
    BY DEF Newer, Listed
  <2>3. IsFiniteSet(Newer(r, status)')
    BY <2>2, RunsAssumption, FS_Subset
  <2>4. Cardinality(Newer(r, status)) <= Cardinality(Newer(r, status)')
    BY <2>1, <2>3, FS_Subset
  <2> QED
    BY <2>4 DEF Rank, Newer
<1> QED
  BY <1>1, <1>2, <1>3

LEMMA RankType ==
    ASSUME NEW status, NEW r \in Listed(status) PROVE Rank(r, status) \in Nat
  BY RankIsBounded

LEMMA CommitKeepsReading ==
    ASSUME TypeOK, CommitSuite, NEW e \in Readings, GoodReading(e)
    PROVE  GoodReading(e)'
<1> DEFINE L == Listed(e.status)
<1>1. /\ e.status \in Filters /\ e.offset \in Nat /\ e.got \in Nat
      /\ e.shown \subseteq [run : RunIds, status : Statuses]
  BY DEF Readings
<1>2. /\ \A r \in RunIds : rows[r] # "absent" => rows'[r] = rows[r]
      /\ L \subseteq L'
      /\ \A r \in L : Rank(r, e.status) <= Rank(r, e.status)'
  BY <1>1, RowsGrow
<1>3. e.wanted \subseteq L'
  BY <1>2 DEF GoodReading
<1>4. \A s \in e.shown : rows'[s.run] = s.status
  <2> SUFFICES ASSUME NEW s \in e.shown PROVE rows'[s.run] = s.status
    OBVIOUS
  <2>1. s.run \in RunIds /\ s.status \in Statuses /\ rows[s.run] = s.status
    BY <1>1 DEF GoodReading
  <2> QED
    BY <1>2, <2>1 DEF Statuses
<1>5. ASSUME NEW r \in e.wanted, e.stage = "over" \/ Rank(r, e.status)' < e.offset
      PROVE  Saw(e, r)
  <2>1. r \in L /\ r \in L'
    BY <1>3 DEF GoodReading
  <2>2. Rank(r, e.status) \in Nat /\ Rank(r, e.status)' \in Nat
    <3>1. Rank(r, e.status) \in Nat
      BY <2>1, RankType
    <3>2. Newer(r, e.status)' \in SUBSET RunIds
      BY DEF Newer, Listed
    <3>3. Rank(r, e.status)' \in Nat
      BY <3>2, RunsAssumption, FS_Subset, FS_CardinalityType DEF Rank, Newer
    <3> QED
      BY <3>1, <3>3
  <2>3. e.stage = "over" \/ Rank(r, e.status) < e.offset
    BY <1>1, <1>2, <1>5, <2>1, <2>2
  <2> QED
    BY <2>3 DEF GoodReading
<1>6. /\ Cardinality(L \ e.wanted) <= Cardinality(L' \ e.wanted)
      /\ Cardinality(L \ e.wanted) \in Nat /\ Cardinality(L' \ e.wanted) \in Nat
  <2>1. L' \ e.wanted \in SUBSET RunIds /\ L \ e.wanted \in SUBSET (L' \ e.wanted)
    BY <1>2 DEF Listed
  <2>2. IsFiniteSet(L' \ e.wanted)
    BY <2>1, RunsAssumption, FS_Subset
  <2> QED
    BY <2>1, <2>2, FS_Subset, FS_CardinalityType
<1>7. Cardinality(e.shown) \in Nat
  BY FS_CardinalityType DEF GoodReading
<1>8. e.got <= Cardinality(e.shown) + Cardinality(L' \ e.wanted)
  BY <1>1, <1>6, <1>7 DEF GoodReading
<1> QED
  BY <1>3, <1>4, <1>5, <1>8 DEF GoodReading, Saw

LEMMA CommitKeeps == ASSUME Inv, CommitSuite PROVE Inv'
<1>1. rows' \in [RunIds -> Statuses \union {"absent"}]
  BY DEF Inv, TypeOK, CommitSuite
<1>2. UNCHANGED <<reading, answer>>
  BY DEF CommitSuite
<1>3. TypeOK'
  BY <1>1, <1>2 DEF Inv, TypeOK
<1>4. ReadingInv'
  BY <1>2, CommitKeepsReading DEF Inv, ReadingInv
<1>5. AnswerInv'
  BY <1>2 DEF Inv, AnswerInv, GoodAnswer
<1> QED
  BY <1>3, <1>4, <1>5 DEF Inv

LEMMA RowsStay ==
    ASSUME UNCHANGED rows, NEW e, GoodReading(e) PROVE GoodReading(e)'
  BY DEF GoodReading, Saw, Listed, Rank

LEMMA BeginKeeps == ASSUME Inv, NEW c \in Clients, Begin(c) PROVE Inv'
<1>1. PICK status \in Filters, limit \in Limits :
         reading' = [reading EXCEPT ![c] =
             [stage |-> "more", status |-> status, limit |-> limit, offset |-> 0,
              shown |-> {}, got |-> 0, wanted |-> Listed(status)]]
  BY Zenon DEF Begin
<1> DEFINE e == [stage |-> "more", status |-> status, limit |-> limit, offset |-> 0,
                 shown |-> {}, got |-> 0, wanted |-> Listed(status)]
<1>2. e \in Readings
  BY DEF Readings, Listed
<1>3. GoodReading(e)
  <2>1. IsFiniteSet({}) /\ Cardinality({}) = 0
    BY FS_EmptySet
  <2>2. Listed(status) \ Listed(status) = {}
    OBVIOUS
  <2>3. \A r \in Listed(status) : ~(Rank(r, status) < 0)
    BY RankType
  <2>4. /\ e.stage = "more" /\ e.status = status /\ e.offset = 0
        /\ e.shown = {} /\ e.got = 0 /\ e.wanted = Listed(status)
    OBVIOUS
  <2> HIDE DEF e
  <2> QED
    BY <2>1, <2>2, <2>3, <2>4 DEF GoodReading
<1>4. UNCHANGED <<rows, answer>> /\ reading[c] = Idle
  BY DEF Begin
<1> HIDE DEF e
<1>5. reading' = [reading EXCEPT ![c] = e]
  BY <1>1 DEF e
<1>6. TypeOK'
  BY <1>2, <1>4, <1>5 DEF Inv, TypeOK
<1>7. ReadingInv'
  <2> SUFFICES ASSUME NEW d \in Clients, NEW x \in Readings, reading'[d] = x
               PROVE  GoodReading(x)'
    BY DEF ReadingInv
  <2>1. CASE d = c
    <3>1. x = e
      BY <1>5, <2>1 DEF Inv, TypeOK
    <3> QED
      BY <1>3, <1>4, <3>1, RowsStay
  <2>2. CASE d # c
    <3>1. reading[d] = x
      BY <1>5, <2>2 DEF Inv, TypeOK
    <3> QED
      BY <1>4, <3>1, RowsStay DEF Inv, ReadingInv
  <2> QED
    BY <2>1, <2>2
<1>8. AnswerInv'
  BY <1>4, <1>5 DEF Inv, TypeOK, AnswerInv, GoodAnswer
<1> QED
  BY <1>6, <1>7, <1>8 DEF Inv

(* A page is read: the steps of the argument. *)
LEMMA PageIsSeen ==
    ASSUME TypeOK, NEW e \in Readings, GoodReading(e), NEW x \in Readings,
           x.status = e.status, x.wanted = e.wanted, x.offset = e.offset + e.limit,
           x.shown = e.shown \union {[run |-> r, status |-> rows[r]] :
                                        r \in Page(e.status, e.limit, e.offset)},
           NEW r \in e.wanted, Rank(r, e.status) < x.offset
    PROVE  Saw(x, r)
<1>1. r \in Listed(e.status) /\ Rank(r, e.status) \in Nat
  BY RankType DEF GoodReading
<1>2. e.offset \in Nat /\ e.limit \in Nat
  BY RunsAssumption DEF Readings
<1>3. CASE Rank(r, e.status) < e.offset
  BY <1>3 DEF GoodReading, Saw
<1>4. CASE Rank(r, e.status) >= e.offset
  <2>1. r \in Page(e.status, e.limit, e.offset)
    BY <1>1, <1>2, <1>4 DEF Page
  <2>2. [run |-> r, status |-> rows[r]] \in x.shown
    BY <2>1
  <2> QED
    BY <2>2 DEF Saw
<1> QED
  BY <1>1, <1>2, <1>3, <1>4

(* Runs that were shown are no more than the rows that were. *)
LEMMA SeenAreShown ==
    ASSUME NEW e, IsFiniteSet(e.shown), \A s \in e.shown : rows[s.run] = s.status,
           e.shown \subseteq [run : RunIds, status : Statuses],
           NEW S, \A r \in S : Saw(e, r)
    PROVE  IsFiniteSet(S) /\ Cardinality(S) <= Cardinality(e.shown)
<1> DEFINE f == [r \in S |-> [run |-> r, status |-> rows[r]]]
<1>1. ASSUME NEW r \in S PROVE [run |-> r, status |-> rows[r]] \in e.shown
  <2>1. PICK s \in e.shown : s.run = r
    BY DEF Saw
  <2>2. s = [run |-> s.run, status |-> s.status] /\ s.status = rows[r]
    BY <2>1
  <2> QED
    BY <2>1, <2>2
<1>2. f \in Injection(S, e.shown)
  BY <1>1 DEF Injection, IsInjective
<1> QED
  BY <1>2, FS_Injection

(* The rows received so far are among those of the ranks read so far. *)
LEMMA ReadSoFar ==
    ASSUME NEW e \in Readings, e.got <= e.offset
    PROVE  LET page == Page(e.status, e.limit, e.offset)
           IN  \/ page = {}
               \/ \E b \in Nat :
                    /\ b <= e.offset + e.limit /\ b <= Cardinality(Listed(e.status))
                    /\ e.got + Cardinality(page) <= b
<1> DEFINE L == Listed(e.status)
           n == Cardinality(L)
           page == Page(e.status, e.limit, e.offset)
<1>1. /\ e.offset \in Nat /\ e.limit \in Nat /\ e.got \in Nat /\ n \in Nat
  BY RunsAssumption, ListedIsFinite DEF Readings
<1>2. \A r \in L : Rank(r, e.status) \in Nat /\ Rank(r, e.status) < n
  BY RankIsBounded
<1>3. CASE n <= e.offset
  BY <1>1, <1>2, <1>3 DEF Page
<1>4. CASE n > e.offset
  <2> DEFINE b == IF n < e.offset + e.limit THEN n ELSE e.offset + e.limit
  <2>1. b \in Nat /\ b <= n /\ b <= e.offset + e.limit /\ e.offset <= b
    BY <1>1, <1>4
  <2>2. page = {r \in L : Rank(r, e.status) \in e.offset..(b - 1)}
    BY <1>1, <1>2 DEF Page
  <2> HIDE DEF b
  <2>3. Cardinality({r \in L : Rank(r, e.status) \in e.offset..(b - 1)}) = b - e.offset
    BY <1>1, <2>1, RanksInRange
  <2>4. e.got + Cardinality(page) <= b
    BY <1>1, <2>1, <2>2, <2>3
  <2> QED
    BY <2>1, <2>4
<1> QED
  BY <1>1, <1>3, <1>4

(* What a page adds to the rows received is matched by runs shown or new. *)
LEMMA RowsAreCounted ==
    ASSUME TypeOK, NEW e \in Readings, GoodReading(e), NEW x \in Readings,
           x.status = e.status, x.wanted = e.wanted, x.offset = e.offset + e.limit,
           x.shown = e.shown \union {[run |-> r, status |-> rows[r]] :
                                        r \in Page(e.status, e.limit, e.offset)},
           IsFiniteSet(x.shown), \A s \in x.shown : rows[s.run] = s.status,
           Cardinality(e.shown) <= Cardinality(x.shown),
           x.got = e.got + Cardinality(Page(e.status, e.limit, e.offset))
    PROVE  x.got <= Cardinality(x.shown) + Cardinality(Listed(x.status) \ x.wanted)
<1> DEFINE L == Listed(e.status)
           page == Page(e.status, e.limit, e.offset)
           new == Cardinality(L \ e.wanted)
<1>1. /\ e.offset \in Nat /\ e.limit \in Nat /\ e.got \in Nat
      /\ x.shown \subseteq [run : RunIds, status : Statuses]
  BY RunsAssumption DEF Readings
<1>2. /\ IsFiniteSet(L \ e.wanted) /\ new \in Nat
      /\ Cardinality(x.shown) \in Nat /\ Cardinality(e.shown) \in Nat
      /\ Cardinality(page) \in Nat
  BY ListedIsFinite, FS_Difference, FS_CardinalityType, PageIsFinite DEF GoodReading
<1>3. CASE page = {}
  <2>1. x.got = e.got
    BY <1>1, <1>3, FS_EmptySet
  <2> QED
    BY <1>1, <1>2, <2>1 DEF GoodReading
<1>4. ASSUME NEW b \in Nat, b <= e.offset + e.limit, b <= Cardinality(L),
             e.got + Cardinality(page) <= b
      PROVE  x.got <= Cardinality(x.shown) + new
  <2> DEFINE F == {r \in L : Rank(r, e.status) \in 0..(b - 1)}
             S == F \intersect e.wanted
  <2>1. IsFiniteSet(F) /\ Cardinality(F) = b - 0
    BY <1>4, RanksInRange
  <2>2. \A r \in S : Saw(x, r)
    <3> SUFFICES ASSUME NEW r \in S PROVE Saw(x, r)
      OBVIOUS
    <3>1. r \in e.wanted /\ Rank(r, e.status) < x.offset
      BY <1>1, <1>4
    <3> QED
      BY <3>1, PageIsSeen
  <2>3. IsFiniteSet(S) /\ Cardinality(S) <= Cardinality(x.shown)
    <3> HIDE DEF S
    <3> QED
      BY <1>1, <2>2, SeenAreShown
  <2>4. F \in SUBSET (S \union (L \ e.wanted))
    OBVIOUS
  <2>5. /\ IsFiniteSet(S \union (L \ e.wanted))
        /\ Cardinality(S \union (L \ e.wanted)) <= Cardinality(S) + new
    <3> DEFINE N == L \ e.wanted
    <3>1. S \intersect N = {}
      OBVIOUS
    <3>2. IsFiniteSet(N) /\ Cardinality(N) \in Nat
      BY <1>2
    <3> HIDE DEF S, N
    <3>3. /\ IsFiniteSet(S \union N)
          /\ Cardinality(S \union N) =
                 Cardinality(S) + Cardinality(N) - Cardinality(S \intersect N)
      BY <2>3, <3>2, FS_Union
    <3>4. Cardinality(S \intersect N) = 0 /\ Cardinality(S) \in Nat
      BY <2>3, <3>1, FS_EmptySet, FS_CardinalityType
    <3>5. Cardinality(S \union N) <= Cardinality(S) + Cardinality(N)
      BY <3>2, <3>3, <3>4
    <3> QED
      BY <3>3, <3>5 DEF N
  <2>6. Cardinality(F) <= Cardinality(S \union (L \ e.wanted))
    BY <2>4, <2>5, FS_Subset
  <2>7. Cardinality(S) \in Nat /\ Cardinality(S \union (L \ e.wanted)) \in Nat
    BY <2>3, <2>5, FS_CardinalityType
  <2> HIDE DEF F, S
  <2> QED
    BY <1>1, <1>2, <1>4, <2>1, <2>3, <2>5, <2>6, <2>7
<1> QED
  BY <1>3, <1>4, ReadSoFar DEF GoodReading

LEMMA ListRunsKeeps == ASSUME Inv, NEW c \in Clients, ListRuns(c) PROVE Inv'
<1>1. PICK e \in Readings : e = reading[c] /\ e.stage = "more"
  <2>1. reading[c] # Idle
    BY DEF ListRuns, Idle
  <2> QED
    BY <2>1 DEF Inv, TypeOK, ListRuns
<1>2. GoodReading(e) /\ TypeOK
  BY <1>1 DEF Inv, ReadingInv
<1> DEFINE page == Page(e.status, e.limit, e.offset)
           add  == {[run |-> r, status |-> rows[r]] : r \in page}
           x == [e EXCEPT !.stage  = IF Cardinality(page) < e.limit THEN "over" ELSE "more",
                          !.offset = e.offset + e.limit,
                          !.shown  = @ \union add,
                          !.got    = e.got + Cardinality(page)]
<1>3. reading' = [reading EXCEPT ![c] = x] /\ UNCHANGED <<rows, answer>>
  BY <1>1 DEF ListRuns
<1>4. IsFiniteSet(page) /\ Cardinality(page) \in Nat
  BY PageIsFinite
<1>5. add \subseteq [run : RunIds, status : Statuses]
  <2>1. \A r \in page : r \in RunIds /\ rows[r] \in Statuses
    BY <1>2 DEF Page, Listed, TypeOK
  <2> QED
    BY <2>1
<1>6. /\ e.offset \in Nat /\ e.limit \in Nat /\ e.got \in Nat
      /\ e.shown \subseteq [run : RunIds, status : Statuses]
  BY RunsAssumption DEF Readings
<1>7. /\ x.stage = (IF Cardinality(page) < e.limit THEN "over" ELSE "more")
      /\ x.status = e.status /\ x.wanted = e.wanted /\ x.limit = e.limit
      /\ x.offset = e.offset + e.limit /\ x.shown = e.shown \union add
      /\ x.got = e.got + Cardinality(page)
  BY DEF Readings
<1>8. x \in Readings
  <2>1. e.offset + e.limit \in Nat /\ e.got + Cardinality(page) \in Nat
    BY <1>4, <1>6
  <2>2. e.shown \union add \in SUBSET [run : RunIds, status : Statuses]
    BY <1>5, <1>6
  <2> HIDE DEF page, add
  <2> QED
    BY <2>1, <2>2 DEF Readings
<1> HIDE DEF x
<1>9. IsFiniteSet(x.shown) /\ Cardinality(e.shown) <= Cardinality(x.shown)
  <2>1. IsFiniteSet(add)
    <3> DEFINE g == [s \in add |-> s.run]
    <3>1. g \in Injection(add, page)
      BY DEF Injection, IsInjective
    <3> QED
      BY <1>4, <3>1, FS_Injection
  <2>2. IsFiniteSet(e.shown \union add)
    BY <1>2, <2>1, FS_Union DEF GoodReading
  <2>3. Cardinality(e.shown) <= Cardinality(e.shown \union add)
    BY <2>2, FS_Subset
  <2> QED
    BY <1>7, <2>2, <2>3
<1>10. \A s \in x.shown : rows[s.run] = s.status
  BY <1>2, <1>7 DEF GoodReading
<1>11. \A r \in x.wanted : x.stage = "over" \/ Rank(r, x.status) < x.offset => Saw(x, r)
  <2> SUFFICES ASSUME NEW r \in e.wanted,
                      x.stage = "over" \/ Rank(r, e.status) < x.offset
               PROVE  Saw(x, r)
    BY <1>7
  <2>1. r \in Listed(e.status)
    BY <1>2 DEF GoodReading
  <2>2. Rank(r, e.status) < x.offset
    BY <1>6, <1>7, <2>1, ShortPageIsLast
  <2> QED
    BY <1>2, <1>7, <1>8, <2>2, PageIsSeen
<1>12. x.got <= x.offset
  <2>1. Cardinality(page) <= e.limit
    BY <1>6, PageIsNotLonger
  <2> QED
    BY <1>2, <1>4, <1>6, <1>7, <2>1 DEF GoodReading
<1>13. x.got <= Cardinality(x.shown) + Cardinality(Listed(x.status) \ x.wanted)
  BY <1>2, <1>7, <1>8, <1>9, <1>10, RowsAreCounted
<1>14. GoodReading(x)
  BY <1>2, <1>7, <1>9, <1>10, <1>11, <1>12, <1>13 DEF GoodReading
<1>15. TypeOK'
  BY <1>3, <1>8 DEF Inv, TypeOK
<1>16. ReadingInv'
  <2> SUFFICES ASSUME NEW d \in Clients, NEW y \in Readings, reading'[d] = y
               PROVE  GoodReading(y)'
    BY DEF ReadingInv
  <2>1. CASE d = c
    <3>1. y = x
      BY <1>3, <2>1 DEF Inv, TypeOK
    <3> QED
      BY <1>3, <1>14, <3>1, RowsStay
  <2>2. CASE d # c
    <3>1. reading[d] = y
      BY <1>3, <2>2 DEF Inv, TypeOK
    <3> QED
      BY <1>3, <3>1, RowsStay DEF Inv, ReadingInv
  <2> QED
    BY <2>1, <2>2
<1>17. AnswerInv'
  BY <1>1, <1>3, <1>7, <1>8, BusyReading DEF Inv, TypeOK, AnswerInv, GoodAnswer
<1> QED
  BY <1>15, <1>16, <1>17 DEF Inv

LEMMA LeaveKeeps == ASSUME Inv, NEW c \in Clients, Leave(c) PROVE Inv'
<1>1. /\ reading' = [reading EXCEPT ![c] = Idle] /\ answer' = [answer EXCEPT ![c] = NoAnswer]
      /\ UNCHANGED rows
  BY DEF Leave
<1>2. TypeOK'
  BY <1>1 DEF Inv, TypeOK
<1>3. ReadingInv'
  <2> SUFFICES ASSUME NEW d \in Clients, NEW y \in Readings, reading'[d] = y
               PROVE  GoodReading(y)'
    BY DEF ReadingInv
  <2>1. reading[d] = y
    BY <1>1, BusyReading DEF Inv, TypeOK
  <2> QED
    BY <1>1, <2>1, RowsStay DEF Inv, ReadingInv
<1>4. AnswerInv'
  <2> SUFFICES ASSUME NEW d \in Clients, answer'[d] # NoAnswer PROVE GoodAnswer(d)'
    BY DEF AnswerInv
  <2>1. d # c /\ answer'[d] = answer[d] /\ reading'[d] = reading[d]
    BY <1>1 DEF Inv, TypeOK
  <2> QED
    BY <1>1, <2>1 DEF Inv, AnswerInv, GoodAnswer
<1> QED
  BY <1>2, <1>3, <1>4 DEF Inv

(* The answer about a run the list has shown. *)
LEMMA AnswerKeeps ==
    ASSUME Inv, NEW c \in Clients, NEW r \in Shown(c), NEW of \in {"detail", "trace"},
           NEW found \in BOOLEAN, of = "detail" => found = (rows[r] # "absent"),
           Answer(c, r, of, found)
    PROVE  Inv'
<1> DEFINE a == [of |-> of, run |-> r, found |-> found,
                 status |-> ToDomain(r).status, trajectory |-> ToDomain(r).trajectory]
<1>1. answer' = [answer EXCEPT ![c] = a] /\ UNCHANGED <<rows, reading>>
  BY DEF Answer
<1>2. PICK e \in Readings : e = reading[c] /\ GoodReading(e)
  BY DEF Shown, Inv, TypeOK, ReadingInv
<1>3. PICK s \in e.shown : s.run = r
  BY <1>2, BusyReading DEF Shown
<1>4. s \in [run : RunIds, status : Statuses] /\ rows[r] = s.status
  BY <1>2, <1>3 DEF Readings, GoodReading
<1>5. s = [run |-> r, status |-> rows[r]] /\ r \in RunIds /\ rows[r] \in Statuses
  BY <1>3, <1>4
<1>6. a \in Answers
  BY <1>5 DEF Answers, ToDomain
<1>7. a.of = of /\ a.run = r /\ a.status = rows[r] /\ (of = "detail" => a.found)
  BY <1>5 DEF ToDomain, Statuses
<1> HIDE DEF a
<1>8. TypeOK'
  BY <1>1, <1>6 DEF Inv, TypeOK
<1>9. ReadingInv'
  BY <1>1, RowsStay DEF Inv, ReadingInv
<1>10. AnswerInv'
  <2> SUFFICES ASSUME NEW d \in Clients, answer'[d] # NoAnswer PROVE GoodAnswer(d)'
    BY DEF AnswerInv
  <2>1. CASE d = c
    <3>1. answer'[c] = a
      BY <1>1 DEF Inv, TypeOK
    <3>2. reading[c] # Idle /\ [run |-> r, status |-> rows[r]] \in reading[c].shown
      BY <1>2, <1>3, <1>5, BusyReading
    <3> QED
      BY <1>1, <1>7, <2>1, <3>1, <3>2 DEF GoodAnswer
  <2>2. CASE d # c
    <3>1. answer'[d] = answer[d]
      BY <1>1, <2>2 DEF Inv, TypeOK
    <3> QED
      BY <1>1, <3>1 DEF Inv, AnswerInv, GoodAnswer
  <2> QED
    BY <2>1, <2>2
<1> QED
  BY <1>8, <1>9, <1>10 DEF Inv

LEMMA InvNext == Inv /\ [Next]_vars => Inv'
<1> SUFFICES ASSUME Inv, [Next]_vars PROVE Inv'
  OBVIOUS
<1>1. ASSUME NEW c \in Clients, GetDetail(c) PROVE Inv'
  BY <1>1, AnswerKeeps DEF GetDetail
<1>2. ASSUME NEW c \in Clients, GetTrace(c) PROVE Inv'
  <2>1. \A r : (rows[r] # "absent" /\ ToDomain(r).trajectory) \in BOOLEAN
    OBVIOUS
  <2> QED
    BY <1>2, <2>1, AnswerKeeps DEF GetTrace
<1>3. CASE UNCHANGED vars
  BY <1>3, RowsStay DEF vars, Inv, TypeOK, ReadingInv, AnswerInv, GoodAnswer
<1> QED
  BY <1>1, <1>2, <1>3, CommitKeeps, BeginKeeps, ListRunsKeeps, LeaveKeeps DEF Next

LEMMA Invariance == Spec => []Inv
<1> QED
  BY InvInit, InvNext, PTL DEF Spec
-----------------------------------------------------------------------------
(* RunList: every variable of the readers and the table keeps its type. *)
THEOREM TypeCorrect == Spec => []TypeOK
<1>1. Inv => TypeOK
  BY DEF Inv
<1> QED
  BY Invariance, <1>1, PTL

(* postgres_run_repository.py: pages by offset, newest first, miss no run that
   was there when the reading began, whatever is committed between them. *)
THEOREM ReadingsAreComplete == Spec => []NoRunIsMissed
<1>1. Inv => NoRunIsMissed
  <2> SUFFICES ASSUME Inv, NEW c \in Clients, reading[c] # Idle,
                      reading[c].stage = "over", NEW r \in reading[c].wanted
               PROVE  \E s \in reading[c].shown : s.run = r
    BY DEF NoRunIsMissed
  <2>1. GoodReading(reading[c])
    BY DEF Inv, TypeOK, ReadingInv
  <2> QED
    BY <2>1 DEF GoodReading, Saw
<1> QED
  BY Invariance, <1>1, PTL

(* ... and repeat at most as many rows as came in meanwhile. *)
THEOREM RepeatsAreBounded == Spec => []RepeatsAreNewRuns
<1>1. Inv => RepeatsAreNewRuns
  BY DEF Inv, TypeOK, ReadingInv, GoodReading, RepeatsAreNewRuns
<1> QED
  BY Invariance, <1>1, PTL

(* runs.py: a run that a list has shown is found, with the status it showed. *)
THEOREM ListedRunsStay == Spec => []ListedRunsAreFound
<1>1. Inv => ListedRunsAreFound
  BY DEF Inv, AnswerInv, GoodAnswer, ListedRunsAreFound
<1> QED
  BY Invariance, <1>1, PTL
=============================================================================
