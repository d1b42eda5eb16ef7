-------------------------- MODULE SuiteMetricsProofs --------------------------
(***************************************************************************)
(* The answers of the metrics service are snapshots, although each takes   *)
(* several statements, for any clients, runs, days and bounds.             *)
(***************************************************************************)
EXTENDS SuiteMetrics, DataLemmas

(* What the proof needs of the types: an entry is an aggregate of some rows. *)
Aggregates == {Aggregate(R, T) : R \in SUBSET RunRows, T \in SUBSET Spans}
Requests == [stage : Stages, kind : Kinds, cutoff : Nat, pending : Seq(SUBSET RunRows),
             read : SUBSET RunRows, spans : SUBSET Spans, entries : Seq(Aggregates),
             seen : Nat]

(* Rows bear their place as id, and no trajectory comes before its run. *)
RowsInv ==
    /\ clock \in Nat
    /\ runs \in Seq(RunRows) /\ \A i \in 1..Len(runs) : runs[i].id = i
    /\ trajectories \in SUBSET Spans /\ \A t \in trajectories : t.run <= Len(runs)

(* The handler e has the first aggregates of the groups G, reads the next one. *)
Working(e, G) ==
    /\ G \in Seq(SUBSET RunRows) /\ \A i \in 1..Len(G) : G[i] \subseteq First(e.seen)
    /\ Len(e.entries) + Len(e.pending) = Len(G)
    /\ \A i \in 1..Len(e.entries) : e.entries[i] = Aggregate(G[i], SpansFor(G[i]))
    /\ e.stage = "answered" <=> e.pending = <<>>
    /\ e.stage \in {"trajectories", "scores"} => e.read = G[Len(e.entries) + 1]
    /\ e.stage = "scores" => e.spans = SpansFor(e.read)

Ungrouped(e, G) == G = <<First(e.seen)>> /\ Working(e, G)

SummaryInv(e) ==
    /\ e.stage # "window"
    /\ e.stage = "runs" => e.entries = <<>>
    /\ e.stage \in {"runs", "trajectories", "scores"} => e.pending = <<{}>>
    /\ e.stage \in {"trajectories", "scores", "answered"} =>
          e.seen <= Len(runs) /\ \E G : Ungrouped(e, G)

Left(e, G) ==
    /\ \A i \in 1..Len(G) : G[i] # {}
    /\ \A i \in 1..Len(e.pending) : e.pending[i] = G[Len(e.entries) + i]

Grouped(e, W, G) == W = Window(e.seen, e.cutoff) /\ G \in ByDay(W) /\ Working(e, G) /\ Left(e, G)

HistoryInv(e) ==
    /\ e.stage = "window" => e.entries = <<>>
    /\ e.stage \in {"runs", "trajectories", "scores", "answered"} =>
          e.seen <= Len(runs) /\ \E W, G : Grouped(e, W, G)

RequestInv(e) == /\ e \in Requests
                 /\ e.kind = "aggregate" => SummaryInv(e)
                 /\ e.kind = "history" => HistoryInv(e)

IInv == RowsInv /\ req \in [Clients -> Requests] /\ \A q \in Clients : RequestInv(req[q])
-----------------------------------------------------------------------------
(* There are finitely many rows, so a grouping is a sequence of its days. *)
LEMMA GroupsAreSequences ==
    ASSUME RowsInv, NEW n \in 0..Len(runs), NEW c \in Nat, NEW G \in ByDay(Window(n, c))
    PROVE  /\ G \in Seq(SUBSET RunRows)
           /\ \A i \in 1..Len(G) : G[i] # {} /\ G[i] \subseteq First(n)
PROOF
<1> DEFINE W == Window(n, c)
<1>1. IsFiniteSet(First(n))
  <2> DEFINE f == [i \in 1..n |-> runs[i]]
  <2>1. f \in Surjection(1..n, First(n))
    BY DEF Surjection, First
  <2>2. IsFiniteSet(1..n)
    BY FS_Interval
  <2> QED
    BY <2>1, <2>2, FS_Surjection
<1>2. W \subseteq First(n) /\ First(n) \subseteq RunRows
  BY DEF Window, First, RowsInv
<1>3. IsFiniteSet(W)
  BY <1>1, <1>2, FS_Subset
<1> HIDE DEF W
<1>4. Cardinality(DaysOf(W)) \in Nat
  <2> DEFINE g == [r \in W |-> Day(r)]
  <2>1. g \in Surjection(W, DaysOf(W))
    BY DEF Surjection, DaysOf
  <2> QED
    BY <2>1, <1>3, FS_Surjection, FS_CardinalityType
<1>5. PICK d \in [1..Cardinality(DaysOf(W)) -> DaysOf(W)] :
         G = [i \in DOMAIN d |-> {r \in W : Day(r) = d[i]}]
  BY DEF ByDay, W
<1>6. \A i \in 1..Cardinality(DaysOf(W)) : G[i] # {} /\ G[i] \subseteq W
  <2> SUFFICES ASSUME NEW i \in 1..Cardinality(DaysOf(W))
               PROVE  G[i] # {} /\ G[i] \subseteq W
    OBVIOUS
  <2>1. d[i] \in DaysOf(W) /\ G[i] = {r \in W : Day(r) = d[i]}
    BY <1>5
  <2>2. PICK r \in W : d[i] = Day(r)
    BY <2>1 DEF DaysOf
  <2> QED
    BY <2>1, <2>2
<1>7. G \in [1..Cardinality(DaysOf(W)) -> SUBSET RunRows]
  BY <1>2, <1>5, <1>6
<1>8. G \in Seq(SUBSET RunRows) /\ Len(G) = Cardinality(DaysOf(W))
  BY <1>4, <1>7
<1> QED
  BY <1>2, <1>6, <1>8

(* Suites are added at the end: what was read before is still the same. *)
LEMMA CommitKeepsRows ==
    ASSUME RowsInv, NEW n \in 1..MaxSuite, CommitSuite(n)
    PROVE  /\ RowsInv' /\ Len(runs) <= Len(runs')
           /\ \A k \in 0..Len(runs) : First(k)' = First(k)
           /\ \A k \in 0..Len(runs) : \A S \in SUBSET First(k) : SpansFor(S)' = SpansFor(S)
PROOF
<1> USE ConstantsAssumption
<1>1. PICK suite \in [1..n -> RunKinds], start \in [1..n -> {t \in 0..clock : clock - t <= 1}] :
         /\ runs' = runs \o RowsOf(suite, start)
         /\ trajectories' = trajectories \union SpansOf(suite)
  BY DEF CommitSuite
<1>2. n \in Nat /\ clock' = clock /\ Len(runs) \in Nat /\ Len(runs) + n <= MaxRuns
  BY DEF CommitSuite, RowsInv
<1>0. clock \in Nat /\ runs \in Seq(RunRows) /\ \A i \in 1..Len(runs) : runs[i].id = i
  BY DEF RowsInv
<1>a. \A i \in 1..n : Len(runs) + i \in RunIds /\ start[i] \in Nat
  <2> SUFFICES ASSUME NEW i \in 1..n PROVE Len(runs) + i \in RunIds /\ start[i] \in Nat
    OBVIOUS
  <2>1. start[i] \in 0..clock
    BY <1>1
  <2>2. Len(runs) + i \in 1..MaxRuns
    BY <1>2
  <2> QED
    BY <2>1, <2>2, <1>0 DEF RunIds
<1> DEFINE new == RowsOf(suite, start)
<1>3. /\ new \in Seq(RunRows) /\ Len(new) = n
      /\ \A i \in 1..n : new[i].id = Len(runs) + i
  <2>1. \A i \in 1..n : suite[i].status \in {"PASS", "ERROR"} /\ suite[i].ms \in Nat
    BY <1>1
  <2>2. new \in [1..n -> RunRows] /\ \A i \in 1..n : new[i].id = Len(runs) + i
    BY <1>1, <1>a, <2>1 DEF RowsOf, RunRows
  <2> HIDE DEF new
  <2> QED
    BY <1>2, <2>2
<1>4. SpansOf(suite) \subseteq Spans /\ \A t \in SpansOf(suite) : t.run > Len(runs) /\ t.run <= Len(runs) + n
  <2> SUFFICES ASSUME NEW k \in 1..n
               PROVE  LET t == [run |-> Len(runs) + k, tokens |-> suite[k].tokens,
                                steps |-> suite[k].steps, toolErrors |-> suite[k].toolErrors]
                      IN  t \in Spans /\ t.run > Len(runs) /\ t.run <= Len(runs) + n
    BY <1>1 DEF SpansOf
  <2>1. suite[k].tokens \in Nat /\ suite[k].steps \in Nat /\ suite[k].toolErrors \in Nat
    BY <1>1
  <2>2. Len(runs) + k > Len(runs) /\ Len(runs) + k <= Len(runs) + n
    BY <1>2
  <2> QED
    BY <1>a, <2>1, <2>2 DEF Spans
<1>b. runs' = runs \o new
  BY <1>1
<1> HIDE DEF new
<1>5. /\ runs' \in Seq(RunRows) /\ Len(runs') = Len(runs) + n
      /\ \A i \in 1..Len(runs) : runs'[i] = runs[i]
      /\ \A i \in 1..n : runs'[Len(runs) + i] = new[i]
  <2>1. runs \in Seq(RunRows) /\ new \in Seq(RunRows) /\ Len(new) = n
    BY <1>0, <1>3
  <2>2. /\ runs \o new \in Seq(RunRows) /\ Len(runs \o new) = Len(runs) + Len(new)
        /\ \A i \in 1..(Len(runs) + Len(new)) :
              (runs \o new)[i] = IF i <= Len(runs) THEN runs[i] ELSE new[i - Len(runs)]
    BY <2>1, ConcatProperties
  <2>3. \A i \in 1..Len(runs) : runs'[i] = runs[i]
    BY <2>1, <2>2, <1>b, <1>2
  <2>4. \A i \in 1..n : runs'[Len(runs) + i] = new[i]
    <3> SUFFICES ASSUME NEW i \in 1..n PROVE runs'[Len(runs) + i] = new[i]
      OBVIOUS
    <3>1. /\ Len(runs) + i \in 1..(Len(runs) + Len(new)) /\ ~(Len(runs) + i <= Len(runs))
          /\ (Len(runs) + i) - Len(runs) = i
      BY <2>1, <1>2
    <3> QED
      BY <3>1, <2>2, <1>b
  <2> QED
    BY <2>1, <2>2, <2>3, <2>4, <1>b
<1>6. \A i \in 1..Len(runs') : runs'[i].id = i
  <2> SUFFICES ASSUME NEW i \in 1..Len(runs') PROVE runs'[i].id = i
    OBVIOUS
  <2>1. CASE i <= Len(runs)
    <3>1. i \in 1..Len(runs)
      BY <2>1, <1>2, <1>5
    <3>2. runs'[i] = runs[i] /\ runs[i].id = i
      BY <3>1, <1>0, <1>5
    <3> QED
      BY <3>2
  <2>2. CASE i > Len(runs)
    <3>1. i - Len(runs) \in 1..n /\ Len(runs) + (i - Len(runs)) = i
      BY <2>2, <1>2, <1>5
    <3> QED
      BY <3>1, <1>3, <1>5
  <2> QED
    BY <2>1, <2>2, <1>2, <1>5
<1>7. /\ trajectories' \in SUBSET Spans
      /\ \A t \in trajectories' : t.run <= Len(runs')
  <2> SUFFICES ASSUME NEW t \in trajectories' PROVE t \in Spans /\ t.run <= Len(runs')
    OBVIOUS
  <2>1. CASE t \in trajectories
    <3>1. t \in Spans /\ t.run <= Len(runs) /\ t.run \in Nat
      BY <2>1 DEF RowsInv, Spans, RunIds
    <3> QED
      BY <3>1, <1>2, <1>5
  <2>2. CASE t \in SpansOf(suite)
    BY <2>2, <1>4, <1>5
  <2> QED
    BY <2>1, <2>2, <1>1
<1>8. \A k \in 0..Len(runs) : First(k)' = First(k)
  <2> SUFFICES ASSUME NEW k \in 0..Len(runs) PROVE First(k)' = First(k)
    OBVIOUS
  <2>1. \A i \in 1..k : runs'[i] = runs[i]
    BY <1>2, <1>5
  <2> QED
    BY <2>1 DEF First
<1>9. ASSUME NEW k \in 0..Len(runs), NEW S \in SUBSET First(k)
      PROVE  SpansFor(S)' = SpansFor(S)
  <2>1. \A r \in S : r.id \in 1..Len(runs)
    <3> SUFFICES ASSUME NEW r \in S PROVE r.id \in 1..Len(runs)
      OBVIOUS
    <3>1. PICK i \in 1..k : r = runs[i]
      BY DEF First
    <3>2. i \in 1..Len(runs)
      BY <1>2
    <3> QED
      BY <3>1, <3>2, <1>0
  <2>2. \A t \in SpansOf(suite), r \in S : t.run # r.id
    BY <2>1, <1>2, <1>4 DEF Spans, RunIds
  <2> QED
    BY <2>2, <1>1 DEF SpansFor
<1>10. RowsInv'
  BY <1>2, <1>5, <1>6, <1>7 DEF RowsInv
<1> QED
  BY <1>2, <1>5, <1>8, <1>9, <1>10

(* Hence a handler is not disturbed by a commit. *)
LEMMA CommitKeepsRequests ==
    ASSUME RowsInv, NEW n \in 1..MaxSuite, CommitSuite(n), NEW e \in Requests, RequestInv(e)
    PROVE  RequestInv(e)'
PROOF
<1>1. /\ RowsInv' /\ Len(runs) <= Len(runs') /\ Len(runs) \in Nat /\ Len(runs') \in Nat
      /\ \A k \in 0..Len(runs) : First(k)' = First(k)
      /\ \A k \in 0..Len(runs) : \A S \in SUBSET First(k) : SpansFor(S)' = SpansFor(S)
  BY CommitKeepsRows DEF RowsInv
<1>2. ASSUME NEW G, e.seen <= Len(runs), Working(e, G)
      PROVE  Working(e, G)'
  <2>1. e.seen \in 0..Len(runs) /\ First(e.seen)' = First(e.seen)
    BY <1>1, <1>2 DEF Requests
  <2>2. \A i \in 1..Len(G) : SpansFor(G[i])' = SpansFor(G[i])
    BY <1>1, <1>2, <2>1 DEF Working
  <2>3. \A i \in 1..Len(e.entries) : i \in 1..Len(G)
    BY <1>2 DEF Working, Requests
  <2>4. \A i \in 1..Len(e.entries) : e.entries[i] = Aggregate(G[i], SpansFor(G[i])')
    BY <2>2, <2>3, <1>2 DEF Working
  <2>5. ASSUME e.stage = "scores" PROVE SpansFor(e.read)' = SpansFor(e.read)
    <3>1. e.read = G[Len(e.entries) + 1] /\ e.pending # <<>>
      BY <1>2, <2>5 DEF Working
    <3>2. Len(e.entries) + 1 \in 1..Len(G)
      BY <3>1, <1>2 DEF Working, Requests
    <3> QED
      BY <3>1, <3>2, <2>2
  <2> QED
    BY <1>2, <2>1, <2>4, <2>5 DEF Working
<1>3. ASSUME e.kind = "aggregate" PROVE SummaryInv(e)'
  <2>1. SummaryInv(e)
    BY <1>3 DEF RequestInv
  <2>2. ASSUME e.stage \in {"trajectories", "scores", "answered"}
        PROVE  e.seen <= Len(runs') /\ (\E G : Ungrouped(e, G))'
    <3>1. e.seen <= Len(runs) /\ \E G : Ungrouped(e, G)
      BY <2>1, <2>2 DEF SummaryInv
    <3>2. PICK G : Ungrouped(e, G)
      BY <3>1
    <3>3. Ungrouped(e, G)'
      BY <3>1, <3>2, <1>1, <1>2 DEF Ungrouped, Requests
    <3>4. e.seen <= Len(runs')
      BY <3>1, <1>1 DEF Requests
    <3> QED
      BY <3>3, <3>4
  <2> QED
    BY <2>1, <2>2 DEF SummaryInv
<1>4. ASSUME e.kind = "history" PROVE HistoryInv(e)'
  <2>1. HistoryInv(e)
    BY <1>4 DEF RequestInv
  <2>2. ASSUME e.stage \in {"runs", "trajectories", "scores", "answered"}
        PROVE  e.seen <= Len(runs') /\ (\E W, G : Grouped(e, W, G))'
    <3>1. e.seen <= Len(runs) /\ \E W, G : Grouped(e, W, G)
      BY <2>1, <2>2 DEF HistoryInv
    <3>2. PICK W, G : Grouped(e, W, G)
      BY <3>1
    <3>3. Window(e.seen, e.cutoff)' = Window(e.seen, e.cutoff)
      BY <3>1, <1>1 DEF Requests, Window
    <3>4. Working(e, G)'
      BY <3>1, <3>2, <1>2 DEF Grouped
    <3>5. (W = Window(e.seen, e.cutoff))'
      BY <3>2, <3>3 DEF Grouped
    <3>6. Left(e, G)'
      BY <3>2 DEF Grouped, Left
    <3>7. e.seen <= Len(runs')
      BY <3>1, <1>1 DEF Requests
    <3>8. Grouped(e, W, G)'
      BY <3>2, <3>4, <3>5, <3>6 DEF Grouped
    <3> QED
      BY <3>7, <3>8
  <2> QED
    BY <2>1, <2>2 DEF HistoryInv
<1> QED
  BY <1>3, <1>4 DEF RequestInv
-----------------------------------------------------------------------------
(* A handler that does not move is where it was while the rows are. *)
LEMMA UnchangedRequest ==
    ASSUME runs' = runs, trajectories' = trajectories,
           NEW q \in Clients, RequestInv(req'[q])
    PROVE  RequestInv(req[q])'
PROOF
<1>1. ASSUME NEW e, NEW G, Working(e, G) PROVE Working(e, G)'
  BY <1>1 DEF Working, First, SpansFor
<1>2. ASSUME NEW e, SummaryInv(e) PROVE SummaryInv(e)'
  <2>1. ASSUME NEW G, Ungrouped(e, G) PROVE Ungrouped(e, G)'
    BY <1>1, <2>1 DEF Ungrouped, First
  <2> QED
    BY <1>2, <2>1 DEF SummaryInv
<1>3. ASSUME NEW e, NEW W, NEW G, Grouped(e, W, G) PROVE Grouped(e, W, G)'
  BY <1>1, <1>3 DEF Grouped, Window, First
<1>4. ASSUME NEW e, HistoryInv(e) PROVE HistoryInv(e)'
  BY <1>3, <1>4 DEF HistoryInv
<1>5. ASSUME NEW e, e = req'[q] PROVE RequestInv(e)'
  BY <1>2, <1>4, <1>5 DEF RequestInv
<1> QED
  BY <1>5 DEF RequestInv

(* A step of one handler to f leaves the rows and the other handlers alone. *)
LEMMA HandlerStep ==
    ASSUME IInv, NEW q \in Clients, NEW f \in Requests, RequestInv(f), Handle(q, f)
    PROVE  IInv'
PROOF
<1>1. clock' = clock /\ runs' = runs /\ trajectories' = trajectories
  BY DEF Handle
<1>2. RowsInv'
  BY <1>1 DEF IInv, RowsInv
<1>3. \A p \in Clients : req'[p] = IF p = q THEN f ELSE req[p]
  BY DEF Handle, IInv
<1>4. req' \in [Clients -> Requests]
  BY DEF Handle, IInv
<1>5. ASSUME NEW p \in Clients PROVE RequestInv(req[p])'
  BY <1>1, <1>3, UnchangedRequest DEF IInv
<1> QED
  BY <1>2, <1>4, <1>5 DEF IInv

(* What a handler finds by the ids of a group is the group. *)
LEMMA FoundIsGroup ==
    ASSUME RowsInv, NEW n \in 0..Len(runs), NEW S, S # {}, S \subseteq First(n)
    PROVE  Found(S) = S
PROOF
<1>1. S \subseteq Committed
  BY DEF First, Committed, RowsInv
<1>2. \A r, s \in Committed : r.id = s.id => r = s
  <2> SUFFICES ASSUME NEW r \in Committed, NEW s \in Committed, r.id = s.id PROVE r = s
    OBVIOUS
  <2>1. PICK i \in 1..Len(runs) : r = runs[i]
    BY DEF Committed, First
  <2>2. PICK j \in 1..Len(runs) : s = runs[j]
    BY DEF Committed, First
  <2>3. r.id = i /\ s.id = j
    BY <2>1, <2>2 DEF RowsInv
  <2> QED
    BY <2>1, <2>2, <2>3
<1> QED
  BY <1>1, <1>2 DEF Found
-----------------------------------------------------------------------------
LEMMA ShortSequences ==
    ASSUME NEW S
    PROVE  <<>> \in Seq(S) /\ \A x \in S : <<x>> \in Seq(S)
PROOF
OBVIOUS

LEMMA BeginStep ==
    ASSUME IInv, NEW q \in Clients, NEW kind \in Kinds, Begin(q, kind)
    PROVE  IInv'
PROOF
<1> USE ConstantsAssumption
<1>1. PICK days \in HistoryDays :
         Handle(q, [stage   |-> IF kind = "history" THEN "window" ELSE "runs",
                    kind    |-> kind,
                    cutoff  |-> IF days * TicksPerDay < clock
                                THEN clock - days * TicksPerDay ELSE 0,
                    pending |-> IF kind = "history" THEN <<>> ELSE <<{}>>,
                    read    |-> {}, spans |-> {}, entries |-> <<>>,
                    seen    |-> 0])
  BY DEF Begin
<1> DEFINE cutoff == IF days * TicksPerDay < clock THEN clock - days * TicksPerDay ELSE 0
           f == [stage   |-> IF kind = "history" THEN "window" ELSE "runs",
                 kind    |-> kind, cutoff |-> cutoff,
                 pending |-> IF kind = "history" THEN <<>> ELSE <<{}>>,
                 read    |-> {}, spans |-> {}, entries |-> <<>>, seen |-> 0]
<1>2. cutoff \in Nat
  <2>1. clock \in Nat /\ days * TicksPerDay \in Nat
    BY DEF IInv, RowsInv
  <2> QED
    BY <2>1
<1> HIDE DEF cutoff
<1>4. f.pending \in Seq(SUBSET RunRows)
  <2>1. <<>> \in Seq(SUBSET RunRows) /\ <<{}>> \in Seq(SUBSET RunRows)
    BY ShortSequences
  <2> QED
    BY <2>1
<1>5. f \in Requests
  BY <1>2, <1>4 DEF Requests, Stages, Kinds
<1>6. RequestInv(f)
  BY <1>5 DEF RequestInv, SummaryInv, HistoryInv, Kinds
<1>7. Handle(q, f)
  BY <1>1 DEF cutoff
<1> HIDE DEF f
<1> QED
  BY <1>5, <1>6, <1>7, HandlerStep

LEMMA ReadFailsStep ==
    ASSUME IInv, NEW q \in Clients, ReadFails(q)
    PROVE  IInv'
PROOF
<1> DEFINE f == [req[q] EXCEPT !.stage = "error", !.pending = <<>>, !.read = {},
                               !.spans = {}, !.entries = <<>>]
<1>1. req[q] \in Requests
  BY DEF IInv
<1>2. f \in Requests /\ f.stage = "error"
  <2> DEFINE a == [req[q] EXCEPT !.stage = "error"]
             b == [a EXCEPT !.pending = <<>>]
             c == [b EXCEPT !.read = {}]
             d == [c EXCEPT !.spans = {}]
  <2>1. a \in Requests /\ a.stage = "error"
    BY <1>1 DEF Requests, Stages
  <2>2. b \in Requests /\ b.stage = "error"
    <3> HIDE DEF a
    <3>1. <<>> \in Seq(SUBSET RunRows)
      BY ShortSequences
    <3> QED
      BY <2>1, <3>1 DEF Requests
  <2>3. c \in Requests /\ c.stage = "error"
    <3> HIDE DEF b
    <3> QED
      BY <2>2 DEF Requests
  <2>4. d \in Requests /\ d.stage = "error"
    <3> HIDE DEF c
    <3> QED
      BY <2>3 DEF Requests
  <2>5. f = [d EXCEPT !.entries = <<>>]
    OBVIOUS
  <2>6. <<>> \in Seq(Aggregates)
    BY ShortSequences
  <2> HIDE DEF f, d
  <2> QED
    BY <2>4, <2>5, <2>6 DEF Requests
<1>3. Handle(q, f)
  BY DEF ReadFails
<1> HIDE DEF f
<1>4. RequestInv(f)
  BY <1>2 DEF RequestInv, SummaryInv, HistoryInv
<1> QED
  BY <1>2, <1>3, <1>4, HandlerStep

LEMMA ReadWindowStep ==
    ASSUME IInv, NEW q \in Clients, ReadWindow(q)
    PROVE  IInv'
PROOF
<1> DEFINE e == req[q]
           W == Window(Len(runs), e.cutoff)
<1>1. PICK G \in ByDay(W) :
         Handle(q, [req[q] EXCEPT !.stage = IF G = <<>> THEN "answered" ELSE "runs",
                                  !.pending = G, !.seen = Len(runs)])
  BY DEF ReadWindow
<1>2. /\ e \in Requests /\ e.kind = "history" /\ e.entries = <<>>
      /\ Len(runs) \in Nat
  BY DEF ReadWindow, At, IInv, RequestInv, SummaryInv, HistoryInv, Kinds, RowsInv, Requests
<1>3. G \in Seq(SUBSET RunRows) /\ \A i \in 1..Len(G) : G[i] # {} /\ G[i] \subseteq First(Len(runs))
  <2>1. Len(runs) \in 0..Len(runs) /\ e.cutoff \in Nat /\ RowsInv
    BY <1>2 DEF IInv, Requests
  <2> HIDE DEF e
  <2> QED
    BY <2>1, GroupsAreSequences
<1> DEFINE s == IF G = <<>> THEN "answered" ELSE "runs"
           a == [e EXCEPT !.stage = s]
           b == [a EXCEPT !.pending = G]
           f == [b EXCEPT !.seen = Len(runs)]
<1>4. /\ a \in Requests /\ a.stage = s /\ a.kind = "history" /\ a.cutoff = e.cutoff
      /\ a.entries = <<>>
  BY <1>2 DEF Requests, Stages
<1>5. /\ b \in Requests /\ b.stage = s /\ b.kind = "history" /\ b.cutoff = e.cutoff
      /\ b.entries = <<>> /\ b.pending = G
  <2> HIDE DEF a, s
  <2> QED
    BY <1>3, <1>4 DEF Requests
<1>6. /\ f \in Requests /\ f.stage = s /\ f.kind = "history" /\ f.cutoff = e.cutoff
      /\ f.entries = <<>> /\ f.pending = G /\ f.seen = Len(runs)
  <2> HIDE DEF b, s
  <2> QED
    BY <1>2, <1>5 DEF Requests
<1>7. Handle(q, f)
  BY <1>1
<1> HIDE DEF a, b, f
<1>8. Len(f.entries) = 0
  BY <1>6
<1>9. Working(f, G) /\ Left(f, G)
  BY <1>3, <1>6, <1>8 DEF Working, Left
<1>10. Grouped(f, W, G)
  BY <1>1, <1>6, <1>9 DEF Grouped
<1>11. HistoryInv(f)
  BY <1>2, <1>6, <1>10 DEF HistoryInv
<1>12. RequestInv(f)
  BY <1>6, <1>11 DEF RequestInv
<1> QED
  BY <1>6, <1>7, <1>12, HandlerStep
-----------------------------------------------------------------------------
LEMMA ReadRunsStep ==
    ASSUME IInv, NEW q \in Clients, ReadRuns(q)
    PROVE  IInv'
PROOF
<1> DEFINE e == req[q]
           S == Head(e.pending)
           n == IF S = {} THEN Len(runs) ELSE e.seen
           a == [e EXCEPT !.stage = "trajectories"]
           b == [a EXCEPT !.read = Found(S)]
           f == [b EXCEPT !.seen = n]
<1>1. e \in Requests /\ e.stage = "runs" /\ RequestInv(e) /\ RowsInv /\ Len(runs) \in Nat
  BY DEF ReadRuns, At, IInv, RowsInv
<1>2. Handle(q, f)
  BY DEF ReadRuns
<1>3. Committed \subseteq RunRows /\ Found(S) \subseteq RunRows /\ n \in Nat
  BY <1>1 DEF Committed, First, Found, RowsInv, Requests
<1> HIDE DEF S, n
<1>4. /\ f \in Requests /\ f.stage = "trajectories" /\ f.kind = e.kind
      /\ f.cutoff = e.cutoff /\ f.pending = e.pending /\ f.entries = e.entries
      /\ f.seen = n /\ f.read = Found(S)
  <2>1. /\ a \in Requests /\ a.stage = "trajectories" /\ a.kind = e.kind
        /\ a.cutoff = e.cutoff /\ a.pending = e.pending /\ a.entries = e.entries
    BY <1>1 DEF Requests, Stages
  <2>2. /\ b \in Requests /\ b.stage = "trajectories" /\ b.kind = e.kind
        /\ b.cutoff = e.cutoff /\ b.pending = e.pending /\ b.entries = e.entries
        /\ b.read = Found(S)
    <3> HIDE DEF a, e
    <3> QED
      BY <2>1, <1>3 DEF Requests
  <2> HIDE DEF b, e
  <2> QED
    BY <2>2, <1>3 DEF Requests
<1> HIDE DEF a, b, f, e
<1>5. CASE e.kind = "aggregate"
  <2>1. e.pending = <<{}>> /\ e.entries = <<>>
    BY <1>1, <1>5 DEF RequestInv, SummaryInv
  <2>2. S = {} /\ n = Len(runs) /\ Found(S) = First(Len(runs))
    BY <2>1 DEF S, n, Found, Committed
  <2>3. Working(f, <<First(n)>>)
    <3> DEFINE G == <<First(n)>>
    <3>1. First(n) \subseteq RunRows
      BY <1>3, <2>2 DEF Committed
    <3>2. G \in Seq(SUBSET RunRows) /\ Len(G) = 1 /\ G[1] = First(n)
      BY <3>1, ShortSequences
    <3>3. Len(f.entries) = 0 /\ Len(f.pending) = 1 /\ f.pending # <<>>
      BY <2>1, <1>4
    <3>4. f.read = G[Len(f.entries) + 1]
      BY <2>2, <3>2, <3>3, <1>4
    <3>5. \A i \in 1..Len(G) : G[i] \subseteq First(f.seen)
      BY <3>2, <1>4
    <3> HIDE DEF G
    <3>6. Working(f, G)
      BY <3>2, <3>3, <3>4, <3>5, <1>4 DEF Working
    <3> QED
      BY <3>6 DEF G
  <2>4. SummaryInv(f)
    BY <1>4, <2>1, <2>2, <2>3, <1>1 DEF SummaryInv, Ungrouped
  <2> QED
    BY <1>4, <1>5, <2>4, <1>2, HandlerStep DEF RequestInv
<1>6. CASE e.kind = "history"
  <2>1. e.seen <= Len(runs) /\ \E W, G : Grouped(e, W, G)
    BY <1>1, <1>6 DEF RequestInv, HistoryInv
  <2>2. PICK W, G : Grouped(e, W, G)
    BY <2>1
  <2>3. /\ e.pending # <<>> /\ e.pending \in Seq(SUBSET RunRows) /\ e.entries \in Seq(Aggregates)
        /\ e.seen \in 0..Len(runs)
    BY <1>1, <2>1, <2>2 DEF Grouped, Working, Requests
  <2>4. /\ S = e.pending[1] /\ 1 \in 1..Len(e.pending)
        /\ Len(e.entries) + 1 \in 1..Len(G)
    <3>1. Len(e.pending) \in Nat \ {0} /\ S = e.pending[1]
      BY <2>3 DEF S
    <3>2. Len(e.entries) \in Nat
      BY <2>3
    <3>3. Len(e.entries) + Len(e.pending) = Len(G)
      BY <2>2 DEF Grouped, Working
    <3>4. \A i \in Nat, j \in Nat \ {0} : i + 1 \in 1..(i + j) /\ 1 \in 1..j
      OBVIOUS
    <3>5. 1 \in 1..Len(e.pending) /\ Len(e.entries) + 1 \in 1..(Len(e.entries) + Len(e.pending))
      BY <3>1, <3>2, <3>4
    <3> QED
      BY <3>1, <3>3, <3>5
  <2>5. S = G[Len(e.entries) + 1]
    BY <2>2, <2>3, <2>4 DEF Grouped, Left
  <2>6. S # {} /\ S \subseteq First(e.seen)
    BY <2>2, <2>4, <2>5 DEF Grouped, Working, Left
  <2>7. Found(S) = S /\ n = e.seen
    BY <2>3, <2>6, <1>1, FoundIsGroup DEF n
  <2>8. Working(f, G)
    BY <2>2, <2>3, <2>5, <2>7, <1>1, <1>4 DEF Grouped, Working
  <2>9. Grouped(f, W, G)
    BY <2>2, <2>7, <2>8, <1>4 DEF Grouped, Left
  <2>10. HistoryInv(f)
    BY <2>1, <2>7, <2>9, <1>4 DEF HistoryInv
  <2> QED
    BY <1>4, <1>6, <2>10, <1>2, HandlerStep DEF RequestInv
<1> QED
  BY <1>1, <1>5, <1>6 DEF Requests, Kinds

LEMMA ReadTrajectoriesStep ==
    ASSUME IInv, NEW q \in Clients, ReadTrajectories(q)
    PROVE  IInv'
PROOF
<1> DEFINE e == req[q]
           a == [e EXCEPT !.stage = "scores"]
           f == [a EXCEPT !.spans = SpansFor(e.read)]
<1>1. e \in Requests /\ e.stage = "trajectories" /\ RequestInv(e)
  BY DEF ReadTrajectories, At, IInv
<1>2. Handle(q, f)
  BY DEF ReadTrajectories
<1>3. SpansFor(e.read) \subseteq Spans
  BY DEF SpansFor, IInv, RowsInv
<1>4. /\ f \in Requests /\ f.stage = "scores" /\ f.kind = e.kind
      /\ f.cutoff = e.cutoff /\ f.pending = e.pending /\ f.entries = e.entries
      /\ f.seen = e.seen /\ f.read = e.read /\ f.spans = SpansFor(e.read)
  <2>1. /\ a \in Requests /\ a.stage = "scores" /\ a.kind = e.kind
        /\ a.cutoff = e.cutoff /\ a.pending = e.pending /\ a.entries = e.entries
        /\ a.seen = e.seen /\ a.read = e.read
    BY <1>1 DEF Requests, Stages
  <2> HIDE DEF a, e
  <2> QED
    BY <2>1, <1>3 DEF Requests
<1> HIDE DEF a, f, e
<1>5. ASSUME NEW G, Working(e, G) PROVE Working(f, G)
  BY <1>1, <1>4, <1>5 DEF Working
<1>6. ASSUME e.kind = "aggregate" PROVE SummaryInv(f)
  <2>1. SummaryInv(e)
    BY <1>1, <1>6 DEF RequestInv
  <2>2. e.pending = <<{}>> /\ e.seen <= Len(runs) /\ \E G : Ungrouped(e, G)
    BY <2>1, <1>1 DEF SummaryInv
  <2>3. \E G : Ungrouped(f, G)
    BY <2>2, <1>4, <1>5 DEF Ungrouped
  <2> QED
    BY <2>2, <2>3, <1>4 DEF SummaryInv
<1>7. ASSUME e.kind = "history" PROVE HistoryInv(f)
  <2>1. HistoryInv(e)
    BY <1>1, <1>7 DEF RequestInv
  <2>2. e.seen <= Len(runs) /\ \E W, G : Grouped(e, W, G)
    BY <2>1, <1>1 DEF HistoryInv
  <2>3. \E W, G : Grouped(f, W, G)
    BY <2>2, <1>4, <1>5 DEF Grouped, Left
  <2> QED
    BY <2>2, <2>3, <1>4 DEF HistoryInv
<1>8. RequestInv(f)
  BY <1>4, <1>6, <1>7 DEF RequestInv
<1> QED
  BY <1>2, <1>4, <1>8, HandlerStep

LEMMA ReadScoresStep ==
    ASSUME IInv, NEW q \in Clients, ReadScores(q)
    PROVE  IInv'
PROOF
<1> DEFINE e == req[q]
           left == Tail(e.pending)
           m == Aggregate(e.read, e.spans)
           s == IF left = <<>> THEN "answered" ELSE "runs"
           a == [e EXCEPT !.stage = s]
           b == [a EXCEPT !.pending = left]
           c == [b EXCEPT !.read = {}]
           d == [c EXCEPT !.spans = {}]
           f == [d EXCEPT !.entries = Append(e.entries, m)]
<1>1. e \in Requests /\ e.stage = "scores" /\ RequestInv(e)
  BY DEF ReadScores, At, IInv
<1>2. Handle(q, f)
  BY DEF ReadScores
<1> HIDE DEF e
<1>3. e.pending \in Seq(SUBSET RunRows) /\ e.entries \in Seq(Aggregates) /\ m \in Aggregates
  BY <1>1 DEF Requests, Aggregates
<1>4. \E G : Working(e, G)
  BY <1>1 DEF RequestInv, Requests, Kinds, SummaryInv, HistoryInv, Grouped, Ungrouped
<1>5. e.pending # <<>>
  BY <1>1, <1>4 DEF Working
<1>6. /\ left \in Seq(SUBSET RunRows) /\ Len(left) = Len(e.pending) - 1
      /\ \A i \in 1..Len(left) : left[i] = e.pending[i + 1]
  BY <1>3, <1>5, HeadTailProperties
<1> HIDE DEF m
<1>7. /\ Append(e.entries, m) \in Seq(Aggregates)
      /\ Len(Append(e.entries, m)) = Len(e.entries) + 1
      /\ \A i \in 1..Len(e.entries) : Append(e.entries, m)[i] = e.entries[i]
      /\ Append(e.entries, m)[Len(e.entries) + 1] = m
  BY <1>3, AppendProperties
<1> HIDE DEF left, s
<1>8. /\ f \in Requests /\ f.stage = s /\ f.kind = e.kind /\ f.cutoff = e.cutoff
      /\ f.pending = left /\ f.seen = e.seen /\ f.entries = Append(e.entries, m)
  <2>0. s \in Stages
    BY DEF s, Stages
  <2>1. /\ a \in Requests /\ a.stage = s /\ a.kind = e.kind /\ a.cutoff = e.cutoff
        /\ a.seen = e.seen
    BY <1>1, <2>0 DEF Requests
  <2>2. /\ b \in Requests /\ b.stage = s /\ b.kind = e.kind /\ b.cutoff = e.cutoff
        /\ b.seen = e.seen /\ b.pending = left
    <3> HIDE DEF a
    <3> QED
      BY <2>1, <1>6 DEF Requests
  <2>3. /\ c \in Requests /\ c.stage = s /\ c.kind = e.kind /\ c.cutoff = e.cutoff
        /\ c.seen = e.seen /\ c.pending = left
    <3> HIDE DEF b
    <3> QED
      BY <2>2 DEF Requests
  <2>4. /\ d \in Requests /\ d.stage = s /\ d.kind = e.kind /\ d.cutoff = e.cutoff
        /\ d.seen = e.seen /\ d.pending = left
    <3> HIDE DEF c
    <3> QED
      BY <2>3 DEF Requests
  <2> HIDE DEF d
  <2> QED
    BY <2>4, <1>7 DEF Requests
<1> HIDE DEF a, b, c, d, f
<1>9. f.stage = "answered" <=> left = <<>>
  BY <1>8 DEF s
<1>10. f.stage \in {"answered", "runs"}
  BY <1>8 DEF s
<1>11. Len(e.entries) \in Nat /\ Len(left) \in Nat /\ Len(e.pending) = Len(left) + 1
  <2>1. Len(e.entries) \in Nat /\ Len(e.pending) \in Nat
    BY <1>3
  <2>2. Len(left) \in Nat
    BY <1>6
  <2> QED
    BY <2>1, <2>2, <1>6
<1>12. ASSUME NEW G, Working(e, G) PROVE Working(f, G)
  <2>1. m = Aggregate(G[Len(e.entries) + 1], SpansFor(G[Len(e.entries) + 1]))
    BY <1>1, <1>12 DEF m, Working
  <2>2. Len(f.entries) = Len(e.entries) + 1 /\ Len(f.pending) = Len(left)
    BY <1>7, <1>8
  <2>3. Len(f.entries) + Len(f.pending) = Len(G)
    <3>1. Len(e.entries) + Len(e.pending) = Len(G)
      BY <1>12 DEF Working
    <3> QED
      BY <3>1, <2>2, <1>11
  <2>4. ASSUME NEW i \in 1..Len(f.entries)
        PROVE  f.entries[i] = Aggregate(G[i], SpansFor(G[i]))
    <3>1. CASE i = Len(e.entries) + 1
      BY <3>1, <2>1, <1>7, <1>8
    <3>2. CASE i # Len(e.entries) + 1
      <4>1. i \in 1..Len(e.entries)
        BY <3>2, <2>2, <1>11
      <4>2. f.entries[i] = e.entries[i]
        BY <4>1, <1>7, <1>8
      <4> QED
        BY <4>1, <4>2, <1>12 DEF Working
    <3> QED
      BY <3>1, <3>2
  <2>5. G \in Seq(SUBSET RunRows) /\ \A i \in 1..Len(G) : G[i] \subseteq First(f.seen)
    BY <1>8, <1>12 DEF Working
  <2> QED
    BY <2>3, <2>4, <2>5, <1>8, <1>9, <1>10 DEF Working
<1>13. ASSUME e.kind = "aggregate" PROVE SummaryInv(f)
  <2>1. SummaryInv(e)
    BY <1>1, <1>13 DEF RequestInv
  <2>2. e.pending = <<{}>> /\ e.seen <= Len(runs) /\ \E G : Ungrouped(e, G)
    BY <2>1, <1>1 DEF SummaryInv
  <2>3. left = <<>>
    BY <2>2 DEF left
  <2>4. \E G : Ungrouped(f, G)
    BY <2>2, <1>8, <1>12 DEF Ungrouped
  <2> QED
    BY <2>2, <2>3, <2>4, <1>8, <1>9 DEF SummaryInv
<1>14. ASSUME e.kind = "history" PROVE HistoryInv(f)
  <2>1. HistoryInv(e)
    BY <1>1, <1>14 DEF RequestInv
  <2>2. e.seen <= Len(runs) /\ \E W, G : Grouped(e, W, G)
    BY <2>1, <1>1 DEF HistoryInv
  <2>3. PICK W, G : Grouped(e, W, G)
    BY <2>2
  <2>4. Left(f, G)
    <3>1. SUFFICES ASSUME NEW i \in 1..Len(left)
                   PROVE  left[i] = G[(Len(e.entries) + 1) + i]
      BY <2>3, <1>7, <1>8 DEF Grouped, Left
    <3>2. i + 1 \in 1..Len(e.pending) /\ Len(e.entries) + (i + 1) = (Len(e.entries) + 1) + i
      <4>1. \A k, l \in Nat : \A j \in 1..l : j + 1 \in 1..(l + 1) /\ k + (j + 1) = (k + 1) + j
        OBVIOUS
      <4> QED
        BY <4>1, <1>11
    <3>3. e.pending[i + 1] = G[Len(e.entries) + (i + 1)]
      BY <2>3, <3>2 DEF Grouped, Left
    <3>4. left[i] = e.pending[i + 1]
      BY <1>6
    <3>5. left[i] = G[Len(e.entries) + (i + 1)]
      BY <3>3, <3>4
    <3> QED
      BY <3>2, <3>5
  <2>5. Grouped(f, W, G)
    BY <2>3, <2>4, <1>8, <1>12 DEF Grouped
  <2> QED
    BY <2>2, <2>5, <1>8, <1>10 DEF HistoryInv
<1>15. RequestInv(f)
  BY <1>8, <1>13, <1>14 DEF RequestInv
<1> QED
  BY <1>2, <1>8, <1>15, HandlerStep
-----------------------------------------------------------------------------
LEMMA InitInv == Init => IInv
PROOF
<1> SUFFICES ASSUME Init PROVE IInv
  OBVIOUS
<1>1. RowsInv
  <2>1. <<>> \in Seq(RunRows) /\ Len(<<>>) = 0
    BY ShortSequences
  <2> QED
    BY <2>1 DEF Init, RowsInv
<1>2. NoRequest \in Requests
  <2>1. <<>> \in Seq(SUBSET RunRows) /\ <<>> \in Seq(Aggregates)
    BY ShortSequences
  <2> QED
    BY <2>1 DEF NoRequest, Requests, Stages, Kinds
<1>3. RequestInv(NoRequest)
  BY <1>2 DEF RequestInv, SummaryInv, NoRequest
<1> QED
  BY <1>1, <1>2, <1>3 DEF Init, IInv

LEMMA NextInv == IInv /\ [Next]_vars => IInv'
PROOF
<1> SUFFICES ASSUME IInv, [Next]_vars PROVE IInv'
  OBVIOUS
<1>1. ASSUME NEW q \in Clients, NEW kind \in Kinds, Begin(q, kind) PROVE IInv'
  BY <1>1, BeginStep
<1>2. ASSUME NEW q \in Clients, Serve(q) PROVE IInv'
  BY <1>2, ReadWindowStep, ReadRunsStep, ReadTrajectoriesStep, ReadScoresStep, ReadFailsStep
     DEF Serve
<1>3. ASSUME NEW n \in 1..MaxSuite, CommitSuite(n) PROVE IInv'
  <2>1. RowsInv' /\ req' = req
    BY <1>3, CommitKeepsRows DEF IInv, CommitSuite
  <2>2. ASSUME NEW q \in Clients PROVE RequestInv(req[q])'
    <3>1. ASSUME NEW e, e = req[q] PROVE RequestInv(e)'
      BY <3>1, <1>3, CommitKeepsRequests DEF IInv
    <3>2. PICK e : e = req[q]
      OBVIOUS
    <3>3. RequestInv(e)' /\ e = req'[q]
      BY <3>1, <3>2, <2>1
    <3> QED
      BY <3>3 DEF RequestInv
  <2> QED
    BY <2>1, <2>2 DEF IInv
<1>4. ASSUME Tick \/ UNCHANGED vars PROVE IInv'
  <2>1. runs' = runs /\ trajectories' = trajectories /\ req' = req /\ clock' \in Nat
    BY <1>4 DEF Tick, vars, IInv, RowsInv
  <2>2. RowsInv'
    BY <2>1 DEF IInv, RowsInv
  <2>3. ASSUME NEW q \in Clients PROVE RequestInv(req[q])'
    BY <2>1, UnchangedRequest DEF IInv
  <2> QED
    BY <2>1, <2>2, <2>3 DEF IInv
<1> QED
  BY <1>1, <1>2, <1>3, <1>4 DEF Next

LEMMA Invariance == Spec => []IInv
PROOF
BY InitInv, NextInv, PTL DEF Spec

(* A handler that answered has all its aggregates. *)
LEMMA AllEntries ==
    ASSUME NEW e \in Requests, NEW G, Working(e, G), e.stage = "answered"
    PROVE  /\ e.entries \in Seq(Aggregates) /\ Len(e.entries) = Len(G)
           /\ e.entries = [i \in DOMAIN G |-> Aggregate(G[i], SpansFor(G[i]))]
PROOF
<1>1. e.entries \in Seq(Aggregates) /\ G \in Seq(SUBSET RunRows)
  BY DEF Requests, Working
<1>2. Len(e.pending) = 0
  BY DEF Working
<1>3. Len(e.entries) + Len(e.pending) = Len(G)
  BY DEF Working
<1>4. Len(e.entries) = Len(G)
  <2>1. Len(e.entries) \in Nat
    BY <1>1
  <2> QED
    BY <2>1, <1>2, <1>3
<1>5. DOMAIN G = 1..Len(G) /\ DOMAIN e.entries = 1..Len(G)
  BY <1>1, <1>4
<1>6. \A i \in 1..Len(G) : e.entries[i] = Aggregate(G[i], SpansFor(G[i]))
  BY <1>4 DEF Working
<1>7. e.entries = [i \in 1..Len(G) |-> e.entries[i]]
  BY <1>1, <1>5
<1>8. e.entries = [i \in 1..Len(G) |-> Aggregate(G[i], SpansFor(G[i]))]
  BY <1>6, <1>7
<1>9. e.entries = [i \in DOMAIN G |-> Aggregate(G[i], SpansFor(G[i]))]
  BY <1>5, <1>8
<1> QED
  BY <1>1, <1>4, <1>9

LEMMA AggregateIsOf == \A S : AggregateOf(S) = Aggregate(S, SpansFor(S))
PROOF
<1>1. \A S : {t \in trajectories : t.run \in {r.id : r \in S}} = SpansFor(S)
  BY DEF SpansFor
<1> QED
  BY <1>1 DEF AggregateOf

LEMMA SnapshotsFollow == IInv => AnswersAreSnapshots
PROOF
<1> SUFFICES ASSUME IInv, NEW q \in Clients, Answered(q, "aggregate")
             PROVE  req[q].entries = <<AggregateOf(First(req[q].seen))>>
  BY DEF AnswersAreSnapshots
<1> DEFINE e == req[q]
           G == <<First(e.seen)>>
<1>1. e \in Requests /\ SummaryInv(e) /\ e.stage = "answered"
  BY DEF Answered, At, IInv, RequestInv
<1>2. Working(e, G)
  BY <1>1 DEF SummaryInv, Ungrouped
<1>3. DOMAIN G = {1} /\ G[1] = First(e.seen)
  OBVIOUS
<1>4. e.entries = [i \in DOMAIN G |-> Aggregate(G[i], SpansFor(G[i]))]
  BY <1>1, <1>2, AllEntries
<1>5. e.entries = [i \in {1} |-> AggregateOf(First(e.seen))]
  BY <1>3, <1>4, AggregateIsOf
<1>6. \A x : <<x>> = [i \in {1} |-> x]
  OBVIOUS
<1> QED
  BY <1>5, <1>6

(* An aggregate is that of the runs there were when its first statement ran,
   with their trajectories and no others. *)
THEOREM SummariesAreSnapshots == Spec => []AnswersAreSnapshots
PROOF
BY SnapshotsFollow, Invariance, PTL

(* The days of a history are those of the runs there were in its window when
   it was read, and each entry is the aggregate of its day's runs. *)
THEOREM HistoriesAreSnapshots == Spec => []HistoryCoversWindow
PROOF
<1>1. IInv => HistoryCoversWindow
  <2> SUFFICES ASSUME IInv, NEW q \in Clients, Answered(q, "history")
               PROVE  \E days \in ByDay(Window(req[q].seen, req[q].cutoff)) :
                         req[q].entries = [i \in DOMAIN days |-> AggregateOf(days[i])]
    BY DEF HistoryCoversWindow
  <2> DEFINE e == req[q]
  <2>1. e \in Requests /\ HistoryInv(e) /\ e.stage = "answered"
    BY DEF Answered, At, IInv, RequestInv
  <2>2. PICK W, G : Grouped(e, W, G)
    BY <2>1 DEF HistoryInv
  <2>3. e.entries = [i \in DOMAIN G |-> Aggregate(G[i], SpansFor(G[i]))]
    BY <2>1, <2>2, AllEntries DEF Grouped
  <2>4. e.entries = [i \in DOMAIN G |-> AggregateOf(G[i])]
    BY <2>3, AggregateIsOf
  <2> QED
    BY <2>2, <2>4 DEF Grouped
<1> QED
  BY <1>1, Invariance, PTL
-----------------------------------------------------------------------------
(* The percentiles of a finite set of rows, none of which are one run. *)
RowSet(R) ==
    /\ IsFiniteSet(R)
    /\ \A r \in R : r.id \in Nat /\ r.ms \in Nat
    /\ \A r, s \in R : r.id = s.id => r = s

AtMost(R, x) == Cardinality({r \in R : r.ms <= x})

LEMMA AtMostIsNatural ==
    ASSUME NEW R, RowSet(R), NEW x
    PROVE  AtMost(R, x) \in Nat
PROOF
<1>1. IsFiniteSet({r \in R : r.ms <= x})
  BY FS_Subset DEF RowSet
<1> QED
  BY <1>1, FS_CardinalityType DEF AtMost

(* The row of rank k: k rows take no longer, and fewer take less. *)
LEMMA RankCounts ==
    ASSUME NEW R, RowSet(R), NEW k \in 1..Cardinality(R)
    PROVE  /\ Ranked(R, k) \in R
           /\ AtMost(R, Ranked(R, k).ms) >= k
           /\ \A x \in Nat : x < Ranked(R, k).ms => AtMost(R, x) <= k - 1
PROOF
<1> DEFINE O == {p \in R \X R : Before(p[1], p[2])}
           r == Ranked(R, k)
           B == {s \in R : Before(s, r)}
<1>1. Cardinality(R) \in Nat
  BY FS_CardinalityType DEF RowSet
<1>2. Orders(O, R)
  BY DEF Orders, RowSet, Before
<1>3. k - 1 \in 0..(Cardinality(R) - 1)
  BY <1>1
<1>4. \A s \in R : Below(R, O, s) = {t \in R : Before(t, s)}
  BY DEF Below
<1>5. \E s \in R : Cardinality({t \in R : Before(t, s)}) = k - 1
  <2> HIDE DEF O
  <2>1. PICK s \in R : Cardinality(Below(R, O, s)) = k - 1
    BY <1>2, <1>3, RankIsTaken DEF RowSet
  <2>2. Cardinality({t \in R : Before(t, s)}) = k - 1
    BY <2>1, <1>4
  <2> QED
    BY <2>2
<1>6. r \in R /\ Cardinality(B) = k - 1
  BY <1>5 DEF Ranked
<1> HIDE DEF r, O
<1>7. B \in SUBSET R /\ IsFiniteSet(B) /\ r \notin B
  BY FS_Subset, <1>6 DEF RowSet, Before
<1>8. AtMost(R, r.ms) >= k
  <2>1. B \union {r} \in SUBSET {s \in R : s.ms <= r.ms}
    BY <1>6 DEF RowSet, Before
  <2>2. IsFiniteSet({s \in R : s.ms <= r.ms})
    BY FS_Subset DEF RowSet
  <2>3. Cardinality(B \union {r}) = k
    BY <1>6, <1>7, FS_AddElement
  <2> QED
    BY <2>1, <2>2, <2>3, FS_Subset DEF AtMost
<1>9. ASSUME NEW x \in Nat, x < r.ms PROVE AtMost(R, x) <= k - 1
  <2>1. {s \in R : s.ms <= x} \in SUBSET B
    BY <1>6, <1>9 DEF RowSet, Before
  <2> QED
    BY <2>1, <1>6, <1>7, FS_Subset DEF AtMost
<1> QED
  BY <1>6, <1>8, <1>9 DEF r

LEMMA IndexIsRight ==
    ASSUME NEW n \in Nat \ {0}, NEW p \in 0..100
    PROVE  /\ Index(n, p) \in 1..n
           /\ 100 * (Index(n, p) + 1) > p * n
           /\ Index(n, p) = 1 \/ 100 * Index(n, p) <= p * n
PROOF
<1> DEFINE x == n * p
           d == x \div 100
<1>1. x \in Nat /\ x <= 100 * n /\ p * n = x
  OBVIOUS
<1> HIDE DEF x
<1>2. d \in Nat /\ 100 * d <= x /\ x < 100 * d + 100
  BY <1>1
<1>3. (n * p) \div 100 = d
  BY DEF x
<1> HIDE DEF d
<1>4. Max({1, d}) = IF d > 1 THEN d ELSE 1
  <2>1. \E m \in {1, d} : \A y \in {1, d} : m >= y
    BY <1>2
  <2> QED
    BY <2>1, <1>2 DEF Max
<1>5. d <= n
  BY <1>1, <1>2
<1>6. Index(n, p) = IF d > 1 THEN d ELSE 1
  BY <1>3, <1>4, <1>5 DEF Index
<1> QED
  BY <1>1, <1>2, <1>5, <1>6

(* The percentile found by rank is the one found by counting. *)
LEMMA PercentileIsRight ==
    ASSUME NEW R, RowSet(R), NEW p \in 0..100
    PROVE  Percentile(R, p) \in Nat /\ IsPercentile(Percentile(R, p), R, p)
PROOF
<1>1. CASE R = {}
  BY <1>1 DEF Percentile, IsPercentile
<1>2. CASE R # {}
  <2> DEFINE n == Cardinality(R)
             k == Index(n, p)
             v == Percentile(R, p)
             Enough(x) == AtMost(R, x) >= 1 /\ 100 * (AtMost(R, x) + 1) > p * n
  <2>1. n \in Nat \ {0}
    BY <1>2, FS_CardinalityType, FS_EmptySet DEF RowSet
  <2> HIDE DEF n
  <2>2. k \in 1..n /\ 100 * (k + 1) > p * n /\ (k = 1 \/ 100 * k <= p * n)
    BY <2>1, IndexIsRight
  <2>3. v = Ranked(R, k).ms
    BY <1>2 DEF Percentile, n
  <2> HIDE DEF k, v
  <2>4. /\ Ranked(R, k) \in R /\ AtMost(R, v) >= k
        /\ \A x \in Nat : x < v => AtMost(R, x) <= k - 1
    BY <2>2, <2>3, RankCounts DEF n
  <2>5. v \in Nat /\ \E r \in R : r.ms = v
    BY <2>3, <2>4 DEF RowSet
  <2>a. p * n \in Nat
    BY <2>1
  <2>6. Enough(v)
    <3>1. AtMost(R, v) \in Nat
      BY AtMostIsNatural
    <3> DEFINE a == AtMost(R, v)
               y == p * n
    <3>2. a \in Nat /\ a >= k /\ y \in Nat /\ 100 * (k + 1) > y /\ k \in Nat /\ k >= 1
      BY <2>1, <2>2, <2>4, <2>a, <3>1
    <3> HIDE DEF a, y
    <3>3. a >= 1 /\ 100 * (a + 1) > y
      BY <3>2
    <3> QED
      BY <3>3 DEF a, y
  <2>7. ASSUME NEW r \in R, Enough(r.ms) PROVE v <= r.ms
    <3>1. r.ms \in Nat /\ AtMost(R, r.ms) \in Nat
      BY AtMostIsNatural DEF RowSet
    <3> DEFINE a == AtMost(R, r.ms)
               y == p * n
    <3>2. /\ a \in Nat /\ y \in Nat /\ k \in Nat /\ a >= 1 /\ 100 * (a + 1) > y
          /\ (k = 1 \/ 100 * k <= y) /\ (r.ms < v => a <= k - 1)
      BY <2>1, <2>2, <2>4, <2>7, <2>a, <3>1
    <3> HIDE DEF a, y
    <3>3. ~(r.ms < v)
      BY <3>2
    <3> QED
      BY <3>1, <3>3, <2>5
  <2>8. IsPercentile(v, R, p)
    BY <1>2, <2>5, <2>6, <2>7 DEF IsPercentile, AtMost, n
  <2> QED
    BY <2>5, <2>8 DEF v
<1> QED
  BY <1>1, <1>2

LEMMA PercentilesAreOrdered ==
    ASSUME NEW R, RowSet(R)
    PROVE  Percentile(R, 50) <= Percentile(R, 99)
PROOF
<1>1. CASE R = {}
  BY <1>1 DEF Percentile
<1>2. CASE R # {}
  <2> DEFINE n == Cardinality(R)
             j == Index(n, 50)
             k == Index(n, 99)
  <2>1. n \in Nat \ {0}
    BY <1>2, FS_CardinalityType, FS_EmptySet DEF RowSet
  <2> HIDE DEF n
  <2>2. /\ j \in 1..n /\ (j = 1 \/ 100 * j <= 50 * n)
        /\ k \in 1..n /\ 100 * (k + 1) > 99 * n
    BY <2>1, IndexIsRight
  <2>3. Percentile(R, 50) = Ranked(R, j).ms /\ Percentile(R, 99) = Ranked(R, k).ms
    BY <1>2 DEF Percentile, n
  <2> HIDE DEF j, k
  <2>4. j <= k
    BY <2>1, <2>2
  <2>5. /\ AtMost(R, Percentile(R, 99)) >= k
        /\ \A x \in Nat : x < Percentile(R, 50) => AtMost(R, x) <= j - 1
    BY <2>2, <2>3, RankCounts DEF n
  <2>6. Percentile(R, 50) \in Nat /\ Percentile(R, 99) \in Nat
    BY PercentileIsRight
  <2>7. AtMost(R, Percentile(R, 99)) \in Nat
    BY AtMostIsNatural
  <2> QED
    BY <2>1, <2>2, <2>4, <2>5, <2>6, <2>7
<1> QED
  BY <1>1, <1>2
-----------------------------------------------------------------------------
(* Each run that passed has one trajectory, and no other run has one. *)
OwnersInv ==
    /\ \A t, u \in trajectories : t.run = u.run => t = u
    /\ \A i \in 1..Len(runs) :
          runs[i].status = "PASS" <=> \E t \in trajectories : t.run = i

BoundsInv == clock \in 0..MaxClock /\ Len(runs) <= MaxRuns

(* Before its first aggregate, and once it failed, a handler has no entry. *)
EntriesInv ==
    \A q \in Clients : req[q].stage \in {"new", "window", "error"} => req[q].entries = <<>>

AggregateInv == IInv /\ OwnersInv /\ BoundsInv /\ EntriesInv

LEMMA CommitKeepsOwners ==
    ASSUME RowsInv, OwnersInv, NEW n \in 1..MaxSuite, CommitSuite(n)
    PROVE  OwnersInv' /\ Len(runs') = Len(runs) + n
PROOF
<1> USE ConstantsAssumption
<1>1. PICK suite \in [1..n -> RunKinds], start \in [1..n -> {t \in 0..clock : clock - t <= 1}] :
         /\ runs' = runs \o RowsOf(suite, start)
         /\ trajectories' = trajectories \union SpansOf(suite)
  BY DEF CommitSuite
<1> DEFINE l == Len(runs)
           new == RowsOf(suite, start)
<1>2. /\ n \in Nat /\ l \in Nat /\ runs \in Seq(RunRows)
      /\ \A t \in trajectories : t.run \in Nat /\ t.run <= l
  BY DEF RowsInv, Spans, RunIds
<1>3. runs' \in Seq(RunRows) /\ Len(runs') \in Nat
  BY CommitKeepsRows DEF RowsInv
<1>4. /\ Len(runs') = l + n
      /\ \A i \in 1..l : runs'[i] = runs[i]
      /\ \A k \in 1..n : runs'[l + k].status = suite[k].status
  <2>1. new = [i \in 1..n |-> new[i]] /\ \A i \in 1..n : new[i].status = suite[i].status
    BY <1>1 DEF RowsOf
  <2> HIDE DEF new
  <2> DEFINE V == {new[i] : i \in 1..n} \union RunRows
  <2>2. new \in [1..n -> V] /\ RunRows \subseteq V
    BY <2>1
  <2> HIDE DEF V
  <2>a. new \in Seq(V) /\ Len(new) = n /\ runs \in Seq(V)
    BY <2>2, <1>2
  <2>3. /\ Len(runs \o new) = l + n
        /\ \A i \in 1..(l + n) : (runs \o new)[i] = IF i <= l THEN runs[i] ELSE new[i - l]
    BY <2>a, ConcatProperties
  <2>4. \A k \in 1..n : l + k \in 1..(l + n) /\ ~(l + k <= l) /\ (l + k) - l = k
    BY <1>2
  <2>5. \A k \in 1..n : (runs \o new)[l + k] = new[k]
    BY <2>3, <2>4
  <2>6. \A i \in 1..l : (runs \o new)[i] = runs[i]
    BY <2>3, <1>2
  <2>7. runs' = runs \o new
    BY <1>1 DEF new
  <2> QED
    BY <2>1, <2>3, <2>5, <2>6, <2>7
<1>5. \A t \in SpansOf(suite) : \E k \in 1..n :
         /\ suite[k].status = "PASS" /\ t.run = l + k
         /\ t = [run |-> l + k, tokens |-> suite[k].tokens, steps |-> suite[k].steps,
                 toolErrors |-> suite[k].toolErrors]
  BY <1>1 DEF SpansOf
<1>6. \A k \in 1..n : suite[k].status = "PASS" => \E t \in SpansOf(suite) : t.run = l + k
  <2> SUFFICES ASSUME NEW k \in 1..n, suite[k].status = "PASS"
               PROVE  \E t \in SpansOf(suite) : t.run = l + k
    OBVIOUS
  <2> DEFINE t == [run |-> Len(runs) + k, tokens |-> suite[k].tokens,
                   steps |-> suite[k].steps, toolErrors |-> suite[k].toolErrors]
  <2>1. k \in {i \in DOMAIN suite : suite[i].status = "PASS"}
    BY <1>1
  <2>2. t \in SpansOf(suite)
    BY <2>1 DEF SpansOf
  <2>3. t.run = l + k
    OBVIOUS
  <2> QED
    BY <2>2, <2>3
<1> HIDE DEF l, new
<1>7. \A k \in 1..n : l + k > l
  BY <1>2
<1>8. \A t \in SpansOf(suite) : t.run > l
  BY <1>5, <1>7
<1>9. ASSUME NEW t \in trajectories', NEW u \in trajectories', t.run = u.run PROVE t = u
  <2>1. CASE t \in trajectories /\ u \in trajectories
    BY <2>1, <1>9 DEF OwnersInv
  <2>2. CASE t \in SpansOf(suite) /\ u \in SpansOf(suite)
    <3>1. PICK j \in 1..n : t.run = l + j
                /\ t = [run |-> l + j, tokens |-> suite[j].tokens, steps |-> suite[j].steps,
                        toolErrors |-> suite[j].toolErrors]
      BY <2>2, <1>5
    <3>2. PICK k \in 1..n : u.run = l + k
                /\ u = [run |-> l + k, tokens |-> suite[k].tokens, steps |-> suite[k].steps,
                        toolErrors |-> suite[k].toolErrors]
      BY <2>2, <1>5
    <3>3. l + j = l + k
      BY <3>1, <3>2, <1>9
    <3>4. j = k
      BY <3>3, <1>2
    <3> QED
      BY <3>1, <3>2, <3>4
  <2>3. CASE t \in trajectories /\ u \in SpansOf(suite)
    BY <2>3, <1>2, <1>8, <1>9
  <2>4. CASE t \in SpansOf(suite) /\ u \in trajectories
    BY <2>4, <1>2, <1>8, <1>9
  <2> QED
    BY <2>1, <2>2, <2>3, <2>4, <1>1
<1>10. ASSUME NEW i \in 1..Len(runs')
       PROVE  runs'[i].status = "PASS" <=> \E t \in trajectories' : t.run = i
  <2>1. CASE i <= l
    <3>1. i \in 1..l /\ runs'[i] = runs[i]
      BY <2>1, <1>2, <1>4
    <3>2. \A t \in SpansOf(suite) : t.run # i
      BY <2>1, <1>2, <1>8
    <3>3. (\E t \in trajectories' : t.run = i) <=> \E t \in trajectories : t.run = i
      BY <3>2, <1>1
    <3> QED
      BY <3>1, <3>3 DEF OwnersInv, l
  <2>2. CASE ~(i <= l)
    <3>1. i - l \in 1..n /\ l + (i - l) = i
      BY <2>2, <1>2, <1>4
    <3>2. runs'[i].status = suite[i - l].status
      BY <3>1, <1>4
    <3>3. \A t \in trajectories : t.run # i
      BY <2>2, <1>2
    <3>4. \A k \in 1..n : l + k = i => k = i - l
      BY <1>2
    <3>5. (\E t \in trajectories' : t.run = i) => suite[i - l].status = "PASS"
      BY <3>3, <3>4, <1>1, <1>5
    <3>6. suite[i - l].status = "PASS" => \E t \in trajectories' : t.run = i
      BY <3>1, <1>1, <1>6
    <3> QED
      BY <3>2, <3>5, <3>6
  <2> QED
    BY <2>1, <2>2
<1> QED
  BY <1>4, <1>9, <1>10 DEF OwnersInv, l

(* A step of a handler: it leaves the rows and has no entry where it must not. *)
LEMMA HandlerKeepsEntries ==
    ASSUME AggregateInv, NEW q \in Clients, NEW f, Handle(q, f), IInv',
           f.stage \in {"new", "window", "error"} => f.entries = <<>>
    PROVE  AggregateInv'
PROOF
<1>1. clock' = clock /\ runs' = runs /\ trajectories' = trajectories
  BY DEF Handle
<1>2. \A p \in Clients : req'[p] = IF p = q THEN f ELSE req[p]
  BY DEF Handle, AggregateInv, IInv
<1>3. EntriesInv'
  BY <1>2 DEF EntriesInv, AggregateInv
<1>4. OwnersInv' /\ BoundsInv'
  BY <1>1 DEF AggregateInv, OwnersInv, BoundsInv
<1> QED
  BY <1>3, <1>4 DEF AggregateInv

(* A change of a handler that does not leave it new, waiting or refused. *)
LEMMA AggregateSteps ==
    ASSUME AggregateInv, IInv', [Next]_vars
    PROVE  AggregateInv'
PROOF
<1> USE ConstantsAssumption
<1>1. ASSUME NEW q \in Clients, NEW kind \in Kinds, Begin(q, kind) PROVE AggregateInv'
  <2>1. PICK days \in HistoryDays :
           Handle(q, [stage   |-> IF kind = "history" THEN "window" ELSE "runs",
                      kind    |-> kind,
                      cutoff  |-> IF days * TicksPerDay < clock
                                  THEN clock - days * TicksPerDay ELSE 0,
                      pending |-> IF kind = "history" THEN <<>> ELSE <<{}>>,
                      read    |-> {}, spans |-> {}, entries |-> <<>>,
                      seen    |-> 0])
    BY <1>1 DEF Begin
  <2> QED
    BY <2>1, HandlerKeepsEntries
<1>2. ASSUME NEW q \in Clients, ReadWindow(q) PROVE AggregateInv'
  <2> DEFINE Read(days) == [req[q] EXCEPT !.stage = IF days = <<>> THEN "answered" ELSE "runs",
                                          !.pending = days, !.seen = Len(runs)]
  <2>1. PICK days : Handle(q, Read(days))
    BY <1>2 DEF ReadWindow
  <2>2. req[q] \in Requests
    BY DEF AggregateInv, IInv
  <2>3. Read(days).stage \in {"answered", "runs"}
    BY <2>2 DEF Requests
  <2> HIDE DEF Read
  <2> QED
    BY <2>1, <2>3, HandlerKeepsEntries
<1>3. ASSUME NEW q \in Clients, ReadRuns(q) PROVE AggregateInv'
  <2> DEFINE S == Head(req[q].pending)
             f == [req[q] EXCEPT !.stage = "trajectories", !.read = Found(S),
                                 !.seen = IF S = {} THEN Len(runs) ELSE @]
  <2>1. Handle(q, f)
    BY <1>3 DEF ReadRuns
  <2>2. req[q] \in Requests
    BY DEF AggregateInv, IInv
  <2>3. f.stage = "trajectories"
    BY <2>2 DEF Requests
  <2> HIDE DEF f
  <2> QED
    BY <2>1, <2>3, HandlerKeepsEntries
<1>4. ASSUME NEW q \in Clients, ReadTrajectories(q) PROVE AggregateInv'
  <2> DEFINE f == [req[q] EXCEPT !.stage = "scores", !.spans = SpansFor(req[q].read)]
  <2>1. Handle(q, f)
    BY <1>4 DEF ReadTrajectories
  <2>2. req[q] \in Requests
    BY DEF AggregateInv, IInv
  <2>3. f.stage = "scores"
    BY <2>2 DEF Requests
  <2> HIDE DEF f
  <2> QED
    BY <2>1, <2>3, HandlerKeepsEntries
<1>5. ASSUME NEW q \in Clients, ReadScores(q) PROVE AggregateInv'
  <2> DEFINE left == Tail(req[q].pending)
             f == [req[q] EXCEPT !.stage = IF left = <<>> THEN "answered" ELSE "runs",
                      !.pending = left, !.read = {}, !.spans = {},
                      !.entries = Append(@, Aggregate(req[q].read, req[q].spans))]
  <2>1. Handle(q, f)
    BY <1>5 DEF ReadScores
  <2>2. req[q] \in Requests
    BY DEF AggregateInv, IInv
  <2>3. f.stage \in {"answered", "runs"}
    BY <2>2 DEF Requests
  <2> HIDE DEF f
  <2> QED
    BY <2>1, <2>3, HandlerKeepsEntries
<1>6. ASSUME NEW q \in Clients, ReadFails(q) PROVE AggregateInv'
  <2> DEFINE f == [req[q] EXCEPT !.stage = "error", !.pending = <<>>, !.read = {},
                                 !.spans = {}, !.entries = <<>>]
  <2>1. Handle(q, f)
    BY <1>6 DEF ReadFails
  <2>2. req[q] \in Requests
    BY DEF AggregateInv, IInv
  <2>3. f.entries = <<>>
    BY <2>2 DEF Requests
  <2> HIDE DEF f
  <2> QED
    BY <2>1, <2>3, HandlerKeepsEntries
<1>7. ASSUME NEW n \in 1..MaxSuite, CommitSuite(n) PROVE AggregateInv'
  <2>1. OwnersInv' /\ Len(runs') = Len(runs) + n
    BY <1>7, CommitKeepsOwners DEF AggregateInv, IInv
  <2>2. BoundsInv'
    BY <1>7, <2>1 DEF CommitSuite, AggregateInv, BoundsInv
  <2>3. EntriesInv'
    BY <1>7 DEF CommitSuite, AggregateInv, EntriesInv
  <2> QED
    BY <2>1, <2>2, <2>3 DEF AggregateInv
<1>8. CASE Tick
  BY <1>8 DEF Tick, AggregateInv, OwnersInv, BoundsInv, EntriesInv
<1>9. CASE UNCHANGED vars
  BY <1>9 DEF vars, AggregateInv, OwnersInv, BoundsInv, EntriesInv
<1> QED
  BY <1>1, <1>2, <1>3, <1>4, <1>5, <1>6, <1>7, <1>8, <1>9 DEF Next, Serve

LEMMA AggregateInvariance == Spec => []AggregateInv
PROOF
<1>1. Init => OwnersInv /\ BoundsInv /\ EntriesInv
  <2> SUFFICES ASSUME Init PROVE OwnersInv /\ BoundsInv /\ EntriesInv
    OBVIOUS
  <2>1. Len(<<>>) = 0
    OBVIOUS
  <2> QED
    BY <2>1, ConstantsAssumption DEF Init, OwnersInv, BoundsInv, EntriesInv, NoRequest
<1>2. Init => AggregateInv
  BY <1>1, InitInv DEF AggregateInv
<1>3. AggregateInv /\ IInv' /\ [Next]_vars => AggregateInv'
  BY AggregateSteps
<1> QED
  BY <1>2, <1>3, Invariance, PTL DEF Spec
-----------------------------------------------------------------------------
(* The rows that were committed are a set of rows, and so is any part of it. *)
LEMMA CommittedRows ==
    ASSUME RowsInv, NEW S \in SUBSET Committed
    PROVE  RowSet(S) /\ S \subseteq RunRows
           /\ \A r \in S : r.id \in 1..Len(runs) /\ runs[r.id] = r
PROOF
<1>1. \A r \in S : r \in RunRows /\ r.id \in 1..Len(runs) /\ runs[r.id] = r
  <2> SUFFICES ASSUME NEW r \in S
               PROVE  r \in RunRows /\ r.id \in 1..Len(runs) /\ runs[r.id] = r
    OBVIOUS
  <2>1. PICK i \in 1..Len(runs) : r = runs[i]
    BY DEF Committed, First
  <2>2. runs[i] \in RunRows /\ runs[i].id = i
    BY DEF RowsInv
  <2> QED
    BY <2>1, <2>2
<1>2. Len(runs) \in Nat
  BY DEF RowsInv
<1>3. IsFiniteSet(S)
  <2> DEFINE f == [r \in S |-> r.id]
  <2>1. f \in Injection(S, 1..Len(runs))
    BY <1>1 DEF Injection, IsInjective
  <2> QED
    BY <2>1, <1>2, FS_Interval, FS_Injection
<1> QED
  BY <1>1, <1>3 DEF RowSet, RunRows, RunIds

(* No run is counted twice: those of S that passed have one trajectory each. *)
LEMMA OneTrajectoryARun ==
    ASSUME RowsInv, OwnersInv, NEW S \in SUBSET Committed
    PROVE  /\ IsFiniteSet(SpansFor(S)) /\ IsFiniteSet(PassedOf(S))
           /\ Cardinality(SpansFor(S)) = Cardinality(PassedOf(S))
PROOF
<1> DEFINE P == PassedOf(S)
           T == SpansFor(S)
           f == [t \in T |-> runs[t.run]]
<1>1. \A r \in S : r.id \in 1..Len(runs) /\ runs[r.id] = r
  BY CommittedRows
<1>2. IsFiniteSet(P)
  BY CommittedRows, FS_Subset DEF RowSet, PassedOf
<1>3. \A t \in T : t \in trajectories /\ t.run \in 1..Len(runs) /\ runs[t.run] \in P
                      /\ runs[t.run].id = t.run
  <2> SUFFICES ASSUME NEW t \in T
               PROVE  t \in trajectories /\ t.run \in 1..Len(runs) /\ runs[t.run] \in P
                         /\ runs[t.run].id = t.run
    OBVIOUS
  <2>1. PICK r \in S : t \in trajectories /\ t.run = r.id
    BY DEF SpansFor
  <2>2. r.id \in 1..Len(runs) /\ runs[r.id] = r
    BY <1>1
  <2>3. r.status = "PASS"
    BY <2>1, <2>2 DEF OwnersInv
  <2> QED
    BY <2>1, <2>2, <2>3 DEF PassedOf
<1>4. f \in Injection(T, P)
  <2>1. f \in [T -> P]
    BY <1>3
  <2>2. ASSUME NEW t \in T, NEW u \in T, f[t] = f[u] PROVE t = u
    <3>1. t.run = u.run
      BY <2>2, <1>3
    <3> QED
      BY <3>1, <1>3 DEF OwnersInv
  <2> QED
    BY <2>1, <2>2 DEF Injection, IsInjective
<1>5. f \in Surjection(T, P)
  <2>1. f \in [T -> P]
    BY <1>3
  <2>2. ASSUME NEW r \in P PROVE \E t \in T : f[t] = r
    <3>1. r \in S /\ r.id \in 1..Len(runs) /\ runs[r.id] = r /\ r.status = "PASS"
      BY <1>1 DEF PassedOf
    <3>2. PICK t \in trajectories : t.run = r.id
      BY <3>1 DEF OwnersInv
    <3>3. t \in T
      BY <3>1, <3>2 DEF SpansFor
    <3> QED
      BY <3>1, <3>2, <3>3
  <2> QED
    BY <2>1, <2>2 DEF Surjection
<1>6. IsFiniteSet(T) /\ Cardinality(T) <= Cardinality(P)
      /\ (Cardinality(T) = Cardinality(P) <=> f \in Surjection(T, P))
  <2> HIDE DEF f, T, P
  <2> QED
    BY <1>2, <1>4, FS_Injection
<1> QED
  BY <1>2, <1>5, <1>6

(* The percentiles are right for any set of runs, and the tokens are averaged
   over the runs that passed, whatever was committed and aggregated. *)
THEOREM AggregatesAreSound == Spec => []AggregatesAreRight
PROOF
<1>1. AggregateInv => AggregatesAreRight
  <2> SUFFICES ASSUME AggregateInv, NEW S \in SUBSET Committed
               PROVE  LET m == AggregateOf(S)
                      IN  /\ IsPercentile(m.p50, S, 50) /\ IsPercentile(m.p99, S, 99)
                          /\ m.p50 <= m.p99
                          /\ m.tasks = m.passed
    BY DEF AggregatesAreRight
  <2> DEFINE m == AggregateOf(S)
  <2>1. m = Aggregate(S, SpansFor(S))
    BY AggregateIsOf
  <2>2. /\ m.p50 = Percentile(S, 50) /\ m.p99 = Percentile(S, 99)
        /\ m.tasks = Cardinality(SpansFor(S)) /\ m.passed = Cardinality(PassedOf(S))
    BY <2>1 DEF Aggregate
  <2> HIDE DEF m
  <2>3. RowSet(S)
    BY CommittedRows DEF AggregateInv, IInv
  <2>4. IsPercentile(Percentile(S, 50), S, 50) /\ IsPercentile(Percentile(S, 99), S, 99)
    BY <2>3, PercentileIsRight
  <2>5. Percentile(S, 50) <= Percentile(S, 99)
    BY <2>3, PercentilesAreOrdered
  <2>6. Cardinality(SpansFor(S)) = Cardinality(PassedOf(S))
    BY OneTrajectoryARun DEF AggregateInv, IInv
  <2> QED
    BY <2>2, <2>4, <2>5, <2>6 DEF m
<1> QED
  BY <1>1, AggregateInvariance, PTL
-----------------------------------------------------------------------------
LEMMA SumFunctionType ==
    ASSUME NEW T, IsFiniteSet(T), NEW g \in [T -> Nat]
    PROVE  SumFunction(g) \in Nat
PROOF
<1> DEFINE Equation(f) == f = [s \in SUBSET T |->
                                  IF s = {} THEN 0
                                  ELSE g[CHOOSE x \in s : TRUE] + f[s \ {CHOOSE x \in s : TRUE}]]
           sum == CHOOSE f : Equation(f)
<1>1. \A f : Equation(f) <=> Summing(f, g, SUBSET T)
  BY DEF Summing, Any
<1>2. (\E f : Equation(f)) /\ \A f : Equation(f) => f[T] \in Nat
  <2> HIDE DEF Equation
  <2> QED
    BY <1>1, SumIsNatural
<1>3. sum[T] \in Nat
  <2> HIDE DEF Equation
  <2> QED
    BY <1>2
<1>4. DOMAIN g = T
  OBVIOUS
<1>5. SumFunction(g) = sum[T]
  BY <1>4 DEF SumFunction, SumFunctionOnSet, FoldFunctionOnSet, MapThenFoldSet
<1> QED
  BY <1>3, <1>5

LEMMA AggregateType ==
    ASSUME NEW R, RowSet(R), NEW T \in SUBSET Spans, IsFiniteSet(T)
    PROVE  Aggregate(R, T) \in Metrics
PROOF
<1>1. Cardinality(R) \in Nat /\ Cardinality(PassedOf(R)) \in Nat /\ Cardinality(T) \in Nat
  BY FS_Subset, FS_CardinalityType DEF RowSet, PassedOf
<1>2. Percentile(R, 50) \in Nat /\ Percentile(R, 99) \in Nat
  BY PercentileIsRight
<1>3. /\ [t \in T |-> t.tokens] \in [T -> Nat]
      /\ [t \in T |-> t.steps] \in [T -> Nat]
      /\ [t \in T |-> t.toolErrors] \in [T -> Nat]
  BY DEF Spans
<1>4. /\ SumFunction([t \in T |-> t.tokens]) \in Nat
      /\ SumFunction([t \in T |-> t.steps]) \in Nat
      /\ SumFunction([t \in T |-> t.toolErrors]) \in Nat
  BY <1>3, SumFunctionType
<1> QED
  BY <1>1, <1>2, <1>4 DEF Aggregate, Metrics

(* What a handler has computed so far is typed. *)
LEMMA EntriesType ==
    ASSUME AggregateInv, NEW q \in Clients
    PROVE  req[q].entries \in Seq(Metrics)
PROOF
<1> DEFINE e == req[q]
<1>1. e \in Requests /\ RequestInv(e) /\ RowsInv /\ OwnersInv
  BY DEF AggregateInv, IInv
<1>2. CASE e.entries = <<>>
  BY <1>2
<1>3. CASE e.entries # <<>>
  <2>1. e.stage \in {"runs", "trajectories", "scores", "answered"}
    BY <1>1, <1>3 DEF AggregateInv, EntriesInv, Requests, Stages
  <2>2. \E G : Working(e, G) /\ e.seen <= Len(runs)
    BY <1>1, <1>3, <2>1 DEF RequestInv, Requests, Kinds, SummaryInv, HistoryInv, Grouped, Ungrouped
  <2>3. PICK G : Working(e, G) /\ e.seen <= Len(runs)
    BY <2>2
  <2>4. First(e.seen) \subseteq Committed
    BY <1>1, <2>3 DEF First, Committed, Requests, RowsInv
  <2>5. ASSUME NEW i \in 1..Len(e.entries) PROVE e.entries[i] \in Metrics
    <3>1. i \in 1..Len(G)
      <4>1. Len(e.entries) \in Nat /\ Len(e.pending) \in Nat
        BY <1>1 DEF Requests
      <4>2. Len(e.entries) + Len(e.pending) = Len(G)
        BY <2>3 DEF Working
      <4>3. \A a, b \in Nat : \A k \in 1..a : k \in 1..(a + b)
        OBVIOUS
      <4>4. i \in 1..(Len(e.entries) + Len(e.pending))
        BY <4>1, <4>3
      <4> QED
        BY <4>2, <4>4
    <3>2. G[i] \in SUBSET Committed
      BY <2>3, <2>4, <3>1 DEF Working
    <3>3. RowSet(G[i]) /\ IsFiniteSet(SpansFor(G[i]))
      BY <1>1, <3>2, CommittedRows, OneTrajectoryARun
    <3>4. SpansFor(G[i]) \in SUBSET Spans
      BY <1>1 DEF SpansFor, RowsInv
    <3>5. Aggregate(G[i], SpansFor(G[i])) \in Metrics
      BY <3>3, <3>4, AggregateType
    <3> QED
      BY <2>3, <3>5 DEF Working
  <2>6. e.entries \in Seq(Aggregates)
    BY <1>1 DEF Requests
  <2>7. Len(e.entries) \in Nat /\ e.entries = [i \in 1..Len(e.entries) |-> e.entries[i]]
    BY <2>6
  <2>8. e.entries \in [1..Len(e.entries) -> Metrics]
    BY <2>5, <2>7
  <2>9. e.entries \in Seq(Metrics)
    <3> HIDE DEF e
    <3> QED
      BY <2>7, <2>8
  <2> QED
    BY <2>9
<1> QED
  BY <1>2, <1>3

(* Type correctness, the sums and percentiles of every answer included. *)
THEOREM TypeCorrect == Spec => []TypeOK
PROOF
<1>1. AggregateInv => TypeOK
  <2> SUFFICES ASSUME AggregateInv PROVE TypeOK
    OBVIOUS
  <2>1. req \in [Clients -> Requests]
    BY DEF AggregateInv, IInv
  <2>2. ASSUME NEW q \in Clients PROVE req[q] \in Handlers
    BY <2>1, EntriesType DEF Requests, Handlers
  <2> QED
    BY <2>1, <2>2 DEF TypeOK, AggregateInv, IInv, RowsInv, BoundsInv
<1> QED
  BY <1>1, AggregateInvariance, PTL
-----------------------------------------------------------------------------
(* What holds of SlowRunsAlert: as the rank is rounded down, one slow run more
   than a hundredth of the runs is needed for the alert; and there is none
   without a run that took longer than a minute. *)
LatencyAlertIsLate ==
    \A q \in Clients : Answered(q, "aggregate") =>
        LET slow   == {r \in First(req[q].seen) : r.ms > MaxP99Ms}
            alerts == Alerts(req[q].entries[1])
        IN  /\ 100 * Cardinality(slow) >= req[q].seen + 100 => "latency_p99_ms" \in alerts
            /\ "latency_p99_ms" \in alerts => slow # {}

LEMMA LatencyAlert == \A m : "latency_p99_ms" \in Alerts(m) <=> m.p99 > MaxP99Ms
PROOF
BY DEF Alerts, Triggered

LEMMA LimitType == MaxP99Ms \in Nat
PROOF
BY SMT DEF MaxP99Ms

LEMMA FirstCardinality ==
    ASSUME RowsInv, NEW n \in 0..Len(runs)
    PROVE  First(n) \subseteq Committed /\ Cardinality(First(n)) = n
PROOF
<1> DEFINE f == [i \in 1..n |-> runs[i]]
<1>1. Len(runs) \in Nat /\ \A i \in 1..n : i \in 1..Len(runs) /\ runs[i].id = i
  BY DEF RowsInv
<1>2. f \in Bijection(1..n, First(n))
  <2>1. f \in [1..n -> First(n)] /\ \A r \in First(n) : \E i \in 1..n : f[i] = r
    BY DEF First
  <2>2. \A i, k \in 1..n : f[i] = f[k] => i = k
    BY <1>1
  <2> HIDE DEF f
  <2> QED
    BY <2>1, <2>2 DEF Bijection, Injection, Surjection, IsInjective
<1>3. ExistsBijection(1..n, First(n)) /\ n \in Nat
  BY <1>2, <1>1 DEF ExistsBijection
<1> QED
  BY <1>1, <1>3, FS_CountingElements DEF First, Committed

(* The latency alert is late by one run, and never false. *)
THEOREM LatencyAlertIsBounded == Spec => []LatencyAlertIsLate
PROOF
<1>1. AggregateInv => LatencyAlertIsLate
  <2> SUFFICES ASSUME AggregateInv, NEW q \in Clients, Answered(q, "aggregate")
               PROVE  LET slow   == {r \in First(req[q].seen) : r.ms > MaxP99Ms}
                          alerts == Alerts(req[q].entries[1])
                      IN  /\ 100 * Cardinality(slow) >= req[q].seen + 100
                                => "latency_p99_ms" \in alerts
                          /\ "latency_p99_ms" \in alerts => slow # {}
    BY DEF LatencyAlertIsLate
  <2> DEFINE n == req[q].seen
             S == First(n)
             slow == {r \in S : r.ms > MaxP99Ms}
             v == Percentile(S, 99)
             k == Index(n, 99)
  <2>1. n \in 0..Len(runs) /\ RowsInv
    BY DEF AggregateInv, IInv, RequestInv, Requests, SummaryInv, Answered, At
  <2>2. S \in SUBSET Committed /\ Cardinality(S) = n
    BY <2>1, FirstCardinality
  <2>3. RowSet(S)
    BY <2>1, <2>2, CommittedRows
  <2>4. "latency_p99_ms" \in Alerts(req[q].entries[1]) <=> v > MaxP99Ms
    <3>1. req[q].entries = <<AggregateOf(S)>>
      BY SnapshotsFollow DEF AggregateInv, AnswersAreSnapshots
    <3>2. req[q].entries[1] = Aggregate(S, SpansFor(S))
      BY <3>1, AggregateIsOf
    <3>3. Aggregate(S, SpansFor(S)).p99 = v
      BY DEF Aggregate
    <3> QED
      BY <3>2, <3>3, LatencyAlert
  <2> HIDE DEF S, v, k
  <2>5. v \in Nat /\ MaxP99Ms \in Nat /\ IsPercentile(v, S, 99)
    BY <2>3, PercentileIsRight, LimitType DEF v
  <2>6. ASSUME v > MaxP99Ms PROVE slow # {}
    <3>1. \E r \in S : r.ms = v
      BY <2>5, <2>6 DEF IsPercentile
    <3> QED
      BY <3>1, <2>6
  <2>7. ASSUME 100 * Cardinality(slow) >= n + 100 PROVE v > MaxP99Ms
    <3>1. SUFFICES ASSUME v <= MaxP99Ms PROVE FALSE
      BY <2>5
    <3> DEFINE fast == {r \in S : r.ms <= MaxP99Ms}
               few == {r \in S : r.ms <= v}
    <3>2. IsFiniteSet(S) /\ IsFiniteSet(slow) /\ IsFiniteSet(fast) /\ IsFiniteSet(few)
      BY <2>3, FS_Subset DEF RowSet
    <3>3. Cardinality(slow) + Cardinality(fast) = n
      <4>1. slow \union fast = S /\ slow \intersect fast = {}
        BY <2>3, <2>5 DEF RowSet
      <4>2. /\ Cardinality(slow \union fast)
                  = Cardinality(slow) + Cardinality(fast) - Cardinality(slow \intersect fast)
            /\ Cardinality(slow) \in Nat /\ Cardinality(fast) \in Nat
        BY <3>2, FS_Union, FS_CardinalityType
      <4> HIDE DEF slow, fast
      <4>3. Cardinality(slow \union fast) = n
        BY <4>1, <2>2
      <4>4. Cardinality(slow \intersect fast) = 0
        BY <4>1, FS_EmptySet
      <4> QED
        BY <4>2, <4>3, <4>4
    <3>4. few \subseteq fast
      BY <2>3, <2>5, <3>1 DEF RowSet
    <3>5. Cardinality(few) <= Cardinality(fast)
      BY <3>2, <3>4, FS_Subset
    <3>6. Cardinality(slow) \in Nat /\ Cardinality(fast) \in Nat /\ Cardinality(few) \in Nat
      BY <3>2, FS_CardinalityType
    <3> HIDE DEF slow, fast, few
    <3>7. S # {}
      <4>1. n # 0
        BY <2>7, <3>3, <3>6, <2>1
      <4> QED
        BY <4>1, <2>2, FS_EmptySet
    <3>8. 100 * (Cardinality(few) + 1) > 99 * n
      BY <2>2, <2>5, <3>7 DEF IsPercentile, few
    <3> QED
      BY <2>1, <2>7, <3>3, <3>5, <3>6, <3>8
  <2> QED
    BY <2>4, <2>6, <2>7 DEF S
<1> QED
  BY <1>1, AggregateInvariance, PTL
=============================================================================
