----------------------------- MODULE SuiteMetrics -----------------------------
(***************************************************************************)
(* The metrics service: GET /metrics/summary, /alerts and /history compute *)
(* rates and percentiles from the rows the workers commit.  An aggregate   *)
(* takes three statements, a history one more and three for each day, each *)
(* of which sees what is committed when it runs.  Suites are committed     *)
(* whole and never change, see EvalJob and RunLifecycle.                   *)
(***************************************************************************)
EXTENDS Naturals, Sequences, FiniteSets, FiniteSetsExt

CONSTANTS
    Clients,         \* clients of the service, one request at a time each
    RunKinds,        \* what a run may be: status, ms, tokens, steps, toolErrors
    HistoryDays,     \* the values of the parameter days
    TakesAwareTimes, \* whether the driver compares a time with a zone to a column without one
    TicksPerDay,     \* how finely the model divides a day
    MaxClock,        \* bound: the time
    MaxSuite,        \* bound: the runs of a suite
    MaxRuns,         \* bound: the runs in the database
    Faults           \* {"read"} if the database may refuse a statement

ASSUME ConstantsAssumption ==
    /\ RunKinds \subseteq [status : {"PASS", "ERROR"}, ms : Nat, tokens : Nat,
                           steps : Nat, toolErrors : Nat]
    /\ HistoryDays \subseteq Nat /\ TakesAwareTimes \in BOOLEAN
    /\ TicksPerDay \in Nat \ {0} /\ MaxClock \in Nat
    /\ MaxSuite \in Nat /\ MaxRuns \in Nat
    /\ Faults \subseteq {"read"}

VARIABLES
    clock,        \* the time, in parts of a day
    runs,         \* eval_runs, in the order of their commit
    trajectories, \* the rows of trajectories
    req           \* per client, the handler of its request or its answer

vars == <<clock, runs, trajectories, req>>

RunIds   == 1..MaxRuns
RunRows  == [id : RunIds, status : {"PASS", "ERROR"}, ms : Nat, started : Nat]
Spans    == [run : RunIds, tokens : Nat, steps : Nat, toolErrors : Nat]
Metrics  == [total : Nat, passed : Nat, p50 : Nat, p99 : Nat,
             tasks : Nat, tokens : Nat, steps : Nat, toolErrors : Nat]
Kinds    == {"aggregate", "history"} \* "aggregate": /summary, and /alerts made of it
Stages   == {"new", "window", "runs", "trajectories", "scores", "answered", "error"}
Handlers == [stage : Stages, kind : Kinds,
             cutoff : Nat,              \* history: runs that started earlier are left out
             pending : Seq(SUBSET RunRows), \* the runs of each aggregate to compute
             read : SUBSET RunRows,     \* all_runs of the aggregate under way
             spans : SUBSET Spans,      \* trajs of the aggregate under way
             entries : Seq(Metrics),    \* the aggregates computed
             seen : Nat]                \* history variable: the runs there were at the first read
NoRequest == [stage |-> "new", kind |-> "aggregate", cutoff |-> 0, pending |-> <<>>,
              read |-> {}, spans |-> {}, entries |-> <<>>, seen |-> 0]

TypeOK ==
    /\ clock \in 0..MaxClock
    /\ runs \in Seq(RunRows) /\ Len(runs) <= MaxRuns
    /\ trajectories \in SUBSET Spans
    /\ req \in [Clients -> Handlers]

Init ==
    /\ clock = 0
    /\ runs = <<>> /\ trajectories = {}
    /\ req = [q \in Clients |-> NoRequest]

First(n)  == {runs[r] : r \in 1..n} \* the rows committed first
Committed == First(Len(runs))
-----------------------------------------------------------------------------
(* The writers. *)
Tick == clock < MaxClock /\ clock' = clock + 1 /\ UNCHANGED <<runs, trajectories, req>>

(* Mutant: runs are committed when they begin. *)
M_RowsOf(suite, start) ==
    [i \in DOMAIN suite |-> [id |-> Len(runs) + i, status |-> "RUNNING", ms |-> 0,
                             started |-> start[i]]]

(* The rows of a suite, and of the trajectories of the runs among them that
   passed (RunEvalTask!PassIffTrajectory). *)
RowsOf(suite, start) ==
    [i \in DOMAIN suite |-> [id |-> Len(runs) + i, status |-> suite[i].status,
                             ms |-> suite[i].ms, started |-> start[i]]]
SpansOf(suite) == {[run |-> Len(runs) + i, tokens |-> suite[i].tokens,
                    steps |-> suite[i].steps, toolErrors |-> suite[i].toolErrors] :
                        i \in {k \in DOMAIN suite : suite[k].status = "PASS"}}

(* A worker commits a suite of n runs, which began one after the other. *)
CommitSuite(n) ==
    /\ Len(runs) + n <= MaxRuns
    /\ \E suite \in [1..n -> RunKinds], start \in [1..n -> {t \in 0..clock : clock - t <= 1}] :
          /\ \A i, j \in 1..n : i < j => start[i] <= start[j]
          /\ runs' = runs \o RowsOf(suite, start)
          /\ trajectories' = trajectories \union SpansOf(suite)
    /\ UNCHANGED <<clock, req>>
-----------------------------------------------------------------------------
(* compute_suite_metrics over the rows R that were read and the trajectories T. *)

(* Mutant: the durations are not sorted. *)
M_Before(r, s) == r.id < s.id

(* Run r comes before run s once the durations are sorted. *)
Before(r, s) == r.ms < s.ms \/ (r.ms = s.ms /\ r.id < s.id)

Ranked(R, k) == CHOOSE r \in R : Cardinality({s \in R : Before(s, r)}) = k - 1

(* _percentiles: the index is rounded down, and counts from one here. *)
Index(n, p)      == LET k == Max({1, (n * p) \div 100}) IN IF k <= n THEN k ELSE n
Percentile(R, p) == IF R = {} THEN 0 ELSE Ranked(R, Index(Cardinality(R), p)).ms

PassedOf(R) == {r \in R : r.status = "PASS"}

Aggregate(R, T) ==
    [total      |-> Cardinality(R),
     passed     |-> Cardinality(PassedOf(R)),
     p50        |-> Percentile(R, 50),
     p99        |-> Percentile(R, 99),
     tasks      |-> Cardinality(T),
     tokens     |-> SumFunction([t \in T |-> t.tokens]),
     steps      |-> SumFunction([t \in T |-> t.steps]),
     toolErrors |-> SumFunction([t \in T |-> t.toolErrors])]
-----------------------------------------------------------------------------
(* AlertEngine.check, each rate over max(1, n) and compared without division.
   safety_pass_rate is the constant 1.0 and never below its minimum. *)
AtLeastOne(n) == Max({1, n})
TokensFor2Usd == 1600000
MaxP99Ms      == 60000

Triggered(m) == [task_success_rate  |-> 5 * m.passed < 4 * AtLeastOne(m.total),
                 latency_p99_ms     |-> m.p99 > MaxP99Ms,
                 tool_error_rate    |-> 10 * m.toolErrors > AtLeastOne(m.steps),
                 estimated_cost_usd |-> m.tokens > TokensFor2Usd,
                 safety_pass_rate   |-> FALSE]

Alerts(m) == {name \in DOMAIN Triggered(m) : Triggered(m)[name]}
-----------------------------------------------------------------------------
(* The handlers. *)
At(q, s) == req[q].stage = s

Idle(q)     == req[q].stage \in {"new", "answered", "error"}
Answered(q, kind) == At(q, "answered") /\ req[q].kind = kind

Handle(q, e) == req' = [req EXCEPT ![q] = e] /\ UNCHANGED <<clock, runs, trajectories>>

(* A request comes in.  With no run_ids the aggregate is over all ended runs. *)
Begin(q, kind) ==
    /\ Idle(q)
    /\ \E days \in HistoryDays :
          Handle(q, [stage   |-> IF kind = "history" THEN "window" ELSE "runs",
                     kind    |-> kind,
                     cutoff  |-> IF days * TicksPerDay < clock
                                 THEN clock - days * TicksPerDay ELSE 0,
                     pending |-> IF kind = "history" THEN <<>> ELSE <<{}>>,
                     read    |-> {}, spans |-> {}, entries |-> <<>>,
                     seen    |-> 0])

(* The ways to group the runs of W by day, the earliest first: there is one. *)
Day(r)    == r.started \div TicksPerDay
DaysOf(W) == {Day(r) : r \in W}
ByDay(W)  == {[i \in DOMAIN days |-> {r \in W : Day(r) = days[i]}] :
                 days \in {d \in [1..Cardinality(DaysOf(W)) -> DaysOf(W)] :
                              \A i, j \in DOMAIN d : i < j => d[i] < d[j]}}

Window(n, cutoff) == {r \in First(n) : r.started >= cutoff}

(* get_history reads the window; its cutoff bears a zone. *)
ReadWindow(q) ==
    /\ At(q, "window") /\ TakesAwareTimes
    /\ \E days \in ByDay(Window(Len(runs), req[q].cutoff)) :
          Handle(q, [req[q] EXCEPT !.stage = IF days = <<>> THEN "answered" ELSE "runs",
                                   !.pending = days, !.seen = Len(runs)])

(* Mutant: a day of the history is read again by its date. *)
M_Found(S) == IF S = {} THEN Committed ELSE {r \in Committed : Day(r) \in DaysOf(S)}

(* The rows found for a set of runs: by their ids, or all of them. *)
Found(S) == IF S = {} THEN Committed ELSE {r \in Committed : \E s \in S : r.id = s.id}

(* The first statement of an aggregate. *)
ReadRuns(q) ==
    /\ At(q, "runs")
    /\ LET S == Head(req[q].pending)
       IN  Handle(q, [req[q] EXCEPT !.stage = "trajectories",
                                    !.read  = Found(S),
                                    !.seen  = IF S = {} THEN Len(runs) ELSE @])

(* Mutant: it is not asked whose the trajectories are. *)
M_SpansFor(S) == trajectories

SpansFor(S) == {t \in trajectories : \E r \in S : t.run = r.id}

ReadTrajectories(q) ==
    /\ At(q, "trajectories")
    /\ Handle(q, [req[q] EXCEPT !.stage = "scores", !.spans = SpansFor(req[q].read)])

(* The third statement finds nothing, as nobody writes judge_scores; then the
   aggregate is computed, and the next day's turn comes. *)
ReadScores(q) ==
    /\ At(q, "scores")
    /\ LET left == Tail(req[q].pending)
       IN  Handle(q, [req[q] EXCEPT
              !.stage   = IF left = <<>> THEN "answered" ELSE "runs",
              !.pending = left, !.read = {}, !.spans = {},
              !.entries = Append(@, Aggregate(req[q].read, req[q].spans))])

(* Mutant: a refused statement is tried again, from the aggregate's first. *)
M_ReadFails(q) ==
    /\ req[q].stage \in {"window", "runs", "trajectories", "scores"}
    /\ "read" \in Faults \/ (At(q, "window") /\ ~TakesAwareTimes)
    /\ Handle(q, [req[q] EXCEPT !.stage = IF @ = "window" THEN @ ELSE "runs"])

(* A statement is refused: nothing catches it, and the client gets a 500. *)
ReadFails(q) ==
    /\ req[q].stage \in {"window", "runs", "trajectories", "scores"}
    /\ "read" \in Faults \/ (At(q, "window") /\ ~TakesAwareTimes)
    /\ Handle(q, [req[q] EXCEPT !.stage = "error", !.pending = <<>>, !.read = {},
                                !.spans = {}, !.entries = <<>>])

Serve(q) == ReadWindow(q) \/ ReadRuns(q) \/ ReadTrajectories(q) \/ ReadScores(q) \/ ReadFails(q)

Next == \/ Tick
        \/ \E n \in 1..MaxSuite : CommitSuite(n)
        \/ \E q \in Clients, kind \in Kinds : Begin(q, kind)
        \/ \E q \in Clients : Serve(q)

(* The database answers a statement or refuses it. *)
Fairness == \A q \in Clients : WF_vars(Serve(q))

Spec == Init /\ [][Next]_vars /\ Fairness
-----------------------------------------------------------------------------
(* Properties *)

(* The aggregate of the runs in S, had it been read at once. *)
AggregateOf(S) == Aggregate(S, {t \in trajectories : t.run \in {r.id : r \in S}})

(* An answer is a snapshot although it takes several statements while suites
   are committed: an aggregate is that of the runs that were there at the first
   of them, with the trajectories of exactly these runs. *)
AnswersAreSnapshots ==
    \A q \in Clients : Answered(q, "aggregate") =>
        req[q].entries = <<AggregateOf(First(req[q].seen))>>

(* A history has an entry for each day of its window that has runs, in order,
   and every run the first statement saw in the window counts in the entry of
   its day, and no other run does, whatever was committed since. *)
HistoryCoversWindow ==
    \A q \in Clients : Answered(q, "history") =>
        \E days \in ByDay(Window(req[q].seen, req[q].cutoff)) :
            req[q].entries = [i \in DOMAIN days |-> AggregateOf(days[i])]

(* What a percentile should be, by counting: the least duration that a share of
   p percent of the runs, rounded down but at least one, does not exceed. *)
IsPercentile(v, S, p) ==
    LET AtMost(x) == Cardinality({r \in S : r.ms <= x})
        Enough(x) == AtMost(x) >= 1 /\ 100 * (AtMost(x) + 1) > p * Cardinality(S)
    IN  IF S = {} THEN v = 0
        ELSE /\ Enough(v) /\ \E r \in S : r.ms = v
             /\ \A r \in S : Enough(r.ms) => v <= r.ms

(* Whatever runs are aggregated, the percentiles are durations of theirs at the
   right rank, in order, and the tokens are averaged over the runs that passed
   and no others. *)
AggregatesAreRight ==
    \A S \in SUBSET Committed :
        LET m == AggregateOf(S)
        IN  /\ IsPercentile(m.p50, S, 50) /\ IsPercentile(m.p99, S, 99)
            /\ m.p50 <= m.p99
            /\ m.tasks = m.passed

(* Every request ends, also a history during which suites keep coming. *)
EveryRequestIsAnswered ==
    \A q \in Clients : ~Idle(q) ~> Idle(q)

(* alert_engine.py: "latency_p99_ms > 60 000 -> HIGH".  If more than one run in
   a hundred took longer than a minute, the alerts say so. *)
SlowRunsAlert ==
    \A q \in Clients : Answered(q, "aggregate") =>
        LET slow == {r \in First(req[q].seen) : r.ms > MaxP99Ms}
        IN  100 * Cardinality(slow) > req[q].seen
                => "latency_p99_ms" \in Alerts(req[q].entries[1])
=============================================================================
