----------------------------- MODULE JudgeService -----------------------------
(***************************************************************************)
(* The judge service: its handlers run in one event loop and are suspended *)
(* only while the model answers.  Shared between them are the LRU cache of *)
(* verdicts and the budget.  A verdict is remembered under its task and    *)
(* the hash of its trajectory, whose spans the router does not pass on.    *)
(***************************************************************************)
EXTENDS Naturals, Sequences, FiniteSets, SequencesExt

CONSTANTS
    Tasks,      \* task ids
    ToolTasks,  \* those with a checkpoint on a tool call
    Runs,       \* what is judged: a run's trajectory with its output
    Good,       \* the runs whose output meets every checkpoint on it
    Handlers,   \* bound: requests whose model call is under way at once
    MaxSize,    \* maxsize of the cache
    MaxCost,    \* max_cost_usd, in the unit of Costs
    Estimate,   \* what can_afford(1000) reckons with
    CallCost,   \* bound: what one model call costs
    ModelScores, \* bound: the scores the model gives, in halves
    MaxRestarts, \* bound: how often the process dies
    MaxPairwise, \* bound: the comparisons asked for
    MaxLost,    \* bound: the requests billed whose tokens reach nobody
    Endpoints   \* bound: the endpoints in use

ASSUME ConstantsAssumption ==
    /\ ToolTasks \subseteq Tasks /\ Good \subseteq Runs
    /\ IsFiniteSet(Handlers)
    /\ MaxSize \in Nat \ {0}
    /\ MaxCost \in Nat /\ CallCost \in Nat /\ MaxPairwise \in Nat /\ MaxLost \in Nat /\ Estimate \in 0..MaxCost
    /\ ModelScores \subseteq 0..2 /\ MaxRestarts \in Nat
    /\ Endpoints \subseteq {"evaluate", "pairwise", "clear"}

VARIABLES
    cache,   \* the OrderedDict of JudgeCache, least recently used first
    spent,   \* total_spent of the BudgetTracker
    flight,  \* per handler, the request whose model call it awaits
    recency, \* history: all keys since the last clear, by last use
    ungated, \* history: the comparisons asked for
    restarts, \* history: how often the process died
    lost,    \* history: the requests billed whose tokens reached nobody
    unrecorded, \* history: what was billed and total_spent does not hold: to
                \* the processes that died, and for the requests lost
    reply    \* the last answer to /evaluate

lives == <<restarts, lost, unrecorded>>
vars  == <<cache, spent, flight, recency, ungated, lives, reply>>

Strategies == {"rule", "llm", "hybrid"}
Scores     == 0..2     \* a score in halves
Hashes     == {"of no spans"}
Keys       == Tasks \X Hashes
Requests   == [task : Tasks, run : Runs, strategy : Strategies]
Subjects   == [task : Tasks, run : Runs]
Verdicts   == [score : Scores, of : Runs]
Entries    == [key : Keys, verdict : Verdicts]
Stages     == {"call", "backoff", "retry"}
Flights    == [kind : {"evaluate"}, stage : Stages, request : Requests]
                 \union [kind : {"pairwise"}, stage : Stages]
None       == [kind |-> "none"]
NoReply    == [from |-> "nowhere"]
Replies    == [from : {"cache", "strategy"}, request : Subjects, verdict : Verdicts]
                 \union [from : {"budget"}, request : Subjects]

TypeOK ==
    /\ cache \in Seq(Entries)
    /\ spent \in Nat
    /\ flight \in [Handlers -> Flights \union {None}]
    /\ recency \in Seq(Keys)
    /\ ungated \in Nat
    /\ restarts \in Nat /\ lost \in Nat /\ unrecorded \in Nat
    /\ reply \in Replies \union {NoReply}

Init ==
    /\ cache = <<>>
    /\ spent = 0
    /\ flight = [h \in Handlers |-> None]
    /\ recency = <<>>
    /\ ungated = 0
    /\ restarts = 0 /\ lost = 0 /\ unrecorded = 0
    /\ reply = NoReply

-----------------------------------------------------------------------------
(* JudgeCache. *)

(* The router builds the Trajectory from its ids: trajectory_hash is the hash
   of an empty list of spans, whatever was run. *)
TrajectoryHash(run) == "of no spans"

KeyOf(r) == <<r.task, TrajectoryHash(r.run)>>

(* What of a request its answer is about. *)
SubjectOf(r) == [task |-> r.task, run |-> r.run]

Holds(k)   == \E i \in DOMAIN cache : cache[i].key = k
Place(k)   == CHOOSE i \in DOMAIN cache : cache[i].key = k
Without(k) == IF Holds(k) THEN RemoveAt(cache, Place(k)) ELSE cache

Evicted(c) == IF Len(c) > MaxSize THEN Tail(c) ELSE c

(* Mutant: a hit does not refresh its entry. *)
M_Get(k) == cache' = cache

(* get: the entry becomes the last one used. *)
Get(k) == cache' = Append(Without(k), cache[Place(k)])

(* Mutant: a verdict that is there already is kept. *)
M_Set(k, v) == IF Holds(k) THEN Get(k)
               ELSE cache' = Evicted(Append(cache, [key |-> k, verdict |-> v]))

(* set: so does the entry written, and the first is evicted from a full cache. *)
Set(k, v) == cache' = Evicted(Append(Without(k), [key |-> k, verdict |-> v]))

(* History: k is used. *)
Used(k)  == \E i \in DOMAIN recency : recency[i] = k
Since(k) == CHOOSE i \in DOMAIN recency : recency[i] = k

Use(k) == recency' = Append(IF Used(k) THEN RemoveAt(recency, Since(k)) ELSE recency, k)
-----------------------------------------------------------------------------
(* The strategies. *)

(* RuleJudgeStrategy: 0 or 1, and 0 where a tool call is asked for, because
   the trajectory it is shown has no spans. *)
RuleScore(r) == IF r.run \in Good /\ r.task \notin ToolTasks THEN 2 ELSE 0

(* HybridJudgeStrategy goes on to the model from 0.3 to 0.9 only. *)
AsksModel(r) == \/ r.strategy = "llm"
                \/ r.strategy = "hybrid" /\ RuleScore(r) = 1

(* Mutant: the call about to be made is left out of the sum. *)
M_CanAfford == spent <= MaxCost

CanAfford == spent + Estimate <= MaxCost

(* The answer to an evaluation is remembered, whatever it is. *)
Conclude(r, score) ==
    LET v == [score |-> score, of |-> r.run]
    IN  /\ Set(KeyOf(r), v)
        /\ Use(KeyOf(r))
        /\ reply' = [from |-> "strategy", request |-> SubjectOf(r), verdict |-> v]
-----------------------------------------------------------------------------
(* POST /judge/evaluate, up to its answer or its model call. *)

EvaluateHit(r) ==
    /\ "evaluate" \in Endpoints
    /\ Holds(KeyOf(r))
    /\ Get(KeyOf(r)) /\ Use(KeyOf(r))
    /\ reply' = [from |-> "cache", request |-> SubjectOf(r), verdict |-> cache[Place(KeyOf(r))].verdict]
    /\ UNCHANGED <<spent, flight, ungated, lives>>

EvaluateByRules(r) ==
    /\ "evaluate" \in Endpoints
    /\ ~Holds(KeyOf(r)) /\ ~AsksModel(r)
    /\ Conclude(r, RuleScore(r))
    /\ UNCHANGED <<spent, flight, ungated, lives>>

(* JudgeBudgetExceededError, answered 402. *)
EvaluateRefused(r) ==
    /\ "evaluate" \in Endpoints
    /\ ~Holds(KeyOf(r)) /\ AsksModel(r) /\ ~CanAfford
    /\ reply' = [from |-> "budget", request |-> SubjectOf(r)]
    /\ UNCHANGED <<cache, spent, flight, recency, ungated, lives>>

EvaluateByModel(h, r) ==
    /\ "evaluate" \in Endpoints
    /\ flight[h] = None
    /\ ~Holds(KeyOf(r)) /\ AsksModel(r) /\ CanAfford
    /\ flight' = [flight EXCEPT ![h] = [kind |-> "evaluate", stage |-> "call", request |-> r]]
    /\ UNCHANGED <<cache, spent, recency, ungated, lives, reply>>

(* POST /judge/pairwise asks the model whatever was spent. *)
Pairwise(h) ==
    /\ "pairwise" \in Endpoints
    /\ flight[h] = None
    /\ ungated < MaxPairwise
    /\ ungated' = ungated + 1
    /\ flight' = [flight EXCEPT ![h] = [kind |-> "pairwise", stage |-> "call"]]
    /\ UNCHANGED <<cache, spent, recency, lives, reply>>

(* DELETE /judge/cache.  Calls under way will write their verdicts into it. *)
ClearCache ==
    /\ "clear" \in Endpoints
    /\ cache' = <<>> /\ recency' = <<>>
    /\ UNCHANGED <<spent, flight, ungated, lives, reply>>
-----------------------------------------------------------------------------
(* AnthropicClient.complete and what awaits it. *)

Calling(h) == flight[h] # None /\ flight[h].stage \in {"call", "retry"}

Land(h) == flight' = [flight EXCEPT ![h] = None]

(* Mutant: the average is not clamped to 1. *)
M_ModelAnswers(h) ==
    /\ Calling(h)
    /\ \E c \in 0..CallCost : spent' = spent + c
    /\ Land(h)
    /\ IF flight[h].kind = "evaluate"
       THEN \E s \in 0..3 : Conclude(flight[h].request, s)
       ELSE UNCHANGED <<cache, recency, reply>>
    /\ UNCHANGED <<ungated, lives>>

(* The text is the evaluation asked for, or not the JSON it should be, which
   scores 0; either way its tokens are recorded. *)
ModelAnswers(h) ==
    /\ Calling(h)
    /\ \E c \in 0..CallCost : spent' = spent + c
    /\ Land(h)
    /\ IF flight[h].kind = "evaluate"
       THEN \E s \in ModelScores \union {0} : Conclude(flight[h].request, s)
       ELSE UNCHANGED <<cache, recency, reply>>
    /\ UNCHANGED <<ungated, lives>>

(* A request was billed, and nobody is told of its tokens. *)
BilledInVain ==
    /\ lost < MaxLost
    /\ lost' = lost + 1
    /\ \E c \in 1..CallCost : unrecorded' = unrecorded + c

(* The client library gives a request up, which the model may have answered,
   and sends it again. *)
LibraryRetries(h) ==
    /\ Calling(h)
    /\ BilledInVain
    /\ UNCHANGED <<cache, spent, flight, recency, ungated, restarts, reply>>

(* An exception scores 0 as well, and records nothing; but the answer that was
   not waited for, or whose content is empty, is billed. *)
ModelFails(h) ==
    /\ Calling(h)
    /\ Land(h)
    /\ UNCHANGED <<lost, unrecorded>> \/ BilledInVain
    /\ IF flight[h].kind = "evaluate"
       THEN Conclude(flight[h].request, 0)
       ELSE UNCHANGED <<cache, recency, reply>>
    /\ UNCHANGED <<spent, ungated, restarts>>

(* The first RateLimitError is slept over for a minute, the second is an
   exception like any other. *)
RateLimited(h) ==
    /\ flight[h] # None /\ flight[h].stage = "call"
    /\ flight' = [flight EXCEPT ![h].stage = "backoff"]
    /\ UNCHANGED <<cache, spent, recency, ungated, lives, reply>>

(* Mutant: complete() calls itself after the sleep. *)
M_Retry(h) ==
    /\ flight[h] # None /\ flight[h].stage = "backoff"
    /\ flight' = [flight EXCEPT ![h].stage = "call"]
    /\ UNCHANGED <<cache, spent, recency, ungated, lives, reply>>

Retry(h) ==
    /\ flight[h] # None /\ flight[h].stage = "backoff"
    /\ flight' = [flight EXCEPT ![h].stage = "retry"]
    /\ UNCHANGED <<cache, spent, recency, ungated, lives, reply>>
-----------------------------------------------------------------------------
InFlight == {h \in Handlers : flight[h] # None}

(* The process dies and is started again: lifespan makes a new cache and a new
   tracker.  The calls it awaited may have been billed. *)
Restart ==
    /\ restarts < MaxRestarts
    /\ restarts' = restarts + 1
    /\ \E c \in 0..(CallCost * Cardinality(InFlight)) : unrecorded' = unrecorded + spent + c
    /\ cache' = <<>> /\ recency' = <<>> /\ spent' = 0
    /\ flight' = [h \in Handlers |-> None]
    /\ UNCHANGED <<ungated, lost, reply>>
-----------------------------------------------------------------------------
Evaluate(r) == \/ EvaluateHit(r) \/ EvaluateByRules(r) \/ EvaluateRefused(r)
               \/ \E h \in Handlers : EvaluateByModel(h, r)

ModelStep(h) == ModelAnswers(h) \/ ModelFails(h) \/ RateLimited(h) \/ Retry(h)

Next == \/ \E r \in Requests : Evaluate(r)
        \/ \E h \in Handlers : Pairwise(h) \/ ModelStep(h) \/ LibraryRetries(h)
        \/ ClearCache
        \/ Restart

(* The client library sends a request a few times at most, each with a limit of
   time, and the sleep ends. *)
Fairness == \A h \in Handlers : WF_vars(ModelStep(h))

Spec == Init /\ [][Next]_vars /\ Fairness
-----------------------------------------------------------------------------
(* Properties *)

LastOf(s, n) == IF Len(s) <= n THEN s ELSE SubSeq(s, Len(s) - n + 1, Len(s))

(* The cache is an LRU cache: it holds the keys used last since it was
   cleared, in the order of their last uses, also when several handlers
   computed the same verdict or the cache was cleared under them. *)
CacheIsLRU ==
    [i \in DOMAIN cache |-> cache[i].key] = LastOf(recency, MaxSize)

(* can_afford is asked before the call and record comes after it, a new process
   knows nothing of what the old one spent, and a call that raises records
   nothing even if it was billed.  What is billed in all is over the budget, once
   for every life of the process, by the calls that were under way together, and
   besides by the comparisons, which are not asked to afford their calls, and by
   the requests lost, which never count against it and which nothing in the code
   bounds. *)
OneLife == MaxCost - Estimate + CallCost * Cardinality(Handlers)

BilledBounded ==
    unrecorded + spent + CallCost * Cardinality(InFlight)
        <= OneLife * (1 + restarts) + CallCost * (ungated + lost)

(* Every request is answered, through errors and rate limits. *)
EveryCallLands == \A h \in Handlers : flight[h] # None ~> flight[h] = None

(* The answers are those of a memory of verdicts. *)
Memo == INSTANCE VerdictMemo WITH
    known <- [k \in Keys |-> {cache[i].verdict : i \in {j \in DOMAIN cache : cache[j].key = k}}]

ImplementsMemo == Memo!Spec

(* What comments and documents of the repository say. *)

(* cache.py: the cache is "keyed by str(task_id + trajectory_hash)": a verdict
   is recalled for the trajectory it was computed for. *)
RecallsOwnTrajectory ==
    reply.from = "cache" => reply.verdict.of = reply.request.run
=============================================================================
