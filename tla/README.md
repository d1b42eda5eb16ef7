# PromptVault in TLA+

PromptVault runs LLM agents on a library of tasks, records what they do, has
the recorded runs judged, and offers the results to a dashboard, a metrics
service and a human review queue.  This directory holds TLA+ models of its
core, the TLC configurations that check them, and TLAPS proofs of what matters
most.  Every definition is translated from the Python source; `PROJECT.json`
(`map`) names the lines each one stands for.

## 1. Inventory

| Component | Source | State it keeps | Operations | Hard behaviour |
|---|---|---|---|---|
| Task evaluation and harness | `services/agent_eval/application/use_cases/run_eval_task.py`, `.../observability/{middleware,logger}.py` | run row, trajectory row, span map, collector, JSONL log | `RunEvalTaskUseCase.execute`, nine LangChain hooks | a deadline that may fire between any two callbacks, hooks on executor threads, appends and flushes that fail one after the other |
| Eval job: API, broker, worker, suite, judge loop | `.../routers/runs.py`, `.../worker/{celery_app,tasks}.py`, `.../services/eval_service.py`, `.../use_cases/run_eval_suite.py` | Celery message, rows of one transaction, Redis keys | `create_run`, `run_eval_suite_task`, suite, `/evaluate` calls, commit, result | late acknowledgement, visibility timeout, deaths, rollback, failures between commit and result |
| Shared database access | `infrastructure/db/{connection,models}.py` | engine, session | `initialise`, `get_session`, upserts | an engine that outlives its event loop |
| Judge service | `services/judge/{application,domain,infrastructure,presentation}` | LRU cache, budget, handlers waiting for the model | `evaluate`, `pairwise`, clearing the cache | handlers overlap at the model call: check then charge, miss then set, clear in between; rate-limit retry; a restart forgets budget and cache |
| Progress and result stream | `.../routers/runs.py` (SSE), `apps/dashboard/lib/hooks/useRunStream.ts` | the poll counter, Redis keys with TTLs | polls, disconnects, reconnects | result, timeout, expiry and lost connections race; a job that failed has no key at all |
| Human review and regression generator | `.../routers/hitl.py`, `.../regression/generator.py` | annotations, golden rows, test files | queue, annotate, replay | row and file are written by different mechanisms, in two server processes over one directory |
| Metrics and alerts | `services/metrics/**` | none (reads the database) | summary, alerts, history, regression | an answer takes several statements while suites are committed; percentiles of few values |
| Run queries | `.../routers/runs.py` (list, detail, trace), `.../repositories/postgres_run_repository.py` | none (reads the database) | `list_runs`, `get_run_detail`, `get_run_trace` | pages cut by offset out of a list that grows at its head, and in its middle when an older suite commits late |
| Task registry and schema | `core/use_cases/{registry,schema}.py` | tasks read once per `EvalService` | load, select by id and category | one bad file hides the library; two files of one task; an image changed under a queued job |
| Command-line judge | `services/judge/{rules,pipeline,llm_judge,rubric}.py` | none | rule checks, two-stage pipeline | cannot run: `rules.py:166` compares the method `step_efficiency_ratio` with `2.0`, `rubric.py:101` formats it |
| Offline golden-set writer | `services/analysis/flywheel.py` | - | - | imported by nothing, and imports packages that do not exist |
| API gateway | `services/gateway/**` | none | token check, prefix routing, proxy | path rewriting; a stream outlives its five-second timeout |
| Tracer, event bus, HTTP wrappers, reports, CI gate, dashboard, deployment | see `PROJECT.json` | - | - | - |

How they interact: a client posts to `/runs`; the API puts one Celery message
in Redis; a worker process takes it, opens one database session and runs the
chosen tasks one after the other through `RunEvalTaskUseCase`; after the last
one it posts each passing run to the judge, keeps the scores, commits, and
writes a summary under `eval:job:<id>:result`, which the SSE endpoint polls.
Review, metrics and the dashboard only see committed rows.

What makes each part correct:

* a task evaluation ends whatever the agent does, and its row and its
  trajectory agree;
* a suite is in the database whole or not at all, what a client reads is backed
  by it, and every accepted job is settled;
* the judge's cache is an LRU cache and a memory of verdicts under any
  overlap; its budget is overrun by the calls under way together and by what
  never counts against it, comparisons and calls that were billed and raised;
* a stream tells its client one outcome, of its own job, and ends;
* a row of the golden set has its own test, and no test is half written;
* an aggregate is a snapshot, its percentiles and rates are those of its runs,
  and a history covers its window;
* a selection runs the tasks asked for, out of one library;
* a client that pages through the run list misses no run.

## 2. Modules

| Module | Models | Role |
|---|---|---|
| `RunLifecycle` | what one task evaluation promises the suite | abstract specification |
| `RunEvalTask` | `execute()` with the agent (external), the hooks and their threads, collector, log, session | implements `RunLifecycle` |
| `JobContract` | what an accepted job promises its client | abstract specification |
| `TaskSelection` | the library's files, the registry's dict, the choice by id and category, and what a request means | operators, with their reference definition |
| `EvalJob`, `MCEvalJob` | API, broker, worker processes, suite, judge answers, transaction, result key, faults; libraries and requests for TLC | extends `TaskSelection`, implements `JobContract` |
| `VerdictMemo` | a memory that may forget but recalls only the verdict computed last | abstract specification |
| `JudgeService` | the judge's handlers, cache, budget, model calls and restarts | implements `VerdictMemo` |
| `ProgressStream` | the generator behind the SSE endpoint and the browser's EventSource | composed with `JobContract` |
| `HitlFlywheel` | annotation: golden row, test file, commit, in several processes | detailed specification |
| `RunList`, `MCRunList` | the run list page by page, detail and trace, while suites are committed; start times for TLC | detailed specification |
| `SuiteMetrics`, `MCSuiteMetrics` | the aggregates of the metrics service, statement by statement; the kinds of run for TLC | detailed specification |
| `RunEvalTaskProofs`, `EvalJobProofs`, `JudgeServiceProofs`, `ProgressStreamProofs`, `HitlFlywheelProofs`, `SuiteMetricsProofs`, `RunListProofs` | the theorems of section 5 | proofs |
| `DataLemmas` | induction over the naturals, ranks in a finite order, selection from a sequence, sums over a finite set | lemmas shared by the proofs |

`EvalJob` composes with `RunEvalTask` through `RunLifecycle`: a task of a suite
ends in a PASS or an ERROR row (`RunTask`) or raises with the session half
written (`TaskRaises`), which is what `RunEvalTask` is shown to implement.
`ProgressStream` lets the job do whatever `JobContract` allows
(`Job == INSTANCE JobContract`), and `EvalJob` is shown to do no more.  Judge and
worker are composed only by the answers a POST may have (`JudgeAnswers`).
`HitlFlywheel`, `SuiteMetrics` and `RunList` take from `RunEvalTask` and `EvalJob`
that runs are committed by whole suites, are terminal, never change, and have a
trajectory exactly if they passed.

Operators named `M_...` are faulty variants of the definition below them.  They
are used by no specification; each shows which mistake a property would notice.

### RunEvalTask

`pc` walks through `execute()`: the RUNNING row is saved (`SaveRunning`, outside
the `try`), logger, collector and agent are built (`Build`), the agent runs
under `wait_for` (`Deadline`, `AinvokeReturns`, `AinvokeRaises`), the `with
StructuredLogger` block is left with its one or two appends (`ExitLogger`), the trajectory
is stored and the run completed (`SaveTrajectory`), or an except clause
completes it as ERROR (`Except`), and the finally clause saves the row
(`Finally`).  The agent is external: a stack of nested calls, one hook at a
time, which it awaits.  A hook runs on an executor thread (`RunHook`), so one
already handed over when the deadline cancels the agent may still run, or not
(`DropHook`).  An append to the log fails in the order the code makes it:
before the effect of `on_agent_finish`, after that of the `..._end` hooks.
A failed flush leaves the session broken until its owner rolls it back.

Left out: span contents, token counts, times, the tracer, and message texts.

### EvalJob

`msg` is the Celery message under `task_acks_late`; `Deliver` is a fetch with
prefetch 1; `Restore` is the broker's visibility timeout.  `exec[w]` is the
execution in worker process `w`: rows of its uncommitted transaction and how
far the judge loop is.  `Commit` makes a suite visible in one step, `Publish`
writes the result key, `Ack` removes the message; `CommitFails`, `PublishFails`
and `TaskRaises` end the execution as the code's exceptions do (no retry is
configured, and `acks_on_failure` is Celery's default).  `ProcessDies` acknowledges
the message, since `task_reject_on_worker_lost` is not set; `NodeDies` leaves it
unacknowledged.  `pooled` are processes whose engine was made in an event loop
that is closed.

Which tasks a suite has is `TaskSelection`'s.  A `library` is the sequence of JSON
files of the image's task directory; API and worker share the image, read the
directory anew for each request and each delivery, and get through it only if
every file is one JSON object (`Loads`).  `asked` is the request of a job.  A node
that comes back after `NodeDies` may bear another image, so a redelivered job may
meet another library, or one that does not load (`LibraryRaises`); an API with
one that does not load takes no requests (`CreateRunFails`): its router of tasks
reads the library when it is imported (`tasks.py:6`), and every request that
needs an `EvalService` would read it again.
`SuitesAnswerRequests` compares what was committed with what the request means,
which `TaskSelection` states without following the code's order of evaluation
(`Answers`).

Assumed, because no configuration in the repository says otherwise: the broker's
messages survive, and Celery's and kombu's defaults hold.

### JudgeService

Handlers share an event loop, so everything between two awaits is one action:
up to the model call (`EvaluateHit`, `EvaluateByRules`, `EvaluateRefused`,
`EvaluateByModel`, `Pairwise`) and from its answer on (`ModelAnswers`,
`ModelFails`, `RateLimited`, `Retry`).  `cache` is the `OrderedDict`, oldest
use first.  What the code really does is kept where it surprises: the router
drops the spans, so `TrajectoryHash` is a constant; rule scores are 0 or 1, so
`hybrid` never asks the model; failed calls are cached; `/pairwise` asks no
budget.  `Restart` is the process dying and being started again (`docker-compose.yml:90`,
`main.py`'s lifespan): cache and budget begin anew, and the calls that were under
way may have been billed.  A call that raises may have been billed as well:
`_call_api` reads `content[0]` of an answer that has already arrived
(`anthropic_client.py:24`), and a request the client library times out may be
answered all the same; `evaluate` and `pairwise` swallow the exception and record
nothing.  `ModelFails` therefore may bill in vain (`BilledInVain`), and so may
`LibraryRetries`, the library's own repetition of a request.  `unrecorded` is what
was billed and `total_spent` does not hold, `lost` the number of such requests.
Nothing in the code bounds that number: `BilledBounded` says what the budget
bounds and what it does not, and a client whose every call is billed and raises
spends without limit.  `recency`, `ungated`, `restarts`, `lost` and `unrecorded`
are history variables that no action reads (except for the bounds `MaxPairwise`,
`MaxRestarts` and `MaxLost`).

Left out: the counters of hits and misses, the texts, and `cost_usd`, which
repeats the budget's running total.  The router modules import one package
level too few (`judge.py:5`); the model takes the imports as meant.  It models
one process at a time; the Dockerfile starts two, each with its own cache and
budget.  They share nothing, so they are two instances of the module, and their
bounds add up.

### ProgressStream

One stream per client walks through `event_generator`: the progress key
(`PollProgress`), the result key (`PollResult`), half a second of sleep (`Wake`),
up to `Ticks` times, then a timeout event.  Each is one await, so the job may
move between any two.  Nobody writes the progress key, as the suite is
never handed the callback (`EvalJob!RunTask`), hence no progress event.  A job that is unknown, failed, or whose result has
expired looks like one that still runs, and ends in the same timeout.  `Summary`
names a suite by its summary, as the result key does.

The client is the `EventSource` of the dashboard's hook, taken as the HTML
standard has it: it comes back after every end of a response until it is closed
(`Reconnect`).  The hook never closes it when the suite is complete, so a client
that stays is told again.  The hook listens with `onmessage`, while the events
bear names, so it hears none of them; and no page mounts it.  Through the
gateway it would not get that far: an `EventSource` sends no token, and the path
is doubled.  The model is of the endpoint and of a client that does listen.

### HitlFlywheel

`req[q]` is a handler of `annotate_run`: it finds run and trajectory (`Annotate`)
or not (`NotFound`), flushes the golden row (`Flush`), opens, writes and renames
the test (`OpenTmp`, `WriteTmp`, `Replace`), and commits when it has returned
(`Commit`, `CommitFails`).  The row's key is eight hexadecimal digits: the
database holds an insert of a pending key back and refuses that of a committed
one.  FastAPI's version is not pinned: newer ones leave the dependency that
commits after the answer was sent (`AnswerFirst`), older ones before.  Writing a
file blocks the event loop of its process (`Blocked`), not that of the other;
both write into one directory.  A process may die at any point (`WorkerDies`).

`created_at` bears a zone and its column has none, which asyncpg refuses and
other drivers take: `TakesAwareTimes`.  With `FALSE` no annotation gets past its
flush.  `Test` keeps of the text only where its first line begins: `dedent` runs
over a template into which a list was already rendered.

Left out: notes and root causes, and the assertions they choose.  Two of these
assertions are questionable as texts: that of `wrong_tool` asks for the tool
`''`, as the handler passes none, and that of `bad_plan` asks that the run not
pass.

### RunList

A page is one SELECT with the filter, `ORDER BY started_at DESC`, LIMIT and OFFSET
(`Page`), so it shows the rows of one moment; `rows` may grow between two pages
(`CommitSuite`), also by runs older than some that are listed, since a suite is
committed after its last task.  `ListRuns` is `list_runs` asked by a client that
goes on until a page is not full.  Such a client is not in the repository: the
dashboard's pages ask for the first page only, although its hook `useRuns`
takes an offset.  `GetDetail` and `GetTrace` ask for a run the list has shown;
`ToDomain` leaves the trajectory out, as the repository's mapping does, so a
trace is always a 404.  `wanted` and `got` are history.

Assumed: no two runs start at the same microsecond (`RunsAssumption`); with equal
times the database may order them differently from page to page, and a run may
be missed.  All these endpoints need the library to load too; that is
`EvalJob`'s `CreateRunFails` again and not repeated here.

### SuiteMetrics

`req[q]` is a handler of the metrics service.  An aggregate reads runs,
trajectories and scores (`ReadRuns`, `ReadTrajectories`, `ReadScores`); a history
first reads its window (`ReadWindow`) and then, for every day that has runs,
these three (`pending`).  PostgreSQL's default, READ COMMITTED, gives each
statement the rows committed when it runs.  `"aggregate"` stands for `/summary` and
`/alerts`, which is made of it.  `CommitSuite` adds the rows of a suite whose runs
began at most one tick ago.  What the code really does is kept: without
`run_ids` an aggregate is over every run there ever was; `judge_scores` is read
but written by nobody; the cutoff of a history bears a zone
(`TakesAwareTimes`).  `seen` and `earlier` are history variables.

Left out: the averages that are quotients of the counts kept, the run id of an
aggregate (that of any run), the rates that are constants (safety, hallucination,
correctness), the date of a history's entry, which the answer does not bear,
and `/regression`, which answers a constant.

## 3. Runs and bounds

| Run | Question | Bounds |
|---|---|---|
| `RunEvalTask_faults` | Do row and trajectory agree, do late hooks stay harmless, does only the log or the database let `execute()` raise, does it end, and does it implement `RunLifecycle`? | 5 agent calls; every append and flush may fail |
| `EvalJob_faults` | Is what a client reads a whole, committed suite of what was asked; what do double holders, deliveries and suites need; is every accepted job settled; is it `JobContract`? | 1 job, 3 requests, 2 libraries, 0 to 2 tasks, 2 processes, 2 deliveries with a living holder, 2 deaths, all faults |
| `JudgeService_faults` | LRU, budget through restarts, memory, and the end of every call | 3 tasks, cache of 2, 2 handlers, budget 1, 1 comparison, 1 restart, 1 request lost, scores 0 and 1 of the model |
| `RunList_paging` | Does a reader miss or repeat runs, and is what it saw still there? | 4 runs, 1 client, pages of 1 and 2 |
| `ProgressStream_faults` | One outcome, of the job that is watched, and an end for every stream? | 2 jobs, 2 suites, 1 client, 3 polls for the code's 600 |
| `HitlFlywheel_faults` | Do golden row and test belong together, and what leaves one without the other? | 3 annotations of 1 run, 2 processes, 2 identifiers, 1 death |
| `SuiteMetrics_faults` | Are answers snapshots, histories complete, percentiles and rates right? | 3 runs of 3 kinds in suites of up to 2, 2 ticks a day, 5 moments, histories of 1 and 2 days |

Five calls are an outer chain with an LLM call, a tool call and a nested chain
with a call of its own: every nesting the hooks tell apart.  The requests
are all tasks of a category; two ids in another order than the library's, with
an unknown one between them and a category that must be ignored; and an unknown
id alone, which is a suite without runs.  One library has two files of one task,
the second of which changes its category; the other has a file that does not
load.  Two tasks give a suite a first, a last and a failing middle.  Two processes and two deliveries
allow one delivery to overtake another, two deaths a death during the recovery
from the first.  Three tasks and a cache of two evict with and without a
preceding hit; two handlers of one task miss together and overrun a budget of
one call; one restart makes a second life, in which the budget is there again;
one request billed in vain may end its call or not, before or after the restart.
Jobs share nothing but the engines of the processes: one job meets all
that can happen to it, and two are used where the engine matters
(`EvalJob_EveryJobSucceeds`).  Two streams never meet, so one client is enough;
with two jobs and two summaries it can be told of the wrong one; of three polls
one is the first, one the last and one neither.  Three annotations with two
identifiers collide whatever they draw, in one process or in two.  Four runs and pages of one
and two let suites of every size, older and newer than what was read, come
between any two pages.  Three runs make a history of two days, an aggregate during which a suite is committed, and
percentiles that leave a run out; the kinds of run stand on both sides of every
threshold that is reachable.  Deadlock is checked in every run: where everything
is over, the resting state is an action of its own (`Rest`).

Every property of a passing run is broken by at
least one of the `M_...` variants under the run's own bounds, so that none holds
because its case never happens.

The runs marked `violation` check a sentence of the repository and fail:

| Run | The repository says | The code does |
|---|---|---|
| `EvalJob_AckOnlyAfterCompletion` | "Acknowledge only after task completes" (`celery_app.py:24`) | a killed process acknowledges its job |
| `EvalJob_EveryJobSucceeds` | `initialise()` is "Safe to call multiple times" (`connection.py:35`) | the engine keeps connections of a closed event loop |
| `JudgeService_RecallsOwnTrajectory` | the cache is keyed by task and trajectory hash (`cache.py:6`) | the hash is that of no spans, for every run |
| `HitlFlywheel_TestsAreExecutable` | annotations become "executable pytest files" (`generator.py:1`) | every line of a generated test is indented |
| `SuiteMetrics_SlowRunsAlert` | `latency_p99_ms > 60 000` is an alert (`alert_engine.py:27`) | the 99th percentile of up to a hundred runs leaves the slowest out |

Disagreements met on the way that need no run:

* The worker posts to `/evaluate` while the judge serves `/judge/evaluate`: with
  `JudgeAnswers = {"http_error"}` every run stays ungraded, although `README.md:3`
  says the framework "then grades those trajectories".
* A run that fails or times out has no trajectory (`PassIffTrajectory`), although
  `tests/integration/test_eval_flow.py:59` asks for one of the run it starts, and
  `hitl.py:99` speaks of annotating "a failed run": such an annotation is a 404.
  The review queue lists runs with status FAIL (`hitl.py:53`), which nobody writes.
* The progress of a job is written "every time a task completes" (`tasks.py:33`),
  but `run_suite` takes a callback and does not pass it to the suite
  (`eval_service.py:42`).
* The request's `agent_version` goes through queue and worker and is dropped:
  every run is saved with `"v1.0"` (`run_eval_task.py`).
* "Return full detail for a single run including its trajectory" (`runs.py:89`),
  but a run is loaded without its trajectory (`models.py:24`), and its trace is a
  404.
* The span of a failed LLM call is dropped, although the framework "captures every
  decision step" (`README.md:3`).
* A hook "NEVER raises" (`middleware.py:63`), but the handler of its exceptions
  writes to the log that may have failed.
* Rule checks are "100% reproducible" (`README.md:10`), but the cache key has no
  strategy, so a rule request may be answered with the model's verdict.
* The hybrid strategy asks the model for rule scores from 0.3 to 0.9
  (`hybrid_strategy.py:9`), but rule scores are 0 or 1.
* The gateway replaces `/api` by a backend that already ends in the prefix:
  `/api/runs` becomes `/runs/runs`.  It has no route for the review queue, ends
  a stream that is silent for five seconds, and imports PyJWT where its Dockerfile installs
  `python-jose`.
* `regression_delta` fails CI at -5% (`README.md:164`); nothing computes it, and
  the code that would compare it uses -10%.
* One file of the library that is a JSON array, as
  `tests/fixtures/tasks/multi_step.json` is, makes `TaskSchema(**data)` raise: an
  API with the repository's own library does not start, and no worker can run a
  suite (`CreateRunFails`, `LibraryRaises`), while `test_full_user_journey.py:43`
  expects a 202 for "fixture tasks" (`:21`).

## 4. Fairness

* `RunEvalTask`: `WF(Execute)` only.  The event loop runs `execute()` when it can
  go on, and `wait_for` fires.  Nothing is assumed of the agent or its threads,
  so `Terminates` is due to the deadline alone.  It does assume that the agent
  gives the loop back: a tool that computes in the loop would not.
* `EvalJob`: each process with work goes on (its awaits end: `wait_for` 60 s,
  httpx 5 s, database and Redis calls are assumed to answer or to fail), an
  idle process fetches, and the visibility timeout fires for a holder that is
  gone.  Deaths, slow suites and failures are never forced.
* `JudgeService`: the Anthropic client sends a request a few times at most, each
  with a limit of time, and a sleep ends.  No fairness is given to new requests,
  nor to the library's repetitions, and a call that fails need not be billed.
* `ProgressStream`: the event loop resumes a generator after its sleep, and Redis
  answers or refuses.  Nothing is assumed of the job, the client or the network,
  so `EveryStreamEnds` is due to the counter of polls alone.
* `HitlFlywheel`: a handler that has begun goes on; what it awaits is the
  database, which answers or fails.  No request must begin, no process must die.
  `EveryRequestEnds` is about the wait for another annotation's key.
* `SuiteMetrics`: the database answers a statement or refuses it.  Suites may be
  committed for ever meanwhile.

## 5. Proofs

TLAPS checks these for every value of the constants that meets the named
assumptions (`BoundsAssumption`, `ConstantsAssumption`, `RunsAssumption`).

| Module | Theorem | Says |
|---|---|---|
| `RunEvalTaskProofs` | `TypeCorrect` | `[]TypeOK` |
| | `RowsAgree` | `[]PassIffTrajectory` |
| | `TrajectoriesAreWhole` | `[]StoredTrajectoryComplete` |
| | `AgentsAreContained` | `[]AgentNeverAbortsSuite` |
| | `HooksEndInTime` | `[]LateHooksAreHarmless` |
| | `ImplementsContract` | the safety part of `RunLifecycle!Spec` |
| `EvalJobProofs` | `TypeCorrect` | `[]TypeOK` |
| | `SuitesAreWhole` | `[]WholeSuites` |
| | `SuitesHoldWhatWasAsked` | `[]SuitesAnswerRequests` |
| | `DeliveryCommitsOnce` | `[]OneSuitePerDelivery` |
| | `ResultIsBacked` | `[]ResultIsCommitted` |
| | `OneHolder` | `[]SingleHolder` |
| | `ExtraSuitesAreDeaths` | `[]SuitesNeedNodeDeaths` |
| | `SuitesRunOut` | `[][NearerItsEnd]_vars`: an execution runs out of steps |
| | `JobKeepsContract` | `ImplementsContract`, that is `JobContract!Spec` |
| `JudgeServiceProofs` | `TypeCorrect` | `[]TypeOK` |
| | `BudgetOvershoot` | `[]BilledBounded` |
| | `CacheIsLeastRecentlyUsed` | `[]CacheIsLRU` |
| | `RecallsLastVerdict` | `ImplementsMemo`, that is `VerdictMemo!Spec` |
| `ProgressStreamProofs` | `TypeCorrect` | `[]TypeOK` |
| | `StreamsHaveOneOutcome` | `[]OneOutcome` |
| | `ClientsHearOfCommittedSuites` | `[]ToldIsCommitted` |
| | `PollsRunOut` | `[][NearerItsEnd]_vars`: a stream runs out of polls |
| `HitlFlywheelProofs` | `TypeCorrect` | `[]TypeOK` |
| | `RowsHaveTests` | `[]GoldenRowHasItsTest` |
| | `WritesAreAtomic` | `[]TestsAreWhole` |
| | `OrphansAreFaults` | `[]OrphansNeedFaults` |
| | `RequestsRunOut` | `[][NearerItsEnd]_vars`: a handler runs out of steps |
| | `NoCircularWait` | `[]WaitsAreShort` |
| `SuiteMetricsProofs` | `TypeCorrect` | `[]TypeOK` |
| | `AggregatesAreSound` | `[]AggregatesAreRight` |
| | `LatencyAlertIsBounded` | `[]LatencyAlertIsLate` |
| | `SummariesAreSnapshots` | `[]AnswersAreSnapshots` |
| | `HistoriesAreSnapshots` | `[]HistoryCoversWindow` |
| `RunListProofs` | `TypeCorrect` | `[]TypeOK` |
| | `ReadingsAreComplete` | `[]NoRunIsMissed` |
| | `RepeatsAreBounded` | `[]RepeatsAreNewRuns` |
| | `ListedRunsStay` | `[]ListedRunsAreFound` |

*RunEvalTask.*  `PassIffTrajectory` speaks of the moment `execute()` returns.
`StageInv` carries it there: for each `pc` it says which of entity status, row and
trajectory may be what, and that a session is broken only on the way to
`raised`.  The refinement follows from it step by step.
`TellInv` follows the agent's calls as long as it was neither cancelled nor failed:
the open ones are on the stack in the order they began, each has an open span
from its first hook to its last and an appended one afterwards, and calls, open
calls, spans and a last hook under way add up.  `EndInv` says what is left of that
at each stage of `execute()`: a trajectory is saved only when the agent has
finished, its stack is empty and no hook is on a thread, so the spans are those of
all its calls, and nothing touches them later; and an evaluation raises only with
a failed append, a broken session or an agent that was never built behind it.

*EvalJob.*  No property is inductive alone.  `ExecInv` ties an execution to its
job's message, size and deliveries (whole from the judge loop on, committed
once it publishes), `AttemptInv` says that two
processes never hold the same delivery, although they may hold the same job,
and `CommittedInv` that a committed suite is whole, belongs to a delivery that
happened, and is past its commit in the process that still runs it: so nobody
can commit that delivery again.  An execution that publishes finds its own
suite committed, from which `ResultIsCommitted` follows.

`SingleHolder` and `SuitesNeedNodeDeaths` speak of jobs that were not overtaken,
and have one inductive argument (`HolderInv`): the message of such a job is in a
process's hands exactly if it is unacknowledged and the job runs, nobody holds
it before it was taken, and whenever it waits to be taken again, in the queue or
on its way there, it was delivered no more often than nodes died.  A delivery
adds one, which is the one that is not a death; a delivery commits once, so there
are no more suites than deliveries.

`SuitesAnswerRequests` needs of the state only that a suite is one selection, from
a library that loads (`Chosen`, kept by `ExecInv` and `CommittedInv`).  The rest is
about data: `Filtered` yields the elements in question, in their order
(`FilteredPicksOut`), so `list_tasks` names each task once
(`ListsEachTaskOnce`, by the least place of each) and `get_task` finds the one file
of it that counts (`GetsTheCurrentFile`, by the greatest).  `SelectionAnswers` then
says that `Selected` is what the request means, for every library and every
request; it also gives the type of a suite's tasks.

*JudgeService.*  `LRUInv` says that `recency` has no duplicates and that the cache
lists the keys of its last `Len(cache)` elements, with `Len(cache)` the lesser of
`MaxSize` and `Len(recency)`; a lemma about removing one element and appending
it again covers hits, rewrites and evictions.  `BilledBounded` bounds
what the tracker knows of and what it does not together.  Each lost request adds to
both sides alike (`LoseKeeps`), so an affordable call starts from the bound on what
the tracker does not know of (`UnrecordedBounded`), which a restart in turn takes
from `BilledBounded`.  Products of naturals
are monotone (`ProductBound`).  The refinement rests on `OneEntryAKey`, a
consequence of `LRUInv`: a hit only moves its entry (`HitRemembers`), and a verdict
that is written replaces that of its key and lets at most one other go
(`SetRemembers`).

*ProgressStream.*  What `ToldIsCommitted` needs of the job is `ResultInv`: a result
that can be read is that of a committed suite.  It follows from the steps of
`JobContract` alone, so the theorem holds of any implementation of it, `EvalJob`
among them.  `SentInv` says what has been sent at each stage.

*HitlFlywheel.*  `KeyInv`: two annotations that wait for their commit have different
keys, and none of a committed row.  So nobody else writes to the names a
pending annotation writes to, which is `FileInv`: its temporary file is its own
once written, and its test is in place until it commits and stays afterwards.
`TraceInv` says that an annotation leaves nothing before that.

*SuiteMetrics.*  `RowsInv`: rows are numbered by the order of their commit, and a
trajectory is there only with its run; so a group of rows that was read once is
found again, with the same trajectories, whatever is committed since.  For each
handler there is then a sequence of groups (all runs, or the runs of the
window by day) of which it has the first aggregates, reads the next, and still
has to read the others (`SummaryInv`, `HistoryInv`).

`AggregatesAreRight` compares a percentile by rank, as the code sorts and indexes,
with one that counts how many values lie below it.  The two agree because a
finite order has each rank once (`RankIsTaken`), so that exactly as many runs lie
below the one the index finds as the index says (`PercentileIsRight`).  What the
rates need of the state is `OwnersInv` (a trajectory belongs to one run that is
there) and `EntriesInv` (a handler that has not begun to read, or failed, has no
entry).  The sentence `SlowRunsAlert` quotes is false; `LatencyAlertIsLate`,
which `LatencyAlertIsBounded` proves, says what the code does instead: a
hundredth of the runs and one more must be slow before the alert is certain, and
it is never raised without a slow run.

*RunList.*  The ranks of n listed runs are 0 to n-1, each once (`RankIsBijective`),
by counting those above: so a page holds as many rows as it has places that are
filled, and one that is not full is the last.  A run that was listed keeps or
raises its rank when others come in.  Hence `GoodReading`: what was there at the
first page and now has a rank before the offset was shown.  Rows are counted
against the runs that came in meanwhile: those shown once, and one repetition
for each run that pushed another down.

*DataLemmas.*  The library's induction theorems take an operator as their
parameter, which the provers cannot instantiate.  `ByInduction` is stated of a set
of numbers instead (0 is in it, and with each number the next), and follows
from `WFMin` and `NatLessThanWellFounded`; the property in question is a set
comprehension at each use.  A recursive function is a CHOOSE of a solution of its
equation, so lemmas say that there is one and what every one of them is:
`SelectingHasSolution` and `SelectingPicksOut` for the filter of `TaskSelection`,
`SumIsNatural` for the sums of `SuiteMetrics`.  `SelectSeq` itself is opaque to the
provers, which is why `TaskSelection` defines `Filtered`.

Only model-checked: liveness (`Terminates`, `EveryJobSettles`, `EveryCallLands`,
`ResultIsTold`, `EveryStreamEnds`, `EveryRequestEnds`, `EveryRequestIsAnswered`, the
fairness of `RunLifecycle`), which is beyond this prover.  Every invariant of a
passing run, and the safety part of every refinement, is proved.  Of three of the
liveness properties the half without fairness is proved as well: `NearerItsEnd`
gives every execution, stream and annotation a number of steps, from the
code's loops, that each step of its own lowers and no step of anyone raises.  A
retry without a bound, a loop that starts over or a task that is judged twice
would break it.  With that, `EveryJobSettles`, `EveryStreamEnds` and
`EveryRequestEnds` need of fairness only that whoever has a step takes it (and
`EveryJobSettles` that a message comes back a bounded number of times); and
`NoCircularWait` says that annotations never wait for each other in a circle, so
somebody always has one.

## 6. Plan

Built so far, in this order: `RunEvalTask`, `EvalJob`, `JudgeService`,
`ProgressStream`, `HitlFlywheel`, `SuiteMetrics`, `TaskSelection`, `RunList`, each
with its proofs.  Next:

1. Judge and worker together: the worker's five-second timeout against the
   sixty-second back-off.
2. A suite's task ends as `RunLifecycle` promises; `EvalJob` takes that as two
   outcomes and a failure.  Composing the three modules in one instance would
   show it, at the price of a product of their states.

## 7. Not modelled

The gateway, which keeps no state, and through which no `/api` path reaches its
endpoint; the command-line judge and the offline golden-set writer, which cannot
run; the reports, written for the result types of an earlier harness; the CI gate,
one comparison; the dashboard's rendering; the deployment and CI files beyond
what `EvalJob` and `JudgeService` take from them; the two HTTP wrappers nobody
imports; `create_tables` and `close` of the database connection, which run before
the first request and after the last; and the tracer, whose spans leave the
system.  Tools of the agent and the model itself are external and appear only as
what they may do.
