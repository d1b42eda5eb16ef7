------------------------------- MODULE EvalJob -------------------------------
(***************************************************************************)
(* An eval job from POST /runs to its result: the message in the Celery    *)
(* broker (acknowledged late, redelivered when its holder vanished), the   *)
(* worker processes that run the suite in one database session, the judge  *)
(* calls, the commit, the result key in Redis, and the faults between any  *)
(* two of these steps.  A task of a suite ends as RunLifecycle promises;   *)
(* which tasks a suite has is TaskSelection's.                             *)
(***************************************************************************)
EXTENDS TaskSelection

CONSTANTS
    Jobs,           \* job ids the API may create
    Workers,        \* worker processes of the one worker node
    Asked,          \* the requests clients make
    Libraries,      \* the task libraries an image may bear
    MaxDeliveries,  \* bound: deliveries of one message while its holder lives
    MaxCrashes,     \* bound: processes and nodes that die
    JudgeAnswers,   \* how a POST to the judge may end
    Faults          \* which faults occur

FaultKinds == {"task",      \* execute() raises, see RunLifecycle!Raise
               "commit",    \* the database refuses the commit
               "publish",   \* Redis refuses the result
               "process",   \* a worker process dies
               "node",      \* the worker node dies
               "slow",      \* a suite outlasts the broker's visibility timeout
               "expire"}    \* a client reads after the result's hour has passed

ASSUME ConstantsAssumption ==
    /\ Asked \subseteq Requests /\ Libraries \subseteq Seq(Files) /\ Libraries # {}
    /\ MaxDeliveries \in Nat /\ MaxCrashes \in Nat
    /\ JudgeAnswers \subseteq {"scored", "http_error", "raises"}
    /\ JudgeAnswers # {}
    /\ Faults \subseteq FaultKinds

(* A job no client has asked for. *)
NoRequest == [ids |-> <<>>, category |-> NoCategory]

VARIABLES
    library,    \* the task files in the image of API and worker
    asked,      \* per job, its request, or NoRequest
    msg,        \* per job, its message: "absent", "ready", "unacked", "gone",
                \*   or "refused" when the API could not take the request
    deliveries, \* per job, how often its message was delivered
    exec,       \* per worker process, the execution in it
    pooled,     \* processes whose engine holds a connection of a closed loop
    committed,  \* the suites in the database: job, attempt, rows
    result,     \* per job, eval:job:<id>:result, or NoResult
    crashes,    \* history: processes and nodes that died so far
    nodeDeaths, \* history: the nodes among them
    overtaken   \* history: jobs whose message came back while they ran

history == <<crashes, nodeDeaths, overtaken>>
vars    == <<library, asked, msg, deliveries, exec, pooled, committed, result, history>>

Idle     == [stage |-> "idle"]
NoResult == [passed |-> 0, total |-> 0, completed |-> FALSE]
Rows     == [task : TaskIds, status : {"PASS", "ERROR"}, scored : BOOLEAN]
Messages == {"absent", "ready", "unacked", "gone", "refused"}
Stages   == {"open", "tasks", "judge", "publish", "succeeded", "failed"}
Executions == [stage : Stages, job : Jobs, attempt : Nat, tasks : Seq(TaskIds),
               rows : Seq(Rows), judged : Nat]
Committed  == [job : Jobs, attempt : Nat, rows : Seq(Rows)]
Results    == [passed : Nat, total : Nat, completed : BOOLEAN]

TypeOK ==
    /\ library \in Libraries
    /\ asked \in [Jobs -> Asked \union {NoRequest}]
    /\ msg \in [Jobs -> Messages]
    /\ deliveries \in [Jobs -> Nat]
    /\ exec \in [Workers -> Executions \union {Idle}]
    /\ pooled \in SUBSET Workers
    /\ committed \in SUBSET Committed
    /\ result \in [Jobs -> Results]
    /\ crashes \in 0..MaxCrashes
    /\ nodeDeaths \in Nat
    /\ overtaken \in SUBSET Jobs

Init ==
    /\ library \in Libraries
    /\ asked = [j \in Jobs |-> NoRequest]
    /\ msg = [j \in Jobs |-> "absent"]
    /\ deliveries = [j \in Jobs |-> 0]
    /\ exec = [w \in Workers |-> Idle]
    /\ pooled = {}
    /\ committed = {}
    /\ result = [j \in Jobs |-> NoResult]
    /\ crashes = 0 /\ nodeDeaths = 0 /\ overtaken = {}

Busy(w, s)  == exec[w].stage = s
Running(j)  == \E w \in Workers : exec[w] # Idle /\ exec[w].job = j

(* The summary of a suite: its PASS runs, its runs, and that it is complete. *)
Passed(rows)  == Cardinality({i \in DOMAIN rows : rows[i].status = "PASS"})
Summary(rows) == [passed |-> Passed(rows), total |-> Len(rows), completed |-> TRUE]

-----------------------------------------------------------------------------
(* The API and the broker. *)

(* create_run: the message is in the queue when the client gets its job id. *)
CreateRun(j) ==
    /\ msg[j] = "absent" /\ Loads(library)
    /\ msg' = [msg EXCEPT ![j] = "ready"]
    /\ \E request \in Asked : asked' = [asked EXCEPT ![j] = request]
    /\ UNCHANGED <<library, deliveries, exec, pooled, committed, result, history>>

(* Every EvalService reads the library first, and so does the router of tasks
   when the API starts: with a file that raises, no client gets a job. *)
CreateRunFails(j) ==
    /\ msg[j] = "absent" /\ ~Loads(library)
    /\ msg' = [msg EXCEPT ![j] = "refused"]
    /\ UNCHANGED <<library, asked, deliveries, exec, pooled, committed, result, history>>

(* A process with nothing to do takes one message (prefetch 1, ack late). *)
Deliver(w, j) ==
    /\ exec[w] = Idle /\ msg[j] = "ready"
    /\ msg' = [msg EXCEPT ![j] = "unacked"]
    /\ deliveries' = [deliveries EXCEPT ![j] = @ + 1]
    /\ exec' = [exec EXCEPT ![w] = [stage |-> "open", job |-> j, attempt |-> deliveries[j] + 1,
                                    tasks |-> <<>>, rows |-> <<>>, judged |-> 0]]
    /\ UNCHANGED <<library, asked, pooled, committed, result, history>>

(* Mutant: the broker returns a message whose holder is alive and in time. *)
M_Restore(j) ==
    /\ msg[j] = "unacked" /\ deliveries[j] < MaxDeliveries
    /\ msg' = [msg EXCEPT ![j] = "ready"]
    /\ UNCHANGED <<library, asked, deliveries, exec, pooled, committed, result, history>>

(* The visibility timeout returns a message nobody acknowledged: its holder
   died, or is only slow. *)
Restore(j) ==
    /\ msg[j] = "unacked"
    /\ \/ /\ ~Running(j)
          /\ UNCHANGED overtaken
       \/ /\ Running(j) /\ "slow" \in Faults /\ deliveries[j] < MaxDeliveries
          /\ overtaken' = overtaken \union {j}
    /\ msg' = [msg EXCEPT ![j] = "ready"]
    /\ UNCHANGED <<library, asked, deliveries, exec, pooled, committed, result>>
    /\ UNCHANGED <<crashes, nodeDeaths>>

(* An acknowledgement removes the message unless it is back in the queue. *)
Acked(j) == [msg EXCEPT ![j] = IF @ = "unacked" THEN "gone" ELSE @]
-----------------------------------------------------------------------------
(* _run_suite_async in a worker process. *)

(* The execution in process w becomes e; only Commit touches the database. *)
Move(w, e) == exec' = [exec EXCEPT ![w] = e] /\ UNCHANGED committed

(* The run of the next task of the suite. *)
NewRow(e, s) == [task |-> e.tasks[Len(e.rows) + 1], status |-> s, scored |-> FALSE]

(* Mutant: a run enters the suite before complete() gave it its status. *)
M_RanTask(e, s) ==
    [e EXCEPT !.rows = Append(e.rows, [NewRow(e, s) EXCEPT !.status = "RUNNING"])]

At(e, s)    == [e EXCEPT !.stage = s]
RanTask(e, s) == [e EXCEPT !.rows = Append(e.rows, NewRow(e, s))]
Judged(e)   == [e EXCEPT !.judged = e.judged + 1]
Scored(e)   == [e EXCEPT !.judged = e.judged + 1,
                         !.rows = [e.rows EXCEPT ![e.judged + 1].scored = TRUE]]

(* The session's context manager rolls back and re-raises. *)
Aborted(e)  == [e EXCEPT !.stage = "failed", !.tasks = <<>>, !.rows = <<>>, !.judged = 0]
Abort(w)    == Move(w, Aborted(exec[w]))

(* The session is opened and the library read for this delivery. *)
OpenSession(w) ==
    /\ Busy(w, "open") /\ Loads(library)
    /\ Move(w, [At(exec[w], "tasks") EXCEPT
                   !.tasks = Selected(library, asked[exec[w].job])])
    /\ pooled' = IF Selected(library, asked[exec[w].job]) # <<>>
                 THEN pooled \union {w} ELSE pooled
    /\ UNCHANGED <<library, asked, msg, deliveries, result, history>>

(* DatabaseConnection.initialise keeps the engine of the process's first job,
   whose pooled connection belongs to an event loop closed since: the first
   use of it may raise, and a connection that raised is dropped.  A suite
   without tasks never connects. *)
ConnectFails(w) ==
    /\ Busy(w, "open") /\ Loads(library)
    /\ w \in pooled /\ Selected(library, asked[exec[w].job]) # <<>>
    /\ Abort(w)
    /\ pooled' = pooled \ {w}
    /\ UNCHANGED <<library, asked, msg, deliveries, result, history>>

(* One bad file of the library, and no EvalService can be made. *)
LibraryRaises(w) ==
    /\ Busy(w, "open") /\ ~Loads(library)
    /\ Abort(w)
    /\ UNCHANGED <<library, asked, msg, deliveries, pooled, result, history>>

(* One turn of the suite's loop: execute() returns a terminal run.  run_suite
   passes no progress_callback to the suite, so no task reports. *)
RunTask(w) ==
    /\ Busy(w, "tasks")
    /\ Len(exec[w].rows) < Len(exec[w].tasks)
    /\ \E s \in {"PASS", "ERROR"} : Move(w, RanTask(exec[w], s))
    /\ UNCHANGED <<library, asked, msg, deliveries, pooled, result, history>>

(* Mutant: the suite swallows the exception and goes on to judge what it has. *)
M_TaskRaises(w) ==
    /\ "task" \in Faults
    /\ Busy(w, "tasks")
    /\ Len(exec[w].rows) < Len(exec[w].tasks)
    /\ Move(w, At(exec[w], "judge"))
    /\ UNCHANGED <<library, asked, msg, deliveries, pooled, result, history>>

(* ... or raises, and with it the suite. *)
TaskRaises(w) ==
    /\ "task" \in Faults
    /\ Busy(w, "tasks")
    /\ Len(exec[w].rows) < Len(exec[w].tasks)
    /\ Abort(w)
    /\ UNCHANGED <<library, asked, msg, deliveries, pooled, result, history>>

TasksDone(w) ==
    /\ Busy(w, "tasks")
    /\ Len(exec[w].rows) = Len(exec[w].tasks)
    /\ Move(w, At(exec[w], "judge"))
    /\ UNCHANGED <<library, asked, msg, deliveries, pooled, result, history>>

(* Mutant: an HTTPError starts the loop over. *)
M_JudgeRun(w) ==
    /\ Busy(w, "judge")
    /\ exec[w].judged < Len(exec[w].rows)
    /\ IF exec[w].rows[exec[w].judged + 1].status = "PASS"
       THEN \/ "scored" \in JudgeAnswers /\ Move(w, Scored(exec[w]))
            \/ "http_error" \in JudgeAnswers /\ Move(w, [exec[w] EXCEPT !.judged = 0])
            \/ "raises" \in JudgeAnswers /\ Abort(w)
       ELSE Move(w, Judged(exec[w]))
    /\ UNCHANGED <<library, asked, msg, deliveries, pooled, result, history>>

(* The judge loop of run_suite, one run a turn: only PASS runs are posted, and
   only an answer is written to the row; an HTTPError is passed over. *)
JudgeRun(w) ==
    /\ Busy(w, "judge")
    /\ exec[w].judged < Len(exec[w].rows)
    /\ IF exec[w].rows[exec[w].judged + 1].status = "PASS"
       THEN \/ "scored" \in JudgeAnswers /\ Move(w, Scored(exec[w]))
            \/ "http_error" \in JudgeAnswers /\ Move(w, Judged(exec[w]))
            \/ "raises" \in JudgeAnswers /\ Abort(w)
       ELSE Move(w, Judged(exec[w]))
    /\ UNCHANGED <<library, asked, msg, deliveries, pooled, result, history>>

SuiteJudged(w) == Busy(w, "judge") /\ exec[w].judged = Len(exec[w].rows)

(* The tasks a suite's rows name. *)
TasksOf(rows) == [i \in DOMAIN rows |-> rows[i].task]

(* What an execution leaves in the database. *)
Suite(e) == [job |-> e.job, attempt |-> e.attempt, rows |-> e.rows]

(* Mutant: the suite of a job replaces the suites of its earlier deliveries. *)
M_Commit_Replaces(w) ==
    /\ SuiteJudged(w)
    /\ committed' = {c \in committed : c.job # exec[w].job} \union {Suite(exec[w])}
    /\ exec' = [exec EXCEPT ![w] = At(exec[w], "publish")]
    /\ UNCHANGED <<library, asked, msg, deliveries, pooled, result, history>>

(* Mutant: the session closes without a commit. *)
M_Commit(w) ==
    /\ SuiteJudged(w)
    /\ Move(w, At(exec[w], "publish"))
    /\ UNCHANGED <<library, asked, msg, deliveries, pooled, result, history>>

(* get_session commits on clean exit. *)
Commit(w) ==
    /\ SuiteJudged(w)
    /\ committed' = committed \union {Suite(exec[w])}
    /\ exec' = [exec EXCEPT ![w] = At(exec[w], "publish")]
    /\ UNCHANGED <<library, asked, msg, deliveries, pooled, result, history>>

CommitFails(w) ==
    /\ "commit" \in Faults
    /\ SuiteJudged(w)
    /\ Abort(w)
    /\ UNCHANGED <<library, asked, msg, deliveries, pooled, result, history>>

(* The result key, set after the session is closed. *)
Publish(w) ==
    /\ Busy(w, "publish")
    /\ result' = [result EXCEPT ![exec[w].job] = Summary(exec[w].rows)]
    /\ Move(w, At(exec[w], "succeeded"))
    /\ UNCHANGED <<library, asked, msg, deliveries, pooled, history>>

(* Mutant: when Redis refuses the result the suite is run again. *)
M_PublishFails(w) ==
    /\ "publish" \in Faults
    /\ Busy(w, "publish")
    /\ Move(w, At(Aborted(exec[w]), "tasks"))
    /\ UNCHANGED <<library, asked, msg, deliveries, pooled, result, history>>

PublishFails(w) ==
    /\ "publish" \in Faults
    /\ Busy(w, "publish")
    /\ Move(w, At(exec[w], "failed"))
    /\ UNCHANGED <<library, asked, msg, deliveries, pooled, result, history>>

(* Mutant: task_acks_on_failure_or_timeout is off. *)
M_Ack(w) ==
    /\ exec[w].stage \in {"succeeded", "failed"}
    /\ msg' = IF exec[w].stage = "failed" /\ deliveries[exec[w].job] < MaxDeliveries
              THEN [msg EXCEPT ![exec[w].job] = "ready"] ELSE Acked(exec[w].job)
    /\ exec' = [exec EXCEPT ![w] = Idle]
    /\ UNCHANGED <<library, asked, deliveries, pooled, committed, result, history>>

(* The task ended, well or not: Celery acknowledges it either way. *)
Ack(w) ==
    /\ exec[w].stage \in {"succeeded", "failed"}
    /\ msg' = Acked(exec[w].job)
    /\ exec' = [exec EXCEPT ![w] = Idle]
    /\ UNCHANGED <<library, asked, deliveries, pooled, committed, result, history>>
-----------------------------------------------------------------------------
(* Faults. *)

(* Mutant: task_reject_on_worker_lost is on. *)
M_ProcessDies(w) ==
    /\ "process" \in Faults /\ crashes < MaxCrashes
    /\ exec[w] # Idle
    /\ crashes' = crashes + 1
    /\ msg' = [msg EXCEPT ![exec[w].job] = "ready"]
    /\ exec' = [exec EXCEPT ![w] = Idle]
    /\ pooled' = pooled \ {w}
    /\ UNCHANGED <<library, asked, deliveries, committed, result, nodeDeaths, overtaken>>

(* A worker process is killed.  Its open transaction is lost, and as
   task_reject_on_worker_lost is not set its message is acknowledged. *)
ProcessDies(w) ==
    /\ "process" \in Faults /\ crashes < MaxCrashes
    /\ exec[w] # Idle
    /\ crashes' = crashes + 1
    /\ msg' = Acked(exec[w].job)
    /\ exec' = [exec EXCEPT ![w] = Idle]
    /\ pooled' = pooled \ {w}
    /\ UNCHANGED <<library, asked, deliveries, committed, result, nodeDeaths, overtaken>>

(* The whole node dies: nothing is acknowledged, every transaction is lost.  The
   stack may come back with another image, and another library in it. *)
NodeDies ==
    /\ "node" \in Faults /\ crashes < MaxCrashes
    /\ library' \in Libraries
    /\ crashes' = crashes + 1 /\ nodeDeaths' = nodeDeaths + 1
    /\ exec' = [w \in Workers |-> Idle]
    /\ pooled' = {}
    /\ UNCHANGED <<asked, msg, deliveries, committed, result, overtaken>>

(* The hour of the result key is over. *)
ResultExpires(j) ==
    /\ "expire" \in Faults
    /\ result[j] # NoResult
    /\ result' = [result EXCEPT ![j] = NoResult]
    /\ UNCHANGED <<library, asked, msg, deliveries, exec, pooled, committed, history>>
-----------------------------------------------------------------------------
WorkerStep(w) ==
    \/ OpenSession(w) \/ ConnectFails(w) \/ LibraryRaises(w)
    \/ RunTask(w) \/ TaskRaises(w) \/ TasksDone(w) \/ JudgeRun(w)
    \/ Commit(w) \/ CommitFails(w) \/ Publish(w) \/ PublishFails(w) \/ Ack(w)

Fault == \/ \E w \in Workers : ProcessDies(w)
         \/ NodeDies
         \/ \E j \in Jobs : ResultExpires(j)

Quiet == (\A w \in Workers : exec[w] = Idle) /\ (\A j \in Jobs : msg[j] \in {"gone", "refused"})

(* Where the system rests once every job is over. *)
Rest == Quiet /\ UNCHANGED vars

Next == \/ \E j \in Jobs : CreateRun(j) \/ CreateRunFails(j) \/ Restore(j)
        \/ \E w \in Workers, j \in Jobs : Deliver(w, j)
        \/ \E w \in Workers : WorkerStep(w)
        \/ Fault
        \/ Rest

(* Each process that has work goes on (every await of it is bounded), idle
   processes fetch, and the visibility timeout fires for a lost holder. *)
Fairness ==
    /\ \A w \in Workers : WF_vars(WorkerStep(w))
    /\ \A j \in Jobs : WF_vars(\E w \in Workers : Deliver(w, j))
    /\ \A j \in Jobs : WF_vars(~Running(j) /\ Restore(j))

Spec == Init /\ [][Next]_vars /\ Fairness
-----------------------------------------------------------------------------
(* Properties *)

(* Suites are in the database whole or not at all: a run of a suite never
   shows without the others, in the order of one selection, whatever failed,
   died or changed on the way, and only a PASS run carries a score. *)
WholeSuites ==
    \A c \in committed :
        /\ \E chosen \in Libraries : TasksOf(c.rows) = Selected(chosen, asked[c.job])
        /\ \A i \in DOMAIN c.rows : c.rows[i].scored => c.rows[i].status = "PASS"

(* What the suites hold is what was asked for: of "all" each task of the
   category once, by its current file, and of a list the known ids, in order
   and as often as they occur; never a mixture of two libraries. *)
SuitesAnswerRequests ==
    \A c \in committed : \E chosen \in Libraries :
        Loads(chosen) /\ Answers(TasksOf(c.rows), chosen, asked[c.job])

(* A delivery of a message leaves at most one suite. *)
OneSuitePerDelivery ==
    \A c, d \in committed : c.job = d.job /\ c.attempt = d.attempt => c = d

(* A client never reads a result that the run list does not back: the result
   of a job summarises a suite that was committed for it, also when several
   deliveries of the job wrote results, or died before they did. *)
ResultIsCommitted ==
    \A j \in Jobs : result[j] # NoResult =>
        \E c \in committed : c.job = j /\ result[j] = Summary(c.rows)

(* Unless a suite of the job outlasted the visibility timeout, no two processes
   run the job at once, and its message is not in the queue while one does. *)
SingleHolder ==
    \A j \in Jobs \ overtaken :
        /\ \A v, w \in Workers :
              exec[v] # Idle /\ exec[v].job = j /\ exec[w] # Idle /\ exec[w].job = j
                 => v = w
        /\ Running(j) => msg[j] = "unacked"

(* Unless its suite was too slow, a job is not delivered again because a suite
   failed, a process died or Redis refused a result: only when a node died.  So
   it leaves at most one suite more than nodes died, and no run is counted twice
   by the metrics, which cannot tell suites apart. *)
SuitesNeedNodeDeaths ==
    \A j \in Jobs \ overtaken :
        /\ deliveries[j] <= 1 + nodeDeaths
        /\ Cardinality({c \in committed : c.job = j}) <= 1 + nodeDeaths

(* Every accepted job leaves the queue for good, through crashes, failures
   and redeliveries. *)
EveryJobSettles ==
    \A j \in Jobs : msg[j] = "ready" ~> msg[j] = "gone"

(* The job implements the contract its client relies on. *)
Contract == INSTANCE JobContract WITH
    Suites   <- Seq(Rows),
    Summary  <- Summary,
    accepted <- {j \in Jobs : msg[j] \notin {"absent", "refused"}},
    suites   <- [j \in Jobs |-> {c.rows : c \in {d \in committed : d.job = j}}],
    results  <- [j \in Jobs |-> IF result[j] = NoResult THEN {} ELSE {result[j]}]

ImplementsContract == Contract!Spec

(* What comments and documents of the repository say. *)

(* celery_app.py: "Acknowledge only after task completes". *)
AckOnlyAfterCompletion ==
    [][\A j \in Jobs : msg[j] # "gone" /\ msg'[j] = "gone" =>
          \E w \in Workers : /\ exec[w] # Idle /\ exec[w].job = j
                             /\ exec[w].stage \in {"succeeded", "failed"}]_vars

(* connection.py: initialise() is "Safe to call multiple times": without any
   fault, every accepted job gets a result. *)
EveryJobSucceeds ==
    \A j \in Jobs : msg[j] = "ready" ~> result[j] # NoResult
=============================================================================
