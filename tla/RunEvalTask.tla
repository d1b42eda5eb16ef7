----------------------------- MODULE RunEvalTask -----------------------------
(***************************************************************************)
(* One call of RunEvalTaskUseCase.execute with the harness that observes   *)
(* the agent: the run row, the deadline of asyncio.wait_for, the callback  *)
(* hooks (which LangChain runs on executor threads, so that one may still  *)
(* be in flight when the deadline fires), the trajectory collector, the    *)
(* JSONL log and the database session.                                     *)
(***************************************************************************)
EXTENDS Naturals, Sequences

CONSTANTS
    MaxCalls,      \* bound: calls (chains, LLM calls, tool calls) of an agent
    LogMayFail,    \* may an append to results/run_<id>.jsonl fail?
    StoreMayFail   \* may a flush to the database, or building the agent, fail?

ASSUME BoundsAssumption == /\ MaxCalls \in Nat \ {0}
                           /\ LogMayFail \in BOOLEAN
                           /\ StoreMayFail \in BOOLEAN

VARIABLES
    pc,          \* where execute() stands
    outcome,     \* the exception in flight: "none", "timeout", "exception"
    status,      \* run.status of the EvalRun entity
    runRow,      \* status in the flushed run row, "none" before the insert
    trajRow,     \* the flushed trajectory row
    session,     \* "usable", or "broken" once a flush failed
    agent,       \* "idle", "running", "finished", "failing" or "gone"
    calls,       \* every call the agent made: its kind and how it ended
    stack,       \* the calls still open, outermost first
    hook,        \* the callback handed to an executor thread, or NoHook
    open,        \* HarnessCallbackHandler._spans: calls with an open span
    collected,   \* TrajectoryCollector.spans: the appended spans, in order
    finalOutput, \* has TrajectoryCollector.final_output been set?
    announced,   \* was TaskCompleted(status="PASS") published?
    logLost      \* history: has an append to the log failed?

execVars    == <<pc, outcome, status>>
dbVars      == <<runRow, trajRow, session>>
agentVars   == <<agent, calls, stack>>
harnessVars == <<open, collected, finalOutput, announced, logLost>>
vars        == <<execVars, dbVars, agentVars, hook, harnessVars>>

CallIds == 1..MaxCalls
Kinds   == {"CHAIN_STEP", "LLM_CALL", "TOOL_CALL"}
Calls   == [kind : Kinds, state : {"open", "ok", "failed"}]
Spans   == [call : CallIds, error : BOOLEAN]
Events  == {"start", "end", "error", "action", "finish"}
NoHook  == [event |-> "none", call |-> 0]
Hooks   == [event : Events, call : CallIds] \union {NoHook}
NoTrajectory == [present |-> FALSE, spans |-> <<>>, output |-> FALSE]
Trajectories == [present : BOOLEAN, spans : Seq(Spans), output : BOOLEAN]
Statuses == {"RUNNING", "PASS", "ERROR"}
Stages   == {"save_running", "build", "invoke", "exit_logger", "save_trajectory",
             "except", "finally", "finally_raising", "returned", "raised"}

TypeOK ==
    /\ pc \in Stages
    /\ outcome \in {"none", "timeout", "exception"}
    /\ status \in Statuses
    /\ runRow \in Statuses \union {"none"}
    /\ trajRow \in Trajectories
    /\ session \in {"usable", "broken"}
    /\ agent \in {"idle", "running", "finished", "failing", "gone"}
    /\ calls \in Seq(Calls)
    /\ stack \in Seq(CallIds)
    /\ hook \in Hooks
    /\ open \in SUBSET CallIds
    /\ collected \in Seq(Spans)
    /\ finalOutput \in BOOLEAN /\ announced \in BOOLEAN
    /\ logLost \in BOOLEAN

Init ==
    /\ pc = "save_running" /\ outcome = "none" /\ status = "RUNNING"
    /\ runRow = "none" /\ trajRow = NoTrajectory /\ session = "usable"
    /\ agent = "idle" /\ calls = <<>> /\ stack = <<>>
    /\ hook = NoHook
    /\ open = {} /\ collected = <<>>
    /\ finalOutput = FALSE /\ announced = FALSE
    /\ logLost = FALSE

-----------------------------------------------------------------------------
(* The results an append to the log, and a flush, may have. *)
Appends == IF LogMayFail THEN BOOLEAN ELSE {TRUE}
Flushes == IF StoreMayFail THEN BOOLEAN ELSE {TRUE}

(***************************************************************************)
(* run_repo.save: an upsert flushed at once.  A failed flush leaves the    *)
(* session unusable until its owner rolls it back.                         *)
(***************************************************************************)
SaveRun(value, flushed) ==
    /\ runRow' = IF flushed /\ session = "usable" THEN value ELSE runRow
    /\ session' = IF flushed THEN session ELSE "broken"

Saved(flushed) == flushed /\ session = "usable"

(* The insert of the RUNNING row, outside the try. *)
SaveRunning ==
    /\ pc = "save_running"
    /\ \E flushed \in Flushes :
          /\ SaveRun(status, flushed)
          /\ pc' = IF Saved(flushed) THEN "build" ELSE "raised"
    /\ UNCHANGED <<outcome, status, trajRow, agentVars, hook, harnessVars>>

(* Logger (which creates its directory), collector, harness and agent are
   built, outside the try too, and the agent is invoked. *)
Build ==
    /\ pc = "build"
    /\ \/ /\ pc' = "invoke" /\ agent' = "running"
       \/ /\ LogMayFail \/ StoreMayFail
          /\ pc' = "raised" /\ agent' = agent
    /\ UNCHANGED <<outcome, status, dbVars, calls, stack, hook, harnessVars>>

-----------------------------------------------------------------------------
(* The agent: an AgentExecutor whose calls nest under chains.  It awaits each
   hook before it goes on, so it moves only when no hook is in flight. *)
AgentMoves == pc = "invoke" /\ agent = "running" /\ hook = NoHook

Top == stack[Len(stack)]

AgentBegins(kind) ==
    /\ AgentMoves
    /\ Len(calls) < MaxCalls
    /\ IF stack = <<>> THEN calls = <<>> /\ kind = "CHAIN_STEP"
                       ELSE calls[Top].kind = "CHAIN_STEP"
    /\ calls' = Append(calls, [kind |-> kind, state |-> "open"])
    /\ stack' = Append(stack, Len(calls) + 1)
    /\ hook' = [event |-> "start", call |-> Len(calls) + 1]
    /\ UNCHANGED <<execVars, dbVars, agent, harnessVars>>

(* The innermost call ends well; the outermost one only after the answer. *)
AgentEnds ==
    /\ pc = "invoke" /\ hook = NoHook
    /\ stack # <<>>
    /\ agent = IF Len(stack) = 1 THEN "finished" ELSE "running"
    /\ calls' = [calls EXCEPT ![Top].state = "ok"]
    /\ stack' = SubSeq(stack, 1, Len(stack) - 1)
    /\ hook' = [event |-> "end", call |-> Top]
    /\ UNCHANGED <<execVars, dbVars, agent, harnessVars>>

(* The outermost chain decides on a tool, or on its final answer. *)
AgentActs ==
    /\ AgentMoves
    /\ Len(stack) = 1 /\ Len(calls) < MaxCalls
    /\ hook' = [event |-> "action", call |-> Top]
    /\ UNCHANGED <<execVars, dbVars, agentVars, harnessVars>>

AgentFinishes ==
    /\ AgentMoves
    /\ Len(stack) = 1
    /\ agent' = "finished"
    /\ hook' = [event |-> "finish", call |-> Top]
    /\ UNCHANGED <<execVars, dbVars, calls, stack, harnessVars>>

(* The innermost call fails.  Its exception unwinds every open chain, for
   which the harness has no hook, and leaves ainvoke. *)
AgentFails ==
    /\ AgentMoves
    /\ stack # <<>>
    /\ agent' = "failing"
    /\ calls' = [i \in DOMAIN calls |->
                   IF calls[i].state = "open" THEN [calls[i] EXCEPT !.state = "failed"]
                                              ELSE calls[i]]
    /\ stack' = <<>>
    /\ hook' = IF calls[Top].kind = "CHAIN_STEP" THEN NoHook
                                                 ELSE [event |-> "error", call |-> Top]
    /\ UNCHANGED <<execVars, dbVars, harnessVars>>
-----------------------------------------------------------------------------
(* The hooks.  Each body is the effect of one on_... method on the harness and
   its collector; `logged` says whether the logger's append succeeded. *)
on_start(c, logged) ==
    /\ open' = open \union {c}
    /\ UNCHANGED <<collected, finalOutput, announced>>

(* on_llm_end, on_tool_end and on_chain_end: the span is popped and appended
   before anything is logged. *)
on_end(c, logged) ==
    /\ open' = open \ {c}
    /\ collected' = IF c \in open THEN Append(collected, [call |-> c, error |-> FALSE])
                                  ELSE collected
    /\ UNCHANGED <<finalOutput, announced>>

(* The span of a failed LLM call is ended and popped, never appended. *)
on_llm_error(c, logged) ==
    /\ open' = open \ {c}
    /\ UNCHANGED <<collected, finalOutput, announced>>

on_tool_error(c, logged) ==
    /\ open' = open \ {c}
    /\ collected' = IF c \in open THEN Append(collected, [call |-> c, error |-> TRUE])
                                  ELSE collected
    /\ UNCHANGED <<finalOutput, announced>>

on_agent_action(c, logged) ==
    UNCHANGED <<open, collected, finalOutput, announced>>

(* Logs first: without the log line neither the output nor the event exist. *)
on_agent_finish(c, logged) ==
    /\ finalOutput' = (finalOutput \/ logged)
    /\ announced' = (announced \/ logged)
    /\ UNCHANGED <<open, collected>>

HookBody(h, logged) ==
    \/ h.event = "start"  /\ on_start(h.call, logged)
    \/ h.event = "end"    /\ on_end(h.call, logged)
    \/ h.event = "error"  /\ calls[h.call].kind = "LLM_CALL"  /\ on_llm_error(h.call, logged)
    \/ h.event = "error"  /\ calls[h.call].kind = "TOOL_CALL" /\ on_tool_error(h.call, logged)
    \/ h.event = "action" /\ on_agent_action(h.call, logged)
    \/ h.event = "finish" /\ on_agent_finish(h.call, logged)

(* The hooks of chain starts and ends write no log line. *)
Logs(h) == ~(h.event \in {"start", "end"} /\ calls[h.call].kind = "CHAIN_STEP")

(* _safe_hook: an exception of the body is logged.  That append may raise in
   its turn; LangChain swallows what leaves the wrapper. *)
RunHook ==
    /\ hook # NoHook
    /\ \E logged \in Appends :
          /\ HookBody(hook, logged)
          /\ logLost' = (logLost \/ (Logs(hook) /\ ~logged))
    /\ hook' = NoHook
    /\ UNCHANGED <<execVars, dbVars, agentVars>>

(* The cancellation reached the executor before the hook was started. *)
DropHook ==
    /\ hook # NoHook /\ agent = "gone"
    /\ hook' = NoHook
    /\ UNCHANGED <<execVars, dbVars, agentVars, harnessVars>>
-----------------------------------------------------------------------------
(* Mutant: the time limit is looked at only once the agent has answered. *)
M_Deadline_AfterAnswer ==
    /\ pc = "invoke" /\ agent = "finished"
    /\ pc' = "exit_logger" /\ outcome' = "timeout" /\ agent' = "gone"
    /\ UNCHANGED <<status, dbVars, calls, stack, hook, harnessVars>>

(* wait_for.  The deadline may fire at any moment before ainvoke returns; it
   cancels the agent, and a hook already in its thread runs on. *)
Deadline ==
    /\ pc = "invoke"
    /\ pc' = "exit_logger" /\ outcome' = "timeout" /\ agent' = "gone"
    /\ UNCHANGED <<status, dbVars, calls, stack, hook, harnessVars>>

(* Mutant: ainvoke does not wait for the last hook. *)
M_AinvokeReturns ==
    /\ pc = "invoke" /\ agent = "finished" /\ stack = <<>>
    /\ pc' = "exit_logger"
    /\ UNCHANGED <<outcome, status, dbVars, agentVars, hook, harnessVars>>

AinvokeReturns ==
    /\ pc = "invoke" /\ agent = "finished" /\ stack = <<>> /\ hook = NoHook
    /\ pc' = "exit_logger"
    /\ UNCHANGED <<outcome, status, dbVars, agentVars, hook, harnessVars>>

(* Mutant: only the timeout is caught. *)
M_AinvokeRaises ==
    /\ pc = "invoke" /\ agent = "failing" /\ hook = NoHook
    /\ pc' = "finally_raising" /\ outcome' = "exception"
    /\ UNCHANGED <<status, dbVars, agentVars, hook, harnessVars>>

AinvokeRaises ==
    /\ pc = "invoke" /\ agent = "failing" /\ hook = NoHook
    /\ pc' = "exit_logger" /\ outcome' = "exception"
    /\ UNCHANGED <<status, dbVars, agentVars, hook, harnessVars>>

(* Mutant: __exit__ swallows the exception in flight. *)
M_ExitLogger ==
    /\ pc = "exit_logger"
    /\ outcome' = "none"
    /\ pc' = "save_trajectory"
    /\ UNCHANGED <<status, dbVars, agentVars, hook, harnessVars>>

(* logger.__exit__: an ERROR line when an exception is in flight, then the
   SESSION_END line.  A failed append replaces the exception in flight. *)
ExitLogger ==
    /\ pc = "exit_logger"
    /\ \E logged, closed \in Appends :
          LET kept == closed /\ (outcome = "none" \/ logged)
          IN  /\ outcome' = IF kept THEN outcome ELSE "exception"
              /\ logLost' = (logLost \/ ~kept)
    /\ pc' = IF outcome' = "none" THEN "save_trajectory" ELSE "except"
    /\ UNCHANGED <<status, dbVars, agentVars, hook>>
    /\ UNCHANGED <<open, collected, finalOutput, announced>>

(* Mutant: the run is completed without saving its trajectory. *)
M_SaveTrajectory ==
    /\ pc = "save_trajectory"
    /\ status' = "PASS" /\ pc' = "finally"
    /\ UNCHANGED <<outcome, dbVars, agentVars, hook, harnessVars>>

(* collector.save: the trajectory is built from what the hooks collected and
   flushed; only then is the run completed. *)
SaveTrajectory ==
    /\ pc = "save_trajectory"
    /\ \E flushed \in Flushes :
          IF flushed
          THEN /\ trajRow' = [present |-> TRUE, spans |-> collected, output |-> finalOutput]
               /\ status' = "PASS"
               /\ pc' = "finally"
               /\ UNCHANGED <<outcome, session>>
          ELSE /\ session' = "broken"
               /\ outcome' = "exception"
               /\ pc' = "except"
               /\ UNCHANGED <<trajRow, status>>
    /\ UNCHANGED <<runRow, agentVars, hook, harnessVars>>

(* Mutant: the failure is logged but the run is not completed. *)
M_Except_NotCompleted ==
    /\ pc = "except"
    /\ pc' = "finally"
    /\ UNCHANGED <<outcome, status, dbVars, agentVars, hook, harnessVars>>

(* Mutant: a failed agent is completed as FAIL. *)
M_Except_Fail ==
    /\ pc = "except"
    /\ status' = "FAIL" /\ pc' = "finally"
    /\ UNCHANGED <<outcome, dbVars, agentVars, hook, harnessVars>>

(* Both except clauses: log, then complete.  If the append fails, the run is
   not completed and the new exception passes through the finally clause. *)
Except ==
    /\ pc = "except"
    /\ \E logged \in Appends :
          /\ status' = IF logged THEN "ERROR" ELSE status
          /\ pc' = IF logged THEN "finally" ELSE "finally_raising"
          /\ logLost' = (logLost \/ ~logged)
    /\ UNCHANGED <<outcome, dbVars, agentVars, hook>>
    /\ UNCHANGED <<open, collected, finalOutput, announced>>

(* The finally clause: the row takes the entity's status. *)
Finally ==
    /\ pc \in {"finally", "finally_raising"}
    /\ \E flushed \in Flushes :
          /\ SaveRun(status, flushed)
          /\ pc' = IF pc = "finally" /\ Saved(flushed) THEN "returned" ELSE "raised"
    /\ UNCHANGED <<outcome, status, trajRow, agentVars, hook, harnessVars>>
-----------------------------------------------------------------------------
Execute  == \/ SaveRunning \/ Build \/ Deadline \/ AinvokeReturns \/ AinvokeRaises
            \/ ExitLogger \/ SaveTrajectory \/ Except \/ Finally
AgentSteps == \/ \E kind \in Kinds : AgentBegins(kind)
              \/ AgentEnds \/ AgentActs \/ AgentFinishes \/ AgentFails
HookSteps  == RunHook \/ DropHook

Ended == pc \in {"returned", "raised"} /\ hook = NoHook

(* Where a finished evaluation rests. *)
Rest == Ended /\ UNCHANGED vars

Next == Execute \/ AgentSteps \/ HookSteps \/ Rest

(* The event loop runs execute() whenever it can go on and the timer of
   wait_for fires; nothing is assumed of the agent or of the threads. *)
Spec == Init /\ [][Next]_vars /\ WF_vars(Execute)
-----------------------------------------------------------------------------
(* Properties *)

(* An evaluation that returns has flushed a terminal row through a session that
   can still commit, and that row says PASS exactly when the trajectory row
   exists: the two saves of execute() (trajectory first, status in the finally
   clause) cannot come apart, whichever append, flush or deadline fails between
   them. *)
PassIffTrajectory ==
    pc = "returned" => /\ runRow \in {"PASS", "ERROR"}
                       /\ (runRow = "PASS") <=> trajRow.present
                       /\ session = "usable"

(* A stored trajectory is the whole story of the agent: every call it made
   has exactly one span, ended without error, each after the spans of the
   calls nested in it, none is a leftover of a hook that ran late, and unless an
   append to the log failed (on_agent_finish logs first) it has the agent's
   final answer, and TaskCompleted told the subscribers. *)
StoredTrajectoryComplete ==
    trajRow.present =>
        /\ Len(trajRow.spans) = Len(calls) /\ calls # <<>>
        /\ \A i \in DOMAIN calls : calls[i].state = "ok"
        /\ \A i \in DOMAIN calls : \E k \in DOMAIN trajRow.spans :
              trajRow.spans[k] = [call |-> i, error |-> FALSE]
        /\ trajRow.spans[Len(trajRow.spans)].call = 1
        /\ open = {}
        /\ logLost \/ (trajRow.output /\ announced)

(* Nothing the agent does (an exception, a hang, an endless loop) makes
   execute() raise and so abort the whole suite: only a failed append, a failed
   flush, or an agent that could not be built, does. *)
AgentNeverAbortsSuite ==
    pc = "raised" => logLost \/ session = "broken" \/ agent = "idle"

(* Once the evaluation left ainvoke, hooks that run late on their threads do
   not touch the trajectory it stored nor the verdict it wrote: the spans of
   the stored row are still the collector's spans when it returns. *)
LateHooksAreHarmless ==
    (pc \in {"finally", "returned"} /\ status = "PASS") =>
        /\ hook = NoHook
        /\ trajRow.spans = collected

(* An evaluation ends, whatever the agent does (it may loop or hang). *)
Terminates == <>(pc \in {"returned", "raised"})

(* The detailed evaluation implements the contract of RunLifecycle. *)
Lifecycle == INSTANCE RunLifecycle WITH
    row    <- runRow,
    stored <- trajRow.present,
    ended  <- IF pc \in {"returned", "raised"} THEN pc ELSE "no"

ImplementsLifecycle == Lifecycle!Spec
=============================================================================
