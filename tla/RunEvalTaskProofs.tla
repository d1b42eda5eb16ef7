------------------------- MODULE RunEvalTaskProofs -------------------------
(***************************************************************************)
(* Proofs about RunEvalTask for every MaxCalls and every choice of what    *)
(* may fail: type correctness, the agreement of the two rows a returned    *)
(* evaluation leaves, the safety part of its contract RunLifecycle, and    *)
(* that a stored trajectory tells the whole story of the agent's calls.    *)
(***************************************************************************)
EXTENDS RunEvalTask, TLAPS

(* What execute() has done to the two rows and to the session at each of its
   stages: the row is RUNNING and no trajectory exists until the trajectory is
   saved, and from then on the entity's status tells which of the two
   happened. *)
StageInv ==
    /\ pc = "save_running" =>
          runRow = "none" /\ status = "RUNNING" /\ ~trajRow.present /\ session = "usable"
    /\ pc \in {"build", "invoke", "exit_logger", "save_trajectory"} =>
          runRow = "RUNNING" /\ status = "RUNNING" /\ ~trajRow.present /\ session = "usable"
    /\ pc \in {"except", "finally_raising"} =>
          runRow = "RUNNING" /\ status = "RUNNING" /\ ~trajRow.present
    /\ pc = "finally" =>
          runRow = "RUNNING" /\ status = IF trajRow.present THEN "PASS" ELSE "ERROR"
    /\ pc = "returned" =>
          /\ runRow = IF trajRow.present THEN "PASS" ELSE "ERROR"
          /\ session = "usable"

Inv == TypeOK /\ StageInv

(* The last element of a nonempty sequence is one of its elements, and a
   sequence whose elements are replaced by others of the same set stays one. *)
LEMMA LastInSet == ASSUME NEW S, NEW s \in Seq(S), s # <<>> PROVE s[Len(s)] \in S
  OBVIOUS

LEMMA MapIsSeq == ASSUME NEW S, NEW s \in Seq(S), NEW f,
                         f = [i \in DOMAIN s |-> f[i]], \A i \in DOMAIN s : f[i] \in S
                  PROVE  f \in Seq(S)
<1>1. Len(s) \in Nat /\ DOMAIN s = 1..Len(s)
  OBVIOUS
<1>2. f \in [1..Len(s) -> S]
  BY <1>1
<1> QED
  BY <1>1, <1>2

LEMMA InitInv == Init => Inv
<1> SUFFICES ASSUME Init PROVE Inv
  OBVIOUS
<1>1. trajRow \in Trajectories
  BY DEF Init, NoTrajectory, Trajectories
<1>2. TypeOK
  <2>1. calls \in Seq(Calls) /\ stack \in Seq(CallIds) /\ collected \in Seq(Spans)
    BY DEF Init
  <2>2. hook \in Hooks
    BY DEF Init, Hooks
  <2> QED
    BY <1>1, <2>1, <2>2 DEF Init, TypeOK, Statuses, Stages
<1>3. StageInv
  BY DEF Init, StageInv, NoTrajectory
<1> QED
  BY <1>2, <1>3 DEF Inv

LEMMA OneIsNotEmpty == ASSUME NEW s, Len(s) = 1 PROVE s # <<>>
<1>1. Len(<<>>) = 0
  OBVIOUS
<1> QED
  BY <1>1

LEMMA TopIsCall == ASSUME TypeOK, stack # <<>> PROVE Top \in CallIds
  BY LastInSet DEF TypeOK, Top

(* A hook appends at most one span, the one of its own call. *)
LEMMA HookAppends ==
    ASSUME NEW logged, HookBody(hook, logged)
    PROVE  \/ collected' = collected
           \/ collected' = Append(collected, [call |-> hook.call, error |-> FALSE])
           \/ collected' = Append(collected, [call |-> hook.call, error |-> TRUE])
  BY SMT DEF HookBody, on_start, on_end, on_llm_error, on_tool_error,
     on_agent_action, on_agent_finish

(* The agent, whatever it calls, stays within its types: its call numbers are
   those of the calls it made so far. *)
LEMMA AgentTypeOK == ASSUME TypeOK, AgentSteps PROVE TypeOK'
<1> USE BoundsAssumption DEF TypeOK, execVars, dbVars, agentVars, harnessVars
<1>1. ASSUME NEW kind \in Kinds, AgentBegins(kind) PROVE TypeOK'
  <2>1. Len(calls) + 1 \in CallIds
    BY <1>1 DEF AgentBegins, CallIds
  <2>2. [kind |-> kind, state |-> "open"] \in Calls
    BY DEF Calls
  <2>3. calls' \in Seq(Calls) /\ stack' \in Seq(CallIds)
    BY <1>1, <2>1, <2>2 DEF AgentBegins
  <2>4. hook' \in Hooks
    BY <1>1, <2>1 DEF AgentBegins, Hooks, Events
  <2> QED
    BY <1>1, <2>3, <2>4 DEF AgentBegins
<1>2. ASSUME AgentEnds PROVE TypeOK'
  <2>1. Top \in CallIds
    <3>1. stack # <<>>
      BY <1>2 DEF AgentEnds
    <3> QED
      BY <3>1, TopIsCall
  <2>2. calls' \in Seq(Calls)
    <3>1. calls' = [i \in DOMAIN calls |-> calls'[i]]
      BY <1>2 DEF AgentEnds
    <3>2. ASSUME NEW i \in DOMAIN calls PROVE calls'[i] \in Calls
      <4>1. calls[i] \in Calls
        OBVIOUS
      <4>2. [calls[i] EXCEPT !.state = "ok"] \in Calls
        BY <4>1 DEF Calls
      <4> QED
        BY <1>2, <4>1, <4>2 DEF AgentEnds
    <3> QED
      BY <3>1, <3>2, MapIsSeq
  <2>3. stack' \in Seq(CallIds)
    BY <1>2 DEF AgentEnds
  <2>4. hook' \in Hooks
    BY <1>2, <2>1 DEF AgentEnds, Hooks, Events
  <2> QED
    BY <1>2, <2>2, <2>3, <2>4 DEF AgentEnds
<1>3. ASSUME AgentActs PROVE TypeOK'
  <2>1. Top \in CallIds
    <3>1. Len(stack) = 1
      BY <1>3 DEF AgentActs
    <3>2. stack # <<>>
      BY <3>1, OneIsNotEmpty
    <3> QED
      BY <3>2, TopIsCall
  <2>2. hook' \in Hooks
    BY <1>3, <2>1 DEF AgentActs, Hooks, Events
  <2> QED
    BY <1>3, <2>2 DEF AgentActs
<1>4. ASSUME AgentFinishes PROVE TypeOK'
  <2>1. Top \in CallIds
    <3>1. Len(stack) = 1
      BY <1>4 DEF AgentFinishes
    <3>2. stack # <<>>
      BY <3>1, OneIsNotEmpty
    <3> QED
      BY <3>2, TopIsCall
  <2>2. hook' \in Hooks
    BY <1>4, <2>1 DEF AgentFinishes, Hooks, Events
  <2> QED
    BY <1>4, <2>2 DEF AgentFinishes
<1>5. ASSUME AgentFails PROVE TypeOK'
  <2>1. Top \in CallIds
    <3>1. stack # <<>>
      BY <1>5 DEF AgentFails
    <3> QED
      BY <3>1, TopIsCall
  <2>2. calls' \in Seq(Calls)
    <3>1. calls' = [i \in DOMAIN calls |-> calls'[i]]
      BY <1>5 DEF AgentFails
    <3>2. ASSUME NEW i \in DOMAIN calls PROVE calls'[i] \in Calls
      <4>1. calls[i] \in Calls
        OBVIOUS
      <4>2. [calls[i] EXCEPT !.state = "failed"] \in Calls
        BY <4>1 DEF Calls
      <4> QED
        BY <1>5, <4>1, <4>2 DEF AgentFails
    <3> QED
      BY <3>1, <3>2, MapIsSeq
  <2>3. hook' \in Hooks
    BY <1>5, <2>1 DEF AgentFails, Hooks, Events
  <2>4. stack' \in Seq(CallIds)
    BY <1>5 DEF AgentFails
  <2> QED
    BY <1>5, <2>2, <2>3, <2>4 DEF AgentFails
<1> QED
  BY <1>1, <1>2, <1>3, <1>4, <1>5 DEF AgentSteps

(* So do the hooks, on time or late. *)
LEMMA HookTypeOK == ASSUME TypeOK, HookSteps PROVE TypeOK'
<1> USE DEF TypeOK, execVars, dbVars, agentVars, harnessVars
<1>1. ASSUME RunHook PROVE TypeOK'
  <2>1. hook.call \in CallIds /\ hook' \in Hooks
    BY <1>1 DEF RunHook, Hooks
  <2>2. PICK logged \in BOOLEAN : HookBody(hook, logged)
    BY <1>1 DEF RunHook, Appends
  <2>3. [call |-> hook.call, error |-> TRUE] \in Spans
        /\ [call |-> hook.call, error |-> FALSE] \in Spans
    BY <2>1 DEF Spans
  <2>4. open' \in SUBSET CallIds
    BY <2>1, <2>2 DEF HookBody, on_start, on_end, on_llm_error, on_tool_error,
       on_agent_action, on_agent_finish
  <2>5. collected' \in Seq(Spans)
    <3>1. collected \in Seq(Spans)
      OBVIOUS
    <3>2. \/ collected' = collected
          \/ collected' = Append(collected, [call |-> hook.call, error |-> FALSE])
          \/ collected' = Append(collected, [call |-> hook.call, error |-> TRUE])
      BY <2>2, HookAppends
    <3> HIDE DEF TypeOK
    <3> QED
      BY <2>3, <3>1, <3>2
  <2>6. finalOutput' \in BOOLEAN /\ announced' \in BOOLEAN
    BY <2>2, Zenon DEF HookBody, on_start, on_end, on_llm_error, on_tool_error,
       on_agent_action, on_agent_finish
  <2> QED
    BY <1>1, <2>1, <2>4, <2>5, <2>6 DEF RunHook
<1>2. ASSUME DropHook PROVE TypeOK'
  BY <1>2 DEF DropHook, Hooks
<1> QED
  BY <1>1, <1>2 DEF HookSteps

(* And the stages of execute(). *)
LEMMA ExecuteTypeOK == ASSUME TypeOK, Execute PROVE TypeOK'
<1> USE DEF TypeOK, execVars, dbVars, agentVars, harnessVars, Statuses, Stages
<1>1. CASE SaveRunning
  BY <1>1 DEF SaveRunning, SaveRun
<1>2. CASE Build
  BY <1>2 DEF Build
<1>3. CASE Deadline
  BY <1>3 DEF Deadline
<1>4. CASE AinvokeReturns
  BY <1>4 DEF AinvokeReturns
<1>5. CASE AinvokeRaises
  BY <1>5 DEF AinvokeRaises
<1>6. CASE ExitLogger
  BY <1>6 DEF ExitLogger
<1>7. CASE SaveTrajectory
  <2>1. [present |-> TRUE, spans |-> collected, output |-> finalOutput] \in Trajectories
    BY DEF Trajectories
  <2> QED
    BY <1>7, <2>1 DEF SaveTrajectory
<1>8. CASE Except
  BY <1>8 DEF Except
<1>9. CASE Finally
  BY <1>9 DEF Finally, SaveRun
<1> QED
  BY <1>1, <1>2, <1>3, <1>4, <1>5, <1>6, <1>7, <1>8, <1>9 DEF Execute

LEMMA NextTypeOK == ASSUME TypeOK, [Next]_vars PROVE TypeOK'
<1>1. CASE Execute
  BY <1>1, ExecuteTypeOK
<1>2. CASE AgentSteps
  BY <1>2, AgentTypeOK
<1>3. CASE HookSteps
  BY <1>3, HookTypeOK
<1>4. CASE Rest \/ UNCHANGED vars
  BY <1>4 DEF Rest, TypeOK, vars, execVars, dbVars, agentVars, harnessVars
<1> QED
  BY <1>1, <1>2, <1>3, <1>4 DEF Next

(* Agents and hooks leave execute() and the two rows alone. *)
LEMMA OthersLeaveStage ==
    ASSUME AgentSteps \/ HookSteps
    PROVE  UNCHANGED <<execVars, dbVars>>
  BY DEF AgentSteps, HookSteps, AgentBegins, AgentEnds, AgentActs, AgentFinishes,
     AgentFails, RunHook, DropHook, execVars, dbVars

LEMMA NextStageInv == ASSUME Inv, [Next]_vars PROVE StageInv'
<1> USE DEF Inv, StageInv, execVars, dbVars
<1>1. CASE SaveRunning
  BY <1>1 DEF SaveRunning, SaveRun, Saved
<1>2. CASE Build
  BY <1>2 DEF Build
<1>3. CASE Deadline
  BY <1>3 DEF Deadline
<1>4. CASE AinvokeReturns
  BY <1>4 DEF AinvokeReturns
<1>5. CASE AinvokeRaises
  BY <1>5 DEF AinvokeRaises
<1>6. CASE ExitLogger
  BY <1>6 DEF ExitLogger
<1>7. CASE SaveTrajectory
  BY <1>7 DEF SaveTrajectory
<1>8. CASE Except
  BY <1>8 DEF Except
<1>9. CASE Finally
  BY <1>9 DEF Finally, SaveRun, Saved
<1>10. CASE AgentSteps \/ HookSteps
  BY <1>10, OthersLeaveStage
<1>11. CASE Rest \/ UNCHANGED vars
  BY <1>11 DEF Rest, vars
<1> QED
  BY <1>1, <1>2, <1>3, <1>4, <1>5, <1>6, <1>7, <1>8, <1>9, <1>10, <1>11 DEF Next, Execute

LEMMA Invariance == Spec => []Inv
<1>1. Inv /\ [Next]_vars => Inv'
  BY NextTypeOK, NextStageInv DEF Inv
<1> QED
  BY InitInv, <1>1, PTL DEF Spec

(* Every variable of the evaluation keeps its type, for any number of calls. *)
THEOREM TypeCorrect == Spec => []TypeOK
<1>1. Inv => TypeOK
  BY DEF Inv
<1> QED
  BY Invariance, <1>1, PTL

(* A returned evaluation left PASS and a trajectory, or ERROR and none,
   whatever its agent did and whichever append or flush failed. *)
THEOREM RowsAgree == Spec => []PassIffTrajectory
<1>1. Inv => PassIffTrajectory
  BY DEF Inv, StageInv, PassIffTrajectory
<1> QED
  BY Invariance, <1>1, PTL

(* The safety part of the contract: every step of the detailed evaluation is
   a step of RunLifecycle or leaves its variables unchanged. *)
THEOREM ImplementsContract == Spec => Lifecycle!Init /\ [][Lifecycle!Next]_(Lifecycle!vars)
<1>1. Init => Lifecycle!Init
  BY DEF Init, NoTrajectory, Lifecycle!Init
<1>2. Inv /\ [Next]_vars => [Lifecycle!Next]_(Lifecycle!vars)
  <2> SUFFICES ASSUME Inv, [Next]_vars PROVE [Lifecycle!Next]_(Lifecycle!vars)
    OBVIOUS
  <2> USE DEF Inv, StageInv, Lifecycle!Next, Lifecycle!vars
  <2>1. CASE SaveRunning
    BY <2>1 DEF SaveRunning, SaveRun, Saved, Lifecycle!Begin, Lifecycle!Raise
  <2>2. CASE Build
    BY <2>2 DEF Build, dbVars, Lifecycle!Raise
  <2>3. CASE Deadline \/ AinvokeReturns \/ AinvokeRaises \/ ExitLogger \/ Except
    BY <2>3 DEF Deadline, AinvokeReturns, AinvokeRaises, ExitLogger, Except, dbVars
  <2>4. CASE SaveTrajectory
    BY <2>4 DEF SaveTrajectory, Lifecycle!Store
  <2>5. CASE Finally
    BY <2>5 DEF Finally, SaveRun, Saved, Lifecycle!Return, Lifecycle!Raise
  <2>6. CASE AgentSteps \/ HookSteps
    BY <2>6, OthersLeaveStage DEF execVars, dbVars
  <2>7. CASE Rest \/ UNCHANGED vars
    BY <2>7 DEF Rest, vars, execVars, dbVars
  <2> QED
    BY <2>1, <2>2, <2>3, <2>4, <2>5, <2>6, <2>7 DEF Next, Execute
<1> QED
  BY Invariance, <1>1, <1>2, PTL DEF Spec
-----------------------------------------------------------------------------
(* What the harness has of an agent that was not cancelled and did not fail,
   call by call. *)

(* The agent's calls are nested: the open ones are on the stack, in the order
   they began, with the outermost at its bottom. *)
On(i) == \E k \in DOMAIN stack : stack[k] = i

StackInv ==
    /\ \A k \in DOMAIN stack : stack[k] \in DOMAIN calls
    /\ \A k, m \in DOMAIN stack : k < m => stack[k] < stack[m]
    /\ stack # <<>> => stack[1] = 1
    /\ \A i \in DOMAIN calls : calls[i].state = IF On(i) THEN "open" ELSE "ok"

Waits(e, i) == hook.event = e /\ hook.call = i

HookInv ==
    /\ hook.event # "error"
    /\ hook.event = "start" => stack # <<>> /\ hook.call = Top
    /\ hook.event = "end" =>
          hook.call \in DOMAIN calls /\ ~On(hook.call) /\ (stack = <<>> => hook.call = 1)
    /\ hook.event \in {"action", "finish"} => stack # <<>>

(* A call has an open span from its first hook to its last, and then one that
   was appended. *)
SpanInv ==
    /\ \A i \in CallIds : i \in open <=> (On(i) /\ ~Waits("start", i)) \/ Waits("end", i)
    /\ \A i \in DOMAIN calls : ~On(i) /\ ~Waits("end", i) =>
          \E k \in DOMAIN collected : collected[k] = [call |-> i, error |-> FALSE]
    /\ Len(calls) = Len(stack) + Len(collected) + (IF hook.event = "end" THEN 1 ELSE 0)
    /\ stack = <<>> /\ calls # <<>> /\ hook = NoHook =>
          collected # <<>> /\ collected[Len(collected)].call = 1

AnswerInv ==
    agent = "finished" =>
        calls # <<>> /\ (hook.event = "finish" \/ logLost \/ (finalOutput /\ announced))

Told == agent \in {"idle", "running", "finished"}

TellInv == Told => StackInv /\ HookInv /\ SpanInv /\ AnswerInv

(* Why an evaluation raises, and what it has when it saves the trajectory. *)
EndInv ==
    /\ pc \in {"save_running", "build"} => agent = "idle"
    /\ pc = "finally_raising" => logLost
    /\ AgentNeverAbortsSuite
    /\ pc = "save_trajectory" => outcome = "none"
    /\ pc \in {"exit_logger", "save_trajectory"} /\ outcome = "none" =>
          agent = "finished" /\ stack = <<>> /\ hook = NoHook
    /\ trajRow.present =>
          /\ pc \in {"finally", "returned", "raised"} /\ agent = "finished"
          /\ stack = <<>> /\ hook = NoHook
          /\ trajRow.spans = collected /\ trajRow.output = finalOutput
    /\ pc \in {"finally", "returned"} /\ status = "PASS" => trajRow.present

LEMMA InitTell == Init => TellInv /\ EndInv
  BY DEF Init, TellInv, StackInv, HookInv, SpanInv, AnswerInv, EndInv, On, Waits,
     NoHook, NoTrajectory, AgentNeverAbortsSuite

LEMMA EndNext == ASSUME Inv, EndInv, [Next]_vars PROVE EndInv'
<1> USE DEF EndInv, AgentNeverAbortsSuite, execVars, dbVars, agentVars, harnessVars
<1>0. TypeOK /\ StageInv
  BY DEF Inv
<1>1. CASE SaveRunning
  BY <1>0, <1>1 DEF SaveRunning, SaveRun, Saved, StageInv
<1>2. CASE Build
  BY <1>0, <1>2 DEF Build, StageInv
<1>3. CASE Deadline
  BY <1>0, <1>3 DEF Deadline, StageInv
<1>4. CASE AinvokeReturns
  BY <1>0, <1>4 DEF AinvokeReturns, StageInv
<1>5. CASE AinvokeRaises
  BY <1>0, <1>5 DEF AinvokeRaises, StageInv
<1>6. CASE ExitLogger
  BY <1>0, <1>6 DEF ExitLogger, StageInv
<1>7. CASE SaveTrajectory
  BY <1>0, <1>7 DEF SaveTrajectory, StageInv
<1>8. CASE Except
  BY <1>0, <1>8 DEF Except, StageInv
<1>9. CASE Finally
  BY <1>0, <1>9 DEF Finally, SaveRun, Saved, StageInv, TypeOK
<1>10. CASE AgentSteps
  BY <1>0, <1>10 DEF AgentSteps, AgentMoves, AgentBegins, AgentEnds, AgentActs,
     AgentFinishes, AgentFails, StageInv
<1>11. CASE HookSteps
  BY <1>0, <1>11 DEF HookSteps, RunHook, DropHook, StageInv
<1>12. CASE Rest \/ UNCHANGED vars
  BY <1>12 DEF Rest, vars
<1> QED
  BY <1>1, <1>2, <1>3, <1>4, <1>5, <1>6, <1>7, <1>8, <1>9, <1>10, <1>11, <1>12
  DEF Next, Execute

(* The facts of sequences that the agent's steps come down to. *)
LEMMA PushFacts ==
    ASSUME NEW S, NEW s \in Seq(S), NEW x \in S
    PROVE  /\ Append(s, x) \in Seq(S) /\ Len(Append(s, x)) = Len(s) + 1
           /\ DOMAIN Append(s, x) = 1..(Len(s) + 1) /\ DOMAIN s = 1..Len(s) /\ Len(s) \in Nat
           /\ \A k \in DOMAIN s : Append(s, x)[k] = s[k]
           /\ Append(s, x)[Len(s) + 1] = x
  OBVIOUS

LEMMA EmptyIsShort == ASSUME NEW S, NEW s \in Seq(S) PROVE s = <<>> <=> Len(s) = 0
  OBVIOUS

LEMMA PopFacts ==
    ASSUME NEW S, NEW s \in Seq(S), s # <<>>, NEW p, p = SubSeq(s, 1, Len(s) - 1)
    PROVE  /\ p \in Seq(S) /\ Len(p) = Len(s) - 1 /\ Len(s) \in Nat \ {0}
           /\ DOMAIN p = 1..(Len(s) - 1) /\ DOMAIN s = 1..Len(s)
           /\ \A k \in DOMAIN p : p[k] = s[k]
           /\ p = <<>> <=> Len(s) = 1
<1>1. Len(s) \in Nat \ {0} /\ DOMAIN s = 1..Len(s)
  OBVIOUS
<1>2. p \in Seq(S) /\ Len(p) = Len(s) - 1 /\ DOMAIN p = 1..(Len(s) - 1)
  BY <1>1
<1>3. \A k \in DOMAIN p : p[k] = s[k]
  BY <1>1, <1>2
<1>4. p = <<>> <=> Len(p) = 0
  BY <1>2, EmptyIsShort
<1>5. Len(p) = 0 <=> Len(s) = 1
  BY <1>1, <1>2
<1> QED
  BY <1>1, <1>2, <1>3, <1>4, <1>5

(* Every step of execute() leaves what is told alone, or cancels the agent. *)
LEMMA ExecuteTells == ASSUME TellInv, EndInv, Execute PROVE TellInv'
<1> SUFFICES ASSUME Told' PROVE (StackInv /\ HookInv /\ SpanInv /\ AnswerInv)'
  BY DEF TellInv
<1> USE DEF agentVars, harnessVars
<1>1. /\ UNCHANGED <<calls, stack, hook, open, collected, finalOutput, announced>>
      /\ logLost => logLost'
      /\ agent' = agent \/ agent' = "running"
      /\ Told
  <2>1. CASE SaveRunning
    BY <2>1 DEF SaveRunning, Told
  <2>2. CASE Build
    BY <2>2 DEF Build, Told, EndInv
  <2>3. CASE Deadline
    BY <2>3 DEF Deadline, Told
  <2>4. CASE AinvokeReturns \/ AinvokeRaises
    BY <2>4 DEF AinvokeReturns, AinvokeRaises, Told
  <2>5. CASE ExitLogger
    BY <2>5 DEF ExitLogger, Told
  <2>6. CASE SaveTrajectory
    BY <2>6 DEF SaveTrajectory, Told
  <2>7. CASE Except
    BY <2>7 DEF Except, Told
  <2>8. CASE Finally
    BY <2>8 DEF Finally, Told
  <2> QED
    BY <2>1, <2>2, <2>3, <2>4, <2>5, <2>6, <2>7, <2>8 DEF Execute
<1>2. StackInv /\ HookInv /\ SpanInv /\ AnswerInv
  BY <1>1 DEF TellInv
<1>3. StackInv'
  BY <1>1, <1>2 DEF StackInv, On
<1>4. HookInv'
  BY <1>1, <1>2 DEF HookInv, On, Top
<1>5. SpanInv'
  BY <1>1, <1>2 DEF SpanInv, On, Waits
<1>6. AnswerInv'
  BY <1>1, <1>2 DEF AnswerInv
<1> QED
  BY <1>3, <1>4, <1>5, <1>6

(* The agent begins a call: it is the innermost one, and waits for its first
   hook. *)
LEMMA BeginTells ==
    ASSUME TypeOK, TellInv, NEW kind \in Kinds, AgentBegins(kind)
    PROVE  TellInv'
<1> DEFINE n == Len(calls) + 1
<1>0. /\ StackInv /\ HookInv /\ SpanInv /\ AnswerInv /\ hook = NoHook /\ agent = "running"
  BY DEF TellInv, Told, AgentBegins, AgentMoves
<1>1. /\ calls' = Append(calls, [kind |-> kind, state |-> "open"])
      /\ stack' = Append(stack, n)
      /\ hook' = [event |-> "start", call |-> n]
      /\ UNCHANGED <<agent, open, collected, finalOutput, announced, logLost>>
  BY DEF AgentBegins, harnessVars
<1>2. n \in CallIds /\ n \notin DOMAIN calls
  BY BoundsAssumption DEF AgentBegins, CallIds, TypeOK
<1>3. /\ Len(calls) \in Nat /\ DOMAIN calls = 1..Len(calls) /\ DOMAIN calls' = 1..n
      /\ \A i \in DOMAIN calls : calls'[i] = calls[i]
      /\ calls'[n].state = "open" /\ Len(calls') = n
  <2>1. [kind |-> kind, state |-> "open"] \in Calls
    BY DEF Calls
  <2> QED
    BY <1>1, <2>1, PushFacts DEF TypeOK
<1>4. /\ Len(stack) \in Nat /\ DOMAIN stack = 1..Len(stack) /\ DOMAIN stack' = 1..(Len(stack) + 1)
      /\ \A k \in DOMAIN stack : stack'[k] = stack[k]
      /\ stack'[Len(stack) + 1] = n /\ Len(stack') = Len(stack) + 1 /\ stack' # <<>>
  BY <1>1, <1>2, PushFacts DEF TypeOK
<1>5. \A i : On(i)' <=> On(i) \/ i = n
  BY <1>4 DEF On
<1>6. StackInv'
  <2>1. \A k \in DOMAIN stack' : stack'[k] \in DOMAIN calls'
    BY <1>0, <1>3, <1>4 DEF StackInv
  <2>2. \A k, m \in DOMAIN stack' : k < m => stack'[k] < stack'[m]
    BY <1>0, <1>3, <1>4 DEF StackInv
  <2>3. stack'[1] = 1
    <3>1. CASE stack = <<>>
      <4>1. calls = <<>> /\ Len(stack) = 0
        BY <3>1 DEF AgentBegins
      <4> QED
        BY <1>4, <4>1
    <3>2. CASE stack # <<>>
      <4>1. 1 \in DOMAIN stack
        BY <3>2, <1>4 DEF TypeOK
      <4> QED
        BY <1>0, <1>4, <3>2, <4>1 DEF StackInv
    <3> QED
      BY <3>1, <3>2
  <2>4. \A i \in DOMAIN calls' : calls'[i].state = IF On(i)' THEN "open" ELSE "ok"
    BY <1>0, <1>2, <1>3, <1>5 DEF StackInv
  <2> QED
    BY <2>1, <2>2, <2>3, <2>4 DEF StackInv, On
<1>7. HookInv'
  BY <1>1, <1>4 DEF HookInv, Top
<1>8. SpanInv'
  <2>1. \A i \in CallIds : i \in open <=> On(i)
    BY <1>0 DEF SpanInv, Waits, NoHook
  <2>2. ~On(n)
    BY <1>0, <1>2 DEF StackInv, On
  <2>3. \A i \in CallIds : i \in open' <=> (On(i)' /\ ~Waits("start", i)') \/ Waits("end", i)'
    BY <1>1, <1>5, <2>1, <2>2 DEF Waits
  <2>4. \A i \in DOMAIN calls' : ~On(i)' /\ ~Waits("end", i)' =>
          \E k \in DOMAIN collected' : collected'[k] = [call |-> i, error |-> FALSE]
    BY <1>0, <1>1, <1>3, <1>5 DEF SpanInv, Waits, NoHook
  <2>5. Len(calls') = Len(stack') + Len(collected') + (IF hook'.event = "end" THEN 1 ELSE 0)
    BY <1>0, <1>1, <1>3, <1>4 DEF SpanInv, NoHook, TypeOK
  <2> QED
    BY <1>4, <2>3, <2>4, <2>5 DEF SpanInv
<1>9. AnswerInv'
  BY <1>0, <1>1 DEF AnswerInv
<1> QED
  BY <1>6, <1>7, <1>8, <1>9 DEF TellInv

(* The innermost call ends: it leaves the stack and waits for its last hook. *)
LEMMA EndTells == ASSUME TypeOK, TellInv, AgentEnds PROVE TellInv'
<1>0. /\ StackInv /\ HookInv /\ SpanInv /\ AnswerInv /\ hook = NoHook /\ stack # <<>>
  BY DEF TellInv, Told, AgentEnds
<1>1. /\ calls' = [calls EXCEPT ![Top].state = "ok"]
      /\ stack' = SubSeq(stack, 1, Len(stack) - 1)
      /\ hook' = [event |-> "end", call |-> Top]
      /\ UNCHANGED <<agent, open, collected, finalOutput, announced, logLost>>
  BY DEF AgentEnds, harnessVars
<1>2. /\ Len(stack) \in Nat \ {0} /\ DOMAIN stack = 1..Len(stack)
      /\ DOMAIN stack' = 1..(Len(stack) - 1) /\ Len(stack') = Len(stack) - 1
      /\ \A k \in DOMAIN stack' : stack'[k] = stack[k]
      /\ stack' = <<>> <=> Len(stack) = 1
  <2>1. stack \in Seq(CallIds) /\ stack # <<>> /\ stack' = SubSeq(stack, 1, Len(stack) - 1)
    BY <1>0, <1>1 DEF TypeOK
  <2> HIDE <1>0, <1>1
  <2> QED
    BY <2>1, PopFacts
<1>3. /\ Top \in DOMAIN calls /\ Top \in CallIds /\ On(Top)
      /\ Len(stack) = 1 => Top = 1
  BY <1>0, <1>2, TopIsCall DEF StackInv, On, Top
<1>4. /\ DOMAIN calls' = DOMAIN calls /\ Len(calls') = Len(calls) /\ Len(calls) \in Nat
      /\ calls'[Top].state = "ok"
      /\ \A i \in DOMAIN calls : i # Top => calls'[i] = calls[i]
  <2>1. calls[Top] \in Calls
    BY <1>3 DEF TypeOK
  <2> QED
    BY <1>1, <1>3, <2>1 DEF TypeOK, Calls
<1>5. \A i : On(i)' <=> On(i) /\ i # Top
  <2>1. ASSUME NEW i, On(i)' PROVE On(i) /\ i # Top
    <3>1. PICK k \in DOMAIN stack' : stack'[k] = i
      BY <2>1 DEF On
    <3>2. k \in DOMAIN stack /\ k < Len(stack) /\ stack[k] = i
      BY <1>2, <3>1
    <3>3. stack[k] < Top /\ Top \in Nat
      BY <1>0, <1>2, <1>3, <3>2 DEF StackInv, Top, CallIds
    <3>4. stack[k] \in Nat
      BY <3>2, BoundsAssumption DEF TypeOK, CallIds
    <3> QED
      BY <3>2, <3>3, <3>4 DEF On
  <2>2. ASSUME NEW i, On(i), i # Top PROVE On(i)'
    <3>1. PICK k \in DOMAIN stack : stack[k] = i
      BY <2>2 DEF On
    <3>2. k \in DOMAIN stack'
      BY <1>2, <2>2, <3>1 DEF Top
    <3> QED
      BY <1>2, <3>1, <3>2 DEF On
  <2> QED
    BY <2>1, <2>2
<1>6. StackInv'
  <2>1. \A k \in DOMAIN stack' : stack'[k] \in DOMAIN calls'
    BY <1>0, <1>2, <1>4 DEF StackInv
  <2>2. \A k, m \in DOMAIN stack' : k < m => stack'[k] < stack'[m]
    BY <1>0, <1>2 DEF StackInv
  <2>3. stack' # <<>> => stack'[1] = 1
    BY <1>0, <1>2 DEF StackInv
  <2>4. \A i \in DOMAIN calls' : calls'[i].state = IF On(i)' THEN "open" ELSE "ok"
    BY <1>0, <1>3, <1>4, <1>5 DEF StackInv
  <2> QED
    BY <2>1, <2>2, <2>3, <2>4 DEF StackInv, On
<1>7. HookInv'
  BY <1>1, <1>2, <1>3, <1>4, <1>5 DEF HookInv
<1>8. SpanInv'
  <2>1. \A i \in CallIds : i \in open <=> On(i)
    BY <1>0 DEF SpanInv, Waits, NoHook
  <2>2. \A i \in CallIds : i \in open' <=> (On(i)' /\ ~Waits("start", i)') \/ Waits("end", i)'
    BY <1>1, <1>3, <1>5, <2>1 DEF Waits
  <2>3. \A i \in DOMAIN calls' : ~On(i)' /\ ~Waits("end", i)' =>
          \E k \in DOMAIN collected' : collected'[k] = [call |-> i, error |-> FALSE]
    BY <1>0, <1>1, <1>4, <1>5 DEF SpanInv, Waits, NoHook
  <2>4. Len(calls') = Len(stack') + Len(collected') + (IF hook'.event = "end" THEN 1 ELSE 0)
    BY <1>0, <1>1, <1>2, <1>4 DEF SpanInv, NoHook, TypeOK
  <2>5. hook' # NoHook
    BY <1>1 DEF NoHook
  <2> QED
    BY <2>2, <2>3, <2>4, <2>5 DEF SpanInv
<1>9. AnswerInv'
  <2>1. calls # <<>> => calls' # <<>>
    BY <1>4, EmptyIsShort
  <2> QED
    BY <1>0, <1>1, <2>1 DEF AnswerInv, NoHook
<1> QED
  BY <1>6, <1>7, <1>8, <1>9 DEF TellInv

(* The outermost chain decides; only its answer ends the agent. *)
LEMMA DecisionTells ==
    ASSUME TypeOK, TellInv, AgentActs \/ AgentFinishes
    PROVE  TellInv'
<1>0. /\ StackInv /\ HookInv /\ SpanInv /\ AnswerInv /\ hook = NoHook /\ agent = "running"
      /\ Len(stack) = 1
  BY DEF TellInv, Told, AgentActs, AgentFinishes, AgentMoves
<1>1. /\ \/ hook' = [event |-> "action", call |-> Top] /\ agent' = agent
         \/ hook' = [event |-> "finish", call |-> Top] /\ agent' = "finished"
      /\ UNCHANGED <<calls, stack, open, collected, finalOutput, announced, logLost>>
  BY DEF AgentActs, AgentFinishes, agentVars, harnessVars
<1>2. stack # <<>> /\ 1 \in DOMAIN stack
  BY <1>0, OneIsNotEmpty DEF TypeOK
<1>3. StackInv'
  BY <1>0, <1>1 DEF StackInv, On
<1>4. HookInv'
  BY <1>1, <1>2 DEF HookInv
<1>5. SpanInv'
  <2>1. \A i : On(i)' <=> On(i)
    BY <1>1 DEF On
  <2>2. \A i : ~Waits("start", i) /\ ~Waits("end", i) /\ ~Waits("start", i)' /\ ~Waits("end", i)'
    BY <1>0, <1>1 DEF Waits, NoHook
  <2>3. hook.event # "end" /\ hook'.event # "end" /\ stack' # <<>>
    BY <1>0, <1>1, <1>2 DEF NoHook
  <2> QED
    BY <1>0, <1>1, <2>1, <2>2, <2>3 DEF SpanInv
<1>6. AnswerInv'
  <2>1. calls # <<>>
    <3>1. stack[1] \in DOMAIN calls
      BY <1>0, <1>2 DEF StackInv
    <3> QED
      BY <3>1
  <2> QED
    BY <1>0, <1>1, <2>1 DEF AnswerInv
<1> QED
  BY <1>3, <1>4, <1>5, <1>6 DEF TellInv

LEMMA AgentTells == ASSUME TypeOK, TellInv, AgentSteps PROVE TellInv'
<1>1. CASE \E kind \in Kinds : AgentBegins(kind)
  BY <1>1, BeginTells
<1>2. CASE AgentEnds
  BY <1>2, EndTells
<1>3. CASE AgentActs \/ AgentFinishes
  BY <1>3, DecisionTells
<1>4. CASE AgentFails
  BY <1>4 DEF AgentFails, TellInv, Told
<1> QED
  BY <1>1, <1>2, <1>3, <1>4 DEF AgentSteps

(* A hook that has run waits no longer: what it is to do, it has done. *)
LEMMA HookTells == ASSUME TypeOK, TellInv, RunHook PROVE TellInv'
<1> SUFFICES ASSUME Told' PROVE (StackInv /\ HookInv /\ SpanInv /\ AnswerInv)'
  BY DEF TellInv
<1>0. /\ UNCHANGED <<calls, stack, agent>> /\ hook' = NoHook /\ hook # NoHook
      /\ hook \in Hooks /\ hook.call \in CallIds /\ hook.event \in Events
  BY DEF RunHook, agentVars, TypeOK, Hooks
<1>1. StackInv /\ HookInv /\ SpanInv /\ AnswerInv
  BY <1>0 DEF TellInv, Told
<1>2. PICK logged \in BOOLEAN :
          HookBody(hook, logged) /\ logLost' = (logLost \/ (Logs(hook) /\ ~logged))
  BY DEF RunHook, Appends
<1>3. \A i : On(i)' <=> On(i)
  BY <1>0 DEF On
<1>4. StackInv'
  BY <1>0, <1>1 DEF StackInv, On
<1>5. HookInv'
  BY <1>0 DEF HookInv, NoHook
<1>6. \A e \in Events : \A i : ~Waits(e, i)'
  BY <1>0 DEF Waits, NoHook, Events
<1>7. hook.event = "start" =>
          open' = open \union {hook.call} /\ UNCHANGED <<collected, finalOutput, announced>>
  BY <1>2 DEF HookBody, on_start
<1>8. hook.event = "end" =>
          /\ open' = open \ {hook.call} /\ UNCHANGED <<finalOutput, announced>>
          /\ collected' = Append(collected, [call |-> hook.call, error |-> FALSE])
  <2> SUFFICES ASSUME hook.event = "end"
               PROVE  /\ open' = open \ {hook.call} /\ UNCHANGED <<finalOutput, announced>>
                      /\ collected' = Append(collected, [call |-> hook.call, error |-> FALSE])
    OBVIOUS
  <2>1. hook.call \in open
    BY <1>0, <1>1 DEF SpanInv, Waits
  <2> QED
    BY <1>2, <2>1 DEF HookBody, on_end
<1>9. hook.event = "action" => UNCHANGED <<open, collected, finalOutput, announced>>
  BY <1>2 DEF HookBody, on_agent_action
<1>10. hook.event = "finish" =>
          /\ UNCHANGED <<open, collected>>
          /\ logLost' \/ (finalOutput' /\ announced')
  BY <1>2 DEF HookBody, on_agent_finish, Logs
<1>11. hook.event \in {"start", "end", "action", "finish"}
  BY <1>0, <1>1 DEF HookInv, Events
<1>12. SpanInv'
  <2>1. ASSUME NEW i \in CallIds PROVE i \in open' <=> On(i)
    <3>1. i \in open <=> (On(i) /\ ~Waits("start", i)) \/ Waits("end", i)
      BY <1>1 DEF SpanInv
    <3>2. CASE hook.event = "start"
      <4>1. On(hook.call)
        BY <1>1, <3>2 DEF HookInv, On, Top, TypeOK
      <4> QED
        BY <1>7, <3>1, <3>2, <4>1 DEF Waits
    <3>3. CASE hook.event = "end"
      <4>1. ~On(hook.call)
        BY <1>1, <3>3 DEF HookInv
      <4> QED
        BY <1>8, <3>1, <3>3, <4>1 DEF Waits
    <3>4. CASE hook.event \in {"action", "finish"}
      BY <1>9, <1>10, <3>1, <3>4 DEF Waits
    <3> QED
      BY <1>11, <3>2, <3>3, <3>4
  <2>2. CASE hook.event = "end"
    <3>1. [call |-> hook.call, error |-> FALSE] \in Spans
      BY <1>0 DEF Spans
    <3>2. collected \in Seq(Spans)
      BY DEF TypeOK
    <3>3. /\ Len(collected) \in Nat /\ Len(collected') = Len(collected) + 1
          /\ DOMAIN collected = 1..Len(collected) /\ DOMAIN collected' = 1..(Len(collected) + 1)
          /\ \A k \in DOMAIN collected : collected'[k] = collected[k]
          /\ collected'[Len(collected) + 1] = [call |-> hook.call, error |-> FALSE]
      <4> DEFINE span == [call |-> hook.call, error |-> FALSE]
      <4>1. collected' = Append(collected, span) /\ span \in Spans
        BY <1>8, <2>2, <3>1
      <4> HIDE DEF span
      <4>2. /\ Len(collected) \in Nat /\ Len(collected') = Len(collected) + 1
            /\ DOMAIN collected = 1..Len(collected) /\ DOMAIN collected' = 1..(Len(collected) + 1)
            /\ \A k \in DOMAIN collected : collected'[k] = collected[k]
            /\ collected'[Len(collected) + 1] = span
        BY <3>2, <4>1, PushFacts
      <4> QED
        BY <4>2 DEF span
    <3>4. \A i \in DOMAIN calls : ~On(i) =>
              \E k \in DOMAIN collected' : collected'[k] = [call |-> i, error |-> FALSE]
      <4> SUFFICES ASSUME NEW i \in DOMAIN calls, ~On(i)
                   PROVE  \E k \in DOMAIN collected' : collected'[k] = [call |-> i, error |-> FALSE]
        OBVIOUS
      <4>1. CASE i = hook.call
        BY <3>3, <4>1
      <4>2. CASE i # hook.call
        <5>1. PICK k \in DOMAIN collected : collected[k] = [call |-> i, error |-> FALSE]
          BY <1>1, <4>2 DEF SpanInv, Waits
        <5>2. k \in 1..Len(collected) /\ Len(collected) \in Nat
          BY <3>3, <5>1
        <5>3. k \in DOMAIN collected'
          BY <3>3, <5>2
        <5>4. collected'[k] = collected[k]
          BY <3>3, <5>1
        <5> QED
          BY <5>1, <5>3, <5>4
      <4> QED
        BY <4>1, <4>2
    <3>5. Len(calls) = Len(stack) + Len(collected')
      BY <1>1, <2>2, <3>3 DEF SpanInv, TypeOK
    <3>6. collected' # <<>>
      BY <3>3, EmptyIsShort
    <3>7. stack = <<>> => collected'[Len(collected')].call = 1
      BY <1>1, <2>2, <3>3 DEF HookInv
    <3> QED
      BY <1>0, <1>3, <1>6, <2>1, <3>4, <3>5, <3>6, <3>7 DEF SpanInv, NoHook, Events
  <2>3. CASE hook.event \in {"start", "action", "finish"}
    <3>1. collected' = collected /\ stack # <<>>
      BY <1>1, <1>7, <1>9, <1>10, <2>3 DEF HookInv
    <3>2. \A i \in DOMAIN calls : ~On(i) =>
              \E k \in DOMAIN collected : collected[k] = [call |-> i, error |-> FALSE]
      BY <1>1, <2>3 DEF SpanInv, Waits
    <3>3. Len(calls) = Len(stack) + Len(collected)
      BY <1>1, <2>3 DEF SpanInv, TypeOK
    <3> QED
      BY <1>0, <1>3, <1>6, <2>1, <3>1, <3>2, <3>3 DEF SpanInv, NoHook, Events, TypeOK
  <2> QED
    BY <1>11, <2>2, <2>3
<1>13. AnswerInv'
  <2> SUFFICES ASSUME agent = "finished" PROVE AnswerInv'
    BY <1>0 DEF AnswerInv
  <2>1. calls' # <<>>
    BY <1>0, <1>1 DEF AnswerInv
  <2>2. CASE hook.event = "finish"
    BY <1>10, <2>1, <2>2 DEF AnswerInv
  <2>3. CASE hook.event # "finish"
    <3>1. logLost \/ (finalOutput /\ announced)
      BY <1>1, <2>3 DEF AnswerInv
    <3>2. UNCHANGED <<finalOutput, announced>>
      BY <1>7, <1>8, <1>9, <1>11, <2>3
    <3> QED
      BY <1>2, <2>1, <3>1, <3>2 DEF AnswerInv
  <2> QED
    BY <2>2, <2>3
<1> QED
  BY <1>4, <1>5, <1>12, <1>13

LEMMA TellNext == ASSUME Inv, EndInv, TellInv, [Next]_vars PROVE TellInv'
<1>0. TypeOK
  BY DEF Inv
<1>1. CASE Execute
  BY <1>1, ExecuteTells
<1>2. CASE AgentSteps
  BY <1>0, <1>2, AgentTells
<1>3. CASE RunHook
  BY <1>0, <1>3, HookTells
<1>4. CASE DropHook
  BY <1>4 DEF DropHook, TellInv, Told, agentVars
<1>5. CASE Rest \/ UNCHANGED vars
  BY <1>5 DEF Rest, vars, TellInv, Told, StackInv, HookInv, SpanInv, AnswerInv, On, Waits, Top,
     agentVars, harnessVars
<1> QED
  BY <1>1, <1>2, <1>3, <1>4, <1>5 DEF Next, HookSteps

LEMMA StoryInvariance == Spec => [](Inv /\ TellInv /\ EndInv)
<1>1. Init => Inv /\ TellInv /\ EndInv
  BY InitInv, InitTell
<1>2. Inv /\ TellInv /\ EndInv /\ [Next]_vars => (Inv /\ TellInv /\ EndInv)'
  BY NextTypeOK, NextStageInv, TellNext, EndNext DEF Inv
<1> QED
  BY <1>1, <1>2, PTL DEF Spec

(* A stored trajectory has one span for every call of the agent, the outermost
   last, and its answer unless the log lost it. *)
THEOREM TrajectoriesAreWhole == Spec => []StoredTrajectoryComplete
<1>1. Inv /\ TellInv /\ EndInv => StoredTrajectoryComplete
  <2> SUFFICES ASSUME Inv, TellInv, EndInv, trajRow.present PROVE StoredTrajectoryComplete
    BY DEF StoredTrajectoryComplete
  <2>1. /\ agent = "finished" /\ stack = <<>> /\ hook = NoHook
        /\ trajRow.spans = collected /\ trajRow.output = finalOutput
    BY DEF EndInv
  <2>2. StackInv /\ SpanInv /\ AnswerInv
    BY <2>1 DEF TellInv, Told
  <2>3. \A i : ~On(i) /\ ~Waits("start", i) /\ ~Waits("end", i)
    BY <2>1 DEF On, Waits, NoHook
  <2>4. open = {}
    BY <2>2, <2>3 DEF SpanInv, Inv, TypeOK
  <2>5. Len(collected) = Len(calls)
    BY <2>1, <2>2 DEF SpanInv, NoHook, Inv, TypeOK
  <2>6. calls # <<>> /\ (logLost \/ (finalOutput /\ announced))
    BY <2>1, <2>2 DEF AnswerInv, NoHook
  <2>7. \A i \in DOMAIN calls : calls[i].state = "ok"
    BY <2>2, <2>3 DEF StackInv
  <2>8. \A i \in DOMAIN calls : \E k \in DOMAIN collected :
            collected[k] = [call |-> i, error |-> FALSE]
    BY <2>2, <2>3 DEF SpanInv
  <2>9. collected[Len(collected)].call = 1
    BY <2>1, <2>2, <2>6 DEF SpanInv
  <2> QED
    BY <2>1, <2>4, <2>5, <2>6, <2>7, <2>8, <2>9 DEF StoredTrajectoryComplete
<1> QED
  BY StoryInvariance, <1>1, PTL

(* Only the log, the database or an agent that cannot be built make an
   evaluation raise: the agent itself never does. *)
THEOREM AgentsAreContained == Spec => []AgentNeverAbortsSuite
<1>1. EndInv => AgentNeverAbortsSuite
  BY DEF EndInv
<1> QED
  BY StoryInvariance, <1>1, PTL

(* No hook is left on its thread once a trajectory is stored. *)
THEOREM HooksEndInTime == Spec => []LateHooksAreHarmless
<1>1. EndInv => LateHooksAreHarmless
  BY DEF EndInv, LateHooksAreHarmless
<1> QED
  BY StoryInvariance, <1>1, PTL
=============================================================================
