---------------------------- MODULE Orchestrator ----------------------------
(***************************************************************************)
(* One run of agentic/orchestrator.py: Orchestrator.run and the execution  *)
(* loop _execute_dag, with Dispatcher.dispatch and Agent.execute reduced   *)
(* to the result they hand back.                                           *)
(*                                                                         *)
(* run() is one coroutine: between two awaits nothing else moves.  Its     *)
(* only await that suspends is asyncio.gather, where the agents of a wave  *)
(* answer in any order; pc is the place in that coroutine.  The two inner  *)
(* loops (storing the results of a wave, failing the blocked steps) take   *)
(* one iteration per step of the specification.                            *)
(*                                                                         *)
(* An operator X_Mistake is X with one plausible mistake in the code it    *)
(* stands for.  No action uses it: it shows that a property notices.       *)
(***************************************************************************)
EXTENDS TaskDag, Sequences

CONSTANT Routable                       \* steps whose agent_type is registered

ASSUME RoutableAssumption == Routable \subseteq Steps

VARIABLES
    pc,         \* where run() is
    deps,       \* Step.depends_on of every step of the decomposed task
    status,     \* Step.status
    result,     \* Step.result
    ready,      \* the local list "ready" of the current (or last) wave
    context,    \* the ExecutionContext handed to each step
    returned,   \* results the agents of the wave have handed to gather
    emitted     \* the calls of StreamBus.emit, oldest first

vars == <<pc, deps, status, result, ready, context, returned, emitted>>

-----------------------------------------------------------------------------
(* An AgentResult: whose it is, its status, who made it, and, for a        *)
(* blocked step, the dependencies its error text names.                    *)
ResultStatus == {"ok", "degraded", "failed"}
NoResult == [step |-> 0, status |-> "none", by |-> "nobody", blame |-> {}]
Result ==
    [step : Steps, status : ResultStatus,
     by : {"agent", "dispatcher", "orchestrator"}, blame : SUBSET Steps]
MaybeResult == Result \cup {NoResult}

(* _RESULT_TO_STEP_STATUS: only "ok" changes its name.                     *)
StepStatusOf_NoMapping(r) == r.status
StepStatusOf(r) == IF r.status = "ok" THEN "completed" ELSE r.status

(* Stream events; only PARTIAL carries a step and a result.                *)
StartedEvent       == [kind |-> "started", result |-> NoResult]
PartialEvent(r)    == [kind |-> "partial", result |-> r]
DoneEvent          == [kind |-> "done", result |-> NoResult]
Event == [kind : {"started", "partial", "done"}, result : MaybeResult]

IsLeast(s, S) == s \in S /\ \A t \in S : s <= t

Running     == {s \in Steps : status[s] = "running"}
NonTerminal_NotCompleted == {s \in Steps : status[s] # "completed"}
NonTerminal == {s \in Steps : status[s] \notin TerminalStatus}

(* What Agent.execute can hand back: OK, DEGRADED for a completion with    *)
(* the degraded prefix, FAILED for any exception (an empty completion      *)
(* included, which AgentResult refuses).                                   *)
ExecuteResults(s) ==
    {[step |-> s, status |-> st, by |-> "agent", blame |-> {}] : st \in ResultStatus}

(* What Dispatcher.dispatch can hand back for s: FAILED without reaching   *)
(* an agent when no agent has its type.                                    *)
DispatchResults(s) ==
    IF s \in Routable
    THEN ExecuteResults(s)
    ELSE {[step |-> s, status |-> "failed", by |-> "dispatcher", blame |-> {}]}

(* Orchestrator._build_context: the results of the COMPLETED dependencies. *)
BuildContext_LastWaveOnly(s) ==
    [d \in Steps |-> IF d \in deps[s] \cap ready /\ status[d] = "completed"
                     THEN result[d] ELSE NoResult]
BuildContext(s) ==
    [d \in Steps |-> IF d \in deps[s] /\ status[d] = "completed"
                     THEN result[d] ELSE NoResult]

(* Orchestrator._apply_result: store, set the status, emit PARTIAL.        *)
ApplyResult_SilentBlocked(s, r) ==
    /\ result' = [result EXCEPT ![s] = r]
    /\ status' = [status EXCEPT ![s] = StepStatusOf(r)]
    /\ emitted' = IF r.by = "orchestrator" THEN emitted
                  ELSE Append(emitted, PartialEvent(r))
ApplyResult(s, r) ==
    /\ result' = [result EXCEPT ![s] = r]
    /\ status' = [status EXCEPT ![s] = StepStatusOf(r)]
    /\ emitted' = Append(emitted, PartialEvent(r))

-----------------------------------------------------------------------------
(* deps is the DAG the planner will return: any that Task.validate accepts *)
(* (the planner is injected; the built-in one makes a chain of three).     *)
Init ==
    /\ pc = "idle"
    /\ deps \in ValidDeps
    /\ status = [s \in Steps |-> "pending"]
    /\ result = [s \in Steps |-> NoResult]
    /\ ready = {}
    /\ context = [s \in Steps |-> [d \in Steps |-> NoResult]]
    /\ returned = [s \in Steps |-> NoResult]
    /\ emitted = <<>>

(* Empty or blank text: ValueError before the task and before any event.   *)
Reject ==
    /\ pc = "idle"
    /\ pc' = "rejected"
    /\ UNCHANGED <<deps, status, result, ready, context, returned, emitted>>

Start ==
    /\ pc = "idle"
    /\ pc' = "loop"
    /\ emitted' = Append(emitted, StartedEvent)
    /\ UNCHANGED <<deps, status, result, ready, context, returned>>

(* An iteration with ready steps: mark them RUNNING, build their contexts, *)
(* start gather.                                                           *)
Schedule ==
    /\ pc = "loop"
    /\ ~ IsTerminal(status)
    /\ ReadySteps(deps, status) # {}
    /\ pc' = "gather"
    /\ ready' = ReadySteps(deps, status)
    /\ status' = [s \in Steps |-> IF s \in ready' THEN "running" ELSE status[s]]
    /\ context' = [s \in Steps |->
                      IF s \in ready' THEN BuildContext(s) ELSE context[s]]
    /\ returned' = [s \in Steps |-> NoResult]
    /\ UNCHANGED <<deps, result, emitted>>

(* The coroutine of one step of the wave finishes inside gather.           *)
AgentReturns(s) ==
    /\ pc = "gather"
    /\ s \in ready
    /\ returned[s] = NoResult
    /\ \E r \in DispatchResults(s) : returned' = [returned EXCEPT ![s] = r]
    /\ UNCHANGED <<pc, deps, status, result, ready, context, emitted>>

GatherDone ==
    /\ pc = "gather"
    /\ \A s \in ready : returned[s] # NoResult
    /\ pc' = "apply"
    /\ UNCHANGED <<deps, status, result, ready, context, returned, emitted>>

(* zip(ready, results): the next step of the wave, in list order.          *)
ApplyNext(s) ==
    /\ pc = "apply"
    /\ IsLeast(s, Running)
    /\ ApplyResult(s, returned[s])
    /\ pc' = IF Running = {s} THEN "loop" ELSE "apply"
    /\ UNCHANGED <<deps, ready, context, returned>>

(* No step is ready although the task is not terminal.                     *)
Block_OnFailedOnly ==
    /\ pc = "loop"
    /\ ReadySteps(deps, status) = {}
    /\ \E s \in Steps : status[s] = "failed"
    /\ ~ IsTerminal(status)
    /\ pc' = "block"
    /\ UNCHANGED <<deps, status, result, ready, context, returned, emitted>>
Block ==
    /\ pc = "loop"
    /\ ~ IsTerminal(status)
    /\ ReadySteps(deps, status) = {}
    /\ pc' = "block"
    /\ UNCHANGED <<deps, status, result, ready, context, returned, emitted>>

(* _fail_blocked_steps: the next non-terminal step, in list order.         *)
FailBlocked(s) ==
    /\ pc = "block"
    /\ IsLeast(s, NonTerminal)
    /\ ApplyResult(s, [step |-> s, status |-> "failed", by |-> "orchestrator",
                       blame |-> Unsatisfied(deps, status, s)])
    /\ UNCHANGED <<pc, deps, ready, context, returned>>

(* The loop has ended, by its condition or by break: emit DONE and return. *)
Finish ==
    /\ pc \in {"loop", "block"}
    /\ IsTerminal(status)
    /\ pc' = "done"
    /\ emitted' = Append(emitted, DoneEvent)
    /\ UNCHANGED <<deps, status, result, ready, context, returned>>

(* The task that awaits run() is cancelled (Ctrl-C, a timeout around it):  *)
(* CancelledError leaves gather and run(), nothing is cleaned up.          *)
CancelRun ==
    /\ pc = "gather"
    /\ pc' = "cancelled"
    /\ UNCHANGED <<deps, status, result, ready, context, returned, emitted>>

RunStep == \/ Start \/ Schedule \/ GatherDone \/ Block \/ Finish
           \/ \E s \in Steps : ApplyNext(s) \/ FailBlocked(s)

Next == RunStep \/ Reject \/ CancelRun \/ \E s \in Steps : AgentReturns(s)

Spec == Init /\ [][Next]_vars

(* The event loop keeps running run(), and every dispatched agent answers  *)
(* (its batcher resolves every submitted request: see Batcher.tla).        *)
FairSpec == /\ Spec
            /\ WF_vars(RunStep)
            /\ \A s \in Steps : WF_vars(AgentReturns(s))

-----------------------------------------------------------------------------
TypeOK ==
    /\ pc \in {"idle", "rejected", "loop", "gather", "apply", "block",
               "done", "cancelled"}
    /\ deps \in ValidDeps
    /\ status \in [Steps -> StepStatus]
    /\ result \in [Steps -> MaybeResult]
    /\ ready \in SUBSET Steps
    /\ context \in [Steps -> [Steps -> MaybeResult]]
    /\ returned \in [Steps -> MaybeResult]
    /\ emitted \in Seq(Event)

Executed(s) == result[s].by \in {"agent", "dispatcher"}
Launched(s) == status[s] = "running" \/ Executed(s)

(* A launched step saw the whole of its input: its context holds, for each *)
(* dependency and nothing else, the very result stored on that dependency, *)
(* which is COMPLETED and stays so (_build_context, Requirement 3.3, 4.2). *)
ContextComplete ==
    \A s \in Steps : Launched(s) =>
        \A d \in Steps :
            IF d \in deps[s]
            THEN /\ status[d] = "completed"
                 /\ result[d].step = d
                 /\ context[s][d] = result[d]
            ELSE context[s][d] = NoResult

(* A step that was written off had a reason that really ran: every set of  *)
(* steps closed under dependencies that holds the step also holds a step   *)
(* that executed and did not complete.  And its error text names at least  *)
(* one dependency, none of which ever completes (_fail_blocked_steps: the  *)
(* text without names is never used).                                      *)
RootCause ==
    \A s \in Steps : result[s].by = "orchestrator" =>
        /\ result[s].blame # {}
        /\ \A d \in result[s].blame : d \in deps[s] /\ status[d] # "completed"
        /\ \A A \in SUBSET Steps :
              (s \in A /\ \A t \in A : deps[t] \subseteq A) =>
                  \E t \in A : Executed(t) /\ status[t] # "completed"

(* The stream tells the story of the run: STARTED first, then one PARTIAL  *)
(* for each step that has a result, carrying that result, and DONE last,   *)
(* exactly when run() returns with every step terminal.                    *)
StreamLedger ==
    /\ emitted = <<>> <=> pc \in {"idle", "rejected"}
    /\ \A i \in DOMAIN emitted :
          /\ emitted[i].kind = "started" <=> i = 1
          /\ emitted[i].kind = "done" <=> (i = Len(emitted) /\ pc = "done")
          /\ emitted[i].kind = "partial" =>
                 result[emitted[i].result.step] = emitted[i].result
    /\ \A s \in Steps :
          /\ result[s] # NoResult <=> status[s] \in TerminalStatus
          /\ result[s] # NoResult =>
                \E i \in DOMAIN emitted :
                    /\ emitted[i] = PartialEvent(result[s])
                    /\ \A j \in DOMAIN emitted :
                          emitted[j].result.step = s => j = i
    /\ pc = "done" => IsTerminal(status)

(* A subscriber never sees the outcome of an executed step before the      *)
(* successful outcome of each of its dependencies.                         *)
CausalStream ==
    \A i \in DOMAIN emitted :
        LET r == emitted[i].result IN
        r.by \in {"agent", "dispatcher"} =>
            \A d \in deps[r.step] : \E j \in 1..(i - 1) :
                emitted[j].result.step = d /\ emitted[j].result.status = "ok"

(* A stored result and the status that goes with it are final: no later    *)
(* wave and no write-off replaces them.                                    *)
OutcomeFinal ==
    [][\A s \in Steps : result[s] # NoResult =>
          result'[s] = result[s] /\ status'[s] = status[s]]_vars

Lifecycle == INSTANCE TaskLifecycle WITH deps <- deps, status <- status
(* The step statuses follow the abstract life cycle.                       *)
LifecycleSpec == Lifecycle!Spec

(* Every run that starts ends with DONE and every step terminal, unless it *)
(* is cancelled from outside (Requirements 4.3, 4.4).                      *)
Termination ==
    pc = "loop" ~> \/ pc = "done" /\ IsTerminal(status)
                   \/ pc = "cancelled"

-----------------------------------------------------------------------------
(* A claim of the documentation that the code does not keep.               *)

(* README.md:45 and design.md:441: partial events are emitted as each step *)
(* finishes, in completion order: a step that finished before another one  *)
(* did has been streamed by then.                                          *)
StreamedAsFinished ==
    [][\A s, t \in Steps :
          (returned[s] = NoResult /\ returned'[s] # NoResult
             /\ returned[t] # NoResult) =>
          \E i \in DOMAIN emitted : emitted[i].result = returned[t]]_vars
=============================================================================
