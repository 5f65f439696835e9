------------------------- MODULE OrchestratorProofs -------------------------
(***************************************************************************)
(* Proofs about Orchestrator for every number of steps, every acyclic      *)
(* dependency relation and every set of routable steps: the statuses and   *)
(* results of a run, and the ledger and the causal order of what it        *)
(* streams.                                                                *)
(***************************************************************************)
EXTENDS Orchestrator, TLAPS

(* Where in the coroutine each status may be found.                        *)
Phases ==
    /\ pc \in {"idle", "rejected"} => \A s \in Steps : status[s] = "pending"
    /\ pc \in {"loop", "block", "done"} =>
           \A s \in Steps : status[s] # "running"
    /\ pc = "gather" => \A s \in Steps : status[s] = "running" <=> s \in ready
    /\ pc = "apply" => \A s \in Steps : status[s] = "running" =>
                           returned[s] # NoResult
    /\ pc = "block" => \A s \in Steps : status[s] = "pending" =>
                           Unsatisfied(deps, status, s) # {}
    /\ pc = "done" => IsTerminal(status)

(* What gather holds are results dispatch made for that very step.         *)
ReturnedOwn ==
    \A s \in Steps : returned[s] # NoResult => returned[s] \in DispatchResults(s)

(* A step is terminal exactly when its own result is stored, and its       *)
(* status is the one the result maps to.                                   *)
Stored ==
    \A s \in Steps :
        /\ result[s] # NoResult <=> status[s] \in TerminalStatus
        /\ result[s] # NoResult => /\ result[s].step = s
                                   /\ status[s] = StepStatusOf(result[s])

(* Write-offs happen in the last phase only, fail, and for cause.          *)
WrittenOff ==
    \A s \in Steps : result[s].by = "orchestrator" =>
        /\ pc \in {"block", "done"}
        /\ status[s] = "failed"
        /\ result[s].blame # {}
        /\ \A d \in result[s].blame : d \in deps[s] /\ status[d] # "completed"

(* While a wave runs, every step left PENDING has a dependency that has    *)
(* not completed: the barrier never holds back a step that could have been *)
(* launched with the wave (Requirement 4.1).                               *)
MaximalWave ==
    pc = "gather" => \A s \in Steps : status[s] = "pending" =>
                        \E d \in deps[s] : status[d] # "completed"

Inv == /\ TypeOK /\ Phases /\ ReturnedOwn /\ Stored /\ WrittenOff
       /\ MaximalWave /\ ContextComplete

-----------------------------------------------------------------------------
(* The absent result is no result, and a result ends its step.             *)
LEMMA ResultFacts ==
    /\ NoResult \notin Result
    /\ NoResult.by = "nobody"
    /\ \A r \in Result : /\ StepStatusOf(r) \in TerminalStatus
                         /\ StepStatusOf(r) = "completed" <=> r.status = "ok"
                         /\ r # NoResult
BY NAssumption DEF NoResult, Result, Steps, StepStatusOf, ResultStatus, TerminalStatus

(* Every result dispatch can hand back is a well-formed result of the step *)
(* it was asked for, not made by the orchestrator.                         *)
LEMMA DispatchFacts ==
    ASSUME NEW s \in Steps, NEW r \in DispatchResults(s)
    PROVE  /\ r \in Result /\ r # NoResult /\ r.step = s
           /\ r.by \in {"agent", "dispatcher"}
BY NAssumption DEF DispatchResults, ExecuteResults, Result, ResultStatus, NoResult, Steps

(* A context built now is a function to results.                           *)
LEMMA ContextType ==
    ASSUME TypeOK, NEW s \in Steps
    PROVE  BuildContext(s) \in [Steps -> MaybeResult]
BY DEF TypeOK, BuildContext, MaybeResult

(* The initial states satisfy the invariant.                               *)
LEMMA InitInv == Init => Inv
<1> SUFFICES ASSUME Init PROVE Inv
    OBVIOUS
<1>1. TypeOK
    BY DEF Init, TypeOK, StepStatus, MaybeResult
<1>2. Phases /\ ReturnedOwn /\ Stored /\ MaximalWave
    BY DEF Init, Phases, ReturnedOwn, Stored, MaximalWave, TerminalStatus
<1>3. WrittenOff /\ ContextComplete
    BY ResultFacts DEF Init, WrittenOff, ContextComplete, Launched, Executed
<1> QED BY <1>1, <1>2, <1>3 DEF Inv

-----------------------------------------------------------------------------
(* Types are kept by every step.                                           *)
LEMMA TypeStep ==
    ASSUME TypeOK, ReturnedOwn, Phases, [Next]_vars
    PROVE  TypeOK'
<1> USE DEF TypeOK
<1>1. CASE Reject \/ Block \/ CancelRun \/ GatherDone
    BY <1>1 DEF Reject, Block, CancelRun, GatherDone
<1>2. CASE Start \/ Finish
  <2>1. StartedEvent \in Event /\ DoneEvent \in Event
    BY DEF Event, StartedEvent, DoneEvent, MaybeResult
  <2>2. \A e \in Event : Append(emitted, e) \in Seq(Event)
    OBVIOUS
  <2>3. \E e \in Event : emitted' = Append(emitted, e)
    BY <1>2, <2>1 DEF Start, Finish
  <2> QED BY <1>2, <2>2, <2>3 DEF Start, Finish
<1>3. CASE Schedule
  <2>1. ready' \in SUBSET Steps
    BY <1>3 DEF Schedule, ReadySteps
  <2>2. context' \in [Steps -> [Steps -> MaybeResult]]
    BY <1>3, ContextType DEF Schedule
  <2>3. status' \in [Steps -> StepStatus]
    BY <1>3 DEF Schedule, StepStatus
  <2> QED BY <1>3, <2>1, <2>2, <2>3 DEF Schedule, MaybeResult
<1>4. ASSUME NEW s \in Steps, AgentReturns(s) PROVE TypeOK'
    BY <1>4, DispatchFacts DEF AgentReturns, MaybeResult
<1>5. ASSUME NEW s \in Steps, NEW r \in Result, ApplyResult(s, r)
      PROVE  /\ result' \in [Steps -> MaybeResult]
             /\ status' \in [Steps -> StepStatus]
             /\ emitted' \in Seq(Event)
  <2>1. StepStatusOf(r) \in StepStatus
    BY ResultFacts DEF TerminalStatus, StepStatus
  <2>2. PartialEvent(r) \in Event
    BY DEF PartialEvent, Event, MaybeResult
  <2> QED BY <1>5, <2>1, <2>2 DEF ApplyResult, MaybeResult
<1>6. ASSUME NEW s \in Steps, ApplyNext(s) PROVE TypeOK'
    BY <1>5, <1>6, DispatchFacts DEF ApplyNext, ReturnedOwn, Phases, IsLeast, Running
<1>7. ASSUME NEW s \in Steps, FailBlocked(s) PROVE TypeOK'
  <2> DEFINE r == [step |-> s, status |-> "failed", by |-> "orchestrator",
                   blame |-> Unsatisfied(deps, status, s)]
  <2>1. Unsatisfied(deps, status, s) \in SUBSET Steps
    BY DEF Unsatisfied, ValidDeps
  <2>2. r \in Result
    BY <2>1 DEF Result, ResultStatus
  <2> QED BY <1>5, <1>7, <2>2 DEF FailBlocked
<1>8. CASE UNCHANGED vars
    BY <1>8 DEF vars
<1> QED BY <1>1, <1>2, <1>3, <1>4, <1>6, <1>7, <1>8 DEF Next, RunStep

-----------------------------------------------------------------------------
(* Marking a wave RUNNING and building its contexts keeps the invariant.   *)
LEMMA ScheduleStep == ASSUME Inv, TypeOK', Schedule PROVE Inv'
<1> USE DEF Inv, TypeOK, Schedule
<1>1. /\ \A s \in Steps : status[s] # "running"
      /\ ready' = {s \in Steps : /\ status[s] = "pending"
                                 /\ \A p \in deps[s] : status[p] = "completed"}
      /\ \A s \in Steps : deps[s] \subseteq Steps
    BY DEF Phases, ReadySteps, Unsatisfied, ValidDeps
<1>2. \A s \in Steps : status'[s] = IF s \in ready' THEN "running" ELSE status[s]
    OBVIOUS
<1>3. \A s \in Steps : /\ s \in ready' => result[s] = NoResult
                       /\ status'[s] = "completed" <=> status[s] = "completed"
    BY <1>1, <1>2 DEF Stored, TerminalStatus
<1>4. Phases'
    BY <1>1, <1>2 DEF Phases
<1>5. ReturnedOwn'
    BY DEF ReturnedOwn
<1>6. Stored'
    BY <1>1, <1>2, <1>3 DEF Stored, TerminalStatus
<1>7. WrittenOff'
    BY DEF WrittenOff
<1>8. MaximalWave'
    BY <1>1, <1>2, <1>3 DEF MaximalWave
<1>9. ContextComplete'
  <2> SUFFICES ASSUME NEW s \in Steps, Launched(s)', NEW d \in Steps
               PROVE  IF d \in deps[s]
                      THEN /\ status'[d] = "completed"
                           /\ result[d].step = d
                           /\ context'[s][d] = result[d]
                      ELSE context'[s][d] = NoResult
    BY DEF ContextComplete
  <2>1. CASE s \in ready'
    <3>1. context'[s][d] = IF d \in deps[s] /\ status[d] = "completed"
                           THEN result[d] ELSE NoResult
      BY <2>1 DEF BuildContext
    <3>2. d \in deps[s] => status[d] = "completed" /\ result[d] # NoResult
      BY <1>1, <2>1 DEF Stored, TerminalStatus
    <3> QED BY <1>3, <3>1, <3>2 DEF Stored
  <2>2. CASE s \notin ready'
    <3>1. Launched(s) /\ context'[s] = context[s]
      BY <1>2, <2>2 DEF Launched, Executed
    <3> QED BY <1>3, <3>1 DEF ContextComplete
  <2> QED BY <2>1, <2>2
<1> QED BY <1>4, <1>5, <1>6, <1>7, <1>8, <1>9

(* Storing the result of an unfinished step whose dependencies COMPLETED   *)
(* keeps what does not depend on the phase.                                *)
LEMMA ApplyFacts ==
    ASSUME TypeOK, Stored, NEW s \in Steps, NEW r \in Result, r.step = s,
           status[s] \notin TerminalStatus, ApplyResult(s, r)
    PROVE  /\ Stored'
           /\ result[s] = NoResult
           /\ result'[s] = r /\ status'[s] = StepStatusOf(r)
           /\ status'[s] \in TerminalStatus
           /\ \A t \in Steps \ {s} : /\ result'[t] = result[t]
                                     /\ status'[t] = status[t]
<1>1. /\ result'[s] = r /\ status'[s] = StepStatusOf(r)
      /\ \A t \in Steps \ {s} : result'[t] = result[t] /\ status'[t] = status[t]
    BY DEF ApplyResult, TypeOK
<1>2. r # NoResult /\ StepStatusOf(r) \in TerminalStatus
    BY ResultFacts
<1> QED BY <1>1, <1>2 DEF Stored

(* Storing one result of the wave keeps the invariant.                     *)
LEMMA ApplyNextStep ==
    ASSUME Inv, TypeOK', NEW s \in Steps, ApplyNext(s) PROVE Inv'
<1> USE DEF Inv
<1> DEFINE r == returned[s]
<1>1. /\ r \in Result /\ r.step = s /\ r.by \in {"agent", "dispatcher"}
      /\ status[s] = "running"
  <2>1. status[s] = "running" /\ r # NoResult
    BY DEF ApplyNext, IsLeast, Running, Phases
  <2> QED BY <2>1, DispatchFacts DEF ReturnedOwn
<1>2. /\ Stored'
      /\ result[s] = NoResult
      /\ result'[s] = r /\ status'[s] = StepStatusOf(r)
      /\ status'[s] \in TerminalStatus
      /\ \A t \in Steps \ {s} : result'[t] = result[t] /\ status'[t] = status[t]
  <2>1. status[s] \notin TerminalStatus /\ ApplyResult(s, r)
    BY <1>1 DEF TerminalStatus, ApplyNext
  <2> QED BY <1>1, <2>1, ApplyFacts
<1>3. /\ pc = "apply" /\ pc' = IF Running = {s} THEN "loop" ELSE "apply"
      /\ UNCHANGED <<deps, ready, context, returned>>
    BY DEF ApplyNext
<1>4. Phases'
  <2>1. pc' = "loop" => \A t \in Steps : status'[t] # "running"
    BY <1>2, <1>3 DEF Running, TerminalStatus
  <2> QED BY <1>2, <1>3, <2>1 DEF Phases, TerminalStatus
<1>5. ReturnedOwn' /\ MaximalWave'
    BY <1>3 DEF ReturnedOwn, MaximalWave
<1>6. WrittenOff'
    BY <1>1, <1>2, <1>3 DEF WrittenOff
<1>7. ContextComplete'
  <2>1. \A t \in Steps : Launched(t)' => Launched(t)
    BY <1>1, <1>2 DEF Launched, Executed, TerminalStatus
  <2>2. \A d \in Steps : status[d] = "completed" =>
            status'[d] = "completed" /\ result'[d] = result[d]
    BY <1>1, <1>2
  <2> QED BY <1>3, <2>1, <2>2 DEF ContextComplete
<1> QED BY <1>2, <1>4, <1>5, <1>6, <1>7

(* Writing off one blocked step keeps the invariant.                       *)
LEMMA FailBlockedStep ==
    ASSUME Inv, TypeOK', NEW s \in Steps, FailBlocked(s) PROVE Inv'
<1> USE DEF Inv
<1> DEFINE r == [step |-> s, status |-> "failed", by |-> "orchestrator",
                 blame |-> Unsatisfied(deps, status, s)]
<1>1. /\ pc = "block" /\ pc' = "block"
      /\ UNCHANGED <<deps, ready, context, returned>>
      /\ status[s] = "pending"
    BY DEF FailBlocked, IsLeast, NonTerminal, Phases, TypeOK, StepStatus, TerminalStatus
<1>2. r \in Result /\ r.blame # {}
  <2>1. Unsatisfied(deps, status, s) \in SUBSET Steps
    BY DEF Unsatisfied, ValidDeps, TypeOK
  <2> QED BY <1>1, <2>1 DEF Result, ResultStatus, Phases
<1>3. /\ Stored'
      /\ result'[s] = r /\ status'[s] = "failed"
      /\ \A t \in Steps \ {s} : result'[t] = result[t] /\ status'[t] = status[t]
  <2>1. status[s] \notin TerminalStatus /\ ApplyResult(s, r)
    BY <1>1 DEF TerminalStatus, FailBlocked
  <2> QED BY <1>2, <2>1, ApplyFacts DEF StepStatusOf
<1>4. \A t \in Steps : status'[t] = "completed" <=> status[t] = "completed"
    BY <1>1, <1>3
<1>5. \A t \in Steps : Unsatisfied(deps, status, t)' = Unsatisfied(deps, status, t)
    BY <1>1, <1>4 DEF Unsatisfied, TypeOK, ValidDeps
<1>6. Phases'
    BY <1>1, <1>3, <1>5 DEF Phases
<1>7. ReturnedOwn' /\ MaximalWave'
    BY <1>1 DEF ReturnedOwn, MaximalWave
<1>8. WrittenOff'
  <2>1. \A d \in r.blame : d \in Steps /\ d \in deps[s] /\ status[d] # "completed"
    BY DEF Unsatisfied, TypeOK, ValidDeps
  <2>2. \A t \in Steps : result[t].by = "orchestrator" =>
            \A d \in result[t].blame : d \in Steps
    BY DEF WrittenOff, TypeOK, ValidDeps
  <2> QED BY <1>1, <1>2, <1>3, <1>4, <2>1, <2>2 DEF WrittenOff
<1>9. ContextComplete'
  <2>1. \A t \in Steps : Launched(t)' => Launched(t)
    BY <1>1, <1>3 DEF Launched, Executed
  <2>2. \A d \in Steps : status[d] = "completed" =>
            status'[d] = "completed" /\ result'[d] = result[d]
    BY <1>1, <1>3
  <2> QED BY <1>1, <2>1, <2>2 DEF ContextComplete
<1> QED BY <1>3, <1>6, <1>7, <1>8, <1>9

(* Every step keeps the invariant.                                         *)
LEMMA InvStep == ASSUME Inv, [Next]_vars PROVE Inv'
<1>0. TypeOK'
  <2>1. TypeOK /\ ReturnedOwn /\ Phases
    BY DEF Inv
  <2> QED BY <2>1, TypeStep
<1>1. CASE Reject \/ Start \/ CancelRun \/ GatherDone \/ Block \/ Finish
  <2>1. /\ UNCHANGED <<deps, status, result, ready, context, returned>>
        /\ ~ pc \in {"block", "done"} \/ pc' = "done"
        /\ pc' # "gather"
    BY <1>1 DEF Reject, Start, CancelRun, GatherDone, Block, Finish
  <2>2. Phases'
    <3>1. pc' = "apply" => \A s \in Steps : status[s] = "running" =>
                                returned[s] # NoResult
      BY <1>1 DEF Inv, Phases, Reject, Start, CancelRun, GatherDone, Block, Finish
    <3>2. pc' = "block" => \A s \in Steps : status[s] = "pending" =>
                                Unsatisfied(deps, status, s) # {}
      BY <1>1 DEF Reject, Start, CancelRun, GatherDone, Block, Finish, ReadySteps
    <3>3. pc' = "done" => IsTerminal(status)
      BY <1>1 DEF Reject, Start, CancelRun, GatherDone, Block, Finish
    <3>4. IsTerminal(status)' = IsTerminal(status)
      BY <2>1 DEF IsTerminal
    <3>5. \A s \in Steps : Unsatisfied(deps, status, s)' = Unsatisfied(deps, status, s)
      BY <2>1 DEF Unsatisfied
    <3>6. pc' \in {"idle", "rejected"} => \A s \in Steps : status[s] = "pending"
      BY <1>1 DEF Inv, Phases, Reject, Start, CancelRun, GatherDone, Block, Finish
    <3>7. pc' \in {"loop", "block", "done"} => \A s \in Steps : status[s] # "running"
      BY <1>1 DEF Inv, Phases, Reject, Start, CancelRun, GatherDone, Block, Finish
    <3> QED BY <2>1, <3>1, <3>2, <3>3, <3>4, <3>5, <3>6, <3>7 DEF Phases
  <2>3. WrittenOff'
    BY <2>1 DEF Inv, WrittenOff
  <2>4. ReturnedOwn' /\ Stored' /\ MaximalWave'
    BY <2>1 DEF Inv, ReturnedOwn, Stored, MaximalWave
  <2>5. ContextComplete'
    BY <2>1 DEF Inv, ContextComplete, Launched, Executed
  <2> QED BY <1>0, <2>2, <2>3, <2>4, <2>5 DEF Inv
<1>2. CASE Schedule
  BY <1>0, <1>2, ScheduleStep
<1>3. ASSUME NEW s \in Steps, AgentReturns(s) PROVE Inv'
  <2>1. /\ UNCHANGED <<pc, deps, status, result, ready, context>>
        /\ pc = "gather"
    BY <1>3 DEF AgentReturns
  <2>2. ReturnedOwn'
    <3>1. PICK r \in DispatchResults(s) : returned' = [returned EXCEPT ![s] = r]
      BY <1>3 DEF AgentReturns
    <3> QED BY <3>1 DEF Inv, ReturnedOwn, TypeOK
  <2>3. Phases' /\ WrittenOff' /\ Stored' /\ MaximalWave'
    BY <2>1 DEF Inv, Phases, WrittenOff, Stored, MaximalWave
  <2>4. ContextComplete'
    BY <2>1 DEF Inv, ContextComplete, Launched, Executed
  <2> QED BY <1>0, <2>2, <2>3, <2>4 DEF Inv
<1>4. ASSUME NEW s \in Steps, ApplyNext(s) PROVE Inv'
  BY <1>0, <1>4, ApplyNextStep
<1>5. ASSUME NEW s \in Steps, FailBlocked(s) PROVE Inv'
  BY <1>0, <1>5, FailBlockedStep
<1>6. CASE UNCHANGED vars
  BY <1>6 DEF vars, Inv, TypeOK, Phases, ReturnedOwn, Stored, WrittenOff,
              MaximalWave, ContextComplete, Launched, Executed, IsTerminal,
              Unsatisfied
<1> QED BY <1>1, <1>2, <1>3, <1>4, <1>5, <1>6 DEF Next, RunStep

(* The invariant holds throughout every run.                               *)
THEOREM Invariance == Spec => []Inv
<1>1. Init => Inv
  BY InitInv
<1>2. Inv /\ [Next]_vars => Inv'
  BY InvStep
<1> QED BY <1>1, <1>2, PTL DEF Spec

-----------------------------------------------------------------------------
(* The state is well typed in every run, whatever the task.                *)
THEOREM TypeCorrect == Spec => []TypeOK
<1>1. Inv => TypeOK
  BY DEF Inv
<1> QED BY <1>1, Invariance, PTL

(* Every launched step has in its context exactly the stored results of    *)
(* its dependencies, all COMPLETED: no task makes _build_context miss or   *)
(* mix up an input.                                                        *)
THEOREM ContextCorrect == Spec => []ContextComplete
<1>1. Inv => ContextComplete
  BY DEF Inv
<1> QED BY <1>1, Invariance, PTL

(* Acyclicity turns the local reason of each write-off into a root cause:  *)
(* among the steps of a closed set that did not execute, one depends on    *)
(* executed steps only, and one of those did not complete.                 *)
LEMMA RootCauseFromInv == Inv => RootCause
<1> SUFFICES ASSUME Inv, NEW s \in Steps, result[s].by = "orchestrator"
             PROVE  /\ result[s].blame # {}
                    /\ \A d \in result[s].blame :
                          d \in deps[s] /\ status[d] # "completed"
                    /\ \A A \in SUBSET Steps :
                          (s \in A /\ \A t \in A : deps[t] \subseteq A) =>
                              \E t \in A : Executed(t) /\ status[t] # "completed"
  BY DEF RootCause
<1>1. /\ result[s].blame # {}
      /\ \A d \in result[s].blame : d \in deps[s] /\ status[d] # "completed"
      /\ pc \in {"block", "done"}
  BY DEF Inv, WrittenOff
<1>2. ASSUME NEW A \in SUBSET Steps, s \in A, \A t \in A : deps[t] \subseteq A
      PROVE  \E t \in A : Executed(t) /\ status[t] # "completed"
  <2> DEFINE S == {t \in A : ~ Executed(t)}
  <2>1. S \in SUBSET Steps /\ S # {}
    BY <1>2 DEF Executed
  <2>2. PICK t \in S : deps[t] \cap S = {}
    BY <2>1 DEF Inv, TypeOK, ValidDeps, Acyclic
  <2>3. \A d \in deps[t] : d \in A /\ Executed(d)
    BY <1>2, <2>2
  <2>4. \E d \in deps[t] : status[d] # "completed"
    <3>1. result[t] = NoResult \/ result[t].by = "orchestrator"
      BY <2>1 DEF Inv, TypeOK, MaybeResult, Result, Executed
    <3>2. CASE result[t] = NoResult
      <4>1. status[t] \notin TerminalStatus /\ status[t] # "running"
        BY <1>1, <2>1, <3>2 DEF Inv, Stored, Phases
      <4>2. status[t] = "pending" /\ pc = "block"
        BY <1>1, <2>1, <4>1 DEF Inv, Phases, IsTerminal, TypeOK, StepStatus, TerminalStatus
      <4> QED BY <2>1, <4>2 DEF Inv, Phases, Unsatisfied
    <3>3. CASE result[t].by = "orchestrator"
      BY <2>1, <3>3 DEF Inv, WrittenOff
    <3> QED BY <3>1, <3>2, <3>3
  <2> QED BY <2>3, <2>4
<1> QED BY <1>1, <1>2

(* In every run, whatever the task, a step is written off only because a   *)
(* step it transitively depends on ran and did not complete.               *)
THEOREM RootCauseCorrect == Spec => []RootCause
<1> QED BY RootCauseFromInv, Invariance, PTL

-----------------------------------------------------------------------------
(* No step of any run changes a stored result or a terminal status.        *)
THEOREM OutcomeFinalCorrect == Spec => OutcomeFinal
<1>1. ASSUME Inv, [Next]_vars, NEW s \in Steps, result[s] # NoResult
      PROVE  result'[s] = result[s] /\ status'[s] = status[s]
  <2>1. status[s] \in TerminalStatus
    BY <1>1 DEF Inv, Stored
  <2>2. CASE Schedule
    BY <2>1, <2>2 DEF Schedule, ReadySteps, TerminalStatus, Inv, TypeOK
  <2>3. ASSUME NEW t \in Steps, ApplyNext(t) \/ FailBlocked(t)
        PROVE  result'[s] = result[s] /\ status'[s] = status[s]
    <3>1. s # t
      BY <2>1, <2>3 DEF ApplyNext, FailBlocked, IsLeast, Running, NonTerminal, TerminalStatus
    <3>2. \E r : ApplyResult(t, r)
      BY <2>3 DEF ApplyNext, FailBlocked
    <3> QED BY <3>1, <3>2 DEF ApplyResult, Inv, TypeOK
  <2>4. CASE UNCHANGED <<result, status>>
    BY <2>4
  <2> QED BY <1>1, <2>2, <2>3, <2>4 DEF Next, RunStep, vars, Reject, Start,
             CancelRun, GatherDone, Block, Finish, AgentReturns
<1>2. Inv /\ [Next]_vars =>
          [\A s \in Steps : result[s] # NoResult =>
              result'[s] = result[s] /\ status'[s] = status[s]]_vars
  BY <1>1
<1> QED BY <1>2, Invariance, PTL DEF Spec, OutcomeFinal

(* What a step does to one step of the task: once launched it stays so,    *)
(* and a result that appears comes from gather or is a write-off.          *)
LEMMA ResultMoves ==
    ASSUME Inv, [Next]_vars, NEW s \in Steps
    PROVE  /\ Launched(s) => Launched(s)'
           /\ \/ result'[s] = result[s]
              \/ result'[s] = returned[s] /\ returned[s] # NoResult
              \/ result'[s].by = "orchestrator"
<1>1. CASE Schedule
  <2>1. UNCHANGED result /\ (status[s] = "running" => status'[s] = "running")
    BY <1>1 DEF Schedule
  <2> QED BY <2>1 DEF Launched, Executed
<1>2. ASSUME NEW t \in Steps, ApplyNext(t)
      PROVE  /\ Launched(s) => Launched(s)'
             /\ result'[s] = result[s] \/ (result'[s] = returned[s] /\ returned[s] # NoResult)
  <2>1. status[t] = "running" /\ returned[t] # NoResult
    BY <1>2 DEF ApplyNext, IsLeast, Running, Inv, Phases
  <2>2. returned[t].by \in {"agent", "dispatcher"}
    BY <2>1, DispatchFacts DEF Inv, ReturnedOwn
  <2>3. /\ result' = [result EXCEPT ![t] = returned[t]]
        /\ status' = [status EXCEPT ![t] = StepStatusOf(returned[t])]
    BY <1>2 DEF ApplyNext, ApplyResult
  <2> QED BY <2>1, <2>2, <2>3 DEF Launched, Executed, Inv, TypeOK
<1>3. ASSUME NEW t \in Steps, FailBlocked(t)
      PROVE  /\ Launched(s) => Launched(s)'
             /\ result'[s] = result[s] \/ result'[s].by = "orchestrator"
  <2>1. /\ status[t] # "running" /\ result[t] = NoResult
        /\ result' = [result EXCEPT ![t] = [step |-> t, status |-> "failed",
              by |-> "orchestrator", blame |-> Unsatisfied(deps, status, t)]]
        /\ \A u \in Steps : u # t => status'[u] = status[u]
    BY <1>3 DEF FailBlocked, ApplyResult, IsLeast, NonTerminal, Inv, Phases, Stored, TypeOK
  <2>2. ~ Launched(t)
    BY <2>1, ResultFacts DEF Launched, Executed
  <2> QED BY <2>1, <2>2 DEF Launched, Executed, Inv, TypeOK
<1>4. CASE UNCHANGED <<result, status>>
  BY <1>4 DEF Launched, Executed
<1> QED BY <1>1, <1>2, <1>3, <1>4 DEF Next, RunStep, vars, Reject, Start,
           CancelRun, GatherDone, Block, Finish, AgentReturns

(* The plan is fixed, and what COMPLETED did so by a result of its agent.  *)
LEMMA PlanStays == ASSUME [Next]_vars PROVE deps' = deps
BY DEF Next, RunStep, vars, Reject, Start, Schedule, AgentReturns, GatherDone, ApplyNext,
   Block, FailBlocked, Finish, CancelRun

LEMMA CompletedFacts ==
    ASSUME Inv, NEW s \in Steps, status[s] = "completed"
    PROVE  Launched(s)
<1>1. result[s] # NoResult /\ result[s] \in Result
  BY DEF Inv, Stored, TypeOK, MaybeResult, TerminalStatus
<1>2. result[s].by # "orchestrator"
  BY DEF Inv, WrittenOff
<1> QED BY <1>1, <1>2 DEF Launched, Executed, Result

-----------------------------------------------------------------------------
(* The run implements the abstract life cycle of its steps: Schedule is    *)
(* Launch, storing a result of the wave is End, failing a blocked step is  *)
(* WriteOff, and everything else leaves the statuses alone.                *)
THEOREM ImplementsLifecycle == Spec => LifecycleSpec
<1> USE DEF Lifecycle!Steps, Lifecycle!TerminalStatus, Lifecycle!ReadySteps,
            Lifecycle!Unsatisfied, Steps
<1>1. Init => Lifecycle!Init
  BY DEF Init, Lifecycle!Init, Lifecycle!ValidDeps, Lifecycle!Acyclic,
         ValidDeps, Acyclic
<1>2. ASSUME Inv, [Next]_vars PROVE [Lifecycle!Next]_(Lifecycle!vars)
  <2>1. CASE Schedule
    <3>1. Lifecycle!Quiescent
      BY <1>2, <2>1 DEF Inv, Phases, Schedule, Lifecycle!Quiescent
    <3>2. /\ ready' \in SUBSET ReadySteps(deps, status) /\ ready' # {}
          /\ status' = [s \in Steps |-> IF s \in ready' THEN "running" ELSE status[s]]
          /\ UNCHANGED deps
      BY <2>1 DEF Schedule
    <3>3. Lifecycle!Launch
      BY <3>1, <3>2 DEF Lifecycle!Launch, ReadySteps, Unsatisfied
    <3> QED BY <3>3 DEF Lifecycle!Next
  <2>2. ASSUME NEW s \in Steps, ApplyNext(s) PROVE Lifecycle!End(s)
    <3>1. status[s] = "running" /\ returned[s] \in Result
      BY <1>2, <2>2, DispatchFacts DEF Inv, Phases, ReturnedOwn, ApplyNext, IsLeast, Running
    <3>2. StepStatusOf(returned[s]) \in TerminalStatus
      BY <3>1, ResultFacts
    <3> QED BY <2>2, <3>1, <3>2 DEF Lifecycle!End, ApplyNext, ApplyResult, TerminalStatus
  <2>3. ASSUME NEW s \in Steps, FailBlocked(s) PROVE Lifecycle!WriteOff(s)
    <3>1. /\ status[s] = "pending" /\ Lifecycle!Quiescent
          /\ \A t \in Steps : status[t] = "pending" => Unsatisfied(deps, status, t) # {}
      BY <1>2, <2>3 DEF Inv, TypeOK, StepStatus, Phases, FailBlocked, IsLeast,
                        NonTerminal, TerminalStatus, Lifecycle!Quiescent
    <3>2. status' = [status EXCEPT ![s] = "failed"] /\ UNCHANGED deps
      BY <2>3 DEF FailBlocked, ApplyResult, StepStatusOf
    <3> QED BY <3>1, <3>2 DEF Lifecycle!WriteOff, Unsatisfied
  <2>4. CASE UNCHANGED <<deps, status>>
    BY <2>4 DEF Lifecycle!vars
  <2> QED BY <1>2, <2>1, <2>2, <2>3, <2>4 DEF Next, RunStep, vars, Reject, Start,
             CancelRun, GatherDone, Block, Finish, AgentReturns, Lifecycle!Next
<1> QED BY <1>1, <1>2, Invariance, PTL DEF Spec, LifecycleSpec, Lifecycle!Spec

-----------------------------------------------------------------------------
(* What a run streams.                                                     *)

(* Only PARTIAL events carry a result, and they always do.                 *)
EventsWellFormed ==
    \A i \in DOMAIN emitted :
        /\ emitted[i].kind = "partial" => emitted[i].result \in Result
        /\ emitted[i].kind # "partial" => emitted[i].result = NoResult

StreamInv == Inv /\ EventsWellFormed /\ StreamLedger /\ CausalStream

LEMMA EventFacts ==
    /\ StartedEvent.kind = "started" /\ StartedEvent.result = NoResult
    /\ DoneEvent.kind = "done" /\ DoneEvent.result = NoResult
    /\ \A r : PartialEvent(r).kind = "partial" /\ PartialEvent(r).result = r
    /\ NoResult.step \notin Steps /\ NoResult.by \notin {"agent", "dispatcher"}
    /\ \A r \in Result : r.step \in Steps
    /\ StartedEvent \in Event /\ DoneEvent \in Event
    /\ \A r \in Result : PartialEvent(r) \in Event
BY NAssumption DEF StartedEvent, DoneEvent, PartialEvent, NoResult, Steps, Result,
                   Event, MaybeResult

LEMMA EmitFacts ==
    ASSUME TypeOK, NEW e \in Event, emitted' = Append(emitted, e)
    PROVE  /\ Len(emitted) \in Nat /\ DOMAIN emitted = 1..Len(emitted)
           /\ DOMAIN emitted' = 1..(Len(emitted) + 1)
           /\ Len(emitted') = Len(emitted) + 1
           /\ emitted'[Len(emitted) + 1] = e
           /\ \A i \in DOMAIN emitted : emitted'[i] = emitted[i]
           /\ emitted' # <<>>
           /\ (emitted = <<>>) <=> (Len(emitted) = 0)
BY DEF TypeOK

LEMMA StreamInit == Init => StreamInv
<1> SUFFICES ASSUME Init PROVE StreamInv
  OBVIOUS
<1>1. DOMAIN emitted = {} /\ pc = "idle" /\ emitted = <<>>
  BY DEF Init
<1>2. \A s \in Steps : result[s] = NoResult /\ status[s] \notin TerminalStatus
  BY DEF Init, TerminalStatus
<1> QED BY <1>1, <1>2, InitInv DEF StreamInv, EventsWellFormed, StreamLedger, CausalStream

(* A step that emits nothing keeps the stream's story: it changes no       *)
(* result, and neither begins nor ends the run.                            *)
LEMMA QuietStep ==
    ASSUME StreamInv, Inv', UNCHANGED <<deps, result, emitted>>,
           pc' \in {"idle", "rejected"} <=> pc \in {"idle", "rejected"},
           pc' = "done" <=> pc = "done"
    PROVE  StreamInv'
<1>1. EventsWellFormed'
  BY DEF StreamInv, EventsWellFormed
<1>2. CausalStream'
  BY DEF StreamInv, CausalStream
<1>3. StreamLedger'
  <2>1. \A s \in Steps : result'[s] # NoResult <=> status'[s] \in TerminalStatus
    BY DEF Inv, Stored
  <2>2. pc' = "done" => IsTerminal(status)'
    BY DEF Inv, Phases
  <2>3. emitted' = <<>> <=> pc' \in {"idle", "rejected"}
    BY DEF StreamInv, StreamLedger
  <2>4. \A i \in DOMAIN emitted' :
            /\ emitted'[i].kind = "started" <=> i = 1
            /\ emitted'[i].kind = "done" <=> (i = Len(emitted') /\ pc' = "done")
            /\ emitted'[i].kind = "partial" =>
                   result'[emitted'[i].result.step] = emitted'[i].result
    BY DEF StreamInv, StreamLedger
  <2>5. \A s \in Steps : result'[s] # NoResult =>
            \E i \in DOMAIN emitted' :
                /\ emitted'[i] = PartialEvent(result'[s])
                /\ \A j \in DOMAIN emitted' : emitted'[j].result.step = s => j = i
    BY DEF StreamInv, StreamLedger, PartialEvent
  <2> QED BY <2>1, <2>2, <2>3, <2>4, <2>5 DEF StreamLedger
<1> QED BY <1>1, <1>2, <1>3 DEF StreamInv

(* Emitting the outcome of a step that had none adds one line about that   *)
(* step, behind the lines about the dependencies of an executed one.       *)
LEMMA PartialStep ==
    ASSUME StreamInv, Inv', NEW s \in Steps, NEW r \in Result, r.step = s,
           ApplyResult(s, r), result[s] = NoResult, UNCHANGED deps,
           pc \in {"apply", "block"}, pc' \in {"loop", "apply", "block"},
           r.by \in {"agent", "dispatcher"} => status[s] = "running"
    PROVE  StreamInv'
<1> DEFINE n == Len(emitted) + 1
<1>1. /\ emitted' = Append(emitted, PartialEvent(r)) /\ PartialEvent(r) \in Event
      /\ result'[s] = r /\ \A t \in Steps \ {s} : result'[t] = result[t]
  BY EventFacts DEF ApplyResult, StreamInv, Inv, TypeOK
<1>2. /\ Len(emitted) \in Nat /\ DOMAIN emitted = 1..Len(emitted)
      /\ DOMAIN emitted' = 1..n /\ Len(emitted') = n
      /\ emitted'[n] = PartialEvent(r) /\ emitted' # <<>>
      /\ \A i \in DOMAIN emitted : emitted'[i] = emitted[i]
      /\ (emitted = <<>>) <=> (Len(emitted) = 0)
  BY <1>1, EmitFacts DEF StreamInv, Inv
<1>3. Len(emitted) # 0
  BY <1>2 DEF StreamInv, StreamLedger
<1>4. \A i \in DOMAIN emitted' :
          \/ i = n /\ emitted'[i].kind = "partial" /\ emitted'[i].result = r
          \/ i \in DOMAIN emitted /\ i < n /\ emitted'[i] = emitted[i]
  BY <1>2, EventFacts
<1>5. \A i \in DOMAIN emitted : emitted[i].result.step # s
  BY EventFacts, ResultFacts DEF StreamInv, EventsWellFormed, StreamLedger
<1>6. EventsWellFormed'
  BY <1>4 DEF StreamInv, EventsWellFormed
<1>7. StreamLedger'
  <2>1. \A i \in DOMAIN emitted' :
            /\ emitted'[i].kind = "started" <=> i = 1
            /\ emitted'[i].kind = "done" <=> (i = Len(emitted') /\ pc' = "done")
            /\ emitted'[i].kind = "partial" =>
                   result'[emitted'[i].result.step] = emitted'[i].result
    <3> SUFFICES ASSUME NEW i \in DOMAIN emitted'
                 PROVE  /\ emitted'[i].kind = "started" <=> i = 1
                        /\ emitted'[i].kind # "done" /\ pc' # "done"
                        /\ emitted'[i].kind = "partial" =>
                               result'[emitted'[i].result.step] = emitted'[i].result
      OBVIOUS
    <3>1. CASE i = n
      BY <1>1, <1>2, <1>3, <3>1, EventFacts
    <3>2. CASE i \in DOMAIN emitted /\ emitted'[i] = emitted[i]
      <4>1. emitted[i].kind = "started" <=> i = 1
        BY <3>2 DEF StreamInv, StreamLedger
      <4>2. emitted[i].kind # "done" /\ pc' # "done"
        BY <3>2 DEF StreamInv, StreamLedger
      <4>3. emitted[i].kind = "partial" =>
                /\ result[emitted[i].result.step] = emitted[i].result
                /\ emitted[i].result.step \in Steps
        BY <3>2, EventFacts DEF StreamInv, StreamLedger, EventsWellFormed
      <4> QED BY <1>1, <1>5, <3>2, <4>1, <4>2, <4>3
    <3> QED BY <1>4, <3>1, <3>2
  <2>2. ASSUME NEW t \in Steps, result'[t] # NoResult
        PROVE  \E i \in DOMAIN emitted' :
                  /\ emitted'[i] = PartialEvent(result'[t])
                  /\ \A j \in DOMAIN emitted' : emitted'[j].result.step = t => j = i
    <3>1. CASE t = s
      BY <1>1, <1>2, <1>4, <1>5, <3>1
    <3>2. CASE t # s
      <4>1. PICK i \in DOMAIN emitted :
                /\ emitted[i] = PartialEvent(result[t])
                /\ \A j \in DOMAIN emitted : emitted[j].result.step = t => j = i
        BY <1>1, <2>2, <3>2 DEF StreamInv, StreamLedger
      <4>2. i \in DOMAIN emitted' /\ emitted'[i] = PartialEvent(result'[t])
        BY <1>1, <1>2, <3>2, <4>1
      <4>3. \A j \in DOMAIN emitted' : emitted'[j].result.step = t => j = i
        BY <1>4, <3>2, <4>1
      <4> QED BY <4>2, <4>3
    <3> QED BY <3>1, <3>2
  <2>3. \A t \in Steps : result'[t] # NoResult <=> status'[t] \in TerminalStatus
    BY DEF Inv, Stored
  <2> QED BY <1>2, <2>1, <2>2, <2>3 DEF StreamLedger
<1>8. CausalStream'
  <2>1. ASSUME r.by \in {"agent", "dispatcher"}, NEW d \in deps[s]
        PROVE  \E j \in DOMAIN emitted :
                  emitted[j].result.step = d /\ emitted[j].result.status = "ok"
    <3>1. d \in Steps
      BY DEF StreamInv, Inv, TypeOK, ValidDeps
    <3>2. status[d] = "completed" /\ result[d].step = d
      BY <2>1, <3>1 DEF StreamInv, Inv, ContextComplete, Launched
    <3>3. result[d] # NoResult /\ result[d] \in Result
      BY <3>1, <3>2 DEF StreamInv, Inv, Stored, TerminalStatus, TypeOK, MaybeResult
    <3>4. result[d].status = "ok"
      BY <3>1, <3>2, <3>3, ResultFacts DEF StreamInv, Inv, Stored
    <3>5. PICK j \in DOMAIN emitted : emitted[j] = PartialEvent(result[d])
      BY <3>1, <3>3 DEF StreamInv, StreamLedger
    <3> QED BY <3>2, <3>4, <3>5, EventFacts
  <2>2. ASSUME NEW i \in DOMAIN emitted', emitted'[i].result.by \in {"agent", "dispatcher"},
               NEW d \in deps[emitted'[i].result.step]
        PROVE  \E j \in 1..(i - 1) : emitted'[j].result.step = d
                                     /\ emitted'[j].result.status = "ok"
    <3>1. CASE i = n /\ emitted'[i].result = r
      <4>1. PICK j \in DOMAIN emitted :
                emitted[j].result.step = d /\ emitted[j].result.status = "ok"
        BY <2>1, <2>2, <3>1
      <4> QED BY <1>2, <3>1, <4>1
    <3>2. CASE i \in DOMAIN emitted /\ emitted'[i] = emitted[i]
      <4>1. PICK j \in 1..(i - 1) : emitted[j].result.step = d
                                    /\ emitted[j].result.status = "ok"
        BY <2>2, <3>2 DEF StreamInv, CausalStream
      <4>2. j \in DOMAIN emitted
        BY <1>2, <3>2, <4>1
      <4> QED BY <1>2, <4>1, <4>2
    <3> QED BY <1>4, <3>1, <3>2
  <2> QED BY <2>2 DEF CausalStream
<1> QED BY <1>6, <1>7, <1>8 DEF StreamInv

(* STARTED is the first event and DONE the last.                           *)
LEMMA StartStep == ASSUME StreamInv, Inv', Start PROVE StreamInv'
<1>1. /\ pc = "idle" /\ pc' = "loop" /\ emitted' = Append(emitted, StartedEvent)
      /\ UNCHANGED <<deps, status, result>> /\ emitted = <<>>
  BY DEF Start, StreamInv, StreamLedger
<1>2. \A s \in Steps : result'[s] = NoResult /\ status'[s] \notin TerminalStatus
  BY <1>1 DEF StreamInv, Inv, Phases, Stored, TerminalStatus
<1>3. /\ DOMAIN emitted' = {1} /\ Len(emitted') = 1 /\ emitted'[1] = StartedEvent
      /\ emitted' # <<>>
  BY <1>1
<1> QED BY <1>1, <1>2, <1>3, EventFacts DEF StreamInv, EventsWellFormed, StreamLedger, CausalStream

LEMMA FinishStep == ASSUME StreamInv, Inv', Finish PROVE StreamInv'
<1> DEFINE n == Len(emitted) + 1
<1>1. /\ pc \in {"loop", "block"} /\ pc' = "done"
      /\ emitted' = Append(emitted, DoneEvent)
      /\ UNCHANGED <<deps, status, result>> /\ IsTerminal(status)
  BY DEF Finish
<1>2. /\ Len(emitted) \in Nat /\ DOMAIN emitted = 1..Len(emitted)
      /\ DOMAIN emitted' = 1..n /\ Len(emitted') = n
      /\ emitted'[n] = DoneEvent /\ emitted' # <<>>
      /\ \A i \in DOMAIN emitted : emitted'[i] = emitted[i]
      /\ (emitted = <<>>) <=> (Len(emitted) = 0)
  BY <1>1, EmitFacts, EventFacts DEF StreamInv, Inv
<1>3. Len(emitted) # 0
  BY <1>1, <1>2 DEF StreamInv, StreamLedger
<1>4. \A i \in DOMAIN emitted' :
          \/ i = n /\ emitted'[i].kind = "done" /\ emitted'[i].result = NoResult
          \/ i \in DOMAIN emitted /\ i < n /\ emitted'[i] = emitted[i]
  BY <1>2, EventFacts
<1>5. EventsWellFormed'
  BY <1>4 DEF StreamInv, EventsWellFormed
<1>6. StreamLedger'
  <2>1. \A i \in DOMAIN emitted' :
            /\ emitted'[i].kind = "started" <=> i = 1
            /\ emitted'[i].kind = "done" <=> (i = Len(emitted') /\ pc' = "done")
            /\ emitted'[i].kind = "partial" =>
                   result'[emitted'[i].result.step] = emitted'[i].result
    <3> SUFFICES ASSUME NEW i \in DOMAIN emitted'
                 PROVE  /\ emitted'[i].kind = "started" <=> i = 1
                        /\ emitted'[i].kind = "done" <=> i = n
                        /\ emitted'[i].kind = "partial" =>
                               result'[emitted'[i].result.step] = emitted'[i].result
      BY <1>1, <1>2
    <3>1. CASE i = n /\ emitted'[i].kind = "done"
      BY <1>2, <1>3, <3>1
    <3>2. CASE i \in DOMAIN emitted /\ i < n /\ emitted'[i] = emitted[i]
      <4>1. emitted[i].kind # "done"
        BY <1>1, <3>2 DEF StreamInv, StreamLedger
      <4>2. emitted[i].kind = "started" <=> i = 1
        BY <3>2 DEF StreamInv, StreamLedger
      <4>3. emitted[i].kind = "partial" =>
                result[emitted[i].result.step] = emitted[i].result
        BY <3>2 DEF StreamInv, StreamLedger
      <4> QED BY <1>1, <3>2, <4>1, <4>2, <4>3
    <3> QED BY <1>4, <3>1, <3>2
  <2>2. ASSUME NEW s \in Steps, result'[s] # NoResult
        PROVE  \E i \in DOMAIN emitted' :
                  /\ emitted'[i] = PartialEvent(result'[s])
                  /\ \A j \in DOMAIN emitted' : emitted'[j].result.step = s => j = i
    <3>1. PICK i \in DOMAIN emitted :
              /\ emitted[i] = PartialEvent(result[s])
              /\ \A j \in DOMAIN emitted : emitted[j].result.step = s => j = i
      BY <1>1, <2>2 DEF StreamInv, StreamLedger
    <3>2. i \in DOMAIN emitted' /\ emitted'[i] = PartialEvent(result'[s])
      BY <1>1, <1>2, <3>1
    <3>3. \A j \in DOMAIN emitted' : emitted'[j].result.step = s => j = i
      BY <1>4, <3>1, EventFacts
    <3> QED BY <3>2, <3>3
  <2>3. \A s \in Steps : result'[s] # NoResult <=> status'[s] \in TerminalStatus
    BY DEF Inv, Stored
  <2>4. IsTerminal(status)'
    BY <1>1 DEF IsTerminal
  <2> QED BY <1>1, <1>2, <2>1, <2>2, <2>3, <2>4 DEF StreamLedger
<1>7. CausalStream'
  <2> SUFFICES ASSUME NEW i \in DOMAIN emitted',
                      emitted'[i].result.by \in {"agent", "dispatcher"},
                      NEW d \in deps[emitted'[i].result.step]
               PROVE  \E j \in 1..(i - 1) : emitted'[j].result.step = d
                                            /\ emitted'[j].result.status = "ok"
    BY <1>1 DEF CausalStream
  <2>1. i \in DOMAIN emitted /\ emitted'[i] = emitted[i]
    BY <1>4, EventFacts
  <2>2. PICK j \in 1..(i - 1) : emitted[j].result.step = d
                                /\ emitted[j].result.status = "ok"
    BY <2>1 DEF StreamInv, CausalStream
  <2>3. j \in DOMAIN emitted
    BY <1>2, <2>1, <2>2
  <2> QED BY <1>2, <2>2, <2>3
<1> QED BY <1>5, <1>6, <1>7 DEF StreamInv

LEMMA StreamStep == ASSUME StreamInv, [Next]_vars PROVE StreamInv'
<1>1. Inv'
  BY InvStep DEF StreamInv
<1>2. CASE Start
  BY <1>1, <1>2, StartStep
<1>3. CASE Finish
  BY <1>1, <1>3, FinishStep
<1>4. CASE Reject \/ Schedule \/ GatherDone \/ Block \/ CancelRun \/ UNCHANGED vars
           \/ \E s \in Steps : AgentReturns(s)
  <2>1. /\ UNCHANGED <<deps, result, emitted>>
        /\ pc' \in {"idle", "rejected"} <=> pc \in {"idle", "rejected"}
        /\ pc' = "done" <=> pc = "done"
    BY <1>4 DEF Reject, Schedule, GatherDone, Block, CancelRun, AgentReturns, vars
  <2> QED BY <1>1, <2>1, QuietStep
<1>5. ASSUME NEW s \in Steps, ApplyNext(s) PROVE StreamInv'
  <2>1. pc = "apply" /\ status[s] = "running" /\ returned[s] # NoResult
    BY <1>5 DEF ApplyNext, IsLeast, Running, StreamInv, Inv, Phases
  <2>2. returned[s] \in Result /\ returned[s].step = s
    BY <2>1, DispatchFacts DEF StreamInv, Inv, ReturnedOwn
  <2>3. result[s] = NoResult
    BY <2>1 DEF StreamInv, Inv, Stored, TerminalStatus
  <2>4. ApplyResult(s, returned[s]) /\ UNCHANGED deps /\ pc' \in {"loop", "apply", "block"}
    BY <1>5 DEF ApplyNext
  <2> QED BY <1>1, <2>1, <2>2, <2>3, <2>4, PartialStep
<1>6. ASSUME NEW s \in Steps, FailBlocked(s) PROVE StreamInv'
  <2> DEFINE r == [step |-> s, status |-> "failed", by |-> "orchestrator",
                   blame |-> Unsatisfied(deps, status, s)]
  <2>1. /\ pc = "block" /\ pc' = "block" /\ UNCHANGED deps /\ ApplyResult(s, r)
        /\ status[s] \notin TerminalStatus
    BY <1>6 DEF FailBlocked, IsLeast, NonTerminal
  <2>2. result[s] = NoResult
    BY <2>1 DEF StreamInv, Inv, Stored
  <2>3. Unsatisfied(deps, status, s) \in SUBSET Steps
    BY DEF Unsatisfied, StreamInv, Inv, TypeOK, ValidDeps
  <2>4. r \in Result /\ r.step = s /\ r.by = "orchestrator"
    BY <2>3 DEF Result, ResultStatus
  <2> HIDE DEF r
  <2> QED BY <1>1, <2>1, <2>2, <2>4, PartialStep
<1> QED BY <1>2, <1>3, <1>4, <1>5, <1>6 DEF Next, RunStep

LEMMA StreamInvariance == Spec => []StreamInv
<1>1. Init => StreamInv
  BY StreamInit
<1>2. StreamInv /\ [Next]_vars => StreamInv'
  BY StreamStep
<1> QED BY <1>1, <1>2, PTL DEF Spec

(* In every run of every task the stream is STARTED, one PARTIAL for each  *)
(* stored result, and DONE exactly at the end, with every step terminal.   *)
THEOREM StreamLedgerCorrect == Spec => []StreamLedger
<1>1. StreamInv => StreamLedger
  BY DEF StreamInv
<1> QED BY <1>1, StreamInvariance, PTL

(* In every run of every task the outcome of an executed step is streamed  *)
(* after the success of each of its dependencies, list order or not.       *)
THEOREM CausalStreamCorrect == Spec => []CausalStream
<1>1. StreamInv => CausalStream
  BY DEF StreamInv
<1> QED BY <1>1, StreamInvariance, PTL
=============================================================================
