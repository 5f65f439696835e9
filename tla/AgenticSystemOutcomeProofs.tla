--------------------- MODULE AgenticSystemOutcomeProofs ---------------------
(***************************************************************************)
(* What a run of AgenticSystem.tla comes to, for every plan, provider and  *)
(* size: what the consumer has seen of it, and what explains the outcome   *)
(* of every step.  By ComposesCorrect the invariants of the components     *)
(* hold here; these theorems combine them.                                 *)
(***************************************************************************)
EXTENDS AgenticSystemProofs, WellFoundedInduction

BusP == INSTANCE StreamBusProofs
          WITH Sizes <- BusSizes, Policies <- {"drop_oldest"}, MaxEvents <- N + 2,
               policy <- "drop_oldest", queue <- stream, emitted <- Len(emitted)

RunP == INSTANCE OrchestratorProofs WITH Routable <- Steps

(* The bus of the system is one of those StreamBusProofs is about.         *)
LEMMA BusAssumption == BusP!StreamBusAssumption
BY NAssumption, WiringAssumption DEF BusP!StreamBusAssumption

LEMMA BusIsBus == Bus!Spec => BusP!Spec
<1>1. Bus!Init => BusP!Init
  BY DEF Bus!Init, BusP!Init
<1>2. Bus!Emit => BusP!Emit
  BY DEF Bus!Emit, BusP!Emit, Bus!HasRoom, BusP!HasRoom,
     Bus!QueueAfterMarker, BusP!QueueAfterMarker, Bus!Announces, BusP!Announces,
     Bus!DroppedAfterMarker, BusP!DroppedAfterMarker, Bus!Replace, BusP!Replace,
     Bus!EventItem, BusP!EventItem, Bus!Marker, BusP!Marker
<1>3. Bus!Close => BusP!Close
  BY DEF Bus!Close, BusP!Close, Bus!ClosedQueue, BusP!ClosedQueue,
     Bus!ForcePut, BusP!ForcePut, Bus!HasRoom, BusP!HasRoom,
     Bus!Marker, BusP!Marker, Bus!Sentinel, BusP!Sentinel
<1>4. Bus!Deliver => BusP!Deliver
  BY DEF Bus!Deliver, BusP!Deliver, Bus!Sentinel, BusP!Sentinel
<1>5. [Bus!Next]_(Bus!vars) => [BusP!Next]_(BusP!vars)
  BY <1>2, <1>3, <1>4 DEF Bus!Next, BusP!Next, Bus!vars, BusP!vars
<1> QED BY <1>1, <1>5, PTL DEF Bus!Spec, BusP!Spec

(* So everything StreamBusProofs shows of a bus holds of this one.         *)
LEMMA BusInvariance == Spec => [](BusP!Inv /\ BusP!AllThere /\ BusP!LastWord)
<1>1. Spec => BusP!Spec
  BY ComposesCorrect, BusIsBus DEF Composes
<1> QED BY <1>1, BusAssumption, BusP!LastWordCorrect

(* And so does what OrchestratorProofs shows of a run, all of whose agents *)
(* are registered here.                                                    *)
LEMMA RunInits == Run!Init => RunP!Init
BY DEF Run!Init, RunP!Init, Run!ValidDeps, RunP!ValidDeps, Run!Acyclic, RunP!Acyclic,
   Run!Steps, RunP!Steps, Run!NoResult, RunP!NoResult

LEMMA RunSteps == [Run!Next]_(Run!vars) => [RunP!Next]_(RunP!vars)
<1>1. \A s : (Run!AgentReturns(s) => RunP!AgentReturns(s))
  BY DEF Run!AgentReturns, RunP!AgentReturns, Run!DispatchResults, RunP!DispatchResults,
     Run!ExecuteResults, RunP!ExecuteResults, Run!ResultStatus, RunP!ResultStatus,
     Run!NoResult, RunP!NoResult
<1>2. Run!Schedule => RunP!Schedule
  BY DEF Run!Schedule, RunP!Schedule, Run!ReadySteps, RunP!ReadySteps,
     Run!Unsatisfied, RunP!Unsatisfied, Run!IsTerminal, RunP!IsTerminal,
     Run!TerminalStatus, RunP!TerminalStatus, Run!BuildContext, RunP!BuildContext,
     Run!Steps, RunP!Steps, Run!NoResult, RunP!NoResult
<1>3. \A s : (Run!ApplyNext(s) => RunP!ApplyNext(s))
  BY DEF Run!ApplyNext, RunP!ApplyNext, Run!IsLeast, RunP!IsLeast, Run!Running, RunP!Running,
     Run!Steps, RunP!Steps, Run!ApplyResult, RunP!ApplyResult,
     Run!StepStatusOf, RunP!StepStatusOf, Run!PartialEvent, RunP!PartialEvent
<1>4. \A s : (Run!FailBlocked(s) => RunP!FailBlocked(s))
  BY DEF Run!FailBlocked, RunP!FailBlocked, Run!IsLeast, RunP!IsLeast,
     Run!NonTerminal, RunP!NonTerminal, Run!TerminalStatus, RunP!TerminalStatus,
     Run!Unsatisfied, RunP!Unsatisfied,
     Run!Steps, RunP!Steps, Run!ApplyResult, RunP!ApplyResult,
     Run!StepStatusOf, RunP!StepStatusOf, Run!PartialEvent, RunP!PartialEvent
<1>5. Run!Reject \/ Run!Start \/ Run!GatherDone \/ Run!Block \/ Run!Finish \/ Run!CancelRun =>
      RunP!Reject \/ RunP!Start \/ RunP!GatherDone \/ RunP!Block \/ RunP!Finish \/ RunP!CancelRun
  BY DEF Run!Reject, RunP!Reject, Run!Start, RunP!Start, Run!GatherDone, RunP!GatherDone,
     Run!Block, RunP!Block, Run!Finish, RunP!Finish, Run!CancelRun, RunP!CancelRun,
     Run!IsTerminal, RunP!IsTerminal, Run!TerminalStatus, RunP!TerminalStatus,
     Run!ReadySteps, RunP!ReadySteps, Run!Unsatisfied, RunP!Unsatisfied,
     Run!Steps, RunP!Steps, Run!NoResult, RunP!NoResult,
     Run!StartedEvent, RunP!StartedEvent, Run!DoneEvent, RunP!DoneEvent
<1> QED BY <1>1, <1>2, <1>3, <1>4, <1>5
        DEF Run!Next, RunP!Next, Run!RunStep, RunP!RunStep, Run!vars, RunP!vars,
            Run!Steps, RunP!Steps

LEMMA RunAssumptions == RunP!NAssumption /\ RunP!RoutableAssumption
BY NAssumption DEF RunP!NAssumption, RunP!RoutableAssumption, RunP!Steps, Steps

LEMMA RunInvariance == Spec => []RunP!StreamInv
<1>1. Spec => RunP!Spec
  BY ComposesCorrect, RunInits, RunSteps, PTL DEF Composes, Run!Spec, RunP!Spec
<1> QED BY <1>1, RunAssumptions, RunP!StreamInvariance

-----------------------------------------------------------------------------
(* The consumer ends at the sentinel only.                                 *)
EndedByStream == consumer = "ended" => finished

LEMMA EndedByStreamStep == ASSUME EndedByStream, [Next]_vars PROVE EndedByStream'
<1>1. CASE ConsumerTakes \/ PrintFails
  BY <1>1 DEF ConsumerTakes, PrintFails, EndedByStream
<1>2. CASE CancelCleanUp
  BY <1>2 DEF CancelCleanUp, EndedByStream, busVars
<1>3. CASE \/ Orchestrate \/ CloseStream
  BY <1>3 DEF Orchestrate, EmitOnBus, CloseStream, Bus!Emit, Bus!Close, EndedByStream, busVars,
     demoVars
<1>4. CASE \/ LoopMoves(1) \/ (\E c \in Callers : CallMoves(c)) \/ TimePasses
           \/ DrainGoesOn \/ CancelRun \/ (\E s \in Steps : AgentSubmits(s) \/ AgentAnswers(s))
           \/ ConsumerRaises \/ StopBatcher \/ StopGoesOn \/ RunDemoEnds \/ UNCHANGED vars
  <2>1. UNCHANGED <<consumer, finished>>
    BY <1>4 DEF LoopMoves, CallMoves, TimePasses, DrainGoesOn, CancelRun, AgentSubmits,
       AgentAnswers, ConsumerRaises, StopBatcher, StopGoesOn, RunDemoEnds, vars, busVars,
       demoVars
  <2> QED BY <2>1 DEF EndedByStream
<1> QED BY <1>1, <1>2, <1>3, <1>4 DEF Next, Progress

(* By the time it ends the consumer of a large bus has been handed every   *)
(* event of the run in order, and that of any bus of two or more has seen  *)
(* DONE or a marker, however the run went, slow or fast (cli.py:187-205,   *)
(* streaming.py:251-275).                                                  *)
THEOREM ConsumerSeesTheRunCorrect == Spec => []ConsumerSeesTheRun
<1>1. Init => EndedByStream
  BY DEF Init, EndedByStream
<1>2. EndedByStream /\ [Next]_vars => EndedByStream'
  BY EndedByStreamStep
<1>3. /\ BusP!Inv /\ BusP!AllThere /\ BusP!LastWord /\ RunP!StreamInv /\ EndedByStream
      => ConsumerSeesTheRun
  <2> SUFFICES ASSUME BusP!Inv, BusP!AllThere, BusP!LastWord, RunP!StreamInv, EndedByStream,
                      consumer = "ended"
               PROVE  /\ maxsize > Len(emitted) =>
                            delivered = [i \in DOMAIN emitted |-> Bus!EventItem(i)]
                      /\ maxsize >= 2 /\ pc = "done" =>
                            \E i \in DOMAIN delivered :
                                \/ delivered[i] = Bus!EventItem(Len(emitted))
                                \/ delivered[i].kind = "dropped"
    BY DEF ConsumerSeesTheRun
  <2>1. finished /\ closed /\ stream = <<>>
    BY DEF EndedByStream, BusP!Inv, BusP!SentinelLast
  <2>2. \A n : Bus!EventItem(n) = BusP!EventItem(n)
    BY DEF Bus!EventItem, BusP!EventItem
  <2>3. delivered \in Seq(BusP!Item) /\ maxsize \in Nat
    BY WiringAssumption DEF BusP!Inv, BusP!TypeOK
  <2>4. emitted \in Seq(RunP!Event) /\ (emitted = <<>> <=> pc \in {"idle", "rejected"})
    BY DEF RunP!StreamInv, RunP!Inv, RunP!TypeOK, RunP!StreamLedger
  <2>5. ASSUME maxsize > Len(emitted)
        PROVE  delivered = [i \in DOMAIN emitted |-> Bus!EventItem(i)]
    <3>1. /\ Len(delivered) = Len(emitted)
          /\ \A i \in DOMAIN delivered : delivered[i] = BusP!EventItem(i)
      <4>1. Len(emitted) < maxsize /\ Len(stream) = 0 /\ Len(delivered) \in Nat
        BY <2>1, <2>3, <2>4, <2>5
      <4> QED BY <2>1, <4>1 DEF BusP!AllThere
    <3>2. DOMAIN delivered = DOMAIN emitted
      BY <2>3, <2>4, <3>1
    <3>3. delivered = [i \in DOMAIN delivered |-> delivered[i]]
      BY <2>3
    <3> QED BY <2>2, <3>1, <3>2, <3>3
  <2>6. ASSUME maxsize >= 2, pc = "done"
        PROVE  \E i \in DOMAIN delivered : \/ delivered[i] = Bus!EventItem(Len(emitted))
                                           \/ delivered[i].kind = "dropped"
    <3>1. Len(emitted) > 0
      BY <2>4, <2>6
    <3>2. ~ BusP!Shows(stream)
      BY <2>1 DEF BusP!Shows
    <3>3. BusP!Shows(delivered)
      BY <2>1, <2>6, <3>1, <3>2 DEF BusP!LastWord
    <3> QED BY <2>2, <3>3 DEF BusP!Shows, BusP!IsMarker
  <2> QED BY <2>5, <2>6
<1> QED BY <1>1, <1>2, <1>3, BusInvariance, RunInvariance, PTL DEF Spec

-----------------------------------------------------------------------------
(* Nor is the batcher of the system any other than that of BatcherProofs.  *)
BatchP == INSTANCE BatcherProofs
            WITH Requests <- Steps, Stamps <- {0}, MaxLoops <- 1, Stoppers <- {Main},
                 Cancellable <- {Main}, SwallowsCancel <- TRUE, queue <- inbox

LEMMA BatchIsBatch == Batch!Spec => BatchP!Spec
<1> USE DEF Batch!Loops, BatchP!Loops, Batch!NoLoop, BatchP!NoLoop,
            Batch!Running, BatchP!Running, Batch!Unborn, BatchP!Unborn,
            Batch!Pending, BatchP!Pending
<1>1. Batch!Init => BatchP!Init
  BY DEF Batch!Init, BatchP!Init
<1>2. Batch!EnsureRunning => BatchP!EnsureRunning
  BY DEF Batch!EnsureRunning, BatchP!EnsureRunning
<1>3. \A r \in Steps : Batch!Submit(r) => BatchP!Submit(r)
  BY <1>2 DEF Batch!Submit, BatchP!Submit
<1>4. /\ Batch!Start => BatchP!Start
      /\ Batch!Tick => BatchP!Tick
      /\ \A R : (Batch!CancelSubmit(R) => BatchP!CancelSubmit(R))
  BY <1>2 DEF Batch!Start, BatchP!Start, Batch!Tick, BatchP!Tick,
     Batch!CancelSubmit, BatchP!CancelSubmit, Batch!Cancelled, BatchP!Cancelled
<1>5. \A b : (Batch!Flushed(b) => BatchP!Flushed(b))
  BY DEF Batch!Flushed, BatchP!Flushed, Batch!CallResults, BatchP!CallResults,
     Batch!DegradedCompletions, BatchP!DegradedCompletions,
     Batch!Completion, BatchP!Completion, Batch!Settle, BatchP!Settle,
     Batch!Elements, BatchP!Elements, Batch!Answer, BatchP!Answer,
     Batch!Failed, BatchP!Failed
<1>6. \A t : (Batch!LoopStep(t) => BatchP!LoopStep(t))
  <2> USE DEF Batch!LoopHead, BatchP!LoopHead, Batch!AfterAppend, BatchP!AfterAppend
  <2>1. \A t : (Batch!LoopStarts(t) \/ Batch!TakeFirst(t) \/ Batch!FillTakes(t) =>
                BatchP!LoopStarts(t) \/ BatchP!TakeFirst(t) \/ BatchP!FillTakes(t))
    BY DEF Batch!LoopStarts, BatchP!LoopStarts, Batch!TakeFirst, BatchP!TakeFirst,
       Batch!FillTakes, BatchP!FillTakes
  <2>2. \A t : (Batch!FillResumes(t) \/ Batch!WindowExpires(t) =>
                BatchP!FillResumes(t) \/ BatchP!WindowExpires(t))
    BY DEF Batch!FillResumes, BatchP!FillResumes, Batch!WindowExpires, BatchP!WindowExpires
  <2>3. \A t : (Batch!FlushReturns(t) => BatchP!FlushReturns(t))
    BY <1>5 DEF Batch!FlushReturns, BatchP!FlushReturns
  <2> QED BY <2>1, <2>2, <2>3 DEF Batch!LoopStep, BatchP!LoopStep
<1>7. \A t : (Batch!CancelLoop(t) => BatchP!CancelLoop(t))
  BY DEF Batch!CancelLoop, BatchP!CancelLoop,
     Batch!AfterCancelledFill, BatchP!AfterCancelledFill
<1>8. \A p : (Batch!BeginDrain(p) => BatchP!BeginDrain(p))
  BY DEF Batch!BeginDrain, BatchP!BeginDrain
<1>9. \A p : (Batch!StopRunning(p) \/ Batch!StopIdle(p) \/ Batch!CancelStop(p) =>
              BatchP!StopRunning(p) \/ BatchP!StopIdle(p) \/ BatchP!CancelStop(p))
  BY <1>7, <1>8 DEF Batch!StopRunning, BatchP!StopRunning, Batch!StopIdle, BatchP!StopIdle,
     Batch!CancelStop, BatchP!CancelStop
<1>10. \A p : (Batch!StopStep(p) => BatchP!StopStep(p))
  BY <1>5, <1>8 DEF Batch!StopStep, BatchP!StopStep, Batch!LoopAwaited, BatchP!LoopAwaited,
     Batch!DrainFlushReturns, BatchP!DrainFlushReturns, Batch!Chunk, BatchP!Chunk,
     Batch!Rest, BatchP!Rest
<1>11. [Batch!Next]_(Batch!vars) => [BatchP!Next]_(BatchP!vars)
  <2>1. Batch!vars = BatchP!vars /\ (Batch!vars)' = (BatchP!vars)'
    BY DEF Batch!vars, BatchP!vars
  <2>2. Batch!Next => BatchP!Next
    BY <1>3, <1>4, <1>6, <1>9, <1>10 DEF Batch!Next, BatchP!Next
  <2> QED BY <2>1, <2>2
<1> QED BY <1>1, <1>11, PTL DEF Batch!Spec, BatchP!Spec

LEMMA BatchInvariance == Spec => []BatchP!Inv
<1>1. Spec => BatchP!Spec
  BY ComposesCorrect, BatchIsBatch DEF Composes
<1>2. BatchP!BatcherAssumption
  BY WiringAssumption DEF BatchP!BatcherAssumption
<1> QED BY <1>1, <1>2, BatchP!Invariance

-----------------------------------------------------------------------------
(* What explains that a step failed: an error that is not retried, of a    *)
(* step that is not listed behind one with an error of its own.            *)
Decided(s) ==
    \E t \in Culprits(s, {"permanent", "other"}) : OwnError(s) # "ok" => t <= s

(* Who is with the batcher has been launched.                              *)
Submitted == \A s \in Steps : future[s] # Batch!Unborn => Run!Launched(s)

(* A future is settled for cause.                                          *)
Explained ==
    \A s \in Steps :
        /\ future[s].kind = "ok" => OwnError(s) = "ok"
        /\ future[s].kind = "failed" => Decided(s)
        /\ future[s].kind = "degraded" => Culprits(s, {"transient", "permanent"}) # {}

(* The handler has had trouble only with errors of steps that were         *)
(* launched, and gives nothing but a completion to a call that survives a  *)
(* transient failure: every call brings a fallback.                        *)
Suspect ==
    \E t \in Steps : Run!Launched(t) /\ OwnError(t) \in {"transient", "permanent"}
Troubled == breaker # "closed" \/ \E c \in Callers : at[c] \in {"sleep", "fallback"}
HandlerExplained ==
    /\ fallback \in [Callers -> BOOLEAN]
    /\ outcome = [c \in Callers |-> outcome[c]]
    /\ \A c \in Callers : at[c] # "idle" => fallback[c]
    /\ Troubled => Suspect

(* What an agent has answered, and what was stored of it, is what its      *)
(* future came to.                                                         *)
Tells(r, f) == f.kind \in {"ok", "degraded", "failed"} /\ r.status = AgentStatus(f)
Reported ==
    \A s \in Steps :
        /\ returned[s] # Run!NoResult => Tells(returned[s], future[s])
        /\ result[s].by = "agent" => Tells(result[s], future[s])

(* While a wave is under way its steps have submitted in the order of the  *)
(* plan, and what the loop holds, and what waits behind it, stands in that *)
(* order.                                                                  *)
Ascending(q) == \A i, j \in DOMAIN q : i < j => q[i] < q[j]
Line(b, q) ==
    /\ Ascending(b) /\ Ascending(q)
    /\ \A i \in DOMAIN b, j \in DOMAIN q : b[i] < q[j]
InOrder ==
    /\ Line(batch[1], inbox)
    /\ \A t, u \in ready : t < u /\ future[u] # Batch!Unborn => future[t] # Batch!Unborn
Lined ==
    /\ \A s \in Steps : future[s] = Batch!Cancelled => pc = "cancelled"
    /\ pc = "gather" => InOrder

Fate == /\ behaviour \in Behaviours
        /\ Submitted /\ Explained /\ HandlerExplained /\ Reported /\ Lined

-----------------------------------------------------------------------------
(* A set of numbers that is not empty has a least member: numbers are well *)
(* founded.                                                                *)
LEMMA LeastNumber ==
    ASSUME NEW S \in SUBSET Nat, S # {}
    PROVE  \E n \in S : \A m \in S : n <= m
<1> DEFINE R == {p \in Nat \X Nat : p[1] < p[2]}
<1>1. OpToRel(<, Nat) = R
  BY DEF OpToRel
<1>2. IsWellFoundedOn(OpToRel(<, Nat), Nat)
  BY NatLessThanWellFounded
<1>3. \A x, y \in Nat : <<y, x>> \in R <=> y < x
  OBVIOUS
<1> HIDE DEF R
<1>4. PICK n \in S : \A m \in S : ~ (<<m, n>> \in R)
  BY <1>1, <1>2, WFMin
<1>5. ASSUME NEW m \in S PROVE n <= m
  <2>1. m \in Nat /\ n \in Nat
    OBVIOUS
  <2>2. ~ (m < n)
    BY <1>3, <1>4, <2>1
  <2> QED BY <2>1, <2>2
<1> QED BY <1>5

(* The provider answers "ok" when no prompt fails, and with the error of   *)
(* the first that does otherwise.                                          *)
LEMMA CompleteFacts ==
    ASSUME NEW failOn, NEW prompts, DOMAIN prompts \in SUBSET Nat
    PROVE  /\ Complete(failOn, prompts) = "ok" =>
                 \A i \in DOMAIN prompts : MatchFailure(failOn, prompts[i]) = "ok"
           /\ Complete(failOn, prompts) # "ok" =>
                 \E i \in DOMAIN prompts :
                     /\ MatchFailure(failOn, prompts[i]) = Complete(failOn, prompts)
                     /\ \A j \in DOMAIN prompts :
                           MatchFailure(failOn, prompts[j]) # "ok" => i <= j
<1> DEFINE failing == {i \in DOMAIN prompts : MatchFailure(failOn, prompts[i]) # "ok"}
           first == CHOOSE i \in failing : \A j \in failing : i <= j
<1>1. Complete(failOn, prompts) =
          IF failing = {} THEN "ok" ELSE MatchFailure(failOn, prompts[first])
  BY DEF Complete
<1>2. failing # {} => first \in failing /\ \A j \in failing : first <= j
  <2>1. failing \in SUBSET Nat
    OBVIOUS
  <2>2. failing # {} => \E i \in failing : \A j \in failing : i <= j
    <3> HIDE DEF failing
    <3> QED BY <2>1, LeastNumber
  <2> HIDE DEF failing
  <2> QED BY <2>2
<1> HIDE DEF first
<1> QED BY <1>1, <1>2

(* Of the plain texts a completion may have, and what an agent makes of    *)
(* each.                                                                   *)
LEMMA TextFacts ==
    ASSUME behaviour \in Behaviours, NEW s
    PROVE  OwnText(s) \in Text
<1>1. \A k \in DOMAIN behaviour.responses : behaviour.responses[k] \in Text
  BY BehavioursAssumption
<1> DEFINE p == PromptOf(s)
           table == behaviour.responses
           hits == {i \in DOMAIN SortedPatterns :
                       /\ Pattern(SortedPatterns[i]) \in DOMAIN table
                       /\ Matches(SortedPatterns[i], p)}
           first == CHOOSE i \in hits : \A j \in hits : i <= j
<1>2. OwnText(s) = IF Exactly(p) \in DOMAIN table THEN table[Exactly(p)]
                   ELSE IF hits = {} THEN "plain" ELSE table[Pattern(SortedPatterns[first])]
  BY DEF OwnText, Resolve, Lookup
<1>3. hits # {} => first \in hits
  <2>1. hits \in SUBSET Nat
    <3>1. DOMAIN SortedPatterns \in SUBSET Nat
      BY DEF SortedPatterns
    <3> QED BY <3>1
  <2>2. hits # {} => \E i \in hits : \A j \in hits : i <= j
    <3> HIDE DEF hits
    <3> QED BY <2>1, LeastNumber
  <2> HIDE DEF hits
  <2> QED BY <2>2
<1>4. first \in hits => Pattern(SortedPatterns[first]) \in DOMAIN table
  <2> HIDE DEF first
  <2> QED OBVIOUS
<1>5. "plain" \in Text
  BY DEF Text
<1> HIDE DEF first, hits, p, table
<1> USE DEF table
<1> QED BY <1>1, <1>2, <1>3, <1>4, <1>5

-----------------------------------------------------------------------------
(* A step that was launched does not come after one that has not COMPLETED *)
(* since: it and what COMPLETED hold all they depend on.                   *)
LEMMA LaunchedNotAfter ==
    ASSUME RunP!Inv, NEW t \in Steps, NEW s \in Steps, Run!Launched(t),
           status[s] # "completed"
    PROVE  NotAfter(t, s)
<1>1. CASE t = s
  BY <1>1 DEF NotAfter
<1>2. CASE t # s
  <2> DEFINE A == {t} \cup {u \in Steps : status[u] = "completed"}
  <2>1. A \in SUBSET Steps /\ t \in A /\ s \notin A
    BY <1>2
  <2>2. \A u \in A : RunP!Launched(u)
    <3>1. RunP!Launched(t)
      BY DEF Run!Launched, RunP!Launched, Run!Executed, RunP!Executed
    <3>2. \A u \in RunP!Steps : status[u] = "completed" => RunP!Launched(u)
      BY RunAssumptions, RunP!CompletedFacts
    <3> QED BY <3>1, <3>2 DEF Steps, RunP!Steps
  <2>3. deps \in [Steps -> SUBSET Steps]
    BY DEF RunP!Inv, RunP!TypeOK, RunP!ValidDeps, Steps, RunP!Steps
  <2>4. \A u \in A : deps[u] \subseteq A
    <3> SUFFICES ASSUME NEW u \in A, NEW d \in deps[u] PROVE d \in A
      OBVIOUS
    <3>1. u \in Steps /\ d \in Steps
      BY <2>1, <2>3
    <3>2. status[d] = "completed"
      BY <2>2, <3>1 DEF RunP!Inv, RunP!ContextComplete, Steps, RunP!Steps
    <3> QED BY <3>1, <3>2
  <2> HIDE DEF A
  <2> QED BY <2>1, <2>4 DEF NotAfter
<1> QED BY <1>1, <1>2

(* The facts about a step of the run, for the steps of the system.         *)
LEMMA SystemRuns ==
    ASSUME [Next]_vars PROVE [RunP!Next]_(RunP!vars)
BY RunComposes, RunSteps

LEMMA RunMoves ==
    ASSUME RunP!Inv, [Next]_vars, NEW s \in Steps
    PROVE  /\ Run!Launched(s) => Run!Launched(s)'
           /\ \/ result'[s] = result[s]
              \/ result'[s] = returned[s] /\ returned[s] # Run!NoResult
              \/ result'[s].by = "orchestrator"
<1>1. s \in RunP!Steps
  BY DEF Steps, RunP!Steps
<1>2. /\ RunP!Launched(s) => RunP!Launched(s)'
      /\ \/ result'[s] = result[s]
         \/ result'[s] = returned[s] /\ returned[s] # RunP!NoResult
         \/ result'[s].by = "orchestrator"
  BY <1>1, SystemRuns, RunAssumptions, RunP!ResultMoves
<1> QED BY <1>2 DEF Run!Launched, RunP!Launched, Run!Executed, RunP!Executed,
                    Run!NoResult, RunP!NoResult

(* The task and the provider are what they are.                            *)
LEMMA GivenStays == ASSUME [Next]_vars PROVE UNCHANGED <<deps, type, behaviour>>
<1>1. deps' = deps
  BY SystemRuns, RunAssumptions, RunP!PlanStays
<1>2. UNCHANGED <<type, behaviour>>
  BY DEF Next, Progress, vars, setup, Orchestrate, AgentSubmits, AgentAnswers, LoopMoves,
     CallMoves, TimePasses, DrainGoesOn, ConsumerTakes, PrintFails, CloseStream,
     ConsumerRaises, StopBatcher, StopGoesOn, RunDemoEnds, CancelRun, CancelCleanUp
<1> QED BY <1>1, <1>2

LEMMA OwnStays ==
    ASSUME [Next]_vars
    PROVE  /\ \A s : OwnError(s)' = OwnError(s) /\ OwnText(s)' = OwnText(s)
           /\ \A s, t : NotAfter(t, s)' <=> NotAfter(t, s)
BY GivenStays DEF OwnError, OwnText, PromptOf, NotAfter

(* Who is to blame stays so.                                               *)
LEMMA CulpritStays ==
    ASSUME RunP!Inv, [Next]_vars
    PROVE  /\ \A s, errors : Culprits(s, errors) \subseteq Culprits(s, errors)'
           /\ \A s : Decided(s) => Decided(s)'
           /\ Suspect => Suspect'
<1>1. \A s, errors : Culprits(s, errors) \subseteq Culprits(s, errors)'
  BY RunMoves, OwnStays DEF Culprits
<1>2. \A s : Decided(s) => Decided(s)'
  BY <1>1, OwnStays DEF Decided
<1>3. Suspect => Suspect'
  BY RunMoves, OwnStays DEF Suspect
<1> QED BY <1>1, <1>2, <1>3

-----------------------------------------------------------------------------
(* Whatever is in a flush has been submitted, and so launched; it is a     *)
(* sequence of steps.                                                      *)
LEMMA FlushFacts ==
    ASSUME BatchP!Inv, NEW c \in Callers
    PROVE  /\ InFlush(c) \in Seq(Steps)
           /\ \A i \in DOMAIN InFlush(c) : future[InFlush(c)[i]] # Batch!Unborn
<1>1. /\ batch[1] \in Seq(Steps) /\ leftover[Main] \in Seq(Steps)
      /\ 1 \in BatchP!Loops
  BY DEF BatchP!Inv, BatchP!TypeOK, BatchP!Loops
<1>2. \A r \in Steps : BatchP!InHands(r) => future[r] # Batch!Unborn
  BY DEF BatchP!Inv, BatchP!Unsettled, BatchP!Pending, BatchP!Cancelled, Batch!Unborn
<1>3. CASE c = Main
  <2>1. /\ Batch!Chunk(leftover[Main]) \in Seq(Steps)
        /\ \A i \in DOMAIN Batch!Chunk(leftover[Main]) :
              \E j \in DOMAIN leftover[Main] :
                  Batch!Chunk(leftover[Main])[i] = leftover[Main][j]
    BY <1>1, WiringAssumption DEF Batch!Chunk
  <2>2. InFlush(c) = Batch!Chunk(leftover[Main])
    BY <1>3 DEF InFlush
  <2>3. ASSUME NEW i \in DOMAIN InFlush(c) PROVE future[InFlush(c)[i]] # Batch!Unborn
    <3>1. PICK j \in DOMAIN leftover[Main] : InFlush(c)[i] = leftover[Main][j]
      BY <2>1, <2>2, <2>3
    <3>2. InFlush(c)[i] \in Steps /\ BatchP!InHands(InFlush(c)[i])
      BY <1>1, <3>1 DEF BatchP!InHands, BatchP!Elements
    <3> QED BY <1>2, <3>2
  <2> QED BY <2>1, <2>2, <2>3
<1>4. CASE c # Main
  <2>1. InFlush(c) = batch[1]
    BY <1>4 DEF InFlush, Callers
  <2>2. ASSUME NEW i \in DOMAIN batch[1] PROVE future[batch[1][i]] # Batch!Unborn
    <3>1. batch[1][i] \in Steps /\ BatchP!InHands(batch[1][i])
      BY <1>1, <2>2 DEF BatchP!InHands, BatchP!Elements
    <3> QED BY <1>2, <3>1
  <2> QED BY <1>1, <2>1, <2>2
<1> QED BY <1>3, <1>4

(* The i-th prompt of a flush is the first that fails, with this error.    *)
FirstFailing(c, i, error) ==
    /\ InFlush(c)[i] \in Steps /\ Run!Launched(InFlush(c)[i]) /\ OwnError(InFlush(c)[i]) = error
    /\ \A j \in DOMAIN InFlush(c) : OwnError(InFlush(c)[j]) # "ok" => i <= j

(* So an error of the provider is the own error of a step that was         *)
(* launched, the first to fail in its batch, and a success is everyone's.  *)
LEMMA AnswerFacts ==
    ASSUME BatchP!Inv, Submitted, NEW c \in Callers, ProviderAnswers(c)
    PROVE  \/ /\ Calls!OpSucceeds(c)
              /\ \A i \in DOMAIN InFlush(c) : OwnError(InFlush(c)[i]) = "ok"
           \/ /\ Calls!OpTransient(c)
              /\ \E t \in Steps : Run!Launched(t) /\ OwnError(t) = "transient"
           \/ /\ Calls!OpPermanent(c)
              /\ \E i \in DOMAIN InFlush(c) : FirstFailing(c, i, "permanent")
           \/ /\ Calls!OpOther(c)
              /\ \E i \in DOMAIN InFlush(c) : FirstFailing(c, i, "other")
<1> DEFINE b == InFlush(c)
           prompts == [i \in DOMAIN b |-> PromptOf(b[i])]
           answer == Complete(behaviour.failOn, prompts)
<1>1. b \in Seq(Steps) /\ \A i \in DOMAIN b : future[b[i]] # Batch!Unborn
  BY FlushFacts
<1>2. \A i \in DOMAIN b : b[i] \in Steps /\ Run!Launched(b[i])
  BY <1>1 DEF Submitted
<1>3. DOMAIN prompts \in SUBSET Nat
  BY <1>1
<1>4. \A i \in DOMAIN prompts : MatchFailure(behaviour.failOn, prompts[i]) = OwnError(b[i])
  BY DEF OwnError
<1>5. /\ answer = "ok" => \A i \in DOMAIN b : OwnError(b[i]) = "ok"
      /\ answer # "ok" =>
            \E i \in DOMAIN b : /\ OwnError(b[i]) = answer
                               /\ \A j \in DOMAIN b : OwnError(b[j]) # "ok" => i <= j
  <2>1. DOMAIN prompts = DOMAIN b
    OBVIOUS
  <2> HIDE DEF prompts
  <2> QED BY <1>3, <1>4, <2>1, CompleteFacts
<1>6. \/ answer = "ok"        /\ Calls!OpSucceeds(c)
      \/ answer = "transient" /\ Calls!OpTransient(c)
      \/ answer = "permanent" /\ Calls!OpPermanent(c)
      \/ answer = "other"     /\ Calls!OpOther(c)
  BY DEF ProviderAnswers
<1> HIDE DEF answer, b
<1> QED BY <1>2, <1>5, <1>6 DEF b, FirstFailing

-----------------------------------------------------------------------------
(* What a step of the system does to the future of one step of the task.   *)
LEMMA FutureMoves ==
    ASSUME Inv, [Next]_vars, NEW s \in Steps
    PROVE  \/ future'[s] = future[s]
           \/ future[s] = Batch!Unborn /\ future'[s] = Batch!Pending /\ AgentSubmits(s)
           \/ future[s] = Batch!Pending /\ future'[s] = Batch!Cancelled /\ CancelRun
           \/ /\ future[s] = Batch!Pending
              /\ \E c \in Callers : CallMoves(c) /\ at'[c] = "idle" /\ FlushReturns(c)
<1>0. future = [r \in Steps |-> future[r]]
  BY DEF Inv, Shape
<1>1. ASSUME NEW r \in Steps, AgentSubmits(r)
      PROVE  \/ future'[s] = future[s]
             \/ future[s] = Batch!Unborn /\ future'[s] = Batch!Pending /\ AgentSubmits(s)
  <2>1. future[r] = Batch!Unborn /\ future' = [future EXCEPT ![r] = Batch!Pending]
    BY <1>1 DEF AgentSubmits, Batch!Submit
  <2> QED BY <1>0, <1>1, <2>1
<1>2. CASE CancelRun
  BY <1>2 DEF CancelRun, Awaiting, Batch!CancelSubmit
<1>3. ASSUME NEW c \in Callers, CallMoves(c)
      PROVE  \/ future'[s] = future[s]
             \/ /\ future[s] = Batch!Pending
                /\ \E d \in Callers : CallMoves(d) /\ at'[d] = "idle" /\ FlushReturns(d)
  <2>1. CASE at'[c] = "idle"
    <3>1. FlushReturns(c)
      BY <1>3, <2>1 DEF CallMoves
    <3>2. future[s] = Batch!Pending \/ future'[s] = future[s]
      BY <3>1 DEF FlushReturns, Batch!Settle
    <3> QED BY <1>3, <2>1, <3>1, <3>2
  <2>2. CASE at'[c] # "idle"
    BY <1>3, <2>2 DEF CallMoves, batchVars
  <2> QED BY <2>1, <2>2
<1>4. CASE \/ Orchestrate \/ (\E r \in Steps : AgentAnswers(r)) \/ TimePasses \/ DrainGoesOn
           \/ ConsumerTakes \/ PrintFails \/ CloseStream \/ ConsumerRaises \/ RunDemoEnds
           \/ UNCHANGED vars
  BY <1>4 DEF Orchestrate, AgentAnswers, TimePasses, Batch!Tick, DrainGoesOn, ConsumerTakes,
     PrintFails, CloseStream, ConsumerRaises, RunDemoEnds, vars, batchVars
<1>5. CASE LoopMoves(1)
  BY <1>5 DEF LoopMoves, Batch!LoopStarts, Batch!TakeFirst, Batch!FillTakes,
     Batch!FillResumes, Batch!WindowExpires
<1>6. CASE StopBatcher \/ StopGoesOn \/ CancelCleanUp
  BY <1>6 DEF StopBatcher, StopGoesOn, CancelCleanUp, Batch!StopRunning, Batch!StopIdle,
     Batch!LoopAwaited, Batch!CancelStop, batchVars
<1> QED BY <1>1, <1>2, <1>3, <1>4, <1>5, <1>6 DEF Next, Progress

(* What it does to what gather holds for one.                              *)
LEMMA ReturnedMoves ==
    ASSUME RunP!Inv, [Next]_vars, NEW s \in Steps
    PROVE  \/ returned'[s] = returned[s] \/ returned'[s] = Run!NoResult
           \/ AgentAnswers(s)
<1>1. returned \in [Steps -> RunP!MaybeResult] /\ Run!Steps = Steps
  BY DEF RunP!Inv, RunP!TypeOK, RunP!Steps, Steps, Run!Steps
<1>2. CASE Orchestrate
  <2>1. returned' = returned \/ Run!Schedule
    BY <1>2 DEF Orchestrate, Run!RunStep, Run!Reject, Run!Start, Run!GatherDone, Run!Block,
       Run!Finish, Run!ApplyNext, Run!FailBlocked
  <2> QED BY <1>1, <2>1 DEF Run!Schedule
<1>3. ASSUME NEW r \in Steps, AgentAnswers(r)
      PROVE  returned'[s] = returned[s] \/ AgentAnswers(s)
  BY <1>1, <1>3 DEF AgentAnswers, Run!AgentReturns
<1>4. CASE CancelRun
  BY <1>4 DEF CancelRun, Run!CancelRun
<1>5. CASE \/ (\E r \in Steps : AgentSubmits(r)) \/ LoopMoves(1)
           \/ (\E c \in Callers : CallMoves(c)) \/ TimePasses \/ DrainGoesOn
           \/ ConsumerTakes \/ PrintFails \/ CloseStream \/ ConsumerRaises \/ RunDemoEnds
           \/ StopBatcher \/ StopGoesOn \/ CancelCleanUp \/ UNCHANGED vars
  BY <1>5 DEF AgentSubmits, LoopMoves, CallMoves, TimePasses, DrainGoesOn, ConsumerTakes,
     PrintFails, CloseStream, ConsumerRaises, RunDemoEnds, StopBatcher, StopGoesOn,
     CancelCleanUp, vars, runVars
<1> QED BY <1>2, <1>3, <1>4, <1>5 DEF Next, Progress

-----------------------------------------------------------------------------
(* A flush that returns settles for cause: its call ended with a success,  *)
(* an error that is not retried, or the fallback of a call in trouble.     *)
LEMMA SettleExplained ==
    ASSUME Inv, RunP!Inv, BatchP!Inv, Submitted, HandlerExplained, Lined,
           NEW c \in Callers, CallMoves(c), at'[c] = "idle", FlushReturns(c),
           NEW s \in Steps, future[s] = Batch!Pending, future'[s] # future[s]
    PROVE  /\ future'[s].kind \in {"ok", "failed", "degraded"}
           /\ future'[s].kind = "ok" => OwnError(s) = "ok"
           /\ future'[s].kind = "failed" => Decided(s)
           /\ future'[s].kind = "degraded" => Culprits(s, {"transient", "permanent"}) # {}
<1> DEFINE b == InFlush(c)
           completions == Completions(b, outcome'[c])
           i == CHOOSE i \in DOMAIN b : b[i] = s
<1>1. b \in Seq(Steps)
  BY FlushFacts
<1>2. i \in DOMAIN b /\ b[i] = s /\ future'[s] = Batch!Answer(i, completions)
  <2>1. s \in Batch!Elements(b) /\ future'[s] = Batch!Answer(i, completions)
    BY DEF FlushReturns, Batch!Settle
  <2> QED BY <2>1 DEF Batch!Elements
<1>3. \A t \in Steps : Run!Launched(t) => NotAfter(t, s)
  <2>1. pc = "gather" /\ s \in ready
    BY DEF Inv, WaveWaits, Waiting
  <2>2. status[s] = "running"
    BY <2>1 DEF RunP!Inv, RunP!Phases, RunP!Steps, Steps
  <2> QED BY <2>2, LaunchedNotAfter
<1>8. Ascending(b)
  <2>1. pc = "gather"
    BY DEF Inv, WaveWaits, Waiting
  <2>2. stopper[Main] = "off"
    BY <2>1 DEF Inv, Shape, Orderly, Ended
  <2>3. c # Main
    BY <2>2 DEF FlushReturns, Batch!DrainFlushReturns
  <2>4. b = batch[1]
    BY <2>3 DEF InFlush, Callers
  <2> QED BY <2>1, <2>4 DEF Lined, InOrder, Line
<1>4. at[c] # "idle" /\ fallback[c] /\ at = [d \in Callers |-> at[d]]
      /\ outcome = [d \in Callers |-> outcome[d]]
  <2>1. at[c] # "idle"
    BY DEF CallMoves, ProviderAnswers, Calls!OpSucceeds, Calls!OpTransient, Calls!OpPermanent,
       Calls!OpOther, Calls!Wake, Calls!FallbackEnds
  <2> QED BY <2>1 DEF HandlerExplained, Inv, Shape
<1> HIDE DEF i
<1>5. CASE ProviderAnswers(c)
  <2>1. CASE Calls!OpSucceeds(c) /\ \A j \in DOMAIN b : OwnError(b[j]) = "ok"
    <3>1. outcome'[c] = "ok"
      BY <1>4, <2>1 DEF Calls!OpSucceeds, Calls!EndCall
    <3>2. future'[s] = Batch!Completion(s, "ok")
      BY <1>1, <1>2, <3>1 DEF Completions, Batch!Answer
    <3> QED BY <1>2, <2>1, <3>2 DEF Batch!Completion
  <2>2. CASE Calls!OpTransient(c)
    <3>1. at'[c] \in {"fallback", "sleep"}
      BY <1>4, <2>2 DEF Calls!OpTransient, Calls!UseFallbackOrRaise
    <3> QED BY <3>1
  <2>3. CASE /\ Calls!OpPermanent(c) \/ Calls!OpOther(c)
             /\ \E j \in DOMAIN b : FirstFailing(c, j, "permanent") \/ FirstFailing(c, j, "other")
    <3>1. outcome'[c] \in {"permanent", "other"}
      BY <1>4, <2>3 DEF Calls!OpPermanent, Calls!OpOther, Calls!EndCall
    <3>2. future'[s] = Batch!Failed
      BY <1>1, <1>2, <3>1 DEF Completions, Batch!Answer
    <3>3. Decided(s)
      <4>1. PICK j \in DOMAIN b : FirstFailing(c, j, "permanent") \/ FirstFailing(c, j, "other")
        BY <2>3
      <4>2. b[j] \in Culprits(s, {"permanent", "other"})
        BY <1>3, <4>1 DEF FirstFailing, Culprits
      <4>3. OwnError(s) # "ok" => j <= i
        BY <1>2, <4>1 DEF FirstFailing
      <4>4. i \in Nat /\ j \in Nat /\ b[i] \in Nat /\ b[j] \in Nat
        <5> HIDE DEF b
        <5>1. i \in 1..Len(b) /\ j \in 1..Len(b) /\ b[i] \in Steps /\ b[j] \in Steps
          BY <1>1, <1>2
        <5> QED BY <5>1 DEF Steps
      <4>5. j <= i => b[j] <= b[i]
        BY <1>2, <1>8, <4>4 DEF Ascending
      <4> QED BY <1>2, <4>2, <4>3, <4>5 DEF Decided
    <3> QED BY <3>2, <3>3 DEF Batch!Failed
  <2> QED BY <1>5, <2>1, <2>2, <2>3, AnswerFacts
<1>6. CASE Calls!Wake(c)
  BY <1>4, <1>6 DEF Calls!Wake
<1>7. CASE Calls!FallbackEnds(c) /\ outcome'[c] = "degraded"
  <2>1. Suspect
    BY <1>7 DEF Calls!FallbackEnds, HandlerExplained, Troubled
  <2>2. Culprits(s, {"transient", "permanent"}) # {}
    BY <1>3, <2>1 DEF Suspect, Culprits
  <2>3. future'[s] = Batch!Completion(s, "degraded")
    BY <1>1, <1>2, <1>7 DEF Completions, Batch!Answer, Batch!DegradedCompletions
  <2> QED BY <2>2, <2>3 DEF Batch!Completion
<1> QED BY <1>5, <1>6, <1>7 DEF CallMoves

-----------------------------------------------------------------------------
(* The pieces of Fate are kept.                                            *)
LEMMA SubmittedStep ==
    ASSUME Inv, RunP!Inv, Submitted, [Next]_vars PROVE Submitted'
<1> SUFFICES ASSUME NEW s \in Steps, future'[s] # Batch!Unborn
             PROVE  Run!Launched(s)'
  BY DEF Submitted
<1>1. Run!Launched(s)
  <2>1. CASE future[s] # Batch!Unborn
    BY <2>1 DEF Submitted
  <2>2. CASE future[s] = Batch!Unborn
    <3>1. pc = "gather" /\ s \in ready
      BY <2>2, FutureMoves DEF Batch!Unborn, Batch!Pending, AgentSubmits
    <3>2. status[s] = "running"
      BY <3>1 DEF RunP!Inv, RunP!Phases, RunP!Steps, Steps
    <3> QED BY <3>2 DEF Run!Launched
  <2> QED BY <2>1, <2>2
<1> QED BY <1>1, RunMoves

LEMMA ExplainedStep ==
    ASSUME Inv, RunP!Inv, BatchP!Inv, Fate, [Next]_vars PROVE Explained'
<1> SUFFICES ASSUME NEW s \in Steps
             PROVE  /\ future'[s].kind = "ok" => OwnError(s)' = "ok"
                    /\ future'[s].kind = "failed" => Decided(s)'
                    /\ future'[s].kind = "degraded" =>
                          (Culprits(s, {"transient", "permanent"}) # {})'
  BY DEF Explained
<1>1. /\ future'[s].kind = "ok" => OwnError(s) = "ok"
      /\ future'[s].kind = "failed" => Decided(s)
      /\ future'[s].kind = "degraded" => Culprits(s, {"transient", "permanent"}) # {}
  <2>1. CASE future'[s] = future[s]
    BY <2>1 DEF Fate, Explained
  <2>2. CASE future'[s] \in {Batch!Pending, Batch!Cancelled}
    BY <2>2 DEF Batch!Pending, Batch!Cancelled
  <2>3. CASE /\ future[s] = Batch!Pending /\ future'[s] # future[s]
             /\ \E c \in Callers : CallMoves(c) /\ at'[c] = "idle" /\ FlushReturns(c)
    BY <2>3, SettleExplained DEF Fate
  <2> QED BY <2>1, <2>2, <2>3, FutureMoves
<1> QED BY <1>1, CulpritStays, OwnStays

(* A call that begins is in trouble only with a breaker that is, and one   *)
(* that goes on gets into trouble by an error of the provider.             *)
LEMMA HandlerStep ==
    ASSUME Inv, RunP!Inv, BatchP!Inv, Fate, [Next]_vars PROVE HandlerExplained'
<1>1. /\ HandlerExplained /\ Submitted /\ (Suspect => Suspect')
      /\ at = [c \in Callers |-> at[c]]
  BY CulpritStays DEF Fate, Inv, Shape
<1>2. CASE UNCHANGED callVars \/ Calls!Tick
  <2>1. UNCHANGED <<breaker, at, fallback, outcome>>
    BY <1>2 DEF callVars, Calls!Tick
  <2> QED BY <1>1, <2>1 DEF HandlerExplained, Troubled
<1>3. ASSUME NEW c \in Callers, CallHandler(c) PROVE HandlerExplained'
  <2>1. /\ fallback' \in [Callers -> BOOLEAN] /\ fallback'[c]
        /\ \A d \in Callers : d # c => fallback'[d] = fallback[d]
    BY <1>1, <1>3 DEF CallHandler, Calls!Begin, HandlerExplained
  <2>2. /\ outcome' = [d \in Callers |-> outcome'[d]]
        /\ \A d \in Callers : d # c => at'[d] = at[d]
        /\ breaker = "closed" => breaker' = "closed" /\ at'[c] = "op"
    BY <1>1, <1>3 DEF CallHandler, Calls!Begin, HandlerExplained, Calls!AfterCheck,
       Calls!ShortCircuits, Calls!UseFallbackOrRaise, Calls!EndCall
  <2> QED BY <1>1, <2>1, <2>2 DEF HandlerExplained, Troubled
<1>4. ASSUME NEW c \in Callers, Calls!Cancel(c) PROVE HandlerExplained'
  <2>1. /\ UNCHANGED <<breaker, fallback>> /\ at'[c] = "idle"
        /\ \A d \in Callers : d # c => at'[d] = at[d]
        /\ outcome' = [d \in Callers |-> outcome'[d]]
    BY <1>1, <1>4 DEF Calls!Cancel, Calls!EndCall, Calls!breaker, HandlerExplained
  <2> QED BY <1>1, <2>1 DEF HandlerExplained, Troubled
<1>5. ASSUME NEW c \in Callers, CallMoves(c) PROVE HandlerExplained'
  <2>1. /\ UNCHANGED fallback /\ at[c] # "idle"
        /\ \A d \in Callers : d # c => at'[d] = at[d]
        /\ outcome' = [d \in Callers |-> outcome'[d]]
    <3>1. CASE Calls!OpTransient(c)
      BY <1>1, <3>1 DEF Calls!OpTransient, Calls!UseFallbackOrRaise, Calls!EndCall,
         HandlerExplained
    <3>2. CASE \/ Calls!OpSucceeds(c) \/ Calls!OpPermanent(c) \/ Calls!OpOther(c)
               \/ Calls!Wake(c) \/ Calls!FallbackEnds(c)
      BY <1>1, <3>2 DEF Calls!OpSucceeds, Calls!OpPermanent, Calls!OpOther, Calls!Wake,
         Calls!FallbackEnds, Calls!EndCall, HandlerExplained
    <3> QED BY <1>5, <3>1, <3>2 DEF CallMoves, ProviderAnswers
  <2>2. Troubled' => Suspect
    <3>1. CASE ProviderAnswers(c)
      <4>1. CASE Calls!OpTransient(c) \/ Calls!OpPermanent(c)
        <5>1. ~ Calls!OpSucceeds(c) /\ ~ Calls!OpOther(c)
          BY <1>1, <4>1 DEF Calls!OpTransient, Calls!OpPermanent, Calls!OpSucceeds,
             Calls!OpOther, Calls!EndCall, Calls!UseFallbackOrRaise, HandlerExplained
        <5> QED BY <1>1, <3>1, <5>1, AnswerFacts DEF Suspect, FirstFailing
      <4>2. CASE Calls!OpSucceeds(c) \/ Calls!OpOther(c)
        <5>1. at'[c] = "idle" /\ (breaker' = "closed" \/ breaker' = breaker)
          BY <1>1, <4>2 DEF Calls!OpSucceeds, Calls!OpOther, Calls!RecordSuccess,
             Calls!EndCall, Calls!breaker
        <5> QED BY <1>1, <2>1, <5>1 DEF HandlerExplained, Troubled
      <4> QED BY <3>1, <4>1, <4>2 DEF ProviderAnswers
    <3>2. CASE Calls!Wake(c) \/ Calls!FallbackEnds(c)
      <4>1. at'[c] \in {"op", "idle"} /\ breaker' = breaker
        BY <1>1, <3>2 DEF Calls!Wake, Calls!FallbackEnds, Calls!EndCall, Calls!breaker
      <4> QED BY <1>1, <2>1, <4>1 DEF HandlerExplained, Troubled
    <3> QED BY <1>5, <3>1, <3>2 DEF CallMoves
  <2> QED BY <1>1, <2>1, <2>2 DEF HandlerExplained
<1>6. CASE HandlerFollows
  BY <1>2, <1>3, <1>4, <1>6 DEF HandlerFollows
<1>7. CASE LoopMoves(1) \/ StopBatcher \/ StopGoesOn
  BY <1>6, <1>7 DEF LoopMoves, StopBatcher, StopGoesOn
<1>8. CASE CancelCleanUp
  BY <1>2, <1>6, <1>8 DEF CancelCleanUp
<1>9. CASE DrainGoesOn
  BY <1>3, <1>9 DEF DrainGoesOn, Callers
<1>10. CASE TimePasses
  BY <1>2, <1>10 DEF TimePasses
<1>11. CASE \/ Orchestrate \/ (\E s \in Steps : AgentSubmits(s) \/ AgentAnswers(s))
            \/ CancelRun \/ ConsumerTakes \/ PrintFails \/ CloseStream \/ ConsumerRaises
            \/ RunDemoEnds \/ UNCHANGED vars
  BY <1>2, <1>11 DEF Orchestrate, AgentSubmits, AgentAnswers, CancelRun, ConsumerTakes,
     PrintFails, CloseStream, ConsumerRaises, RunDemoEnds, vars
<1> QED BY <1>5, <1>7, <1>8, <1>9, <1>10, <1>11 DEF Next, Progress

(* A future that is settled is not settled again, so what was told of it   *)
(* stays true.                                                             *)
LEMMA ReportedStep ==
    ASSUME Inv, RunP!Inv, Fate, [Next]_vars PROVE Reported'
<1> SUFFICES ASSUME NEW s \in Steps
             PROVE  /\ returned'[s] # Run!NoResult => Tells(returned[s], future[s])'
                    /\ result'[s].by = "agent" => Tells(result[s], future[s])'
  BY DEF Reported, Run!NoResult
<1>1. \A r, f : Tells(r, f) => Tells(r, f)'
  BY GivenStays DEF Tells, AgentStatus, CompletionText, PromptOf, Batch!Failed, StatusOfText
<1>2. future[s].kind \in {"ok", "degraded", "failed"} => future'[s] = future[s]
  BY FutureMoves DEF Batch!Unborn, Batch!Pending
<1>3. \A r : Tells(r, future[s]) => Tells(r, future[s])'
  BY <1>1, <1>2 DEF Tells
<1>4. /\ returned[s] # Run!NoResult => Tells(returned[s], future[s])
      /\ result[s].by = "agent" => Tells(result[s], future[s])
  BY DEF Fate, Reported
<1>5. ASSUME returned'[s] # Run!NoResult PROVE Tells(returned[s], future[s])'
  <2>1. CASE AgentAnswers(s)
    <3>1. Tells(returned'[s], future[s])
      BY <2>1 DEF AgentAnswers, Tells
    <3> QED BY <1>3, <3>1
  <2>2. CASE returned'[s] = returned[s]
    BY <1>3, <1>4, <1>5, <2>2
  <2> QED BY <1>5, <2>1, <2>2, ReturnedMoves
<1>6. ASSUME result'[s].by = "agent" PROVE Tells(result[s], future[s])'
  BY <1>3, <1>4, <1>6, RunMoves
<1> QED BY <1>5, <1>6

(* Nothing is with the batcher when a wave begins.                         *)
LEMMA HandsFacts ==
    ASSUME Inv, BatchP!Inv, Lined, pc # "cancelled",
           NEW r \in Steps, r \in BatchP!Elements(inbox) \cup BatchP!Elements(batch[1])
    PROVE  pc = "gather" /\ r \in ready /\ future[r] = Batch!Pending
<1>1. BatchP!InHands(r)
  BY DEF BatchP!InHands, BatchP!Loops
<1>2. future[r] \in {Batch!Pending, Batch!Cancelled}
  BY <1>1 DEF BatchP!Inv, BatchP!Unsettled, BatchP!Pending, BatchP!Cancelled,
     Batch!Pending, Batch!Cancelled
<1>3. future[r] = Batch!Pending
  BY <1>2 DEF Lined
<1> QED BY <1>3 DEF Inv, WaveWaits, Waiting

(* How the waves follow each other.                                        *)
LEMMA WaveMoves ==
    ASSUME [Next]_vars
    PROVE  \/ UNCHANGED <<pc, ready>>
           \/ Run!Schedule /\ UNCHANGED batchVars
           \/ pc # "cancelled" /\ pc' # "gather"
<1>1. CASE Orchestrate
  <2>1. Run!RunStep \/ Run!Reject
    BY <1>1 DEF Orchestrate
  <2>2. CASE Run!Schedule
    BY <1>1, <2>2 DEF Orchestrate
  <2>3. CASE Run!Reject \/ Run!Start \/ Run!GatherDone \/ Run!Block \/ Run!Finish
    BY <2>3 DEF Run!Reject, Run!Start, Run!GatherDone, Run!Block, Run!Finish
  <2>4. ASSUME NEW s \in Run!Steps, Run!ApplyNext(s) PROVE pc # "cancelled" /\ pc' # "gather"
    <3>1. pc = "apply" /\ pc' = IF Run!Running = {s} THEN "loop" ELSE "apply"
      BY <2>4 DEF Run!ApplyNext
    <3> QED BY <3>1
  <2>5. ASSUME NEW s \in Run!Steps, Run!FailBlocked(s) PROVE pc # "cancelled" /\ pc' # "gather"
    BY <2>5 DEF Run!FailBlocked
  <2> QED BY <2>1, <2>2, <2>3, <2>4, <2>5 DEF Run!RunStep
<1>2. CASE CancelRun
  BY <1>2 DEF CancelRun, Run!CancelRun
<1>3. CASE \E s \in Steps : AgentAnswers(s)
  BY <1>3 DEF AgentAnswers, Run!AgentReturns
<1>4. CASE \/ (\E r \in Steps : AgentSubmits(r)) \/ LoopMoves(1)
           \/ (\E c \in Callers : CallMoves(c)) \/ TimePasses \/ DrainGoesOn
           \/ ConsumerTakes \/ PrintFails \/ CloseStream \/ ConsumerRaises \/ RunDemoEnds
           \/ StopBatcher \/ StopGoesOn \/ CancelCleanUp \/ UNCHANGED vars
  BY <1>4 DEF AgentSubmits, LoopMoves, CallMoves, TimePasses, DrainGoesOn, ConsumerTakes,
     PrintFails, CloseStream, ConsumerRaises, RunDemoEnds, StopBatcher, StopGoesOn,
     CancelCleanUp, vars, runVars
<1> QED BY <1>1, <1>2, <1>3, <1>4 DEF Next, Progress

(* A line stays one when somebody later joins its end, and when its first  *)
(* in the queue moves into the batch.                                      *)
LEMMA LineAppend ==
    ASSUME NEW b \in Seq(Steps), NEW q \in Seq(Steps), NEW r \in Steps, Line(b, q),
           \A i \in DOMAIN b : b[i] < r, \A i \in DOMAIN q : q[i] < r
    PROVE  Line(b, Append(q, r))
<1>1. \A i \in DOMAIN Append(q, r) :
          \/ i \in DOMAIN q /\ Append(q, r)[i] = q[i]
          \/ i = Len(q) + 1 /\ Append(q, r)[i] = r
  OBVIOUS
<1>2. \A i \in DOMAIN q : i < Len(q) + 1 /\ ~ (Len(q) + 1 < i)
  OBVIOUS
<1>3. ~ (Len(q) + 1 < Len(q) + 1)
  OBVIOUS
<1> QED BY <1>1, <1>2, <1>3 DEF Line, Ascending

LEMMA LineTake ==
    ASSUME NEW b \in Seq(Steps), NEW q \in Seq(Steps), q # <<>>, Line(b, q)
    PROVE  /\ Line(Append(b, Head(q)), Tail(q))
           /\ Line(<<Head(q)>>, Tail(q))
<1>1. /\ Head(q) = q[1] /\ 1 \in DOMAIN q /\ Head(q) \in Steps
      /\ \A i \in DOMAIN Tail(q) : i \in Nat /\ i + 1 \in DOMAIN q /\ 1 < i + 1
                                   /\ Tail(q)[i] = q[i + 1]
  OBVIOUS
<1>2. Ascending(Tail(q)) /\ \A i \in DOMAIN Tail(q) : Head(q) < Tail(q)[i]
  <2>1. \A i, j \in DOMAIN Tail(q) : i < j => i + 1 < j + 1
    BY <1>1
  <2> QED BY <1>1, <2>1 DEF Line, Ascending
<1>3. Line(Append(b, Head(q)), Tail(q))
  <2>1. \A i \in DOMAIN Append(b, Head(q)) :
            \/ i \in DOMAIN b /\ Append(b, Head(q))[i] = b[i]
            \/ i = Len(b) + 1 /\ Append(b, Head(q))[i] = Head(q)
    BY <1>1
  <2>2. \A i \in DOMAIN b : i < Len(b) + 1 /\ ~ (Len(b) + 1 < i) /\ b[i] < Head(q)
    BY <1>1 DEF Line
  <2>3. ~ (Len(b) + 1 < Len(b) + 1)
    OBVIOUS
  <2>4. Ascending(Append(b, Head(q)))
    BY <2>1, <2>2, <2>3 DEF Line, Ascending
  <2>5. \A i \in DOMAIN b, j \in DOMAIN Tail(q) : b[i] < Tail(q)[j]
    BY <1>1 DEF Line
  <2> QED BY <1>2, <2>1, <2>4, <2>5 DEF Line
<1>4. Line(<<Head(q)>>, Tail(q))
  <2>1. \A i \in DOMAIN <<Head(q)>> : i = 1 /\ <<Head(q)>>[i] = Head(q)
    OBVIOUS
  <2> QED BY <1>2, <2>1 DEF Line, Ascending
<1> QED BY <1>3, <1>4

(* What moves the line while a wave is under way.                          *)
LEMMA LineStep ==
    ASSUME Inv, BatchP!Inv, Lined, [Next]_vars, pc = "gather", UNCHANGED <<pc, ready>>
    PROVE  Line(batch[1], inbox)'
<1>1. /\ batch \in [{1} -> Seq(Steps)] /\ inbox \in Seq(Steps)
  BY DEF BatchP!Inv, BatchP!TypeOK, BatchP!Loops
<1>2. Line(batch[1], inbox) /\ Line(<<>>, inbox)
  BY DEF Lined, InOrder, Line, Ascending
<1>3. demo = "run" /\ stopper[Main] = "off"
  BY DEF Inv, Orderly, Shape, Ended
<1>4. ASSUME NEW s \in Steps, AgentSubmits(s) PROVE Line(batch[1], inbox)'
  <2>1. inbox' = Append(inbox, s) /\ batch' = batch
    BY <1>4 DEF AgentSubmits, Batch!Submit
  <2>2. \A r \in BatchP!Elements(inbox) \cup BatchP!Elements(batch[1]) : r < s
    <3> SUFFICES ASSUME NEW r \in BatchP!Elements(inbox) \cup BatchP!Elements(batch[1])
                 PROVE  r < s
      OBVIOUS
    <3>1. r \in Steps
      BY <1>1 DEF BatchP!Elements
    <3>2. r \in ready /\ future[r] = Batch!Pending
      BY <3>1, HandsFacts
    <3>3. s \in ready /\ future[s] = Batch!Unborn
      BY <1>4 DEF AgentSubmits, Batch!Submit
    <3>4. Batch!Unborn # Batch!Pending
      BY DEF Batch!Unborn, Batch!Pending
    <3>5. ~ (s < r)
      BY <3>2, <3>3, <3>4 DEF Lined, InOrder
    <3> QED BY <3>1, <3>2, <3>3, <3>4, <3>5 DEF Steps
  <2>3. /\ \A i \in DOMAIN batch[1] : batch[1][i] < s
        /\ \A i \in DOMAIN inbox : inbox[i] < s
    BY <2>2 DEF BatchP!Elements
  <2>4. Line(batch[1], Append(inbox, s))
    BY <1>1, <1>2, <2>3, LineAppend
  <2> QED BY <2>1, <2>4
<1>5. CASE LoopMoves(1)
  <2>1. CASE Batch!TakeFirst(1) \/ Batch!FillTakes(1)
    <3>1. /\ inbox # <<>> /\ inbox' = Tail(inbox)
          /\ batch'[1] = <<Head(inbox)>> \/ batch'[1] = Append(batch[1], Head(inbox))
      BY <1>1, <2>1 DEF Batch!TakeFirst, Batch!FillTakes
    <3>2. /\ Line(Append(batch[1], Head(inbox)), Tail(inbox))
          /\ Line(<<Head(inbox)>>, Tail(inbox))
      BY <1>1, <1>2, <3>1, LineTake
    <3> QED BY <3>1, <3>2
  <2>2. CASE Batch!LoopStarts(1) \/ Batch!FillResumes(1) \/ Batch!WindowExpires(1)
    BY <1>2, <2>2 DEF Batch!LoopStarts, Batch!FillResumes, Batch!WindowExpires
  <2> QED BY <1>5, <2>1, <2>2 DEF LoopMoves
<1>6. ASSUME NEW c \in Callers, CallMoves(c) PROVE Line(batch[1], inbox)'
  <2>1. CASE at'[c] # "idle"
    BY <1>2, <1>6, <2>1 DEF CallMoves, batchVars
  <2>2. CASE at'[c] = "idle"
    <3>1. FlushReturns(c)
      BY <1>6, <2>2 DEF CallMoves
    <3>2. inbox' = inbox /\ batch'[1] \in {batch[1], <<>>}
      BY <1>1, <1>3, <3>1 DEF FlushReturns, Batch!DrainFlushReturns, Batch!FlushReturns, Callers
    <3> QED BY <1>2, <3>2
  <2> QED BY <2>1, <2>2
<1>7. CASE StopBatcher \/ StopGoesOn \/ CancelCleanUp
  BY <1>3, <1>7 DEF StopBatcher, StopGoesOn, CancelCleanUp
<1>8. CASE \/ Orchestrate \/ (\E r \in Steps : AgentAnswers(r)) \/ TimePasses \/ DrainGoesOn
           \/ ConsumerTakes \/ PrintFails \/ CloseStream \/ ConsumerRaises \/ RunDemoEnds
           \/ CancelRun \/ UNCHANGED vars
  <2>1. UNCHANGED <<batch, inbox>>
    BY <1>8 DEF Orchestrate, AgentAnswers, TimePasses, Batch!Tick, DrainGoesOn, ConsumerTakes,
       PrintFails, CloseStream, ConsumerRaises, RunDemoEnds, CancelRun, Batch!CancelSubmit,
       vars, batchVars
  <2> QED BY <1>2, <2>1
<1> QED BY <1>4, <1>5, <1>6, <1>7, <1>8 DEF Next, Progress

(* Only a cancellation of the run cancels futures, and it ends the run; a  *)
(* wave begins with nobody submitted and nothing with the batcher; and a   *)
(* step submits when those listed before it have.                          *)
LEMMA LinedStep ==
    ASSUME Inv, RunP!Inv, BatchP!Inv, Fate, [Next]_vars PROVE Lined'
<1>1. ASSUME NEW s \in Steps, future'[s] = Batch!Cancelled PROVE pc' = "cancelled"
  <2>1. CASE future'[s] = future[s]
    <3>1. pc = "cancelled"
      BY <1>1, <2>1 DEF Fate, Lined
    <3> QED BY <3>1, WaveMoves DEF Run!Schedule
  <2>2. CASE CancelRun
    BY <2>2 DEF CancelRun, Run!CancelRun
  <2>3. CASE /\ future[s] = Batch!Pending /\ future'[s] # future[s]
             /\ \E c \in Callers : CallMoves(c) /\ at'[c] = "idle" /\ FlushReturns(c)
    <3>1. future'[s].kind \in {"ok", "failed", "degraded"}
      BY <2>3, SettleExplained DEF Fate
    <3> QED BY <1>1, <3>1 DEF Batch!Cancelled
  <2>4. CASE future'[s] = Batch!Pending
    BY <1>1, <2>4 DEF Batch!Pending, Batch!Cancelled
  <2> QED BY <2>1, <2>2, <2>3, <2>4, FutureMoves
<1>2. ASSUME pc' = "gather" PROVE InOrder'
  <2>1. CASE Run!Schedule /\ UNCHANGED batchVars
    <3>1. pc = "loop" /\ ready' \in SUBSET {s \in Steps : status[s] = "pending"}
      BY <2>1 DEF Run!Schedule, Run!ReadySteps, Run!Steps, Steps
    <3>2. \A s \in ready' : future'[s] = Batch!Unborn
      <4> SUFFICES ASSUME NEW s \in Steps, status[s] = "pending"
                   PROVE  future'[s] = Batch!Unborn
        BY <3>1
      <4>1. result[s] = RunP!NoResult
        BY DEF RunP!Inv, RunP!Stored, RunP!TerminalStatus, RunP!Steps, Steps
      <4>2. ~ Run!Launched(s)
        BY <4>1 DEF RunP!NoResult, Run!Launched, Run!Executed
      <4> QED BY <2>1, <4>2 DEF Fate, Submitted, batchVars
    <3>3. DOMAIN inbox = {} /\ DOMAIN batch[1] = {}
      <4>1. inbox \in Seq(Steps) /\ batch[1] \in Seq(Steps)
        BY DEF BatchP!Inv, BatchP!TypeOK, BatchP!Loops
      <4>2. BatchP!Elements(inbox) \cup BatchP!Elements(batch[1]) \subseteq Steps
        BY <4>1 DEF BatchP!Elements
      <4>3. BatchP!Elements(inbox) \cup BatchP!Elements(batch[1]) = {}
        BY <3>1, <4>2, HandsFacts DEF Fate
      <4> QED BY <4>3 DEF BatchP!Elements
    <3>4. Line(batch[1], inbox)'
      BY <2>1, <3>3 DEF Line, Ascending, batchVars
    <3> QED BY <3>2, <3>4 DEF InOrder
  <2>2. CASE UNCHANGED <<pc, ready>>
    <3>1. pc = "gather" /\ Lined /\ ready \subseteq Steps
      BY <1>2, <2>2 DEF Fate, RunP!Inv, RunP!TypeOK, RunP!Steps, Steps
    <3>2. Line(batch[1], inbox)'
      BY <2>2, <3>1, LineStep
    <3>3. ASSUME NEW t \in ready, NEW u \in ready, t < u, future'[u] # Batch!Unborn
          PROVE  future'[t] # Batch!Unborn
      <4>1. future[t] # Batch!Unborn
        <5>1. CASE future[u] # Batch!Unborn
          BY <3>1, <3>3, <5>1 DEF Lined, InOrder
        <5>2. CASE future[u] = Batch!Unborn
          <6>1. AgentSubmits(u)
            BY <3>1, <3>3, <5>2, FutureMoves DEF Batch!Unborn, Batch!Pending
          <6> QED BY <3>3, <6>1 DEF AgentSubmits
        <5> QED BY <5>1, <5>2
      <4>2. CASE future'[t] = future[t]
        BY <4>1, <4>2
      <4>3. CASE future'[t] \in {Batch!Pending, Batch!Cancelled}
        BY <4>3 DEF Batch!Pending, Batch!Cancelled, Batch!Unborn
      <4>4. CASE /\ future[t] = Batch!Pending /\ future'[t] # future[t]
                 /\ \E c \in Callers : CallMoves(c) /\ at'[c] = "idle" /\ FlushReturns(c)
        <5>1. future'[t].kind \in {"ok", "failed", "degraded"}
          BY <3>1, <4>4, SettleExplained DEF Fate
        <5> QED BY <5>1 DEF Batch!Unborn
      <4> QED BY <3>1, <4>2, <4>3, <4>4, FutureMoves
    <3> QED BY <2>2, <3>2, <3>3 DEF InOrder
  <2> QED BY <1>2, <2>1, <2>2, WaveMoves
<1> QED BY <1>1, <1>2 DEF Lined

LEMMA FateInit == Init => Fate
<1> SUFFICES ASSUME Init PROVE Fate
  OBVIOUS
<1>1. behaviour \in Behaviours /\ Submitted /\ Explained
  BY DEF Init, Batch!Init, Submitted, Explained, Batch!Unborn
<1>2. HandlerExplained
  BY DEF Init, Calls!Init, HandlerExplained, Troubled
<1>3. Reported
  BY DEF Init, Run!Init, Reported, Run!NoResult, Steps, Run!Steps
<1>4. Lined
  BY DEF Init, Run!Init, Batch!Init, Lined, Batch!Unborn, Batch!Cancelled
<1> QED BY <1>1, <1>2, <1>3, <1>4 DEF Fate

LEMMA FateStep ==
    ASSUME Inv, RunP!Inv, BatchP!Inv, Fate, [Next]_vars PROVE Fate'
<1>1. (behaviour \in Behaviours)'
  BY GivenStays DEF Fate
<1> QED BY <1>1, SubmittedStep, ExplainedStep, HandlerStep, ReportedStep, LinedStep DEF Fate

LEMMA FateExplainedFromInv == RunP!Inv /\ BatchP!Inv /\ Fate => FateExplained
<1> SUFFICES ASSUME RunP!Inv, BatchP!Inv, Fate, NEW s \in Steps, result[s].by = "agent"
             PROVE  /\ status[s] = "completed" => OwnError(s) = "ok" /\ OwnText(s) = "plain"
                    /\ status[s] = "failed" => OwnText(s) = "blank" \/ Decided(s)
                    /\ status[s] = "degraded" =>
                          \/ OwnText(s) = "degraded_looking"
                          \/ Culprits(s, {"transient", "permanent"}) # {}
  BY DEF FateExplained, Decided
<1> DEFINE f == future[s]
<1>1. f.kind \in {"ok", "degraded", "failed"} /\ result[s].status = AgentStatus(f)
  BY DEF Fate, Reported, Tells
<1>2. status[s] = IF AgentStatus(f) = "ok" THEN "completed" ELSE AgentStatus(f)
  <2>1. result[s] # RunP!NoResult
    BY DEF RunP!NoResult
  <2> QED BY <1>1, <2>1 DEF RunP!Inv, RunP!Stored, RunP!StepStatusOf, RunP!Steps, Steps
<1>3. f \in BatchP!Future
  BY DEF BatchP!Inv, BatchP!TypeOK
<1>4. CASE f.kind = "failed"
  <2>1. f = Batch!Failed
    BY <1>3, <1>4 DEF BatchP!Future, BatchP!Unborn, BatchP!Pending, BatchP!Cancelled,
       BatchP!Failed, BatchP!Completion, Batch!Failed
  <2>2. status[s] = "failed"
    BY <1>2, <2>1 DEF AgentStatus
  <2> QED BY <1>4, <2>2 DEF Fate, Explained
<1>5. CASE f.kind = "degraded"
  <2>1. f # Batch!Failed
    BY <1>5 DEF Batch!Failed
  <2>2. status[s] = "degraded"
    BY <1>2, <1>5, <2>1 DEF AgentStatus, CompletionText, StatusOfText
  <2> QED BY <1>5, <2>2 DEF Fate, Explained
<1>6. CASE f.kind = "ok"
  <2>1. f # Batch!Failed /\ f.of = s
    BY <1>6 DEF Batch!Failed, BatchP!Inv, BatchP!OwnAnswer
  <2>2. AgentStatus(f) = StatusOfText[OwnText(s)]
    BY <1>6, <2>1 DEF AgentStatus, CompletionText, OwnText
  <2>3. OwnText(s) \in {"plain", "degraded_looking", "blank"}
    BY TextFacts DEF Fate, Text
  <2>4. OwnError(s) = "ok"
    BY <1>6 DEF Fate, Explained
  <2> QED BY <1>2, <2>2, <2>3, <2>4 DEF StatusOfText
<1> QED BY <1>1, <1>4, <1>5, <1>6

(* A step completes only on the plain answer to its own prompt, and fails  *)
(* or degrades only through its own text or an error configured for a step *)
(* that ran and does not come after it, for every plan, table of the       *)
(* provider and setting of the batcher and the breaker                     *)
(* (agents.py:130-168, batcher.py:269-312, failure.py:111-201).            *)
THEOREM FateExplainedCorrect == Spec => []FateExplained
<1>1. Spec => []Inv /\ []RunP!Inv /\ []BatchP!Inv
  <2>1. RunP!StreamInv => RunP!Inv
    BY DEF RunP!StreamInv
  <2> QED BY <2>1, Invariance, RunInvariance, BatchInvariance, PTL
<1> QED BY <1>1, FateInit, FateStep, FateExplainedFromInv, PTL DEF Spec

-----------------------------------------------------------------------------
(* And the handler is that of FailureHandlerProofs.                        *)
CallsP == INSTANCE FailureHandlerProofs
            WITH Wirings <- {TRUE}, state <- breaker, pc <- at

LEMMA CallsIsCalls == Calls!Spec => CallsP!Spec
<1>1. Calls!Init => CallsP!Init
  BY DEF Calls!Init, CallsP!Init
<1> USE DEF Calls!breaker, CallsP!breaker, Calls!EndCall, CallsP!EndCall,
            Calls!UseFallbackOrRaise, CallsP!UseFallbackOrRaise,
            Calls!AfterCheck, CallsP!AfterCheck, Calls!ShortCircuits, CallsP!ShortCircuits
<1>2. \A c : (Calls!Begin(c) => CallsP!Begin(c))
  BY DEF Calls!Begin, CallsP!Begin
<1>3. \A c : (Calls!OpSucceeds(c) \/ Calls!OpOther(c) => CallsP!OpSucceeds(c) \/ CallsP!OpOther(c))
  BY DEF Calls!OpSucceeds, CallsP!OpSucceeds, Calls!OpOther, CallsP!OpOther,
     Calls!RecordSuccess, CallsP!RecordSuccess
<1>4. /\ Calls!CountFailure => CallsP!CountFailure
      /\ Calls!StateAfterFailure = CallsP!StateAfterFailure
  BY DEF Calls!CountFailure, CallsP!CountFailure, Calls!Opens, CallsP!Opens,
     Calls!StateAfterFailure, CallsP!StateAfterFailure
<1>5. \A c : (Calls!OpPermanent(c) => CallsP!OpPermanent(c))
  BY <1>4 DEF Calls!OpPermanent, CallsP!OpPermanent
<1>6. \A c : (Calls!OpTransient(c) => CallsP!OpTransient(c))
  BY <1>4 DEF Calls!OpTransient, CallsP!OpTransient, Calls!Exhausted, CallsP!Exhausted,
     Calls!Backoff, CallsP!Backoff, Calls!Exponential, CallsP!Exponential
<1>7. \A c : (Calls!Wake(c) \/ Calls!FallbackEnds(c) \/ Calls!Cancel(c) =>
              CallsP!Wake(c) \/ CallsP!FallbackEnds(c) \/ CallsP!Cancel(c))
  BY DEF Calls!Wake, CallsP!Wake, Calls!FallbackEnds, CallsP!FallbackEnds,
     Calls!Cancel, CallsP!Cancel
<1>8. Calls!Tick \/ Calls!Heal => CallsP!Tick \/ CallsP!Heal
  BY DEF Calls!Tick, CallsP!Tick, Calls!Heal, CallsP!Heal
<1>9. [Calls!Next]_(Calls!vars) => [CallsP!Next]_(CallsP!vars)
  <2>1. Calls!vars = CallsP!vars /\ (Calls!vars)' = (CallsP!vars)'
    BY DEF Calls!vars, CallsP!vars
  <2>2. Calls!Next => CallsP!Next
    BY <1>2, <1>3, <1>5, <1>6, <1>7, <1>8 DEF Calls!Next, CallsP!Next,
       Calls!OpEnds, CallsP!OpEnds
  <2> QED BY <2>1, <2>2
<1> QED BY <1>1, <1>9, PTL DEF Calls!Spec, CallsP!Spec

(* The waits between the retries of one batch grow, jitter included, for   *)
(* every setting build_orchestrator may be given (failure.py:261-288).     *)
THEOREM BackoffGrowsCorrect == Spec => BackoffGrows
<1>1. Spec => CallsP!Spec
  BY ComposesCorrect, CallsIsCalls DEF Composes
<1>2. CallsP!FailureHandlerAssumption
  BY WiringAssumption DEF CallsP!FailureHandlerAssumption
<1>3. Spec => CallsP!BackoffGrows
  BY <1>1, <1>2, CallsP!BackoffGrowsCorrect
<1>4. [\A c \in Callers : at[c] = "op" /\ at'[c] = "sleep" => delay'[c] >= delay[c]]_(CallsP!vars)
      => [\A c \in Callers : at[c] = "op" /\ at'[c] = "sleep" => delay'[c] >= delay[c]]_(Calls!vars)
  BY DEF CallsP!vars, Calls!vars
<1>5. CallsP!BackoffGrows => Calls!BackoffGrows
  BY <1>4, PTL DEF CallsP!BackoffGrows, Calls!BackoffGrows
<1> QED BY <1>3, <1>5 DEF BackoffGrows
=============================================================================
