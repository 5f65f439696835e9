------------------------- MODULE AgenticSystemProofs -------------------------
(***************************************************************************)
(* Theorems about AgenticSystem.tla, for every plan, provider and size: of *)
(* everything that is wired together only one part calls the handler at a  *)
(* time, and run_demo leaves nobody waiting.                               *)
(***************************************************************************)
EXTENDS AgenticSystem, TLAPS

Ended == {"done", "rejected", "cancelled"}
Gone  == {"unborn", "done"}

Shape ==
    /\ future = [s \in Steps |-> future[s]]
    /\ current \in {0, 1}
    /\ loop \in [{1} -> {"unborn", "created", "first", "fill", "taken",
                         "flush", "last_flush", "done"}]
    /\ stopper \in [{Main} -> {"off", "await", "drain"}]
    /\ awaited = [p \in {Main} |-> awaited[p]]
    /\ leftover = [p \in {Main} |-> leftover[p]]
    /\ at \in [Callers -> {"idle", "op", "sleep", "fallback"}]
    /\ demo \in {"run", "closing", "stopping", "over", "raised"}

(* An agent waits for a future during its wave only, and has answered when *)
(* its future is done.                                                     *)
Waiting(s)  == future[s] = Batch!Pending
Answered(s) == future[s] # Batch!Pending /\ future[s] # Batch!Unborn
WaveWaits ==
    \A s \in Steps :
        /\ Waiting(s) => pc = "gather" /\ s \in ready /\ returned[s] = Run!NoResult
        /\ pc = "gather" /\ s \in ready /\ returned[s] # Run!NoResult => Answered(s)

(* Whoever has a call of the handler out is inside _flush.                 *)
Attended == \A c \in Callers : at[c] # "idle" => Flushing(c)

(* The clean-up begins when the run is over, drains when the loop is gone, *)
(* and nothing comes in behind it.                                         *)
Orderly ==
    /\ demo # "run" => pc \in Ended
    /\ stopper[Main] # "off" => demo = "stopping"
    /\ stopper[Main] = "await" => awaited[Main] = 1
    /\ stopper[Main] = "drain" => loop[1] \in Gone /\ inbox = <<>>
    /\ demo \in {"run", "closing"} /\ loop[1] # "unborn" => current = 1
    /\ demo = "over" \/ (demo = "stopping" /\ stopper[Main] = "off") =>
          loop[1] \in Gone /\ inbox = <<>> /\ leftover[Main] = <<>>

Inv == Shape /\ WaveWaits /\ Attended /\ Orderly

-----------------------------------------------------------------------------
(* One caller of the handler.                                              *)
LEMMA BeginFacts ==
    ASSUME Shape, NEW c \in Callers, Calls!Begin(c)
    PROVE  /\ at' \in [Callers -> {"idle", "op", "sleep", "fallback"}]
           /\ \A d \in Callers : d # c => at'[d] = at[d]
BY DEF Shape, Calls!Begin, Calls!UseFallbackOrRaise, Calls!EndCall

LEMMA CallFacts ==
    ASSUME Shape, NEW c \in Callers,
           \/ Calls!OpSucceeds(c) \/ Calls!OpTransient(c) \/ Calls!OpPermanent(c)
           \/ Calls!OpOther(c) \/ Calls!Wake(c) \/ Calls!FallbackEnds(c) \/ Calls!Cancel(c)
    PROVE  /\ at' \in [Callers -> {"idle", "op", "sleep", "fallback"}]
           /\ at[c] # "idle" /\ \A d \in Callers : d # c => at'[d] = at[d]
<1>1. CASE Calls!OpTransient(c)
  BY <1>1 DEF Shape, Calls!OpTransient, Calls!UseFallbackOrRaise, Calls!EndCall
<1>2. CASE \/ Calls!OpSucceeds(c) \/ Calls!OpPermanent(c) \/ Calls!OpOther(c)
           \/ Calls!FallbackEnds(c) \/ Calls!Cancel(c)
  BY <1>2 DEF Shape, Calls!OpSucceeds, Calls!OpPermanent, Calls!OpOther,
     Calls!FallbackEnds, Calls!Cancel, Calls!EndCall
<1>3. CASE Calls!Wake(c)
  BY <1>3 DEF Shape, Calls!Wake
<1> QED BY <1>1, <1>2, <1>3

(* When one of the two enters or leaves _flush the handler follows it.     *)
LEMMA HandlerFacts ==
    ASSUME Shape, Attended, HandlerFollows, NEW c \in Callers,
           \A d \in Callers : d # c => (Flushing(d)' <=> Flushing(d))
    PROVE  Attended' /\ at' \in [Callers -> {"idle", "op", "sleep", "fallback"}]
<1>1. CASE \E d \in Callers : ~ Flushing(d) /\ Flushing(d)' /\ CallHandler(d)
  <2>1. ~ Flushing(c) /\ Flushing(c)' /\ Calls!Begin(c)
    BY <1>1 DEF CallHandler
  <2> QED BY <2>1, BeginFacts DEF Attended
<1>2. CASE \E d \in Callers : Flushing(d) /\ ~ Flushing(d)' /\ Calls!Cancel(d)
  <2>1. Flushing(c) /\ ~ Flushing(c)' /\ Calls!Cancel(c)
    BY <1>2
  <2>2. at'[c] = "idle"
    BY <2>1 DEF Shape, Calls!Cancel, Calls!EndCall
  <2> QED BY <2>1, <2>2, CallFacts DEF Attended
<1>3. CASE (\A d \in Callers : Flushing(d)' = Flushing(d)) /\ UNCHANGED callVars
  BY <1>3 DEF Attended, Shape, callVars
<1> QED BY <1>1, <1>2, <1>3 DEF HandlerFollows

-----------------------------------------------------------------------------
(* The orchestrator and its agents.                                        *)
LEMMA OrchestrateInv == ASSUME Inv, Orchestrate PROVE Inv'
<1>1. /\ demo = "run" /\ UNCHANGED <<demo, inbox, future, current, loop, stopper, awaited,
                                    leftover, at>>
      /\ Run!RunStep \/ Run!Reject
  BY DEF Orchestrate, demoVars, batchVars, callVars
<1>2. Shape' /\ Attended' /\ Orderly'
  BY <1>1 DEF Inv, Shape, Attended, Flushing, Orderly
<1>3. WaveWaits'
  <2>1. \A s \in Steps : Waiting(s)' <=> Waiting(s)
    BY <1>1 DEF Waiting
  <2>2. CASE Run!Schedule
    BY <2>1, <2>2 DEF Inv, WaveWaits, Run!Schedule, Steps, Run!Steps
  <2>3. CASE Run!GatherDone
    BY <2>1, <2>3 DEF Inv, WaveWaits, Run!GatherDone
  <2>4. CASE pc # "gather" /\ pc' # "gather"
    BY <2>1, <2>4 DEF Inv, WaveWaits
  <2>5. (pc # "gather" /\ pc' # "gather") \/ Run!Schedule \/ Run!GatherDone
    <3>1. CASE Run!Reject \/ Run!Start \/ Run!Block \/ Run!Finish
      BY <3>1 DEF Run!Reject, Run!Start, Run!Block, Run!Finish
    <3>2. CASE \E s \in Steps : Run!ApplyNext(s)
      <4>1. PICK s \in Steps : Run!ApplyNext(s)
        BY <3>2
      <4>2. pc = "apply" /\ pc' = IF Run!Running = {s} THEN "loop" ELSE "apply"
        BY <4>1 DEF Run!ApplyNext
      <4> QED BY <4>2
    <3>3. CASE \E s \in Steps : Run!FailBlocked(s)
      BY <3>3 DEF Run!FailBlocked
    <3> QED BY <1>1, <3>1, <3>2, <3>3 DEF Run!RunStep, Steps, Run!Steps
  <2> QED BY <2>2, <2>3, <2>4, <2>5
<1> QED BY <1>2, <1>3 DEF Inv

LEMMA SubmitInv == ASSUME Inv, NEW s \in Steps, AgentSubmits(s) PROVE Inv'
<1>1. /\ pc = "gather" /\ s \in ready /\ future[s] = Batch!Unborn
      /\ future' = [future EXCEPT ![s] = Batch!Pending]
      /\ UNCHANGED <<demo, pc, ready, returned, stopper, awaited, leftover, at>>
      /\ Batch!EnsureRunning
  BY DEF AgentSubmits, demoVars, runVars, callVars, Batch!Submit
<1>2. /\ demo = "run" /\ stopper[Main] = "off" /\ Batch!Unborn # Batch!Pending
  BY <1>1 DEF Inv, Orderly, Ended, Shape, Main, Batch!Unborn, Batch!Pending
<1>3. /\ future' = [r \in Steps |-> future'[r]] /\ future'[s] = Batch!Pending
      /\ \A r \in Steps : r # s => future'[r] = future[r]
  BY <1>1 DEF Inv, Shape
<1>4. \/ UNCHANGED <<current, loop>>
      \/ loop[1] = "unborn" /\ current' = 1 /\ loop' = [loop EXCEPT ![1] = "created"]
  <2>1. Batch!Loops = {1}
    BY DEF Batch!Loops
  <2> QED BY <1>1, <2>1 DEF Batch!EnsureRunning
<1>5. Shape'
  BY <1>1, <1>3, <1>4 DEF Inv, Shape
<1>6. WaveWaits'
  <2>1. returned[s] = Run!NoResult
    BY <1>1, <1>2 DEF Inv, WaveWaits, Answered
  <2> QED BY <1>1, <1>3, <2>1 DEF Inv, WaveWaits, Waiting, Answered
<1>7. Attended'
  BY <1>1, <1>4 DEF Inv, Shape, Attended, Flushing, Callers, Main
<1>8. Orderly'
  BY <1>1, <1>2, <1>4 DEF Inv, Shape, Orderly
<1> QED BY <1>5, <1>6, <1>7, <1>8 DEF Inv

LEMMA AnswerInv == ASSUME Inv, NEW s \in Steps, AgentAnswers(s) PROVE Inv'
<1>1. /\ UNCHANGED <<demo, pc, ready, inbox, future, current, loop, stopper, awaited,
                    leftover, at>>
      /\ future[s].kind \in {"ok", "degraded", "failed"}
      /\ \A t \in Steps : t # s => returned'[t] = returned[t]
  <2>1. Run!AgentReturns(s)
    BY DEF AgentAnswers
  <2>2. \A t \in Steps : t # s => returned'[t] = returned[t]
    BY <2>1 DEF Run!AgentReturns
  <2> QED BY <2>1, <2>2 DEF AgentAnswers, demoVars, batchVars, callVars, Run!AgentReturns
<1>2. Answered(s)
  BY <1>1 DEF Answered, Batch!Pending, Batch!Unborn
<1>3. WaveWaits'
  BY <1>1, <1>2 DEF Inv, WaveWaits, Waiting, Answered
<1>4. Shape' /\ Attended' /\ Orderly'
  BY <1>1 DEF Inv, Shape, Attended, Flushing, Orderly
<1> QED BY <1>3, <1>4 DEF Inv

LEMMA CancelRunInv == ASSUME Inv, CancelRun PROVE Inv'
<1>1. /\ pc = "gather" /\ pc' = "cancelled"
      /\ future' = [s \in Steps |-> IF s \in Awaiting THEN Batch!Cancelled ELSE future[s]]
      /\ UNCHANGED <<demo, inbox, current, loop, stopper, awaited, leftover, at>>
  BY DEF CancelRun, Run!CancelRun, Batch!CancelSubmit, demoVars, callVars
<1>2. future' = [s \in Steps |-> future'[s]] /\ \A s \in Steps : ~ Waiting(s)'
  BY <1>1 DEF Awaiting, Waiting, Batch!Pending, Batch!Cancelled
<1>3. Shape' /\ Attended' /\ Orderly'
  BY <1>1, <1>2 DEF Inv, Shape, Attended, Flushing, Orderly, Ended
<1>4. WaveWaits'
  BY <1>1, <1>2 DEF WaveWaits
<1> QED BY <1>3, <1>4 DEF Inv

-----------------------------------------------------------------------------
(* Steps that leave the agents alone.                                      *)
LEMMA WaveStays ==
    ASSUME WaveWaits, UNCHANGED <<future, pc, ready, returned>>
    PROVE  WaveWaits'
BY DEF WaveWaits, Waiting, Answered

(* The loop moves.                                                         *)
LEMMA LoopInv == ASSUME Inv, LoopMoves(1) PROVE Inv'
<1>1. /\ UNCHANGED <<demo, pc, ready, returned>>
      /\ HandlerFollows
  BY DEF LoopMoves, demoVars, runVars
<1>2. /\ UNCHANGED <<future, current, stopper, awaited, leftover>>
      /\ loop[1] \notin Gone
      /\ \E l \in {"first", "fill", "taken", "flush", "done"} : loop' = [loop EXCEPT ![1] = l]
  <2>1. Batch!LoopHead \in {"first", "done"}
    BY DEF Batch!LoopHead
  <2>2. \A b : Batch!AfterAppend(b) \in {"fill", "flush"}
    BY DEF Batch!AfterAppend
  <2>3. CASE Batch!LoopStarts(1)
    BY <2>1, <2>3 DEF Batch!LoopStarts, Gone
  <2>4. CASE Batch!TakeFirst(1)
    BY <2>2, <2>4 DEF Batch!TakeFirst, Gone
  <2>5. CASE Batch!FillTakes(1)
    BY <2>2, <2>5 DEF Batch!FillTakes, Gone
  <2>6. CASE Batch!FillResumes(1)
    BY <2>2, <2>6 DEF Batch!FillResumes, Gone
  <2>7. CASE Batch!WindowExpires(1)
    BY <2>7 DEF Batch!WindowExpires, Gone
  <2> QED BY <2>3, <2>4, <2>5, <2>6, <2>7 DEF LoopMoves
<1>3. Attended' /\ at' \in [Callers -> {"idle", "op", "sleep", "fallback"}]
  <2>1. Flushing(0)' <=> Flushing(0)
    BY <1>2 DEF Flushing, Main
  <2> QED BY <1>1, <2>1, HandlerFacts DEF Inv, Callers, Main
<1>4. Shape'
  BY <1>1, <1>2, <1>3 DEF Inv, Shape
<1>5. Orderly'
  BY <1>1, <1>2 DEF Inv, Shape, Orderly, Gone
<1> QED BY <1>1, <1>2, <1>3, <1>4, <1>5, WaveStays DEF Inv

-----------------------------------------------------------------------------
(* A call of the handler goes on.  What a flush settles was waiting, so no *)
(* agent that has answered is disturbed.                                   *)
LEMMA SettleFacts ==
    ASSUME WaveWaits, NEW b, NEW completions, Batch!Settle(b, completions),
           UNCHANGED <<pc, ready, returned>>
    PROVE  WaveWaits' /\ future' = [s \in Steps |-> future'[s]]
<1>1. /\ future' = [s \in Steps |-> future'[s]]
      /\ \A s \in Steps : future'[s] = future[s] \/ Waiting(s)
  BY DEF Batch!Settle, Waiting
<1>2. \A s \in Steps : (Waiting(s)' => Waiting(s)) /\ (Answered(s) => Answered(s)')
  BY <1>1 DEF Waiting, Answered
<1> QED BY <1>1, <1>2 DEF WaveWaits

LEMMA CallInv == ASSUME Inv, NEW c \in Callers, CallMoves(c) PROVE Inv'
<1>1. /\ UNCHANGED <<demo, pc, ready, returned>>
      /\ IF at'[c] = "idle" THEN FlushReturns(c) ELSE UNCHANGED batchVars
  BY DEF CallMoves, demoVars, runVars
<1>2. /\ at' \in [Callers -> {"idle", "op", "sleep", "fallback"}]
      /\ at[c] # "idle" /\ \A d \in Callers : d # c => at'[d] = at[d]
  <2>1. \/ Calls!OpSucceeds(c) \/ Calls!OpTransient(c) \/ Calls!OpPermanent(c)
        \/ Calls!OpOther(c) \/ Calls!Wake(c) \/ Calls!FallbackEnds(c)
    BY DEF CallMoves, ProviderAnswers
  <2> QED BY <2>1, CallFacts DEF Inv
<1>3. Flushing(c)
  BY <1>2 DEF Inv, Attended
<1>4. CASE at'[c] # "idle"
  <2>1. UNCHANGED <<inbox, future, current, loop, stopper, awaited, leftover>>
    BY <1>1, <1>4 DEF batchVars
  <2>2. Shape' /\ Orderly' /\ WaveWaits'
    BY <1>1, <1>2, <2>1, WaveStays DEF Inv, Shape, Orderly
  <2>3. Attended'
    BY <1>2, <1>3, <2>1 DEF Inv, Attended, Flushing
  <2> QED BY <2>2, <2>3 DEF Inv
<1>5. CASE at'[c] = "idle"
  <2>1. FlushReturns(c)
    BY <1>1, <1>5
  <2>2. WaveWaits' /\ future' = [s \in Steps |-> future'[s]]
    BY <1>1, <2>1, SettleFacts DEF FlushReturns, Inv
  <2>3. CASE c = Main
    <3>1. /\ UNCHANGED <<inbox, current, loop, awaited>>
          /\ stopper[Main] = "drain"
          /\ leftover' = [leftover EXCEPT ![Main] = Batch!Rest(@)]
          /\ stopper' = [stopper EXCEPT ![Main] =
                            IF leftover'[Main] = <<>> THEN "off" ELSE @]
      BY <2>1, <2>3 DEF FlushReturns, Batch!DrainFlushReturns
    <3>2. \/ stopper'[Main] = "drain"
          \/ stopper'[Main] = "off" /\ leftover'[Main] = <<>>
      BY <3>1 DEF Inv, Shape
    <3>3. Shape'
      BY <1>1, <1>2, <2>2, <3>1 DEF Inv, Shape
    <3>4. Orderly'
      BY <1>1, <3>1, <3>2 DEF Inv, Orderly
    <3>5. Attended'
      BY <1>2, <1>5, <2>3, <3>1 DEF Inv, Attended, Flushing
    <3> QED BY <2>2, <3>3, <3>4, <3>5 DEF Inv
  <2>4. CASE c # Main
    <3>1. c = 1
      BY <2>4 DEF Callers
    <3>2. /\ UNCHANGED <<inbox, current, stopper, awaited, leftover>>
          /\ loop[1] \in {"flush", "last_flush"}
          /\ loop' = [loop EXCEPT ![1] = IF @ = "flush" THEN Batch!LoopHead ELSE "done"]
      BY <2>1, <2>4, <3>1 DEF FlushReturns, Batch!FlushReturns
    <3>3. Shape'
      BY <1>1, <1>2, <2>2, <3>2 DEF Inv, Shape, Batch!LoopHead
    <3>4. Orderly'
      BY <1>1, <3>2 DEF Inv, Orderly, Gone
    <3>5. Attended'
      BY <1>2, <1>5, <3>1, <3>2 DEF Inv, Attended, Flushing, Callers
    <3> QED BY <2>2, <3>3, <3>4, <3>5 DEF Inv
  <2> QED BY <2>3, <2>4
<1> QED BY <1>4, <1>5

LEMMA DrainInv == ASSUME Inv, DrainGoesOn PROVE Inv'
<1>1. /\ UNCHANGED <<demo, pc, ready, returned>>
      /\ UNCHANGED <<inbox, future, current, loop, stopper, awaited, leftover>>
      /\ stopper[Main] = "drain" /\ Calls!Begin(Main) /\ Main \in Callers
  BY DEF DrainGoesOn, CallHandler, demoVars, runVars, batchVars, Callers
<1>2. /\ at' \in [Callers -> {"idle", "op", "sleep", "fallback"}]
      /\ \A d \in Callers : d # Main => at'[d] = at[d]
  BY <1>1, BeginFacts DEF Inv
<1>3. Shape' /\ WaveWaits' /\ Orderly'
  BY <1>1, <1>2, WaveStays DEF Inv, Shape, Orderly
<1>4. Attended'
  BY <1>1, <1>2 DEF Inv, Attended, Flushing
<1> QED BY <1>3, <1>4 DEF Inv

LEMMA TimeInv == ASSUME Inv, TimePasses PROVE Inv'
<1>1. /\ UNCHANGED <<demo, pc, ready, returned, at>>
      /\ UNCHANGED <<inbox, future, current, loop, stopper, awaited, leftover>>
  BY DEF TimePasses, Batch!Tick, Calls!Tick, demoVars, runVars, batchVars, callVars
<1> QED BY <1>1, WaveStays DEF Inv, Shape, Attended, Flushing, Orderly

-----------------------------------------------------------------------------
(* The end of run_demo.                                                    *)
LEMMA DemoInv ==
    ASSUME Inv,
           \/ ConsumerTakes \/ PrintFails \/ CloseStream \/ ConsumerRaises \/ RunDemoEnds
    PROVE  Inv'
<1>1. /\ UNCHANGED <<pc, ready, returned, at>>
      /\ UNCHANGED <<inbox, future, current, loop, stopper, awaited, leftover>>
  BY DEF ConsumerTakes, PrintFails, CloseStream, ConsumerRaises, RunDemoEnds,
     runVars, batchVars, callVars
<1>2. \/ demo' = demo
      \/ demo = "run" /\ pc \in Ended /\ demo' = "closing"
      \/ demo = "closing" /\ demo' = "raised"
      \/ demo = "stopping" /\ stopper[Main] = "off" /\ demo' = "over"
  BY DEF ConsumerTakes, PrintFails, CloseStream, ConsumerRaises, RunDemoEnds, Ended
<1>3. Orderly'
  BY <1>1, <1>2 DEF Inv, Orderly
<1>4. Shape'
  BY <1>1, <1>2 DEF Inv, Shape
<1> QED BY <1>1, <1>3, <1>4, WaveStays DEF Inv, Attended, Flushing

(* task.cancel().                                                          *)
LEMMA CancelLoopFacts ==
    ASSUME Shape, Batch!CancelLoop(1)
    PROVE  /\ loop' \in [{1} -> {"unborn", "created", "first", "fill", "taken",
                                 "flush", "last_flush", "done"}]
           /\ loop[1] \notin Gone
BY DEF Shape, Batch!CancelLoop, Batch!AfterCancelledFill, Gone

LEMMA BeginDrainFacts ==
    ASSUME Shape, Batch!BeginDrain(Main)
    PROVE  /\ stopper' \in [{Main} -> {"off", "await", "drain"}]
           /\ leftover' = [p \in {Main} |-> leftover'[p]]
           /\ inbox' = <<>>
           /\ stopper'[Main] = "drain" \/ (stopper'[Main] = "off" /\ leftover'[Main] = <<>>)
BY DEF Shape, Batch!BeginDrain

LEMMA StopInv == ASSUME Inv, StopBatcher \/ StopGoesOn PROVE Inv'
<1>1. /\ UNCHANGED <<pc, ready, returned>> /\ HandlerFollows
      /\ demo \in {"closing", "stopping"} /\ demo' = "stopping"
      /\ Shape /\ Attended
  BY DEF StopBatcher, StopGoesOn, runVars, demoVars, Inv
<1>2. CASE StopBatcher /\ Batch!StopRunning(Main)
  <2>1. /\ current = 1 /\ current' = 0 /\ Batch!CancelLoop(1)
        /\ stopper[Main] = "off"
        /\ stopper' = [stopper EXCEPT ![Main] = "await"]
        /\ awaited' = [awaited EXCEPT ![Main] = 1]
        /\ UNCHANGED <<future, leftover>>
    BY <1>2 DEF Inv, Shape, Batch!StopRunning, Batch!Running, Batch!NoLoop
  <2>2. Attended' /\ at' \in [Callers -> {"idle", "op", "sleep", "fallback"}]
    <3>1. Flushing(0)' <=> Flushing(0)
      BY <2>1 DEF Flushing, Main, Inv, Shape
    <3> QED BY <1>1, <3>1, HandlerFacts DEF Callers, Main
  <2>3. Shape'
    BY <1>1, <2>1, <2>2, CancelLoopFacts DEF Shape
  <2>4. Orderly'
    BY <1>1, <2>1 DEF Inv, Shape, Orderly
  <2> QED BY <1>1, <2>1, <2>2, <2>3, <2>4, WaveStays DEF Inv
<1>3. CASE \/ StopBatcher /\ Batch!StopIdle(Main)
           \/ StopGoesOn
  <2>1. /\ Batch!BeginDrain(Main) /\ current' \in {0, 1}
        /\ UNCHANGED <<future, loop, awaited>>
        /\ loop[1] \in Gone
    <3>1. CASE StopBatcher /\ Batch!StopIdle(Main)
      <4>1. /\ Batch!BeginDrain(Main) /\ current' = 0 /\ UNCHANGED <<future, loop, awaited>>
            /\ current = 0 \/ loop[current] = "done"
        BY <3>1 DEF Batch!StopIdle, Batch!Running, Batch!NoLoop
      <4>2. loop[1] # "unborn" => current = 1
        BY <3>1 DEF StopBatcher, Inv, Orderly
      <4> QED BY <4>1, <4>2 DEF Gone
    <3>2. CASE StopGoesOn
      <4>1. /\ Batch!BeginDrain(Main) /\ UNCHANGED <<future, current, loop, awaited>>
            /\ stopper[Main] = "await" /\ loop[awaited[Main]] = "done"
        BY <3>2 DEF StopGoesOn, Batch!LoopAwaited
      <4> QED BY <4>1 DEF Inv, Shape, Orderly, Gone
    <3> QED BY <1>3, <3>1, <3>2
  <2>2. /\ stopper' \in [{Main} -> {"off", "await", "drain"}]
        /\ leftover' = [p \in {Main} |-> leftover'[p]]
        /\ inbox' = <<>>
        /\ stopper'[Main] = "drain" \/ (stopper'[Main] = "off" /\ leftover'[Main] = <<>>)
    BY <1>1, <2>1, BeginDrainFacts
  <2>3. Attended' /\ at' \in [Callers -> {"idle", "op", "sleep", "fallback"}]
    <3>1. \A d \in Callers : d # Main => (Flushing(d)' <=> Flushing(d))
      BY <2>1 DEF Flushing
    <3> QED BY <1>1, <3>1, HandlerFacts DEF Callers
  <2>4. Shape'
    BY <1>1, <2>1, <2>2, <2>3 DEF Shape
  <2>5. Orderly'
    BY <1>1, <2>1, <2>2 DEF Inv, Orderly, Gone
  <2> QED BY <1>1, <2>1, <2>3, <2>4, <2>5, WaveStays DEF Inv
<1> QED BY <1>2, <1>3 DEF StopBatcher

LEMMA CancelCleanUpInv == ASSUME Inv, CancelCleanUp PROVE Inv'
<1>1. CASE demo = "closing"
  <2>1. /\ demo' = "raised" /\ UNCHANGED <<pc, ready, returned, at>>
        /\ UNCHANGED <<inbox, future, current, loop, stopper, awaited, leftover>>
    BY <1>1 DEF CancelCleanUp, runVars, batchVars, callVars
  <2> QED BY <1>1, <2>1, WaveStays DEF Inv, Shape, Attended, Flushing, Orderly
<1>2. CASE demo = "stopping" /\ stopper[Main] = "await"
  <2>1. /\ demo' = demo /\ UNCHANGED <<pc, ready, returned>> /\ HandlerFollows
        /\ UNCHANGED <<future, current, stopper, awaited, leftover>>
        /\ Batch!CancelLoop(1)
    BY <1>2 DEF CancelCleanUp, runVars, Batch!CancelStop, Inv, Orderly
  <2>2. Attended' /\ at' \in [Callers -> {"idle", "op", "sleep", "fallback"}]
    <3>1. Flushing(0)' <=> Flushing(0)
      BY <2>1 DEF Flushing, Main
    <3> QED BY <2>1, <3>1, HandlerFacts DEF Callers, Main, Inv
  <2>3. Shape' /\ Orderly'
    BY <1>2, <2>1, <2>2, CancelLoopFacts DEF Inv, Shape, Orderly
  <2> QED BY <2>1, <2>2, <2>3, WaveStays DEF Inv
<1>3. CASE demo = "stopping" /\ stopper[Main] = "drain"
  <2>1. /\ demo' = "raised" /\ UNCHANGED <<pc, ready, returned>> /\ HandlerFollows
        /\ UNCHANGED <<inbox, future, current, loop, awaited>>
        /\ stopper' = [stopper EXCEPT ![Main] = "off"]
        /\ leftover' = [leftover EXCEPT ![Main] = <<>>]
    BY <1>3 DEF CancelCleanUp, runVars, Batch!CancelStop
  <2>2. Attended' /\ at' \in [Callers -> {"idle", "op", "sleep", "fallback"}]
    <3>1. \A d \in Callers : d # Main => (Flushing(d)' <=> Flushing(d))
      BY <2>1 DEF Flushing
    <3> QED BY <2>1, <3>1, HandlerFacts DEF Callers, Inv
  <2>3. Shape' /\ Orderly'
    BY <1>3, <2>1, <2>2 DEF Inv, Shape, Orderly
  <2> QED BY <2>1, <2>2, <2>3, WaveStays DEF Inv
<1> QED BY <1>1, <1>2, <1>3 DEF CancelCleanUp, Batch!CancelStop

-----------------------------------------------------------------------------
LEMMA InitInv == ASSUME Init PROVE Inv
BY DEF Init, Run!Init, Batch!Init, Calls!Init, Inv, Shape, WaveWaits, Waiting, Answered,
   Attended, Orderly, Gone, Batch!Loops, Batch!NoLoop, Batch!Unborn, Batch!Pending

LEMMA NextInv == ASSUME Inv, [Next]_vars PROVE Inv'
<1>1. CASE UNCHANGED vars
  BY <1>1, WaveStays DEF vars, demoVars, runVars, batchVars, callVars,
     Inv, Shape, Attended, Flushing, Orderly
<1>2. CASE Next
  BY <1>2, OrchestrateInv, SubmitInv, AnswerInv, CancelRunInv, LoopInv, CallInv, DrainInv,
     TimeInv, DemoInv, StopInv, CancelCleanUpInv DEF Next, Progress
<1> QED BY <1>1, <1>2

(* Agents wait only in their wave, calls are out only from inside _flush,  *)
(* and stop() drains only behind a loop that is gone.                      *)
THEOREM Invariance == Spec => []Inv
BY InitInv, NextInv, PTL DEF Spec

(* However runs, stops and cancellations are mixed, and whatever the       *)
(* provider answers, the loop and the drain of stop() are never in the     *)
(* failure handler at once (failure.py:176, batcher.py:228).               *)
THEOREM OneCallCorrect == Spec => []OneCallAtATime
<1>1. Inv => OneCallAtATime
  BY DEF Inv, Attended, Flushing, Orderly, Gone, OneCallAtATime, Callers
<1> QED BY <1>1, Invariance, PTL

(* From its finally clause on run_demo leaves nobody waiting, and when it  *)
(* is over nothing is queued, no loop runs and no call is out              *)
(* (cli.py:276-283).                                                       *)
THEOREM CleanExitCorrect == Spec => []CleanExit
<1>1. Inv => CleanExit
  BY DEF Inv, WaveWaits, Waiting, Attended, Flushing, Orderly, Ended, Gone, CleanExit,
     Callers, Main
<1> QED BY <1>1, Invariance, PTL

-----------------------------------------------------------------------------
(* The composition: whatever the others do meanwhile, a step of the system *)
(* is a step of each component or leaves it alone.  So what is proved of a *)
(* component alone holds of it here.                                       *)
Composes == Run!Spec /\ Bus!Spec /\ Batch!Spec /\ Calls!Spec

LEMMA RunComposes == ASSUME [Next]_vars PROVE [Run!Next]_(Run!vars)
<1>1. UNCHANGED runVars => UNCHANGED Run!vars
  BY DEF runVars, Run!vars
<1>2. CASE Orchestrate \/ CancelRun
  BY <1>2 DEF Orchestrate, CancelRun, Run!Next
<1>3. CASE \E s \in Steps : AgentAnswers(s)
  BY <1>3 DEF AgentAnswers, Run!Next, Steps, Run!Steps
<1>4. CASE \E s \in Steps : AgentSubmits(s)
  BY <1>1, <1>4 DEF AgentSubmits
<1>5. CASE \/ LoopMoves(1) \/ (\E c \in Callers : CallMoves(c)) \/ TimePasses
           \/ DrainGoesOn \/ ConsumerTakes \/ PrintFails \/ CloseStream \/ ConsumerRaises
           \/ StopBatcher \/ StopGoesOn \/ RunDemoEnds \/ CancelCleanUp
  BY <1>1, <1>5 DEF LoopMoves, CallMoves, TimePasses, DrainGoesOn, ConsumerTakes,
     PrintFails, CloseStream, ConsumerRaises, StopBatcher, StopGoesOn, RunDemoEnds,
     CancelCleanUp
<1>6. CASE UNCHANGED vars
  BY <1>1, <1>6 DEF vars
<1> QED BY <1>2, <1>3, <1>4, <1>5, <1>6 DEF Next, Progress

LEMMA FlushComposes ==
    ASSUME NEW c \in Callers, FlushReturns(c)
    PROVE  Batch!Next
<1>1. CASE c = Main
  BY <1>1 DEF FlushReturns, Batch!Next, Batch!StopStep
<1>2. CASE c # Main
  <2>1. c = 1 /\ 1 \in Batch!Loops
    BY <1>2 DEF Callers, Batch!Loops
  <2> QED BY <1>2, <2>1 DEF FlushReturns, Batch!Next, Batch!LoopStep
<1> QED BY <1>1, <1>2

LEMMA BatchComposes == ASSUME [Next]_vars PROVE [Batch!Next]_(Batch!vars)
<1>1. UNCHANGED batchVars => UNCHANGED Batch!vars
  BY DEF batchVars, Batch!vars
<1>2. CASE \E s \in Steps : AgentSubmits(s)
  BY <1>2 DEF AgentSubmits, Batch!Next
<1>3. CASE CancelRun
  <2>1. Awaiting \in SUBSET Steps
    BY DEF Awaiting
  <2> QED BY <1>3, <2>1 DEF CancelRun, Batch!Next
<1>4. CASE LoopMoves(1)
  <2>1. 1 \in Batch!Loops
    BY DEF Batch!Loops
  <2> QED BY <1>4, <2>1 DEF LoopMoves, Batch!Next, Batch!LoopStep
<1>5. CASE \E c \in Callers : CallMoves(c)
  BY <1>1, <1>5, FlushComposes DEF CallMoves
<1>6. CASE StopBatcher \/ StopGoesOn
  BY <1>6 DEF StopBatcher, StopGoesOn, Batch!Next, Batch!StopStep
<1>7. CASE CancelCleanUp
  BY <1>1, <1>7 DEF CancelCleanUp, Batch!Next
<1>8. CASE TimePasses
  BY <1>1, <1>8 DEF TimePasses, Batch!Next
<1>9. CASE \/ Orchestrate \/ (\E s \in Steps : AgentAnswers(s))
           \/ DrainGoesOn \/ ConsumerTakes \/ PrintFails \/ CloseStream \/ ConsumerRaises
           \/ RunDemoEnds
  BY <1>1, <1>9 DEF Orchestrate, AgentAnswers, DrainGoesOn, ConsumerTakes,
     PrintFails, CloseStream, ConsumerRaises, RunDemoEnds
<1>10. CASE UNCHANGED vars
  BY <1>1, <1>10 DEF vars
<1> QED BY <1>2, <1>3, <1>4, <1>5, <1>6, <1>7, <1>8, <1>9, <1>10 DEF Next, Progress

LEMMA FollowsComposes == ASSUME HandlerFollows PROVE [Calls!Next]_(Calls!vars)
<1>1. UNCHANGED callVars => UNCHANGED Calls!vars
  BY DEF callVars, Calls!vars
<1> QED BY <1>1 DEF HandlerFollows, CallHandler, Calls!Next

LEMMA CallsComposes == ASSUME [Next]_vars PROVE [Calls!Next]_(Calls!vars)
<1>1. UNCHANGED callVars => UNCHANGED Calls!vars
  BY DEF callVars, Calls!vars
<1>2. CASE \E c \in Callers : CallMoves(c)
  BY <1>2 DEF CallMoves, ProviderAnswers, Calls!Next, Calls!OpEnds
<1>3. CASE DrainGoesOn
  BY <1>3 DEF DrainGoesOn, CallHandler, Calls!Next, Callers
<1>4. CASE TimePasses
  BY <1>1, <1>4 DEF TimePasses, Calls!Next
<1>5. CASE LoopMoves(1) \/ StopBatcher \/ StopGoesOn
  BY <1>5, FollowsComposes DEF LoopMoves, StopBatcher, StopGoesOn
<1>6. CASE CancelCleanUp
  BY <1>1, <1>6, FollowsComposes DEF CancelCleanUp
<1>7. CASE \/ Orchestrate \/ (\E s \in Steps : AgentSubmits(s) \/ AgentAnswers(s))
           \/ CancelRun \/ ConsumerTakes \/ PrintFails \/ CloseStream \/ ConsumerRaises
           \/ RunDemoEnds
  BY <1>1, <1>7 DEF Orchestrate, AgentSubmits, AgentAnswers, CancelRun, ConsumerTakes,
     PrintFails, CloseStream, ConsumerRaises, RunDemoEnds
<1>8. CASE UNCHANGED vars
  BY <1>1, <1>8 DEF vars
<1> QED BY <1>2, <1>3, <1>4, <1>5, <1>6, <1>7, <1>8 DEF Next, Progress

(* The bus is closed from the clean-up on, so the run finds it open.       *)
StreamOpen == closed = (demo # "run")

LEMMA StreamOpenStep == ASSUME StreamOpen, [Next]_vars PROVE StreamOpen'
<1>1. CASE CloseStream
  BY <1>1 DEF CloseStream, Bus!Close, StreamOpen
<1>2. CASE Orchestrate
  <2>1. closed' = closed
    BY <1>2 DEF Orchestrate, EmitOnBus, Bus!Emit, busVars
  <2> QED BY <1>2, <2>1 DEF Orchestrate, demoVars, StreamOpen
<1>3. CASE ConsumerTakes \/ PrintFails
  BY <1>3 DEF ConsumerTakes, PrintFails, Bus!Deliver, StreamOpen
<1>4. CASE \/ ConsumerRaises \/ StopBatcher \/ StopGoesOn \/ RunDemoEnds \/ CancelCleanUp
  <2>1. closed' = closed
    BY <1>4 DEF ConsumerRaises, StopBatcher, StopGoesOn, RunDemoEnds, CancelCleanUp, busVars
  <2>2. demo # "run" /\ demo' # "run"
    BY <1>4 DEF ConsumerRaises, StopBatcher, StopGoesOn, RunDemoEnds, CancelCleanUp, demoVars
  <2> QED BY <2>1, <2>2 DEF StreamOpen
<1>5. CASE \/ LoopMoves(1) \/ (\E c \in Callers : CallMoves(c)) \/ TimePasses
           \/ DrainGoesOn \/ CancelRun \/ (\E s \in Steps : AgentSubmits(s) \/ AgentAnswers(s))
           \/ UNCHANGED vars
  <2>1. UNCHANGED <<closed, demo>>
    BY <1>5 DEF LoopMoves, CallMoves, TimePasses, DrainGoesOn, CancelRun, AgentSubmits,
       AgentAnswers, vars, busVars, demoVars
  <2> QED BY <2>1 DEF StreamOpen
<1> QED BY <1>1, <1>2, <1>3, <1>4, <1>5 DEF Next, Progress

LEMMA BusComposes == ASSUME StreamOpen, [Next]_vars PROVE [Bus!Next]_(Bus!vars)
<1>1. UNCHANGED busVars /\ UNCHANGED emitted => UNCHANGED Bus!vars
  BY DEF busVars, Bus!vars
<1>2. UNCHANGED runVars => UNCHANGED emitted
  BY DEF runVars
<1>3. CASE Orchestrate
  BY <1>1, <1>3 DEF Orchestrate, EmitOnBus, StreamOpen, Bus!Next
<1>4. CASE ConsumerTakes \/ PrintFails
  BY <1>4 DEF ConsumerTakes, PrintFails, Bus!Next
<1>5. CASE CloseStream
  BY <1>5 DEF CloseStream, Bus!Next
<1>6. CASE CancelRun
  BY <1>1, <1>6 DEF CancelRun, Run!CancelRun
<1>7. CASE \E s \in Steps : AgentAnswers(s)
  BY <1>1, <1>7 DEF AgentAnswers, Run!AgentReturns
<1>8. CASE \/ LoopMoves(1) \/ (\E c \in Callers : CallMoves(c)) \/ TimePasses
           \/ DrainGoesOn \/ ConsumerRaises \/ (\E s \in Steps : AgentSubmits(s))
           \/ StopBatcher \/ StopGoesOn \/ RunDemoEnds \/ CancelCleanUp
  BY <1>1, <1>2, <1>8 DEF LoopMoves, CallMoves, TimePasses, DrainGoesOn, ConsumerRaises,
     AgentSubmits, StopBatcher, StopGoesOn, RunDemoEnds, CancelCleanUp
<1>9. CASE UNCHANGED vars
  BY <1>1, <1>2, <1>9 DEF vars
<1> QED BY <1>3, <1>4, <1>5, <1>6, <1>7, <1>8, <1>9 DEF Next, Progress

(* Put together and driven by run_demo, every component goes through       *)
(* states and steps of its own specification only (cli.py:83-142,          *)
(* 262-278).                                                               *)
THEOREM ComposesCorrect == Spec => Composes
<1>1. Init => StreamOpen /\ Run!Init /\ Bus!Init /\ Batch!Init /\ Calls!Init
  BY DEF Init, Bus!Init, StreamOpen
<1>2. StreamOpen /\ [Next]_vars => StreamOpen'
  BY StreamOpenStep
<1>3. [Next]_vars =>
        [Run!Next]_(Run!vars) /\ [Batch!Next]_(Batch!vars) /\ [Calls!Next]_(Calls!vars)
  BY RunComposes, BatchComposes, CallsComposes
<1>4. StreamOpen /\ [Next]_vars => [Bus!Next]_(Bus!vars)
  BY BusComposes
<1> QED BY <1>1, <1>2, <1>3, <1>4, PTL
        DEF Spec, Composes, Run!Spec, Bus!Spec, Batch!Spec, Calls!Spec
=============================================================================
