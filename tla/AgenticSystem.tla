---------------------------- MODULE AgenticSystem ----------------------------
(***************************************************************************)
(* agentic/cli.py: one run_demo over everything build_orchestrator wires   *)
(* together.  The orchestrator's run dispatches the steps of a wave to     *)
(* their agents; each agent submits one prompt to the batcher and turns    *)
(* the completion into its result; the batcher's loop, and stop() when it  *)
(* drains, send their batches through the failure handler to a provider    *)
(* that answers as MockProvider does; the orchestrator's events go over    *)
(* the stream bus to the consumer task that prints them; and when run() is *)
(* over, in whatever way, the bus is closed, the consumer awaited and the  *)
(* batcher stopped, in this order.                                         *)
(*                                                                         *)
(* The components are the modules of their own.  A step that is one        *)
(* stretch of code across components is one step here: the orchestrator    *)
(* emits on the bus, a loop that is about to flush calls the handler, a    *)
(* call that ends settles the batch.  The provider and the fallback may    *)
(* take their time, as the await on them allows.                           *)
(*                                                                         *)
(* An operator X_Mistake is X with one plausible mistake in the code it    *)
(* stands for.  No action uses it: it shows that a property notices.       *)
(***************************************************************************)
EXTENDS TaskDag, MockProvider

CONSTANTS
    Plans,          \* what the planner may return: depends_on and agent_type
                    \* of each step
    Behaviours,     \* the tables the provider may be constructed with
    BusSizes,       \* the values of StreamBus.maxsize
    MaxBatch,       \* max_batch_size
    Window,         \* max_wait_ms, in ticks
    MaxRetries,     \* max_retries
    Threshold,      \* breaker_threshold
    Cooldown,       \* breaker_cooldown_ms, in ticks
    BaseDelay       \* base_delay_ms

ASSUME WiringAssumption ==
    /\ BusSizes \subseteq Nat \ {0}
    /\ MaxBatch \in Nat \ {0} /\ Window \in Nat
    /\ Threshold \in Nat \ {0}
    /\ MaxRetries \in Nat /\ Cooldown \in Nat /\ BaseDelay \in Nat

ASSUME BehavioursAssumption ==
    \A b \in Behaviours :
        /\ \A k \in DOMAIN b.failOn : b.failOn[k] \in Error
        /\ \A k \in DOMAIN b.responses : b.responses[k] \in Text

VARIABLES
    type,           \* Step.agent_type of every step
    behaviour,      \* the tables of the provider
    consumer,       \* the consumer task
    demo,           \* where run_demo is
    pc, deps, status, result, ready, context, returned, emitted,
    maxsize, stream, closed, dropped, delivered, finished,
    inbox, future, age, current, stopped, loop, batch, stopper, awaited, leftover,
    overlap, breaker, failures, since, at, fallback, attempt, invoked, delay, outcome, healthy

setup == <<type, behaviour>>
demoVars == <<consumer, demo>>
runVars == <<pc, deps, status, result, ready, context, returned, emitted>>
busVars == <<maxsize, stream, closed, dropped, delivered, finished>>
batchVars == <<inbox, future, age, current, stopped, loop, batch, stopper, awaited, leftover>>
callVars == <<overlap, breaker, failures, since, at, fallback, attempt, invoked, delay,
              outcome, healthy>>

Main == 0                               \* the task of run_demo
Callers == {Main, 1}                    \* and the loop call the handler

Run == INSTANCE Orchestrator WITH Routable <- Steps

Bus == INSTANCE StreamBus
          WITH Sizes <- BusSizes, Policies <- {"drop_oldest"}, MaxEvents <- N + 2,
               policy <- "drop_oldest", queue <- stream, emitted <- Len(emitted)

Batch == INSTANCE Batcher
          WITH Requests <- Steps, Stamps <- {0}, MaxLoops <- 1, Stoppers <- {Main},
               Cancellable <- {Main}, SwallowsCancel <- TRUE, queue <- inbox

Calls == INSTANCE FailureHandler
          WITH Wirings <- {TRUE}, state <- breaker, pc <- at

PromptOf(s) == Prompt(s, type[s])

(* Planner.decompose: s1 -> s2 -> s3.                                      *)
BuiltInPlan == [deps |-> <<{}, {1}, {2}>>, type |-> <<"retriever", "analyzer", "writer">>]

(* The providers build_orchestrator constructs: canned responses for every *)
(* agent, and with --fail an error for the analyzer's prompts.             *)
DefaultResponses == [k \in {Pattern(g) : g \in AgentType} |-> "plain"]
DemoBehaviours ==
    [failOn : {<<>>} \cup [{Pattern("analyzer")} -> {"transient", "permanent"}],
     responses : {DefaultResponses}]

-----------------------------------------------------------------------------
Init ==
    /\ \E plan \in Plans : deps = plan.deps /\ type = plan.type
    /\ behaviour \in Behaviours
    /\ consumer = "reading"
    /\ demo = "run"
    /\ Run!Init /\ Bus!Init /\ Batch!Init /\ Calls!Init

(* run() goes on; what it emits is on the bus before anybody else moves.   *)
EmitOnBus == IF closed THEN UNCHANGED busVars ELSE Bus!Emit

Orchestrate ==
    /\ demo = "run"
    /\ Run!RunStep \/ Run!Reject
    /\ IF emitted' = emitted THEN UNCHANGED busVars ELSE EmitOnBus
    /\ UNCHANGED <<setup, demoVars, batchVars, callVars>>

(* The tasks of gather start in the order gather made them.                *)
AgentSubmits(s) ==
    /\ pc = "gather"
    /\ s \in ready
    /\ \A t \in ready : t < s => future[t] # Batch!Unborn
    /\ Batch!Submit(s)
    /\ UNCHANGED <<setup, demoVars, runVars, busVars, callVars>>

(* Agent.execute after its await: an exception, or a text to judge by its  *)
(* prefix; the fallback's completions have it.                             *)
CompletionText(f) ==
    IF f.kind = "degraded" THEN "degraded_looking"
    ELSE Resolve(behaviour.responses, PromptOf(f.of))

StatusOfText_NoPrefixTest == [plain |-> "ok", degraded_looking |-> "ok", blank |-> "failed"]
StatusOfText == [plain |-> "ok", degraded_looking |-> "degraded", blank |-> "failed"]

AgentStatus(f) ==
    IF f = Batch!Failed THEN "failed" ELSE StatusOfText[CompletionText(f)]

AgentAnswers(s) ==
    /\ future[s].kind \in {"ok", "degraded", "failed"}
    /\ Run!AgentReturns(s)
    /\ returned'[s].status = AgentStatus(future[s])
    /\ UNCHANGED <<setup, demoVars, busVars, batchVars, callVars>>

-----------------------------------------------------------------------------
(* Who is inside _flush, and with which requests.                          *)
Flushing(c) ==
    IF c = Main THEN stopper[Main] = "drain" ELSE loop[c] \in {"flush", "last_flush"}
InFlush(c) ==
    IF c = Main THEN Batch!Chunk(leftover[Main]) ELSE batch[c]

(* _flush calls the handler, with its degraded fallback.                   *)
CallHandler(c) == Calls!Begin(c) /\ fallback'[c]

(* A step of the batcher that enters _flush starts a call of the handler,  *)
(* and one that leaves it by a cancellation ends the call.                 *)
HandlerFollows ==
    \/ \E c \in Callers : ~ Flushing(c) /\ Flushing(c)' /\ CallHandler(c)
    \/ \E c \in Callers : Flushing(c) /\ ~ Flushing(c)' /\ Calls!Cancel(c)
    \/ (\A c \in Callers : Flushing(c)' = Flushing(c)) /\ UNCHANGED callVars

LoopMoves(t) ==
    /\ \/ Batch!LoopStarts(t) \/ Batch!TakeFirst(t) \/ Batch!FillTakes(t)
       \/ Batch!FillResumes(t) \/ Batch!WindowExpires(t)
    /\ HandlerFollows
    /\ UNCHANGED <<setup, demoVars, runVars, busVars>>

(* What _flush makes of the way its call ended, and what comes after it.   *)
Completions(b, how) ==
    IF how = "ok" THEN [i \in DOMAIN b |-> Batch!Completion(b[i], "ok")]
    ELSE IF how = "degraded" THEN Batch!DegradedCompletions(b)
    ELSE <<>>

FlushReturns(c) ==
    /\ IF c = Main THEN Batch!DrainFlushReturns(Main) ELSE Batch!FlushReturns(c)
    /\ Batch!Settle(InFlush(c), Completions(InFlush(c), outcome'[c]))

ProviderAnswers(c) ==
    LET answer == Complete(behaviour.failOn,
                           [i \in DOMAIN InFlush(c) |-> PromptOf(InFlush(c)[i])])
    IN  \/ answer = "ok"        /\ Calls!OpSucceeds(c)
        \/ answer = "transient" /\ Calls!OpTransient(c)
        \/ answer = "permanent" /\ Calls!OpPermanent(c)
        \/ answer = "other"     /\ Calls!OpOther(c)

CallMoves(c) ==
    /\ \/ ProviderAnswers(c)
       \/ Calls!Wake(c)
       \/ Calls!FallbackEnds(c) /\ outcome'[c] = "degraded"
    /\ IF at'[c] = "idle" THEN FlushReturns(c) ELSE UNCHANGED batchVars
    /\ UNCHANGED <<setup, demoVars, runVars, busVars>>

(* The next chunk of a drain.                                              *)
DrainGoesOn ==
    /\ stopper[Main] = "drain"
    /\ CallHandler(Main)
    /\ UNCHANGED <<setup, demoVars, runVars, busVars, batchVars>>

TimePasses ==
    /\ \/ Batch!Tick /\ UNCHANGED callVars
       \/ Calls!Tick /\ UNCHANGED batchVars
    /\ UNCHANGED <<setup, demoVars, runVars, busVars>>

-----------------------------------------------------------------------------
(* _consume takes an item: it prints it, or ends at the sentinel.          *)
ConsumerTakes ==
    /\ consumer = "reading"
    /\ UNCHANGED <<setup, demo, runVars, batchVars, callVars>>
    /\ Bus!Deliver
    /\ consumer' = IF finished' THEN "ended" ELSE consumer

(* print raises: the consumer task fails with the item in its hands.       *)
PrintFails ==
    /\ consumer = "reading"
    /\ UNCHANGED <<setup, demo, runVars, batchVars, callVars>>
    /\ Bus!Deliver
    /\ ~ finished'
    /\ consumer' = "failed"

(* Ctrl-C while run() awaits gather: so does every agent its future.       *)
Awaiting == {s \in Steps : future[s] = Batch!Pending}

CancelRun ==
    /\ Run!CancelRun
    /\ Batch!CancelSubmit(Awaiting)
    /\ UNCHANGED <<setup, demoVars, busVars, callVars>>

(* The finally clause: stream.close() ...                                  *)
CloseStream ==
    /\ demo = "run"
    /\ pc \in {"done", "rejected", "cancelled"}
    /\ UNCHANGED <<setup, consumer, runVars, batchVars, callVars>>
    /\ Bus!Close
    /\ demo' = "closing"

(* ... await consumer ...                                                  *)
ConsumerRaises ==
    /\ demo = "closing" /\ consumer = "failed"
    /\ demo' = "raised"
    /\ UNCHANGED <<setup, consumer, runVars, busVars, batchVars, callVars>>

(* ... await batcher.stop().                                               *)
StopBatcher ==
    /\ demo = "closing" /\ consumer = "ended"
    /\ demo' = "stopping"
    /\ Batch!StopRunning(Main) \/ Batch!StopIdle(Main)
    /\ HandlerFollows
    /\ UNCHANGED <<setup, consumer, runVars, busVars>>

StopGoesOn ==
    /\ demo = "stopping"
    /\ Batch!LoopAwaited(Main)
    /\ HandlerFollows
    /\ UNCHANGED <<setup, demoVars, runVars, busVars>>

RunDemoEnds ==
    /\ demo = "stopping" /\ stopper[Main] = "off"
    /\ demo' = "over"
    /\ UNCHANGED <<setup, consumer, runVars, busVars, batchVars, callVars>>

(* Ctrl-C once the clean-up has begun.  Awaiting the consumer cancels it   *)
(* and skips stop(); awaiting the loop in stop() is gone on with; a drain  *)
(* is given up.                                                            *)
CancelCleanUp ==
    \/ /\ demo = "closing"
       /\ demo' = "raised"
       /\ consumer' = IF consumer = "reading" THEN "cancelled" ELSE consumer
       /\ UNCHANGED <<setup, runVars, busVars, batchVars, callVars>>
    \/ /\ demo = "stopping"
       /\ demo' = IF stopper[Main] = "drain" THEN "raised" ELSE demo
       /\ Batch!CancelStop(Main)
       /\ HandlerFollows
       /\ UNCHANGED <<setup, consumer, runVars, busVars>>

Progress ==
    \/ Orchestrate \/ TimePasses \/ DrainGoesOn \/ ConsumerTakes
    \/ CloseStream \/ ConsumerRaises \/ StopBatcher \/ StopGoesOn \/ RunDemoEnds
    \/ \E s \in Steps : AgentSubmits(s) \/ AgentAnswers(s)
    \/ LoopMoves(1)
    \/ \E c \in Callers : CallMoves(c)

Next == Progress \/ PrintFails \/ CancelRun \/ CancelCleanUp

vars == <<setup, demoVars, runVars, busVars, batchVars, callVars>>

Spec == Init /\ [][Next]_vars

(* The event loop does not stop while anything can go on: some coroutine   *)
(* is resumed, the provider answers, or time passes.  No fairness among    *)
(* them is asked for: each can do only so much by itself.                  *)
FairSpec == Spec /\ WF_vars(Progress)

-----------------------------------------------------------------------------
(* However runs, stops and cancellations are mixed, the handler serves one *)
(* call at a time: the wiring keeps the breaker out of what overlapping    *)
(* calls do to it (failure.py:67-83), although stop() drains through the   *)
(* same handler as the loop it has just cancelled.                         *)
OneCallAtATime == \A c, d \in Callers : at[c] # "idle" /\ at[d] # "idle" => c = d

(* What the console shows.  On a bus larger than the run the consumer has  *)
(* been handed every event in order by the time it ends; on any bus of two *)
(* or more it has seen DONE, or a marker that tells of a loss.             *)
ConsumerSeesTheRun ==
    consumer = "ended" =>
        /\ maxsize > Len(emitted) =>
              delivered = [i \in DOMAIN emitted |-> Bus!EventItem(i)]
        /\ maxsize >= 2 /\ pc = "done" =>
              \E i \in DOMAIN delivered :
                  \/ delivered[i] = Bus!EventItem(Len(emitted))
                  \/ delivered[i].kind = "dropped"

(* What run_demo leaves behind.  From its finally clause on nobody waits   *)
(* for an answer, so what the cancelled loop drops hurts nobody            *)
(* (NoRequestLost of Batcher.tla); and when it is over the loop is gone,   *)
(* nothing is queued and no call is out.                                   *)
CleanExit ==
    /\ demo # "run" => \A s \in Steps : future[s] # Batch!Pending
    /\ demo = "over" => /\ loop[1] \in {"unborn", "done"}
                        /\ inbox = <<>> /\ leftover[Main] = <<>>
                        /\ \A c \in Callers : at[c] = "idle"

(* t does not come after s in the plan.                                    *)
NotAfter(t, s) ==
    t = s \/ \E A \in SUBSET Steps : /\ t \in A /\ s \notin A
                                     /\ \A u \in A : deps[u] \subseteq A

OwnError(s) == MatchFailure(behaviour.failOn, PromptOf(s))
OwnText(s)  == Resolve(behaviour.responses, PromptOf(s))

(* The steps that ran, do not come after s and have one of these errors.   *)
Culprits(s, errors) ==
    {t \in Steps : Run!Launched(t) /\ NotAfter(t, s) /\ OwnError(t) \in errors}

(* A step completes only on the plain answer to its own prompt.  It fails  *)
(* or degrades only through its own text or through an error configured    *)
(* for a step that ran and does not come after it: one that shared its     *)
(* batch, or that opened the breaker (Requirements 7.6, 8.4, 8.6).  The    *)
(* first failing prompt of a batch decides, and batches are in plan order: *)
(* a step with an error of its own fails through none listed behind it.    *)
FateExplained ==
    \A s \in Steps : result[s].by = "agent" =>
        /\ status[s] = "completed" => OwnError(s) = "ok" /\ OwnText(s) = "plain"
        /\ status[s] = "failed" =>
              \/ OwnText(s) = "blank"
              \/ \E t \in Culprits(s, {"permanent", "other"}) : OwnError(s) # "ok" => t <= s
        /\ status[s] = "degraded" =>
              \/ OwnText(s) = "degraded_looking"
              \/ Culprits(s, {"transient", "permanent"}) # {}

(* Within a call the waits grow: see FailureHandler.tla.                   *)
BackoffGrows == Calls!BackoffGrows

(* run_demo ends, whatever the provider answers and whenever it is         *)
(* cancelled: with everything cleaned up, or with an exception.            *)
DemoEnds == <>(demo \in {"over", "raised"})
=============================================================================
