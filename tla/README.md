# A TLA+ model of the agentic task system

The program (`src/src/agentic/`) takes a free-text task, plans it as a DAG of
steps, runs the steps through agents that share one batched, retried, guarded
connection to an LLM provider, and streams what happens. Everything runs on one
asyncio event loop: what can interleave are the stretches between awaits that
suspend, and every specification here takes one such stretch as one step.

## 1. Inventory

| Component | Code | State it keeps | Operations | What is hard |
|---|---|---|---|---|
| Task | `models.py` | steps, their dependencies, status, result | `validate`, `_assert_acyclic`, `ready_steps`, `is_terminal` | cross edges against back edges, any list order |
| Orchestrator | `orchestrator.py` | the local variables of one run; mutates the Task | `run`, `_execute_dag`, `_apply_result`, `_build_context`, `_fail_blocked_steps` | waves, answers in any order, blocked steps, cancellation, termination |
| Dispatcher | `dispatcher.py` | registry, fixed | `dispatch` | unknown agent type |
| Agents | `agents.py` | none | `execute`, prompts | every exception becomes a result |
| Batcher | `batcher.py` | queue, `_task`, `_stopped`, the batch of each loop, futures | `start`, `stop`, `submit`, `_run_loop`, `_drain`, `_flush` | several loops, cancellation anywhere, windows, restarts |
| Failure handler | `failure.py` | breaker state, failure count, `_opened_at` | `call` and its helpers | overlapping calls, probe, retries against breaker |
| Stream bus | `streaming.py` | bounded queue, `_closed`, `_dropped` | `emit`, `subscribe`, `close` | full queue, markers, eviction at close |
| Planner | `planner.py` | none | `decompose` | text handling only |
| Providers | `providers.py` | configuration | `complete` | matching order; network I/O |
| Command line | `cli.py` | none | wiring, `run_demo` | the order of clean-up |

How they interact: `Orchestrator.run` calls the planner, then for each wave
awaits `gather` over `Dispatcher.dispatch`, which awaits `Agent.execute`, which
awaits `Batcher.submit`. The batcher's loop resolves the submitters' futures
after `FailureHandler.call` around the provider's `complete`. The orchestrator
emits on the stream bus synchronously; the command line's consumer task takes
events from the other end. The command line closes the bus, awaits the consumer
and stops the batcher, in that order. `AgenticSystem` composes all of it.

What makes each part correct: a step runs only on complete input and ends once;
whatever is written off has a cause that ran, and whatever fails or degrades an
error that explains it; the stream agrees with the task;
each request is in exactly one pair of hands until it is answered with its own
answer; the breaker's two variables never disagree, no call retries more than it
may and the breaker recovers; the subscriber gets what it gets in order, is told
of losses, and ends.

## 2. Modules

| Module | Models | Notes |
|---|---|---|
| `TaskDag` | queries of `Task` | constant level: relations, ready steps, terminal; shared |
| `TaskValidation` | `Task.validate` | the coloured search, one iteration per step |
| `TaskLifecycle` | - | abstract: what a run promises of step statuses |
| `Orchestrator` | one run, with dispatcher and agents reduced to results | refines `TaskLifecycle` |
| `FailureHandler` | `FailureHandler.call` and the breaker | any number of callers |
| `LossyChannel` | - | abstract: what a bus promises its subscriber |
| `StreamBus` | `StreamBus` | producer steps and subscriber steps; refines `LossyChannel` |
| `Custody` | - | abstract: what a batcher promises of its requests |
| `Batcher` | `Batcher` | submitters, loops, callers of `stop()`; refines `Custody` |
| `MockProvider` | `MockProvider.complete`, the prompts | constant level: a function of its two tables |
| `AgenticSystem` | `build_orchestrator`, `run_demo`, the agents | composes `Orchestrator`, `StreamBus`, `Batcher`, `FailureHandler` and `MockProvider` |
| `MCOrchestrator`, `MCBatcher`, `MCAgenticSystem` | - | constants and symmetry for TLC |
| `TaskValidationProofs`, `OrchestratorProofs`, `FailureHandlerProofs`, `StreamBusProofs`, `BatcherProofs`, `BatcherCustodyProofs`, `AgenticSystemProofs`, `AgenticSystemOutcomeProofs` | - | theorems, section 5 |

Correspondence of state and steps:

* `Orchestrator`: `pc` is the place in `run()`; `status`/`result` are the
  fields of the steps; `ready`, `context`, `returned` the locals of
  `_execute_dag`; `emitted` the calls of `emit`. `Schedule` is everything from
  `ready_steps` to the start of `gather`; `AgentReturns` one coroutine inside
  it; the two `for` loops (`ApplyNext`, `FailBlocked`) take one iteration a
  step, which is finer than the code (nothing can come between) and so covers
  it. `CancelRun` is a cancellation at the only await that suspends.
* `FailureHandler`: `Begin` is `call` up to its first await, `OpSucceeds`,
  `OpPermanent`, `OpTransient`, `OpOther` what follows the four ways `op` can
  end, `Wake` the end of the backoff. `overlap` says how the handler is wired:
  the batch loop awaits one call at a time, but the class does not ask for it
  (two loops of a restarted batcher, or a second batcher with the same handler,
  overlap). `CountFailure` counts up to `Threshold` because the code only asks
  whether it has been reached; `since` counts ticks up to `Cooldown`. `delay` is
  the backoff a caller sleeps before its retry, any length the default jitter
  allows (`Backoff`).
* `StreamBus`: `Emit` is `emit` with its marker and policy, `Close` both forced
  puts, `Deliver` one resumption of the generator. Events are numbers. As a
  `LossyChannel` the events in the queue are in transit (`Messages`) and what was
  delivered is received, a marker as a notice (`AsReceived`): the delivery of an
  event is `Receive`, that of a marker `Hear`. `told` (`Told`) is "a marker has been
  delivered, is queued or is owed".
* `Batcher`: `loop[t]` is the await a loop is at. `submit` is one step up to
  `await request.future`. A cancellation is delivered in the step of `stop()`
  that causes it. The caller of `stop()` may itself be cancelled (`CancelStop`):
  while it awaits the loop the same `except` catches it and it drains on, in the
  drain it gives up and drops what it holds. `Stamps` are the ages requests may
  have when they are submitted, 0 where `submit` stamps them. `CancelSubmit` and
  `Abandon` of `Custody` take a set of requests, because the cancellation of a
  `gather` reaches everyone it awaits before anything else runs. As a `Custody` each
  request is with a hand that follows from its future and from who holds it
  (`Custodian`); the queue, a forming batch and a wait that has already been
  resumed are all `held`. `SwallowsCancel` distinguishes `asyncio.wait_for` of Python
  3.11 (an inner task; an item it already has is returned in place of the
  cancellation) from 3.12 and later. `FailureHandler.call` is its result: a list
  of completions, perhaps too short, the degraded list, or an exception.
* `AgenticSystem`: the variables are those of the components, each component an
  `INSTANCE` over its own. Where one stretch of code crosses components its step
  is joint: an event of the run is on the bus in the same step (`EmitOnBus`); a
  loop, or a drain, that enters `_flush` begins a call of the handler
  (`HandlerFollows`); the end of the call settles the batch (`FlushReturns`).
  The agents of a wave submit in the order `gather` made their tasks
  (`AgentSubmits`), and `AgentAnswers` is `Agent.execute` after its await.
  `CloseStream`, `ConsumerRaises`, `StopBatcher`, `StopGoesOn` and `RunDemoEnds`
  are the `finally` clause; that `CloseStream` does not come in the same step as
  the end of the run is finer than the code. The faults are a `print` that
  raises (`PrintFails`) and a Ctrl-C at every await of `run_demo` (`CancelRun`,
  `CancelCleanUp`).
* `TaskValidation`: `LookAt` is one turn of the inner `for`, `Backtrack` the
  `if not advanced` branch.

An operator named `X_Mistake` (say `BuildContext_LastWaveOnly`) is `X` with a
plausible mistake. No action uses one; replacing `X` by it makes the property it
is paired with in `PROJECT.json` fail.

## 3. Runs

| Run | Bounds | What it shows |
|---|---|---|
| `validation` | 3 steps, 4 ids, all of the 524288 tasks | `DecidesValidity`: the search accepts exactly the valid tasks and names a step of a cycle otherwise, so `ValidDeps` is what the orchestrator can be handed. `ColoursMeanWhatTheySay`, `Decides` |
| `orchestrator` | 4 steps, all 543 acyclic relations, one unroutable step | `ContextComplete`, `RootCause`, `StreamLedger`, `CausalStream`, `OutcomeFinal`, refinement (`LifecycleSpec`), `Termination` |
| `failure` | 2 callers, 1 retry, threshold 3, cooldown 1, overlapping and sequential, no delays | `BreakerConsistent`, `RetryBound`, `GracefulDegradation`, `GivesUpForCause`, `DocumentedTransitions`, `NoOpWhileOpen`, `EveryCallEnds`, `Recovers` |
| `stream` | sizes 1 to 3, both policies, 9 events | refinement (`ChannelSpec`), `LossAccounted`, `Freshness`, `SubscriberEnds` |
| `batcher` | 3 requests of age 0 or 1, batches of 2, 3 loops, 2 stoppers who may be cancelled, Python 3.11 | `SingleOwner`, `FlushForCause`, `OwnAnswer`, refinement (`CustodySpec`) |
| `batcher_live` | 3 requests, stamped now or with a time to come, batches of 2, 2 loops, 1 stopper who may be cancelled, Python 3.12 | `EveryRequestAnswered`, `NoRequestStuck`, `StopReturns` |
| `system` | 3 plans of 3 steps, 6 providers, buses of 2 and 6, batches of 2, 2 retries, threshold 3, cooldown 1, Python 3.11 | `OneCallAtATime`, `ConsumerSeesTheRun`, `CleanExit`, `FateExplained` (with a plan and a provider where two prompts of one batch fail differently), `BackoffGrows`, `DemoEnds` |
| `stream_order`, `breaker_single_probe`, `stream_loss_announced`, `batcher_lost_request`, `batcher_zombie_loop` | smallest that show it | statements of the documentation the code does not keep, section 6 |

Why the bounds are enough. Four steps give every shape a scheduling mistake
needs: a diamond, a chain of three behind a failure beside a step that can still
run, a dependency listed after its dependent. Three steps give the search a back
edge, a cross edge and a self loop. A threshold above retries plus one makes the
breaker open in the middle of a second call and not only at the end of a first.
Nine events on a queue of three fill it, evict a marker and fill it again. A
third request behind a batch of two is the backlog of a slow flush, and a third
loop lets an old, a cancelled and a new loop coexist. `MaxLoops` caps the number
of restarts (a `submit` that would need one more does not happen), `MaxEvents`
the number of emits.

In `system` the plans are the built-in chain, three entry points (two share a
batch, the third queues up behind them) and a step that depends on one entry
point beside an independent one. The threshold is retries plus one, so one
failing prompt opens the breaker for a later step, and the cooldown of one tick
lets that step find it open or probe it. A bus of 2 overflows with a slow
consumer and evicts at close, a bus of 6 holds every event of a run. One loop is
enough because nobody submits after `stop()` has been called; `MaxLoops = 1`
would otherwise block `AgentSubmits`, and `DemoEnds` would fail.

The passing runs of `Orchestrator`, `Batcher`, `StreamBus`, `TaskValidation` and
`AgenticSystem` do not check deadlock, because a run ends, a closed bus is
drained, a validation decides, a batcher without requests has nothing to do and
`run_demo` returns.

## 4. Fairness

* `Orchestrator!FairSpec`: weak fairness of the coroutine and of every
  dispatched agent. The second rests on `EveryRequestAnswered` of `Batcher`:
  while nobody calls `stop()` every submitted request is answered, and the
  command line calls it after the run.
* `Batcher!FairSpec`: time passes, and the event loop resumes every coroutine
  that can go on. `FlushReturns` is fair because every call of the failure
  handler ends (`EveryCallEnds`, under `FailureHandler!FairSpec`) as soon as each
  provider call has an end.
* `StreamBus!FairSpec`: the subscriber keeps asking. Nothing is asked of the
  producer.
* `FailureHandler!FairSpec`: ops, sleeps and fallbacks end, an op in any of its
  ways, so a provider that fails for ever is among the behaviours; `EveryCallEnds`
  needs no more. `Recovers` states what else it needs as a hypothesis of its own
  (`Busy`): callers keep calling, and not every call is cancelled before its op
  answers. A breaker nobody calls stays open for ever. `healthy` says the provider
  has recovered for good.
* `TaskValidation!FairSpec`: the call runs on.
* `AgenticSystem!FairSpec`: weak fairness of everything that is not a fault
  taken together (`Progress`): the event loop does not stop while a coroutine,
  the provider or the clock can go on. Nothing is assumed of who goes first.

The composition discharges two assumptions of the parts: by `DemoEnds` every
dispatched agent answers, which `Orchestrator!FairSpec` asks for, and by
`OneCallAtATime` the calls of the handler come one at a time, the wiring in
which `DocumentedTransitions` and `NoOpWhileOpen` hold without their exceptions,
although the handler is composed in its overlapping form.

## 5. Proofs

`OrchestratorProofs`, for every number of steps, every acyclic relation, every
set of routable steps (assumptions `NAssumption`, `RoutableAssumption`):

* `Invariance`: the inductive invariant `Inv`. The properties are not inductive
  on their own; what is missing is where in the coroutine each status may occur
  (`Phases`), that the results `gather` holds are those of the steps they are
  kept for (`ReturnedOwn`), that status and result agree (`Stored`), the reason
  for a write-off (`WrittenOff`), and that a wave takes every step it can
  (`MaximalWave`), without which a pending step might have lost its chance.
* `TypeCorrect`, `ContextCorrect`, `RootCauseCorrect`, `OutcomeFinalCorrect`.
  `RootCauseCorrect` needs acyclicity: in the closed set behind a written-off
  step the steps that did not complete have a minimal member, which cannot have
  been written off, since a write-off has an incomplete dependency in the set.
* `ImplementsLifecycle`: the refinement. The mapping is the identity on `deps`
  and `status`; events, contexts and answers map to stutters.
* `StreamLedgerCorrect` and `CausalStreamCorrect`. Their invariant `StreamInv` adds
  to `Inv` that exactly the PARTIAL events carry a result. A step that emits nothing
  leaves both alone; one that emits puts the event of a step without a line so far
  at the end, and by `Inv` an executed step's dependencies are COMPLETED, so their
  lines stand before.

`TaskValidationProofs`, for every number of steps, every set of ids, every task
(`NAssumption`): `DecidesCorrect`, `ColoursCorrect`, `TypeCorrect`. The invariant
says of the stack that no step is on it twice (`Distinct`), that each frame has
dealt with the dependencies it no longer has left (`DealtWith`), and that each
step on it is reached from all below it (`Reached`); of the black steps that no
cycle lies among them (`BlackAcyclic`). The last is the heart: a step turns black
when all its dependencies are black, and no black step depends on it, so a set
with a cycle would have had one before. At the end every step is black.
`Reached` is what puts the named step on a cycle. That the stack is never deeper
than the task is long is the pigeonhole principle on `Distinct`.

`FailureHandlerProofs`, for every set of callers, every wiring, every number of
retries, threshold and cooldown, 0 included (assumption
`FailureHandlerAssumption`):

* `Invariance`, `TypeCorrect`, `BreakerCorrect`, `RetryCorrect`,
  `DegradationCorrect`, `GivesUpCorrect`. `RetryBound` becomes inductive with "a
  running op has retries left"; that a fallback hides no permanent error, with
  "a call at its fallback has had each op it invoked fail transiently"
  (`FallbackInv`).
* `TransitionsCorrect` and `NoOpWhileOpenCorrect`, for overlapping calls too. Each
  has one exception, the late success and the retry that slept through the opening;
  that these take calls that overlap follows from `OneAtATimeInvariance`: when calls
  do not, a call at its op or asleep keeps everyone else from opening the breaker.

* `BackoffGrowsCorrect`. Its invariant `DelayInv` remembers that the delay of a
  call under way is a backoff before its latest retry; the longest of those is the
  shortest before the next. That rests on `2 ^ (n + 1) = 2 * 2 ^ n`, which the
  solver does not know; `PowersOfTwo` gets it from a set of `n` elements, whose
  subsets the library counts, by adding one element.

`StreamBusProofs`, for every size, both policies, every number of events
(`StreamBusAssumption`):

* `TypeCorrect`, `InOrderCorrect`, `FreshnessCorrect`, `EndIsComingCorrect`. The
  invariant says that the queue goes on where what was delivered ends, in ascending
  order (`Continues`), and that the sentinel can only be its last item.
  `EndIsComing` is the safety behind `SubscriberEnds`.
* `LossAccountedCorrect`. The claims of markers and the lost events are sets whose
  cardinalities are compared (`Claims`, `Lost`), not folds, so that a step that
  appends, evicts or delivers an item changes each by one item's share
  (`ClaimedAppend`, `ClaimedEvict`, `EventsAppend`, `EventsEvict`). `LossInv` adds
  that only items the code makes occur: a marker tells of at least one loss.
  By `MarkerBalance` a marker that is queued tells of exactly what was owed, and an
  evicted marker gives back at most what it claimed.
* `ChannelImplemented`, the refinement of `LossyChannel`: `Emit` is `Send`, `Close` is
  `Close`, `Deliver` is `Receive`, `Hear` or `End` by the item at the head. That an
  eviction takes the oldest message is `Continues`; that a delivered marker tells of
  something lost is `LossInv`.
* `LastWordCorrect`: a bus larger than what was emitted loses nothing (`AllThere`);
  under `drop_oldest` a bus of two or more always shows its last event or a marker,
  to the end (`LastWord`).

`BatcherProofs`, for every set of requests, batch size, window, ages, number of
loops and of callers of `stop()`, with either `wait_for` (`BatcherAssumption`):
`TypeCorrect`, `SingleOwnerCorrect`, `FlushForCauseCorrect`, `OwnAnswerCorrect`.
In the invariant the queue, the batches and the drains hold disjoint requests,
none twice (`Apart`), none of them settled (`Unsettled`); every loop holds what
its await allows (`LoopPhases`) and only a drain holds what it drains
(`StopPhases`). `Moves` lists the ways requests change hands, `NextMoves` shows
that there are no others, and `Apart` is proved of these.

`BatcherCustodyProofs`, from the same assumption: `CustodyImplemented`, the
refinement of `Custody`. `Located` reads the custodian of a request off the hands
that hold it; then each pair of hands has a lemma on where its requests go when
it takes from the queue, comes back from the provider, drains or is cancelled.

`AgenticSystemProofs`, for every plan, provider, bus, batch size and handler
parameter: `OneCallCorrect` and `CleanExitCorrect`. The invariant relates the
components: an agent waits for its future only in its wave (`WaveWaits`), whoever
has a call of the handler out is inside `_flush` (`Attended`), and `stop()` begins
when the run is over and drains only when the loop is gone and nothing can come
in behind it (`Orderly`). Then the loop and the drain cannot both be in `_flush`.

* `ComposesCorrect`: every step of the system is a step or a stutter of the run, of
  the bus, of the batcher and of the handler, each by its own specification
  (`Composes`). Hence what the modules above prove of a component holds here; they
  are brought in as instances, whose assumptions follow from `WiringAssumption` (the
  parameters are the numbers the configuration admits, a bus and a batch hold at
  least one) and `NAssumption`. A run emits `N + 2` events at most, the
  bound of the bus. Needed besides is `StreamOpen`: the bus is open exactly until
  the `finally` clause, so no event of the run meets a closed one.

`AgenticSystemOutcomeProofs`, from these and from `BehavioursAssumption` (the tables
of the provider map to errors and texts):

* `ConsumerSeesTheRunCorrect`: `AllThere` and `LastWord` of the bus, read when the
  queue is empty, and `StreamLedger` of the run.
* `FateExplainedCorrect`. The invariant `Fate` follows an error on its way: whoever
  is with the batcher was launched (`Submitted`); the handler is in trouble (breaker
  not closed, a call asleep or at its fallback) only after an error of somebody
  launched (`HandlerExplained`); a future settles for cause (`Explained`), and what
  an agent returned, and what was stored of it, is what its future came to
  (`Reported`). `LaunchedNotAfter` puts the culprit in its place: a launched step and
  everything COMPLETED are closed under dependencies, by `ContextComplete`, and the
  step that is waiting is not among them. That a future holds its own completion is
  `OwnAnswer` of the batcher. That no later prompt decides over an earlier one is
  `Lined`: the steps of a wave submit in the order of the plan, and what the loop
  holds and what waits behind it stands in that order. The choice of the first failing prompt, and of the
  first pattern that matches, needs the least member of a set of numbers
  (`LeastNumber`, from well-foundedness).
* `BackoffGrowsCorrect`: that of the handler, carried over.

Model-checked only: all liveness (`Termination`, `Decides`, `EveryCallEnds`,
`Recovers`, `SubscriberEnds`, `EveryRequestAnswered`, `NoRequestStuck`,
`StopReturns`, `DemoEnds`): the prover has no reasoning about fairness. Every
invariant, action property and refinement that a passing run checks is a theorem.

## 6. Where documentation and code part

With a run that shows it:

* `batcher_lost_request`: `stop()` cancels the loop inside `_flush`; the futures
  of that batch are never resolved, against the docstring of `stop`
  (`batcher.py:139-143`). By `CustodySpec` a request gets lost in no other way
  than with a cancelled flush or, when the caller of `stop()` is cancelled, with
  its drain.
* `batcher_zombie_loop`: under Python 3.11 a swallowed cancellation and a
  concurrent `submit` (which sets `_stopped` back) leave `stop()` awaiting a
  loop that runs on.
* `stream_loss_announced`: `close` on a full queue loses an event, or the
  marker, silently (`streaming.py:302-304`).
* `breaker_single_probe`: HALF_OPEN admits every call (`failure.py:228`).
* `stream_order`: partial events come after the wave's barrier, in list order
  (`README.md:45`, `design.md:441`).

Seen in the code while modelling, without a run of their own:

* The design's example has the analyzer end DEGRADED and the "writer still runs on
  degraded input" (`design.md:551-552`). The code writes the writer off:
  `ready_steps` asks for COMPLETED dependencies (`models.py:198`, `models.py:208`).
  Requirement 4.2 and the design's Property 6 side with the code, and so do
  `ContextComplete` and `CausalStream`, whose mutant `Unsatisfied_DegradedCounts` is
  the example's reading. `design.md:422` and `:656` name a FAILED dependency only as
  the cause of a block.
* With overlapping calls the success of a call that was at `op` when another one
  opened the breaker closes it, a transition the list at `failure.py:69-75` does not
  have, and a call that was asleep then invokes `op` while it is OPEN
  (`failure.py:80`). `DocumentedTransitions` and `NoOpWhileOpen` name these two and
  show that there are no others, and none while calls come one at a time.
* Permanent errors count for the breaker; in the design's listing they are only
  raised (`design.md:460-461`).
* A request's window is counted from `enqueued_at`, so what waited behind a slow
  flush is sent one request at a time however much is queued, where the design says
  the triggers prevent "too many tiny calls" (`design.md:349`). `FlushForCause` holds
  all the same: the window has passed.
* A wave that ends with no COMPLETED step contradicts `orchestrator.py:145` ("The
  COMPLETED set grows on each productive iteration"; termination holds by the
  terminal steps instead).
* A PermanentError raised by a retry leaves after more than one attempt
  (`failure.py:171`).
* An evicted marker is counted as one lost event whatever it announced, so markers
  undercount (`streaming.py:36`; `LossAccounted` states the bound that holds). A
  marker may take the last free slot from an event (`streaming.py:22`).
* A consumer that fails, or a Ctrl-C while it is awaited, skips `batcher.stop()`
  (`cli.py:276-277`).
* The pattern `*` of the mock provider's table sorts before every one that starts
  with a letter and wins over it (`providers.py:215`).
* `Task.text` is the stripped text (Requirement 1.3 says the original).

## 7. Not modelled

* A `BatchRequest` submitted twice, or with a future of another event loop.
* An injected jitter function; the real clock (ages and cooldown are ticks,
  backoff lengths a unit of their own that does not pass).
* `OpenAIProvider`: network I/O and the lazy construction of a client. What it
  does to its caller, answer or raise in one of three ways, is in
  `FailureHandler`.
* What `asyncio.run` does to the tasks left after `run_demo` has raised.
* Parsing of arguments, printing, and the delay between printed events.
* The ids and snippets of the planner, and the wording of prompts, completions
  and errors: what is kept of a text is what the code branches on.
* The error types, which are declarations.
* More than one subscriber, which the bus excludes.

## 8. Plan

Every component whose code changes state is modelled, and every safety property and
refinement the passing runs check is proved. What is left is of smaller worth:

1. The safety halves of the liveness properties as theorems: a measure that each
   step of a run or of a search decreases, next to `Termination` and `Decides`, and
   the batcher's "who waits is held by somebody who can go on" next to
   `EveryRequestAnswered`.
2. The conditions under which `NoRequestLost` and `StopReturns` do hold (nobody
   calls `stop()` during a flush; a batcher that is not restarted).
