------------------------------ MODULE Batcher ------------------------------
(***************************************************************************)
(* agentic/batcher.py: submitters, the background loop that forms batches, *)
(* and callers of stop(), on one event loop.  A step is what a coroutine   *)
(* does between two awaits that suspend: submit() up to awaiting its       *)
(* future (the queue is unbounded, so put does not suspend), the loop from *)
(* one of its awaits to the next, stop() up to awaiting the task.          *)
(*                                                                         *)
(* start() makes a new loop whenever the last one handed to _task is gone, *)
(* so there may be several at once.  Time is the age of each request in    *)
(* ticks since enqueued_at, counted no further than Window.                *)
(*                                                                         *)
(* An operator X_Mistake is X with one plausible mistake in the code it    *)
(* stands for.  No action uses it: it shows that a property notices.       *)
(***************************************************************************)
EXTENDS Integers, Sequences, FiniteSets

CONSTANTS
    Requests,       \* the requests, each submitted at most once
    MaxBatch,       \* max_batch_size
    Window,         \* max_wait_ms, in ticks
    Stamps,         \* the ages requests may have when they are submitted: 0
                    \* when submit() stamps them, any when the caller did
    MaxLoops,       \* bound on the number of loops ever started
    Stoppers,       \* the coroutines that may call stop(), again and again
    Cancellable,    \* those of them whose callers may be cancelled
    SwallowsCancel  \* whether asyncio.wait_for may return an item in place of
                    \* a cancellation: TRUE for Python 3.11, FALSE from 3.12

ASSUME BatcherAssumption ==
    /\ MaxBatch \in Nat \ {0}
    /\ Window \in Nat
    /\ Stamps \subseteq Int /\ \A a \in Stamps : a <= Window
    /\ MaxLoops \in Nat \ {0}
    /\ Cancellable \subseteq Stoppers
    /\ SwallowsCancel \in BOOLEAN

VARIABLES
    queue,          \* _queue
    future,         \* BatchRequest.future of each request
    age,            \* ticks since enqueued_at
    current,        \* _task: a loop, or NoLoop for None
    stopped,        \* _stopped
    loop,           \* where each loop is
    batch,          \* the local "batch" of each loop
    stopper,        \* where each caller of stop() is
    awaited,        \* the local "task" of each caller of stop()
    leftover        \* the requests its _drain has still to flush

vars == <<queue, future, age, current, stopped, loop, batch, stopper, awaited, leftover>>

Loops == 1..MaxLoops
NoLoop == 0

(* A future: not created, pending, cancelled by its submitter, failed, or  *)
(* resolved with the completion of some request's prompt.                  *)
Unborn    == [kind |-> "unborn"]
Pending   == [kind |-> "pending"]
Cancelled == [kind |-> "cancelled"]
Failed    == [kind |-> "failed"]
Completion(r, how) == [kind |-> how, of |-> r]
Future == {Unborn, Pending, Cancelled, Failed}
            \cup {Completion(r, how) : r \in Requests, how \in {"ok", "degraded"}}

Elements(q) == {q[i] : i \in DOMAIN q}

Running == current # NoLoop /\ loop[current] # "done"

(* The first at most MaxBatch requests of a sequence, and the rest.        *)
Chunk(q) == SubSeq(q, 1, IF Len(q) < MaxBatch THEN Len(q) ELSE MaxBatch)
Rest_SkipsOne(q) == SubSeq(q, Len(Chunk(q)) + 2, Len(q))
Rest(q)  == SubSeq(q, Len(Chunk(q)) + 1, Len(q))

-----------------------------------------------------------------------------
(* _flush after its await, by what FailureHandler.call gave: a list of     *)
(* completions in the order of the prompts, possibly shorter than the      *)
(* batch.  An exception fails every request, as the empty list does.  Only *)
(* futures that are not done are touched.                                  *)
Answer_Reversed(i, completions) ==
    IF i \in DOMAIN completions
    THEN completions[Len(completions) + 1 - i] ELSE Failed
Answer_NoShortfall(i, completions) ==
    IF i \in DOMAIN completions THEN completions[i] ELSE Pending
Answer(i, completions) ==
    IF i \in DOMAIN completions THEN completions[i] ELSE Failed

Settle(b, completions) ==
    future' = [r \in Requests |->
        IF future[r] = Pending /\ r \in Elements(b)
        THEN Answer(CHOOSE i \in DOMAIN b : b[i] = r, completions)
        ELSE future[r]]

(* _degraded_completions: the fallback answers every prompt.               *)
DegradedCompletions(b) == [i \in 1..Len(b) |-> Completion(b[i], "degraded")]

CallResults_BarePrompts(b) ==
    {[i \in 1..k |-> Completion(b[i], "ok")] : k \in 0..Len(b)} \cup {b}
CallResults(b) ==
    {[i \in 1..k |-> Completion(b[i], "ok")] : k \in 0..Len(b)}
        \cup {DegradedCompletions(b)}

Flushed(b) == \E completions \in CallResults(b) : Settle(b, completions)

-----------------------------------------------------------------------------
Init ==
    /\ queue = <<>>
    /\ future = [r \in Requests |-> Unborn]
    /\ age = [r \in Requests |-> 0]
    /\ current = NoLoop
    /\ stopped = FALSE
    /\ loop = [t \in Loops |-> "unborn"]
    /\ batch = [t \in Loops |-> <<>>]
    /\ stopper = [p \in Stoppers |-> "off"]
    /\ awaited = [p \in Stoppers |-> NoLoop]
    /\ leftover = [p \in Stoppers |-> <<>>]

(* start(): no effect on a running batcher.                                *)
EnsureRunning_NotAfterStop ==
    IF Running \/ stopped
    THEN UNCHANGED <<stopped, current, loop>>
    ELSE /\ stopped' = FALSE
         /\ current' = 1
         /\ loop' = [loop EXCEPT ![1] = "created"]
EnsureRunning ==
    IF Running
    THEN UNCHANGED <<stopped, current, loop>>
    ELSE \E t \in Loops :
            /\ loop[t] = "unborn" /\ \A u \in 1..(t - 1) : loop[u] # "unborn"
            /\ stopped' = FALSE
            /\ current' = t
            /\ loop' = [loop EXCEPT ![t] = "created"]

Start ==
    /\ EnsureRunning
    /\ UNCHANGED <<queue, future, age, batch, stopper, awaited, leftover>>

Submit(r) ==
    /\ future[r] = Unborn
    /\ future' = [future EXCEPT ![r] = Pending]
    /\ \E a \in Stamps : age' = [age EXCEPT ![r] = a]
    /\ queue' = Append(queue, r)
    /\ EnsureRunning
    /\ UNCHANGED <<batch, stopper, awaited, leftover>>

(* Tasks awaiting submit() are cancelled, and their futures with them: one *)
(* of them, or all that are awaited together by a gather.                  *)
CancelSubmit(R) ==
    /\ \A r \in R : future[r] = Pending
    /\ future' = [r \in Requests |-> IF r \in R THEN Cancelled ELSE future[r]]
    /\ UNCHANGED <<queue, age, current, stopped, loop, batch, stopper, awaited, leftover>>

Tick ==
    /\ \E r \in Requests : future[r] # Unborn /\ age[r] < Window
    /\ age' = [r \in Requests |->
                  IF future[r] # Unborn /\ age[r] < Window THEN age[r] + 1 ELSE age[r]]
    /\ UNCHANGED <<queue, future, current, stopped, loop, batch, stopper, awaited, leftover>>

-----------------------------------------------------------------------------
(* The head of _run_loop: leave, or wait for a first request.              *)
LoopHead == IF stopped THEN "done" ELSE "first"

(* After a request joined batch b: fill on, or flush.                      *)
AfterAppend_OneTooMany(b) ==
    IF Len(b) <= MaxBatch /\ age[b[1]] < Window THEN "fill" ELSE "flush"
AfterAppend(b) ==
    IF Len(b) < MaxBatch /\ age[b[1]] < Window THEN "fill" ELSE "flush"

LoopStarts(t) ==
    /\ loop[t] = "created"
    /\ loop' = [loop EXCEPT ![t] = LoopHead]
    /\ UNCHANGED <<queue, future, age, current, stopped, batch, stopper, awaited, leftover>>

TakeFirst(t) ==
    /\ loop[t] = "first"
    /\ queue # <<>>
    /\ queue' = Tail(queue)
    /\ batch' = [batch EXCEPT ![t] = <<Head(queue)>>]
    /\ loop' = [loop EXCEPT ![t] = AfterAppend(batch'[t])]
    /\ UNCHANGED <<future, age, current, stopped, stopper, awaited, leftover>>

(* The get() inside wait_for takes a request.  In Python 3.11 it runs in a *)
(* task of its own and the loop learns of it in a later step.              *)
FillTakes(t) ==
    /\ loop[t] = "fill"
    /\ queue # <<>>
    /\ queue' = Tail(queue)
    /\ batch' = [batch EXCEPT ![t] = Append(@, Head(queue))]
    /\ loop' = [loop EXCEPT ![t] =
                   IF SwallowsCancel THEN "taken" ELSE AfterAppend(batch'[t])]
    /\ UNCHANGED <<future, age, current, stopped, stopper, awaited, leftover>>

FillResumes(t) ==
    /\ loop[t] = "taken"
    /\ loop' = [loop EXCEPT ![t] = AfterAppend(batch[t])]
    /\ UNCHANGED <<queue, future, age, current, stopped, batch, stopper, awaited, leftover>>

(* TimeoutError: the window of the first request has passed.               *)
WindowExpires(t) ==
    /\ loop[t] = "fill"
    /\ age[batch[t][1]] >= Window
    /\ loop' = [loop EXCEPT ![t] = "flush"]
    /\ UNCHANGED <<queue, future, age, current, stopped, batch, stopper, awaited, leftover>>

FlushReturns(t) ==
    /\ loop[t] \in {"flush", "last_flush"}
    /\ Flushed(batch[t])
    /\ batch' = [batch EXCEPT ![t] = <<>>]
    /\ loop' = [loop EXCEPT ![t] = IF @ = "flush" THEN LoopHead ELSE "done"]
    /\ UNCHANGED <<queue, age, current, stopped, stopper, awaited, leftover>>

-----------------------------------------------------------------------------
(* task.cancel() and its arrival in the loop.  Nothing the loop does can   *)
(* come between the two.  A request that the inner get() of wait_for has   *)
(* taken, or is about to take, is returned in place of the cancellation    *)
(* when SwallowsCancel.  CancelledError is no Exception: _flush lets it    *)
(* through and settles nothing.                                            *)
AfterCancelledFill_NoReturn == "flush"
AfterCancelledFill == "last_flush"

CancelLoop(t) ==
    \/ /\ loop[t] \in {"created", "first"}
       /\ loop' = [loop EXCEPT ![t] = "done"]
       /\ UNCHANGED <<queue, batch>>
    \/ /\ loop[t] = "fill"
       /\ ~ SwallowsCancel \/ queue = <<>>
       /\ loop' = [loop EXCEPT ![t] = AfterCancelledFill]
       /\ UNCHANGED <<queue, batch>>
    \/ /\ loop[t] = "fill"
       /\ SwallowsCancel /\ queue # <<>>
       /\ queue' = Tail(queue)
       /\ batch' = [batch EXCEPT ![t] = Append(@, Head(queue))]
       /\ loop' = [loop EXCEPT ![t] = "taken"]
    \/ /\ loop[t] = "taken"
       /\ UNCHANGED <<queue, batch, loop>>
    \/ /\ loop[t] \in {"flush", "last_flush"}
       /\ loop' = [loop EXCEPT ![t] = "done"]
       /\ batch' = [batch EXCEPT ![t] = <<>>]
       /\ UNCHANGED queue

(* _drain up to its first flush: take over the queue.                      *)
BeginDrain_LeavesQueue(p) ==
    /\ leftover' = [leftover EXCEPT ![p] = queue]
    /\ UNCHANGED queue
    /\ stopper' = [stopper EXCEPT ![p] = IF queue = <<>> THEN "off" ELSE "drain"]
BeginDrain(p) ==
    /\ leftover' = [leftover EXCEPT ![p] = queue]
    /\ queue' = <<>>
    /\ stopper' = [stopper EXCEPT ![p] = IF queue = <<>> THEN "off" ELSE "drain"]

(* stop() of a running batcher: cancel the loop and await it.              *)
StopRunning(p) ==
    /\ stopper[p] = "off"
    /\ Running
    /\ stopped' = TRUE
    /\ current' = NoLoop
    /\ CancelLoop(current)
    /\ stopper' = [stopper EXCEPT ![p] = "await"]
    /\ awaited' = [awaited EXCEPT ![p] = current]
    /\ UNCHANGED <<future, age, leftover>>

(* stop() when there is no loop to wait for.                               *)
StopIdle(p) ==
    /\ stopper[p] = "off"
    /\ ~ Running
    /\ stopped' = TRUE
    /\ current' = NoLoop
    /\ BeginDrain(p)
    /\ UNCHANGED <<future, age, loop, batch, awaited>>

LoopAwaited_NotAwaited(p) ==
    /\ stopper[p] = "await"
    /\ BeginDrain(p)
    /\ UNCHANGED <<future, age, current, stopped, loop, batch, awaited>>
LoopAwaited(p) ==
    /\ stopper[p] = "await"
    /\ loop[awaited[p]] = "done"
    /\ BeginDrain(p)
    /\ UNCHANGED <<future, age, current, stopped, loop, batch, awaited>>

(* A flush of _drain returns, and the next chunk's begins.                 *)
DrainFlushReturns(p) ==
    /\ stopper[p] = "drain"
    /\ Flushed(Chunk(leftover[p]))
    /\ leftover' = [leftover EXCEPT ![p] = Rest(@)]
    /\ stopper' = [stopper EXCEPT ![p] = IF leftover'[p] = <<>> THEN "off" ELSE @]
    /\ UNCHANGED <<queue, age, current, stopped, loop, batch, awaited>>

(* The caller of stop() is cancelled.  While it awaits the loop the loop   *)
(* is cancelled once more, in its last flush too, and stop() goes on: its  *)
(* except clause takes the caller's cancellation for the loop's.  In a     *)
(* drain the flush and the chunks after it are given up.                   *)
CancelStop(p) ==
    \/ /\ p \in Cancellable
       /\ stopper[p] = "await"
       /\ loop[awaited[p]] # "done"
       /\ CancelLoop(awaited[p])
       /\ UNCHANGED <<future, age, current, stopped, stopper, awaited, leftover>>
    \/ /\ p \in Cancellable
       /\ stopper[p] = "drain"
       /\ stopper' = [stopper EXCEPT ![p] = "off"]
       /\ leftover' = [leftover EXCEPT ![p] = <<>>]
       /\ UNCHANGED <<queue, future, age, current, stopped, loop, batch, awaited>>

LoopStep(t) == \/ LoopStarts(t) \/ TakeFirst(t) \/ FillTakes(t)
               \/ FillResumes(t) \/ WindowExpires(t) \/ FlushReturns(t)
StopStep(p) == LoopAwaited(p) \/ DrainFlushReturns(p)

Next == \/ Start \/ Tick
        \/ \E r \in Requests : Submit(r)
        \/ \E R \in SUBSET Requests : CancelSubmit(R)
        \/ \E t \in Loops : LoopStep(t)
        \/ \E p \in Stoppers : StopRunning(p) \/ StopIdle(p) \/ StopStep(p) \/ CancelStop(p)

Spec == Init /\ [][Next]_vars

(* Time passes, and the event loop runs every coroutine that can go on;    *)
(* FailureHandler.call returns (EveryCallEnds of FailureHandler.tla).      *)
FairSpec == /\ Spec
            /\ WF_vars(Tick)
            /\ \A t \in Loops : WF_vars(LoopStep(t))
            /\ \A p \in Stoppers : WF_vars(StopStep(p))

-----------------------------------------------------------------------------
TypeOK ==
    /\ queue \in Seq(Requests)
    /\ future \in [Requests -> Future]
    /\ age \in [Requests -> Int] /\ \A r \in Requests : age[r] <= Window
    /\ current \in Loops \cup {NoLoop}
    /\ stopped \in BOOLEAN
    /\ loop \in [Loops -> {"unborn", "created", "first", "fill", "taken",
                           "flush", "last_flush", "done"}]
    /\ batch \in [Loops -> Seq(Requests)]
    /\ stopper \in [Stoppers -> {"off", "await", "drain"}]
    /\ awaited \in [Stoppers -> Loops \cup {NoLoop}]
    /\ leftover \in [Stoppers -> Seq(Requests)]

(* The places of a request: positions in the queue, in the batch of a      *)
(* loop, in the leftover of a drain.                                       *)
Places(r) ==
    {<<"queue", 0, i>> : i \in {i \in DOMAIN queue : queue[i] = r}}
      \cup (UNION {{<<"batch", t, i>> : i \in {i \in DOMAIN batch[t] : batch[t][i] = r}} :
                      t \in Loops})
      \cup (UNION {{<<"drain", p, i>> : i \in {i \in DOMAIN leftover[p] : leftover[p][i] = r}} :
                      p \in Stoppers})
Held(r) == Places(r) # {}

(* However many loops and drains compete for the queue, no request is in   *)
(* two places, so none is sent to the provider twice, and one that has     *)
(* been answered is in none.                                               *)
SingleOwner ==
    \A r \in Requests : /\ Cardinality(Places(r)) <= 1
                        /\ Held(r) => future[r] \in {Pending, Cancelled}

(* Every batch handed to the provider has between 1 and MaxBatch requests, *)
(* and the loop hands one over short of MaxBatch only when the window of   *)
(* its first request has passed or the loop was cancelled while filling    *)
(* (Requirements 6.2, 6.3, 6.4, 6.7).                                      *)
FlushForCause ==
    \A t \in Loops :
        /\ loop[t] \in {"flush", "last_flush"} => Len(batch[t]) \in 1..MaxBatch
        /\ loop[t] = "flush" => Len(batch[t]) = MaxBatch \/ age[batch[t][1]] >= Window

(* A resolved request has the completion of its own prompt, whatever was   *)
(* batched with it and however many completions came back                  *)
(* (Requirement 6.5).                                                      *)
OwnAnswer ==
    \A r \in Requests : future[r].kind \in {"ok", "degraded"} => future[r].of = r

(* With the provider, in the chunk a drain is flushing or in a batch.      *)
Sent(r) ==
    \/ \E t \in Loops : loop[t] \in {"flush", "last_flush"} /\ r \in Elements(batch[t])
    \/ \E p \in Stoppers : r \in Elements(Chunk(leftover[p]))

Custodian(r) ==
    CASE future[r] = Unborn    -> "new"
      [] future[r] = Cancelled -> "abandoned"
      [] future[r] = Failed    -> "failed"
      [] future[r] = Pending   ->
            IF ~ Held(r) THEN "lost"
            ELSE IF Sent(r) THEN "sent"
            ELSE IF \E p \in Stoppers : r \in Elements(leftover[p]) THEN "draining"
            ELSE "held"
      [] OTHER -> IF future[r].of = r THEN "answered" ELSE "confused"

Hands == INSTANCE Custody
            WITH custody  <- [r \in Requests |-> Custodian(r)],
                 stopping <- \E p \in Stoppers : stopper[p] # "off"
(* The batcher keeps the promise of Custody: with loops, drains, restarts  *)
(* and cancellations at any moment a request is sent once, settled once    *)
(* with its batch, and lost only out of the hands of a cancelled flush or  *)
(* drain.                                                                  *)
CustodySpec == Hands!Spec

(* When nobody ever calls stop(), every submitted request is answered, a   *)
(* lone one included (Requirements 6.3, 6.6).                              *)
EveryRequestAnswered ==
    []~ stopped => \A r \in Requests : future[r] = Pending ~> future[r] # Pending

(* With stop() and restarts at any moment, no request stays in a place     *)
(* from which nobody takes it.                                             *)
NoRequestStuck == \A r \in Requests : Held(r) ~> ~ Held(r)

(* stop() returns.                                                         *)
StopReturns == \A p \in Stoppers : stopper[p] # "off" ~> stopper[p] = "off"

-----------------------------------------------------------------------------
(* Claims of the documentation that the code does not keep.                *)

(* batcher.py:142: stop() leaves "no submitted future ... unresolved": a   *)
(* pending request is always still in the hands of a loop or a drain.      *)
NoRequestLost == \A r \in Requests : future[r] = Pending => Held(r)
=============================================================================
