--------------------------- MODULE FailureHandler ---------------------------
(***************************************************************************)
(* agentic/failure.py: one FailureHandler shared by a set of callers, each *)
(* making one call after another.  An await is a place where the other     *)
(* callers move: while op runs, during the backoff sleep, and while the    *)
(* fallback runs; everything between two awaits is one step.               *)
(*                                                                         *)
(* Time is counted in ticks since the breaker last opened, no further than *)
(* Cooldown; the failure count is kept at Threshold once it gets there,    *)
(* since the code only asks whether it has reached Threshold.              *)
(*                                                                         *)
(* An operator X_Mistake is X with one plausible mistake in the code it    *)
(* stands for.  No action uses it: it shows that a property notices.       *)
(***************************************************************************)
EXTENDS Integers, FiniteSets

CONSTANTS
    Callers,        \* the coroutines that use the handler
    MaxRetries,     \* max_retries
    Threshold,      \* breaker_threshold
    Cooldown,       \* breaker_cooldown_ms, in ticks
    BaseDelay,      \* base_delay_ms, in a unit of its own
    Wirings         \* the values of overlap looked at

ASSUME FailureHandlerAssumption ==
    /\ MaxRetries \in Nat
    /\ Threshold \in Nat \ {0}
    /\ Cooldown \in Nat
    /\ BaseDelay \in Nat
    /\ Wirings \subseteq BOOLEAN

VARIABLES
    overlap,        \* whether calls may overlap, fixed by the wiring: one
                    \* batch loop makes them one at a time, the class
                    \* does not ask for it
    state,          \* _state
    failures,       \* _consecutive_failures
    since,          \* ticks between _opened_at and now
    pc,             \* where each caller is in call()
    fallback,       \* whether the caller passed a fallback
    attempt,        \* the local "attempt": transient failures of this call
    invoked,        \* how often this call has invoked op
    delay,          \* the backoff before the latest retry of this call
    outcome,        \* how the caller's last call ended
    healthy         \* the provider has recovered for good

breaker == <<state, failures, since>>
vars == <<overlap, state, failures, since, pc, fallback, attempt, invoked, delay, outcome, healthy>>

BreakerState == {"closed", "open", "half_open"}
Place == {"idle", "op", "sleep", "fallback"}
Outcome == {"none", "ok", "degraded", "permanent", "transient",
            "circuit_open", "other", "cancelled"}

-----------------------------------------------------------------------------
(* _breaker_open on a breaker in state st, el ticks after it opened: does  *)
(* it short-circuit, and which state does asking leave behind?             *)
ShortCircuits_Inverted(st, el) == st = "open" /\ el >= Cooldown
ShortCircuits(st, el) == st = "open" /\ el < Cooldown
AfterCheck_ClosesAgain(st, el) == IF st = "open" /\ el >= Cooldown THEN "closed" ELSE st
AfterCheck(st, el) == IF st = "open" /\ el >= Cooldown THEN "half_open" ELSE st

(* _record_failure: does this failure open (or re-open) the breaker?       *)
Opens == state = "half_open" \/ failures + 1 >= Threshold
CountFailure ==
    /\ failures' = IF failures < Threshold THEN failures + 1 ELSE failures
    /\ since' = IF Opens THEN 0 ELSE since
StateAfterFailure == IF Opens THEN "open" ELSE state

(* _record_success.                                                        *)
RecordSuccess_KeepsCount == state' = "closed" /\ UNCHANGED failures
RecordSuccess_KeepsState == failures' = 0 /\ UNCHANGED state
RecordSuccess == failures' = 0 /\ state' = "closed"

(* Are the retries used up after n transient failures?                     *)
Exhausted_OneMore(n) == n > MaxRetries + 1
Exhausted_OneLess(n) == n >= MaxRetries
Exhausted_Never(n) == FALSE
Exhausted(n) == n > MaxRetries

(* _backoff_seconds before the n-th retry: exponential, plus up to as much *)
(* jitter again (_default_jitter).                                         *)
Exponential(n) == BaseDelay * 2 ^ (n - 1)
Backoff_JitterOnly(n) == 0 .. Exponential(n)
Backoff(n) == Exponential(n) .. (2 * Exponential(n))

(* The call of c ends.                                                     *)
EndCall(c, how) ==
    /\ pc' = [pc EXCEPT ![c] = "idle"]
    /\ outcome' = [outcome EXCEPT ![c] = how]

(* _use_fallback_or_raise, given the error.                                *)
UseFallbackOrRaise_TransientOnly(c, fb, error) ==
    IF fb /\ error = "transient"
    THEN pc' = [pc EXCEPT ![c] = "fallback"] /\ UNCHANGED outcome
    ELSE EndCall(c, error)
UseFallbackOrRaise(c, fb, error) ==
    IF fb
    THEN pc' = [pc EXCEPT ![c] = "fallback"] /\ UNCHANGED outcome
    ELSE EndCall(c, error)

-----------------------------------------------------------------------------
Init ==
    /\ overlap \in Wirings
    /\ state = "closed"
    /\ failures = 0
    /\ since = 0
    /\ pc = [c \in Callers |-> "idle"]
    /\ fallback = [c \in Callers |-> FALSE]
    /\ attempt = [c \in Callers |-> 0]
    /\ invoked = [c \in Callers |-> 0]
    /\ delay = [c \in Callers |-> 0]
    /\ outcome = [c \in Callers |-> "none"]
    /\ healthy = FALSE

(* call() up to its first await.                                           *)
Begin(c) ==
    /\ pc[c] = "idle"
    /\ overlap \/ \A d \in Callers : pc[d] = "idle"
    /\ \E fb \in BOOLEAN :
          /\ fallback' = [fallback EXCEPT ![c] = fb]
          /\ attempt' = [attempt EXCEPT ![c] = 0]
          /\ delay' = [delay EXCEPT ![c] = 0]
          /\ state' = AfterCheck(state, since)
          /\ IF ShortCircuits(state, since)
             THEN /\ invoked' = [invoked EXCEPT ![c] = 0]
                  /\ UseFallbackOrRaise(c, fb, "circuit_open")
             ELSE /\ invoked' = [invoked EXCEPT ![c] = 1]
                  /\ pc' = [pc EXCEPT ![c] = "op"]
                  /\ UNCHANGED outcome
    /\ UNCHANGED <<overlap, failures, since, healthy>>

(* op returns.                                                             *)
OpSucceeds(c) ==
    /\ pc[c] = "op"
    /\ RecordSuccess
    /\ EndCall(c, "ok")
    /\ UNCHANGED <<overlap, since, fallback, attempt, invoked, delay, healthy>>

(* op raises PermanentError.                                               *)
OpPermanent_FallsBack(c) ==
    /\ pc[c] = "op"
    /\ ~ healthy
    /\ CountFailure
    /\ state' = StateAfterFailure
    /\ UseFallbackOrRaise(c, fallback[c], "permanent")
    /\ UNCHANGED <<overlap, fallback, attempt, invoked, delay, healthy>>
OpPermanent(c) ==
    /\ pc[c] = "op"
    /\ ~ healthy
    /\ CountFailure
    /\ state' = StateAfterFailure
    /\ EndCall(c, "permanent")
    /\ UNCHANGED <<overlap, fallback, attempt, invoked, delay, healthy>>

(* op raises TransientError: count it, then give up or go to sleep.  The   *)
(* breaker is consulted only while retries are left.                       *)
OpTransient(c) ==
    /\ pc[c] = "op"
    /\ ~ healthy
    /\ attempt' = [attempt EXCEPT ![c] = @ + 1]
    /\ CountFailure
    /\ IF Exhausted(attempt'[c])
       THEN /\ state' = StateAfterFailure
            /\ UseFallbackOrRaise(c, fallback[c], "transient")
            /\ UNCHANGED delay
       ELSE /\ state' = AfterCheck(StateAfterFailure, since')
            /\ IF ShortCircuits(StateAfterFailure, since')
               THEN /\ UseFallbackOrRaise(c, fallback[c], "transient")
                    /\ UNCHANGED delay
               ELSE /\ pc' = [pc EXCEPT ![c] = "sleep"]
                    /\ \E d \in Backoff(attempt'[c]) : delay' = [delay EXCEPT ![c] = d]
                    /\ UNCHANGED outcome
    /\ UNCHANGED <<overlap, fallback, invoked, healthy>>

(* op raises anything else (a CircuitOpenError of a nested handler, an     *)
(* exception of the client library): it leaves call() unaccounted.         *)
OpOther(c) ==
    /\ pc[c] = "op"
    /\ ~ healthy
    /\ EndCall(c, "other")
    /\ UNCHANGED <<overlap, breaker, fallback, attempt, invoked, delay, healthy>>

(* The backoff is over: op again, without asking the breaker.              *)
Wake_CountsAnew(c) ==
    /\ pc[c] = "sleep"
    /\ pc' = [pc EXCEPT ![c] = "op"]
    /\ attempt' = [attempt EXCEPT ![c] = 0]
    /\ invoked' = [invoked EXCEPT ![c] = 1]
    /\ UNCHANGED <<overlap, breaker, fallback, delay, outcome, healthy>>
Wake(c) ==
    /\ pc[c] = "sleep"
    /\ pc' = [pc EXCEPT ![c] = "op"]
    /\ invoked' = [invoked EXCEPT ![c] = @ + 1]
    /\ UNCHANGED <<overlap, breaker, fallback, attempt, delay, outcome, healthy>>

FallbackEnds(c) ==
    /\ pc[c] = "fallback"
    /\ \E how \in {"degraded", "other"} : EndCall(c, how)
    /\ UNCHANGED <<overlap, breaker, fallback, attempt, invoked, delay, healthy>>

(* CancelledError at any of the three awaits.                              *)
Cancel(c) ==
    /\ pc[c] # "idle"
    /\ EndCall(c, "cancelled")
    /\ UNCHANGED <<overlap, breaker, fallback, attempt, invoked, delay, healthy>>

(* Time matters to an open breaker only.                                   *)
Tick ==
    /\ state = "open"
    /\ since < Cooldown
    /\ since' = since + 1
    /\ UNCHANGED <<overlap, state, failures, pc, fallback, attempt, invoked, delay, outcome, healthy>>

(* The provider recovers: from here on op only succeeds.                   *)
Heal ==
    /\ ~ healthy
    /\ healthy' = TRUE
    /\ UNCHANGED <<overlap, breaker, pc, fallback, attempt, invoked, delay, outcome>>

OpEnds(c) == OpSucceeds(c) \/ OpPermanent(c) \/ OpTransient(c) \/ OpOther(c)

Next == \/ Tick \/ Heal
        \/ \E c \in Callers : \/ Begin(c) \/ OpEnds(c) \/ Wake(c)
                              \/ FallbackEnds(c) \/ Cancel(c)

Spec == Init /\ [][Next]_vars

(* A provider call ends, a sleep ends, a fallback ends, time passes.       *)
Progress == /\ WF_vars(Tick)
            /\ \A c \in Callers : /\ WF_vars(OpEnds(c))
                                  /\ WF_vars(Wake(c))
                                  /\ WF_vars(FallbackEnds(c))
FairSpec == Spec /\ Progress

-----------------------------------------------------------------------------
TypeOK ==
    /\ overlap \in BOOLEAN
    /\ state \in BreakerState
    /\ failures \in 0..Threshold
    /\ since \in 0..Cooldown
    /\ pc \in [Callers -> Place]
    /\ fallback \in [Callers -> BOOLEAN]
    /\ attempt \in [Callers -> 0..(MaxRetries + 1)]
    /\ invoked \in [Callers -> 0..(MaxRetries + 1)]
    /\ delay \in [Callers -> Int]
    /\ outcome \in [Callers -> Outcome]
    /\ healthy \in BOOLEAN

(* The breaker is closed exactly while fewer than Threshold failures have  *)
(* followed the last success, however calls overlap: two variables the     *)
(* code updates in three places never part (_record_success,               *)
(* _record_failure, _breaker_open).                                        *)
BreakerConsistent == state = "closed" <=> failures < Threshold

(* A call invokes op once more than it has failed transiently, so at most  *)
(* MaxRetries + 1 times, and once more only when it will be judged again   *)
(* (Requirement 8.1, 8.2).                                                 *)
RetryBound ==
    \A c \in Callers :
        /\ pc[c] = "op" => invoked[c] = attempt[c] + 1
        /\ pc[c] = "sleep" => invoked[c] = attempt[c] /\ attempt[c] <= MaxRetries
        /\ invoked[c] <= MaxRetries + 1

(* A caller that passed a fallback never sees the errors the fallback is   *)
(* for, on any path (Requirements 8.6, 8.7), and no others are hidden by   *)
(* it: who got the fallback's result had each of its invocations of op     *)
(* fail transiently, or none admitted (Requirement 8.4 lets a permanent    *)
(* error through).  CircuitOpenError always means that op was not touched  *)
(* (Requirement 8.5).                                                      *)
GracefulDegradation ==
    \A c \in Callers : pc[c] = "idle" =>
        /\ outcome[c] \in {"transient", "circuit_open"} => ~ fallback[c]
        /\ outcome[c] = "degraded" => fallback[c] /\ invoked[c] = attempt[c]
        /\ outcome[c] = "circuit_open" => invoked[c] = 0
        /\ outcome[c] = "transient" => invoked[c] > 0

(* A call gives up on a transient failure only when its retries are used   *)
(* up or the breaker is open, and in the latter case the breaker stays     *)
(* open for the callers after it.                                          *)
GivesUpForCause ==
    [][\A c \in Callers :
          (pc[c] = "op" /\ attempt'[c] # attempt[c] /\ pc'[c] # "sleep") =>
              attempt'[c] = MaxRetries + 1 \/ state' = "open"]_vars

(* The breaker makes the transitions the documentation of BreakerState     *)
(* lists: a closed one opens before it half-opens (both at once when there *)
(* is no cooldown), an open one half-opens before it closes.  One more is  *)
(* possible when calls overlap, and no other: the success of a call that   *)
(* was already at op closes an open breaker.                               *)
DocumentedTransitions ==
    [][/\ state = "closed" => state' \in {"closed", "open"} \/ Cooldown = 0
       /\ state = "open" =>
             \/ state' \in {"open", "half_open"}
             \/ overlap /\ \E c \in Callers : pc[c] = "op" /\ pc'[c] = "idle"
                                             /\ outcome'[c] = "ok"]_vars

(* No call enters op while the breaker is open (Requirement 8.5), a retry  *)
(* included as long as calls come one at a time.  When they overlap a      *)
(* call that was asleep as another one opened the breaker does retry.      *)
NoOpWhileOpen ==
    [][\A c \in Callers :
          (pc[c] # "op" /\ pc'[c] = "op" /\ state' = "open") =>
              overlap /\ pc[c] = "sleep"]_vars

(* Within a call each backoff is at least as long as the one before it,    *)
(* jitter included: the jitter of one retry never exceeds the step to the  *)
(* next exponential delay (Requirement 8.3).                               *)
BackoffGrows ==
    [][\A c \in Callers :
          (pc[c] = "op" /\ pc'[c] = "sleep") => delay'[c] >= delay[c]]_vars

(* A call that has started ends, whatever the provider goes on answering   *)
(* and however other calls move the breaker meanwhile: only that each op,  *)
(* sleep and fallback has an end is assumed (FairSpec).                    *)
EveryCallEnds == \A c \in Callers : pc[c] # "idle" ~> pc[c] = "idle"

(* Calls keep coming, and not every one of a caller is cancelled before    *)
(* its op can answer.                                                      *)
Busy == \A c \in Callers : SF_vars(Begin(c)) /\ SF_vars(OpSucceeds(c))

(* Once the provider has recovered the breaker closes and stays closed,    *)
(* whatever state, half open with a lost probe included, it was left in:   *)
(* if only somebody goes on to use it (_breaker_open, _record_success).    *)
Recovers == Busy /\ <>healthy => <>[](state = "closed")

-----------------------------------------------------------------------------
(* A claim of the documentation that the code does not keep.               *)

(* failure.py:228: "exactly one probe call is admitted": while a probe is  *)
(* out no other call is let through.                                       *)
SingleProbe ==
    [][\A c \in Callers :
          (state = "half_open" /\ pc[c] = "idle" /\ pc'[c] = "op") =>
              \A d \in Callers \ {c} : pc[d] # "op"]_vars
=============================================================================
