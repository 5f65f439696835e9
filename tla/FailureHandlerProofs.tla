------------------------ MODULE FailureHandlerProofs ------------------------
(***************************************************************************)
(* Proofs about FailureHandler for every set of callers, overlapping or    *)
(* not, and every number of retries, threshold and cooldown.               *)
(***************************************************************************)
EXTENDS FailureHandler, FiniteSetTheorems, TLAPS

(* RetryBound with what is missing to make it inductive: a call whose op   *)
(* is running has retries left to be judged by.                            *)
RetryInv == RetryBound /\ \A c \in Callers : pc[c] = "op" => attempt[c] <= MaxRetries

(* A call at its fallback has one, and each of its invocations of op has   *)
(* failed transiently: what GracefulDegradation says once it has ended.    *)
FallbackInv ==
    \A c \in Callers : pc[c] = "fallback" => fallback[c] /\ invoked[c] = attempt[c]

Inv == TypeOK /\ BreakerConsistent /\ RetryInv /\ FallbackInv /\ GracefulDegradation

(* What any failure does to the breaker: the count and the state stay      *)
(* consistent, before and after the breaker is consulted again.            *)
LEMMA FailureFacts ==
    ASSUME TypeOK, BreakerConsistent, CountFailure
    PROVE  /\ failures' \in 0..Threshold /\ since' \in 0..Cooldown
           /\ StateAfterFailure \in {"closed", "open"}
           /\ StateAfterFailure = "closed" <=> failures' < Threshold
           /\ AfterCheck(StateAfterFailure, since') \in BreakerState
           /\ AfterCheck(StateAfterFailure, since') = "closed" <=> failures' < Threshold
<1> USE FailureHandlerAssumption
           DEF TypeOK, BreakerConsistent, CountFailure, BreakerState
<1>1. failures' \in 0..Threshold /\ since' \in 0..Cooldown
  OBVIOUS
<1>2. /\ StateAfterFailure \in {"closed", "open"}
      /\ StateAfterFailure = "closed" <=> failures' < Threshold
  BY DEF StateAfterFailure, Opens
<1> QED BY <1>1, <1>2 DEF AfterCheck

(* The call of one caller moves or ends, given who it was and how: all     *)
(* that a step does to the other callers is nothing.                       *)
LEMMA EndFacts ==
    ASSUME TypeOK, NEW c \in Callers, NEW how \in Outcome, EndCall(c, how)
    PROVE  /\ pc' \in [Callers -> Place] /\ outcome' \in [Callers -> Outcome]
           /\ pc'[c] = "idle" /\ outcome'[c] = how
           /\ \A d \in Callers \ {c} : pc'[d] = pc[d] /\ outcome'[d] = outcome[d]
BY DEF TypeOK, EndCall, Place

(* Fallback or error: the error reaches only a caller without a fallback,  *)
(* the fallback only one that has it.                                      *)
LEMMA FallbackFacts ==
    ASSUME TypeOK, NEW c \in Callers, NEW fb \in BOOLEAN,
           NEW e \in {"transient", "circuit_open"}, UseFallbackOrRaise(c, fb, e)
    PROVE  /\ pc' \in [Callers -> Place] /\ outcome' \in [Callers -> Outcome]
           /\ pc'[c] \in {"idle", "fallback"}
           /\ pc'[c] = "idle" => outcome'[c] = e /\ ~ fb
           /\ pc'[c] = "fallback" => fb
           /\ \A d \in Callers \ {c} : pc'[d] = pc[d] /\ outcome'[d] = outcome[d]
<1>1. CASE fb
  BY <1>1 DEF TypeOK, UseFallbackOrRaise, Place
<1>2. CASE ~ fb
  <2>1. e \in Outcome /\ EndCall(c, e)
    BY <1>2 DEF UseFallbackOrRaise, Outcome
  <2> QED BY <1>2, <2>1, EndFacts
<1> QED BY <1>1, <1>2

(* The initial state satisfies the invariant.                              *)
LEMMA InitInv == Init => Inv
<1> SUFFICES ASSUME Init PROVE Inv
  OBVIOUS
<1> USE FailureHandlerAssumption
<1>1. fallback \in [Callers -> BOOLEAN] /\ healthy \in BOOLEAN /\ overlap \in BOOLEAN
  BY DEF Init
<1>2. TypeOK
  BY <1>1 DEF Init, TypeOK, BreakerState, Place, Outcome
<1>3. BreakerConsistent
  BY DEF Init, BreakerConsistent
<1>4. RetryInv /\ FallbackInv /\ GracefulDegradation
  BY DEF Init, RetryInv, RetryBound, FallbackInv, GracefulDegradation
<1> QED BY <1>2, <1>3, <1>4 DEF Inv

(* The part of call() before its first await keeps the invariant.          *)
LEMMA BeginStep == ASSUME Inv, NEW c \in Callers, Begin(c) PROVE Inv'
<1> USE FailureHandlerAssumption DEF Inv
<1>1. PICK fb \in BOOLEAN :
          /\ fallback' = [fallback EXCEPT ![c] = fb]
          /\ attempt' = [attempt EXCEPT ![c] = 0]
          /\ delay' = [delay EXCEPT ![c] = 0]
          /\ state' = AfterCheck(state, since)
          /\ IF ShortCircuits(state, since)
             THEN /\ invoked' = [invoked EXCEPT ![c] = 0]
                  /\ UseFallbackOrRaise(c, fb, "circuit_open")
             ELSE /\ invoked' = [invoked EXCEPT ![c] = 1]
                  /\ pc' = [pc EXCEPT ![c] = "op"]
                  /\ UNCHANGED outcome
  BY DEF Begin
<1>2. UNCHANGED <<overlap, failures, since, healthy>>
  BY DEF Begin
<1>3. state' \in BreakerState /\ BreakerConsistent'
  BY <1>1, <1>2 DEF AfterCheck, BreakerConsistent, TypeOK, BreakerState
<1>4. CASE ShortCircuits(state, since)
  <2>1. /\ invoked' = [invoked EXCEPT ![c] = 0]
        /\ pc' \in [Callers -> Place] /\ outcome' \in [Callers -> Outcome]
        /\ pc'[c] \in {"idle", "fallback"}
        /\ pc'[c] = "idle" => outcome'[c] = "circuit_open" /\ ~ fb
        /\ pc'[c] = "fallback" => fb
        /\ \A d \in Callers \ {c} : pc'[d] = pc[d] /\ outcome'[d] = outcome[d]
    BY <1>1, <1>4, FallbackFacts
  <2>2. TypeOK'
    BY <1>1, <1>2, <1>3, <2>1 DEF TypeOK
  <2>3. RetryInv'
    BY <1>1, <2>1 DEF TypeOK, RetryInv, RetryBound
  <2>4. FallbackInv' /\ GracefulDegradation'
    BY <1>1, <2>1 DEF TypeOK, FallbackInv, GracefulDegradation
  <2> QED BY <1>3, <2>2, <2>3, <2>4
<1>5. CASE ~ ShortCircuits(state, since)
  <2>1. TypeOK'
    BY <1>1, <1>2, <1>3, <1>5 DEF TypeOK, Place
  <2>2. RetryInv'
    BY <1>1, <1>5 DEF TypeOK, RetryInv, RetryBound
  <2>3. FallbackInv' /\ GracefulDegradation'
    BY <1>1, <1>5 DEF TypeOK, FallbackInv, GracefulDegradation
  <2> QED BY <1>3, <2>1, <2>2, <2>3
<1> QED BY <1>4, <1>5

(* A transient failure keeps the invariant, given up on or slept over.     *)
LEMMA OpTransientStep == ASSUME Inv, NEW c \in Callers, OpTransient(c) PROVE Inv'
<1> USE FailureHandlerAssumption DEF Inv
<1>1. /\ pc[c] = "op"
      /\ attempt' = [attempt EXCEPT ![c] = @ + 1]
      /\ attempt[c] \in 0..MaxRetries /\ invoked[c] = attempt[c] + 1
      /\ UNCHANGED <<overlap, fallback, invoked, healthy>>
  BY DEF OpTransient, RetryInv, RetryBound, TypeOK
<1>4a. delay' \in [Callers -> Int]
  <2>1. ASSUME NEW d \in Backoff(attempt'[c]), delay' = [delay EXCEPT ![c] = d]
        PROVE  delay' \in [Callers -> Int]
    BY <2>1 DEF TypeOK, Backoff
  <2>2. CASE UNCHANGED delay
    BY <2>2 DEF TypeOK
  <2> QED BY <2>1, <2>2 DEF OpTransient
<1>2. /\ failures' \in 0..Threshold /\ since' \in 0..Cooldown
      /\ state' \in BreakerState /\ BreakerConsistent'
  BY FailureFacts DEF OpTransient, BreakerConsistent, BreakerState
<1>3. /\ pc' \in [Callers -> Place] /\ outcome' \in [Callers -> Outcome]
      /\ pc'[c] \in {"idle", "fallback", "sleep"}
      /\ pc'[c] = "idle" => outcome'[c] = "transient" /\ ~ fallback[c]
      /\ pc'[c] = "fallback" => fallback[c]
      /\ pc'[c] = "sleep" => attempt[c] + 1 <= MaxRetries
      /\ \A d \in Callers \ {c} : pc'[d] = pc[d] /\ outcome'[d] = outcome[d]
  <2>1. fallback[c] \in BOOLEAN /\ attempt'[c] = attempt[c] + 1
    BY <1>1 DEF TypeOK
  <2>2. CASE UseFallbackOrRaise(c, fallback[c], "transient")
    BY <2>1, <2>2, FallbackFacts
  <2>3. CASE /\ pc' = [pc EXCEPT ![c] = "sleep"] /\ UNCHANGED outcome
             /\ ~ Exhausted(attempt'[c])
    BY <1>1, <2>1, <2>3 DEF TypeOK, Place, Exhausted
  <2> QED BY <2>2, <2>3 DEF OpTransient
<1>4. TypeOK'
  BY <1>1, <1>4a, <1>2, <1>3 DEF TypeOK
<1>5. RetryInv'
  BY <1>1, <1>3 DEF TypeOK, RetryInv, RetryBound
<1>6. FallbackInv' /\ GracefulDegradation'
  BY <1>1, <1>3 DEF TypeOK, FallbackInv, GracefulDegradation
<1> QED BY <1>2, <1>4, <1>5, <1>6

(* The steps that end a call without judging it by its retries.            *)
LEMMA EndStep ==
    ASSUME Inv, NEW c \in Callers,
           OpSucceeds(c) \/ OpPermanent(c) \/ OpOther(c) \/ FallbackEnds(c) \/ Cancel(c)
    PROVE  Inv'
<1> USE FailureHandlerAssumption DEF Inv
<1>1. UNCHANGED <<overlap, fallback, attempt, invoked, delay, healthy>>
  BY DEF OpSucceeds, OpPermanent, OpOther, FallbackEnds, Cancel
<1>2. PICK how \in Outcome \ {"transient", "circuit_open"} :
          EndCall(c, how) /\ (how = "degraded" => pc[c] = "fallback")
  BY DEF OpSucceeds, OpPermanent, OpOther, FallbackEnds, Cancel, Outcome
<1>3. /\ pc' \in [Callers -> Place] /\ outcome' \in [Callers -> Outcome]
      /\ pc'[c] = "idle" /\ outcome'[c] = how
      /\ \A d \in Callers \ {c} : pc'[d] = pc[d] /\ outcome'[d] = outcome[d]
  BY <1>2, EndFacts
<1>4. /\ failures' \in 0..Threshold /\ since' \in 0..Cooldown
      /\ state' \in BreakerState /\ BreakerConsistent'
  <2> USE DEF RecordSuccess
  <2>1. CASE OpPermanent(c)
    BY <2>1, FailureFacts DEF OpPermanent, BreakerConsistent, BreakerState
  <2>2. CASE OpSucceeds(c)
    BY <2>2 DEF OpSucceeds, TypeOK, BreakerConsistent, BreakerState
  <2>3. CASE UNCHANGED breaker
    BY <2>3 DEF breaker, TypeOK, BreakerConsistent
  <2> QED BY <2>1, <2>2, <2>3 DEF OpOther, FallbackEnds, Cancel
<1>5. TypeOK'
  BY <1>1, <1>3, <1>4 DEF TypeOK
<1>6. RetryInv'
  BY <1>1, <1>3 DEF RetryInv, RetryBound
<1>7. FallbackInv' /\ GracefulDegradation'
  BY <1>1, <1>2, <1>3 DEF FallbackInv, GracefulDegradation
<1> QED BY <1>4, <1>5, <1>6, <1>7

(* Every step keeps the invariant.                                         *)
LEMMA InvStep == ASSUME Inv, [Next]_vars PROVE Inv'
<1> USE FailureHandlerAssumption DEF Inv
<1>1. ASSUME NEW c \in Callers, Begin(c) PROVE Inv'
  BY <1>1, BeginStep
<1>2. ASSUME NEW c \in Callers, OpEnds(c) \/ FallbackEnds(c) \/ Cancel(c) PROVE Inv'
  BY <1>2, OpTransientStep, EndStep DEF OpEnds
<1>3. ASSUME NEW c \in Callers, Wake(c) PROVE Inv'
  <2>1. TypeOK'
    BY <1>3 DEF Wake, TypeOK, Place, RetryInv, RetryBound, breaker
  <2>2. RetryInv'
    BY <1>3 DEF Wake, TypeOK, RetryInv, RetryBound
  <2>3. BreakerConsistent' /\ FallbackInv' /\ GracefulDegradation'
    BY <1>3 DEF Wake, TypeOK, BreakerConsistent, FallbackInv, GracefulDegradation, breaker
  <2> QED BY <2>1, <2>2, <2>3
<1>4. CASE Tick
  BY <1>4 DEF Tick, TypeOK, BreakerConsistent, RetryInv, RetryBound, FallbackInv,
              GracefulDegradation
<1>5. CASE Heal
  BY <1>5 DEF Heal, TypeOK, BreakerConsistent, RetryInv, RetryBound, FallbackInv,
              GracefulDegradation, breaker
<1>6. CASE UNCHANGED vars
  BY <1>6 DEF vars, TypeOK, BreakerConsistent, RetryInv, RetryBound, FallbackInv,
              GracefulDegradation
<1> QED BY <1>1, <1>2, <1>3, <1>4, <1>5, <1>6 DEF Next

(* The invariant holds throughout every execution.                         *)
THEOREM Invariance == Spec => []Inv
<1> QED BY InitInv, InvStep, PTL DEF Spec

(* Every variable stays within its type, the failure count and the clock   *)
(* of the breaker within their caps.                                       *)
THEOREM TypeCorrect == Spec => []TypeOK
<1>1. Inv => TypeOK
  BY DEF Inv
<1> QED BY <1>1, Invariance, PTL

(* Closed means fewer failures than the threshold, and the reverse, for    *)
(* any number of overlapping callers.                                      *)
THEOREM BreakerCorrect == Spec => []BreakerConsistent
<1>1. Inv => BreakerConsistent
  BY DEF Inv
<1> QED BY <1>1, Invariance, PTL

(* No call invokes op more than MaxRetries + 1 times.                      *)
THEOREM RetryCorrect == Spec => []RetryBound
<1>1. Inv => RetryBound
  BY DEF Inv, RetryInv
<1> QED BY <1>1, Invariance, PTL

(* A fallback shields its caller from the errors it is for, and from no    *)
(* others.                                                                 *)
THEOREM DegradationCorrect == Spec => []GracefulDegradation
<1>1. Inv => GracefulDegradation
  BY DEF Inv
<1> QED BY <1>1, Invariance, PTL

-----------------------------------------------------------------------------
(* One call at a time: no two callers are inside call(), and one that is   *)
(* at its op or asleep on its way back to it holds the breaker away from   *)
(* OPEN, since nobody else can open it.                                    *)
OneAtATime ==
    ~ overlap =>
        /\ \A c, d \in Callers : pc[c] # "idle" /\ pc[d] # "idle" => c = d
        /\ \A c \in Callers : pc[c] \in {"op", "sleep"} => state # "open"

(* A breaker that was asked and does not short-circuit is not open.        *)
LEMMA AdmittedNotOpen ==
    ASSUME NEW st, NEW el \in Nat, ~ ShortCircuits(st, el)
    PROVE  AfterCheck(st, el) # "open"
<1> USE FailureHandlerAssumption
<1>1. CASE st = "open" /\ el >= Cooldown
  BY <1>1 DEF AfterCheck
<1>2. CASE ~ (st = "open" /\ el >= Cooldown)
  BY <1>2 DEF AfterCheck, ShortCircuits
<1> QED BY <1>1, <1>2

(* When only c moves, and only while the others are idle, what is left to  *)
(* see is that c does not get to its op, or to sleep, past an open breaker. *)
LEMMA OnlyCallerMoves ==
    ASSUME ~ overlap, UNCHANGED overlap, NEW c \in Callers,
           \A d \in Callers \ {c} : pc'[d] = "idle",
           pc'[c] \in {"op", "sleep"} => state' # "open"
    PROVE  OneAtATime'
BY DEF OneAtATime

(* Every step keeps calls one at a time.                                   *)
LEMMA OneAtATimeStep == ASSUME Inv, OneAtATime, [Next]_vars PROVE OneAtATime'
<1> USE FailureHandlerAssumption
<1>0. UNCHANGED overlap
  BY DEF Next, vars, Begin, OpEnds, OpSucceeds, OpPermanent, OpTransient, OpOther,
         Wake, FallbackEnds, Cancel, Tick, Heal
<1> SUFFICES ASSUME ~ overlap PROVE OneAtATime'
  BY <1>0 DEF OneAtATime
<1>1. TypeOK /\ since \in Nat
  BY DEF Inv, TypeOK
<1>2. ASSUME NEW c \in Callers, Begin(c) PROVE OneAtATime'
  <2>1. \A d \in Callers : pc[d] = "idle"
    BY <1>2 DEF Begin
  <2>2. PICK fb \in BOOLEAN :
          /\ state' = AfterCheck(state, since)
          /\ IF ShortCircuits(state, since)
             THEN UseFallbackOrRaise(c, fb, "circuit_open")
             ELSE pc' = [pc EXCEPT ![c] = "op"]
    BY <1>2 DEF Begin
  <2>3. CASE ShortCircuits(state, since)
    <3>1. /\ pc'[c] \in {"idle", "fallback"}
          /\ \A d \in Callers \ {c} : pc'[d] = pc[d]
      BY <1>1, <2>2, <2>3, FallbackFacts
    <3> QED BY <1>0, <2>1, <3>1, OnlyCallerMoves
  <2>4. CASE ~ ShortCircuits(state, since)
    <3>1. state' # "open"
      BY <1>1, <2>2, <2>4, AdmittedNotOpen
    <3>2. \A d \in Callers \ {c} : pc'[d] = "idle"
      BY <1>1, <2>1, <2>2, <2>4 DEF TypeOK
    <3> QED BY <1>0, <3>1, <3>2, OnlyCallerMoves
  <2> QED BY <2>3, <2>4
<1>3. ASSUME NEW c \in Callers, OpTransient(c) PROVE OneAtATime'
  <2>1. pc[c] = "op" /\ \A d \in Callers \ {c} : pc[d] = "idle"
    BY <1>3 DEF OpTransient, OneAtATime
  <2>2. CASE UseFallbackOrRaise(c, fallback[c], "transient")
    <3>1. /\ pc'[c] \in {"idle", "fallback"}
          /\ \A d \in Callers \ {c} : pc'[d] = pc[d]
      BY <1>1, <2>2, FallbackFacts DEF TypeOK
    <3> QED BY <1>0, <2>1, <3>1, OnlyCallerMoves
  <2>3. CASE /\ pc' = [pc EXCEPT ![c] = "sleep"]
             /\ state' = AfterCheck(StateAfterFailure, since')
             /\ ~ ShortCircuits(StateAfterFailure, since')
    <3>1. since' \in Nat
      BY <1>1, <1>3 DEF OpTransient, CountFailure
    <3>2. state' # "open"
      BY <2>3, <3>1, AdmittedNotOpen
    <3>3. \A d \in Callers \ {c} : pc'[d] = "idle"
      BY <1>1, <2>1, <2>3 DEF TypeOK
    <3> QED BY <1>0, <3>2, <3>3, OnlyCallerMoves
  <2> QED BY <1>3, <2>2, <2>3 DEF OpTransient
<1>4. ASSUME NEW c \in Callers,
             OpSucceeds(c) \/ OpPermanent(c) \/ OpOther(c) \/ FallbackEnds(c) \/ Cancel(c)
      PROVE  OneAtATime'
  <2>1. PICK how \in Outcome : EndCall(c, how)
    BY <1>4 DEF OpSucceeds, OpPermanent, OpOther, FallbackEnds, Cancel, Outcome
  <2>2. pc'[c] = "idle" /\ \A d \in Callers \ {c} : pc'[d] = pc[d]
    BY <1>1, <2>1, EndFacts
  <2>3. \A d \in Callers \ {c} : pc[d] = "idle"
    BY <1>4 DEF OpSucceeds, OpPermanent, OpOther, FallbackEnds, Cancel, OneAtATime
  <2> QED BY <1>0, <2>2, <2>3, OnlyCallerMoves
<1>5. ASSUME NEW c \in Callers, Wake(c) PROVE OneAtATime'
  <2>1. /\ pc[c] = "sleep" /\ \A d \in Callers \ {c} : pc[d] = "idle"
        /\ state' = state /\ state # "open"
    BY <1>5 DEF Wake, OneAtATime, breaker
  <2>2. \A d \in Callers \ {c} : pc'[d] = "idle"
    BY <1>1, <1>5, <2>1 DEF Wake, TypeOK
  <2> QED BY <1>0, <2>1, <2>2, OnlyCallerMoves
<1>6. CASE Tick \/ Heal \/ UNCHANGED vars
  BY <1>6 DEF Tick, Heal, vars, breaker, OneAtATime
<1> QED BY <1>2, <1>3, <1>4, <1>5, <1>6 DEF Next, OpEnds

(* Calls stay one at a time throughout.                                    *)
THEOREM OneAtATimeInvariance == Spec => [](Inv /\ OneAtATime)
<1>1. Init => OneAtATime
  BY DEF Init, OneAtATime
<1> QED BY <1>1, InitInv, InvStep, OneAtATimeStep, PTL DEF Spec

(* The breaker makes the documented transitions only, but for the late     *)
(* success of an overlapping call.                                         *)
THEOREM TransitionsCorrect == Spec => DocumentedTransitions
<1> DEFINE Late == \E c \in Callers : pc[c] = "op" /\ pc'[c] = "idle" /\ outcome'[c] = "ok"
           Step == /\ state = "closed" => state' \in {"closed", "open"} \/ Cooldown = 0
                   /\ state = "open" => state' \in {"open", "half_open"} \/ (overlap /\ Late)
<1>1. ASSUME Inv, OneAtATime, [Next]_vars PROVE Step
  <2> USE FailureHandlerAssumption
  <2>1. ASSUME NEW c \in Callers, Begin(c) PROVE Step
    BY <1>1, <2>1 DEF Begin, AfterCheck, Inv, TypeOK, BreakerState
  <2>2. ASSUME NEW c \in Callers, OpTransient(c) PROVE Step
    <3>1. CASE Opens
      <4>1. StateAfterFailure = "open" /\ since' = 0
        BY <2>2, <3>1 DEF OpTransient, CountFailure, StateAfterFailure
      <4> QED BY <2>2, <4>1 DEF OpTransient, AfterCheck
    <3>2. CASE ~ Opens
      <4>1. state' \in {state, AfterCheck(state, since')}
        BY <2>2, <3>2 DEF OpTransient, StateAfterFailure
      <4> QED BY <4>1 DEF AfterCheck
    <3> QED BY <3>1, <3>2
  <2>3. ASSUME NEW c \in Callers, OpSucceeds(c) PROVE Step
    <3>1. state' = "closed" /\ pc[c] = "op"
      BY <2>3 DEF OpSucceeds, RecordSuccess
    <3>2. pc'[c] = "idle" /\ outcome'[c] = "ok"
      BY <1>1, <2>3 DEF OpSucceeds, EndCall, Inv, TypeOK
    <3>3. state = "open" => overlap
      BY <1>1, <3>1 DEF OneAtATime
    <3> QED BY <3>1, <3>2, <3>3
  <2>4. ASSUME NEW c \in Callers, OpPermanent(c) PROVE Step
    BY <2>4 DEF OpPermanent, StateAfterFailure
  <2>5. CASE state' = state
    BY <2>5
  <2> QED BY <1>1, <2>1, <2>2, <2>3, <2>4, <2>5
          DEF Next, OpEnds, OpOther, Wake, FallbackEnds, Cancel, Tick, Heal, vars, breaker
<1>2. Inv /\ OneAtATime /\ [Next]_vars => [Step]_vars
  BY <1>1
<1> QED BY <1>2, OneAtATimeInvariance, PTL DEF Spec, DocumentedTransitions

(* op is never entered while the breaker is open, but for the retry of an  *)
(* overlapping call.                                                       *)
THEOREM NoOpWhileOpenCorrect == Spec => NoOpWhileOpen
<1> DEFINE Step == \A c \in Callers : (pc[c] # "op" /\ pc'[c] = "op" /\ state' = "open") =>
                                        overlap /\ pc[c] = "sleep"
<1>1. ASSUME Inv, OneAtATime, [Next]_vars PROVE Step
  <2> SUFFICES ASSUME NEW c \in Callers, pc[c] # "op", pc'[c] = "op", state' = "open"
               PROVE  overlap /\ pc[c] = "sleep"
    OBVIOUS
  <2>1. overlap
    <3>1. OneAtATime' /\ UNCHANGED overlap
      BY <1>1, OneAtATimeStep DEF Next, vars, Begin, OpEnds, OpSucceeds, OpPermanent,
         OpTransient, OpOther, Wake, FallbackEnds, Cancel, Tick, Heal
    <3> QED BY <3>1 DEF OneAtATime
  <2>2. pc[c] = "sleep"
    <3>1. TypeOK /\ since \in Nat /\ pc \in [Callers -> Place]
      BY <1>1, FailureHandlerAssumption DEF Inv, TypeOK
    <3>2. ASSUME NEW d \in Callers, Begin(d) PROVE FALSE
      <4>1. PICK fb \in BOOLEAN :
              /\ state' = AfterCheck(state, since)
              /\ IF ShortCircuits(state, since)
                 THEN UseFallbackOrRaise(d, fb, "circuit_open")
                 ELSE pc' = [pc EXCEPT ![d] = "op"]
        BY <3>2 DEF Begin
      <4>2. CASE ShortCircuits(state, since)
        BY <3>1, <4>1, <4>2 DEF UseFallbackOrRaise, EndCall
      <4>3. CASE ~ ShortCircuits(state, since)
        BY <3>1, <4>1, <4>3, AdmittedNotOpen
      <4> QED BY <4>2, <4>3
    <3>3. PICK d \in Callers : Wake(d)
      BY <1>1, <3>1, <3>2 DEF Next, vars, OpEnds, OpSucceeds, OpPermanent, OpTransient,
         OpOther, FallbackEnds, Cancel, Tick, Heal, UseFallbackOrRaise, EndCall
    <3> QED BY <3>1, <3>3 DEF Wake
  <2> QED BY <2>1, <2>2
<1>2. Inv /\ OneAtATime /\ [Next]_vars => [Step]_vars
  BY <1>1
<1> QED BY <1>2, OneAtATimeInvariance, PTL DEF Spec, NoOpWhileOpen

(* A call gives up on a transient failure only with its retries used up or *)
(* the breaker open, for any number of overlapping callers.                *)
THEOREM GivesUpCorrect == Spec => GivesUpForCause
<1> DEFINE Step ==
      \A c \in Callers : (pc[c] = "op" /\ attempt'[c] # attempt[c] /\ pc'[c] # "sleep") =>
          attempt'[c] = MaxRetries + 1 \/ state' = "open"
<1>1. ASSUME Inv, [Next]_vars PROVE Step
  <2> SUFFICES ASSUME NEW c \in Callers, pc[c] = "op", attempt'[c] # attempt[c], pc'[c] # "sleep"
               PROVE  attempt'[c] = MaxRetries + 1 \/ state' = "open"
    OBVIOUS
  <2>1. /\ attempt \in [Callers -> 0..(MaxRetries + 1)] /\ pc \in [Callers -> Place]
        /\ attempt[c] <= MaxRetries /\ MaxRetries \in Nat
    BY <1>1, FailureHandlerAssumption DEF Inv, TypeOK, RetryInv
  <2>2. OpTransient(c)
    <3>1. PICK d \in Callers : OpTransient(d)
      BY <1>1, <2>1 DEF Next, vars, Begin, OpEnds, OpSucceeds, OpPermanent, OpOther, Wake,
         FallbackEnds, Cancel, Tick, Heal
    <3>2. c = d
      BY <2>1, <3>1 DEF OpTransient
    <3> QED BY <3>1, <3>2
  <2>3. attempt'[c] = attempt[c] + 1
    BY <2>1, <2>2 DEF OpTransient
  <2>4. CASE Exhausted(attempt'[c])
    BY <2>1, <2>3, <2>4 DEF Exhausted
  <2>5. CASE ~ Exhausted(attempt'[c])
    <3>1. ShortCircuits(StateAfterFailure, since')
      BY <2>1, <2>2, <2>5 DEF OpTransient
    <3>2. state' = AfterCheck(StateAfterFailure, since')
      BY <2>2, <2>5 DEF OpTransient
    <3>3. since' \in Int /\ Cooldown \in Int
      BY <1>1, <2>2, FailureHandlerAssumption DEF Inv, TypeOK, OpTransient, CountFailure
    <3> QED BY <3>1, <3>2, <3>3 DEF ShortCircuits, AfterCheck
  <2> QED BY <2>4, <2>5
<1>2. Inv /\ [Next]_vars => [Step]_vars
  BY <1>1
<1> QED BY <1>2, Invariance, PTL DEF Spec, GivesUpForCause

-----------------------------------------------------------------------------
(* Powers of two count subsets: one more element has twice as many, those  *)
(* without it and those with it.                                           *)
LEMMA PowersOfTwo == \A n \in Nat : 2 ^ n \in Nat /\ 2 ^ (n + 1) = 2 * 2 ^ n
<1> TAKE n \in Nat
<1> DEFINE S == 1..n
           T == 1..(n + 1)
           With == {A \cup {n + 1} : A \in SUBSET S}
           f == [A \in SUBSET S |-> A \cup {n + 1}]
<1>1. /\ IsFiniteSet(S) /\ Cardinality(S) = n
      /\ IsFiniteSet(T) /\ Cardinality(T) = n + 1
  <2>1. 1 \in Int /\ n \in Int /\ n + 1 \in Int
    OBVIOUS
  <2>2. /\ IsFiniteSet(S) /\ Cardinality(S) = IF 1 > n THEN 0 ELSE n - 1 + 1
        /\ IsFiniteSet(T) /\ Cardinality(T) = IF 1 > n + 1 THEN 0 ELSE (n + 1) - 1 + 1
    BY <2>1, FS_Interval
  <2> QED BY <2>2
<1>2. n + 1 \notin S /\ T = S \cup {n + 1}
  OBVIOUS
<1> HIDE DEF S, T
<1>3. /\ IsFiniteSet(SUBSET S) /\ Cardinality(SUBSET S) = 2 ^ n
      /\ Cardinality(SUBSET T) = 2 ^ (n + 1)
  <2>1. /\ IsFiniteSet(SUBSET S) /\ Cardinality(SUBSET S) = 2 ^ Cardinality(S)
        /\ Cardinality(SUBSET T) = 2 ^ Cardinality(T)
    BY <1>1, FS_SUBSET
  <2> QED BY <1>1, <2>1
<1>4. f \in Bijection(SUBSET S, With)
  <2>1. f \in [SUBSET S -> With]
    OBVIOUS
  <2>2. \A A, B \in SUBSET S : A \cup {n + 1} = B \cup {n + 1} => A = B
    BY <1>2
  <2>3. \A A, B \in SUBSET S : f[A] = f[B] => A = B
    BY <2>2
  <2>4. \A t \in With : \E A \in SUBSET S : f[A] = t
    OBVIOUS
  <2> HIDE DEF f, With
  <2> QED BY <2>1, <2>3, <2>4
          DEF Bijection, Injection, IsInjective, Surjection
<1>5. IsFiniteSet(With) /\ Cardinality(With) = Cardinality(SUBSET S)
  <2> HIDE DEF f, With
  <2>1. ExistsBijection(SUBSET S, With)
    BY <1>4 DEF ExistsBijection
  <2> QED BY <1>3, <2>1, FS_Bijection
<1>6. SUBSET T = (SUBSET S) \cup With
  <2>1. ASSUME NEW A \in SUBSET T PROVE A \in SUBSET S \/ A \in With
    <3>1. CASE n + 1 \in A
      <4>1. A \ {n + 1} \in SUBSET S /\ A = (A \ {n + 1}) \cup {n + 1}
        BY <1>2, <3>1
      <4> QED BY <4>1
    <3>2. CASE n + 1 \notin A
      BY <1>2, <3>2
    <3> QED BY <3>1, <3>2
  <2>2. \A A \in SUBSET S : A \in SUBSET T /\ A \cup {n + 1} \in SUBSET T
    BY <1>2
  <2> QED BY <2>1, <2>2
<1>7. (SUBSET S) \cap With = {}
  BY <1>2
<1>8. Cardinality(SUBSET T) = Cardinality(SUBSET S) + Cardinality(With)
  <2>1. Cardinality((SUBSET S) \cup With)
          = Cardinality(SUBSET S) + Cardinality(With) - Cardinality((SUBSET S) \cap With)
    BY <1>3, <1>5, FS_Union
  <2>2. Cardinality((SUBSET S) \cap With) = 0
    BY <1>7, FS_EmptySet
  <2>3. Cardinality(SUBSET S) \in Nat /\ Cardinality(With) \in Nat
    BY <1>3, <1>5, FS_CardinalityType
  <2> DEFINE s == Cardinality(SUBSET S)
             w == Cardinality(With)
             both == Cardinality((SUBSET S) \cap With)
             all == Cardinality((SUBSET S) \cup With)
  <2>4. Cardinality(SUBSET T) = all
    BY <1>6
  <2>5. all = s + w - both /\ both = 0 /\ s \in Nat /\ w \in Nat
    BY <2>1, <2>2, <2>3
  <2> HIDE DEF s, w, both, all
  <2>6. all = s + w
    BY <2>5
  <2> QED BY <2>4, <2>6 DEF s, w
<1>9. Cardinality(SUBSET S) \in Nat
  BY <1>3, FS_CardinalityType
<1> HIDE DEF With
<1> QED BY <1>3, <1>5, <1>8, <1>9

(* The longest backoff before one retry is the shortest before the next.   *)
LEMMA BackoffSteps ==
    \A n \in Nat \ {0} : /\ Exponential(n) \in Nat
                         /\ Exponential(n + 1) = 2 * Exponential(n)
<1> TAKE n \in Nat \ {0}
<1>1. 2 ^ (n - 1) \in Nat /\ 2 ^ ((n - 1) + 1) = 2 * 2 ^ (n - 1) /\ (n - 1) + 1 = n
  BY PowersOfTwo
<1>2. (n + 1) - 1 = n
  OBVIOUS
<1>3. \A b, p \in Nat : b * p \in Nat /\ b * (2 * p) = 2 * (b * p)
  OBVIOUS
<1>4. Exponential(n) = BaseDelay * 2 ^ (n - 1)
  BY DEF Exponential
<1>5. Exponential(n + 1) = BaseDelay * 2 ^ n
  BY <1>2 DEF Exponential
<1> QED BY <1>1, <1>3, <1>4, <1>5, FailureHandlerAssumption

(* While a call goes on its delay is the backoff before its latest retry.  *)
DelayInv ==
    \A c \in Callers : pc[c] \in {"op", "sleep"} =>
        \/ attempt[c] = 0 /\ delay[c] = 0
        \/ attempt[c] > 0 /\ delay[c] \in Backoff(attempt[c])

LEMMA TransientDelay ==
    ASSUME Inv, DelayInv, NEW c \in Callers, OpTransient(c)
    PROVE  /\ pc'[c] = "sleep" =>
                 /\ attempt'[c] > 0 /\ delay'[c] \in Backoff(attempt'[c])
                 /\ delay'[c] >= delay[c]
           /\ pc'[c] # "op"
           /\ \A d \in Callers \ {c} :
                 pc'[d] = pc[d] /\ attempt'[d] = attempt[d] /\ delay'[d] = delay[d]
<1>1. /\ pc[c] = "op" /\ attempt' = [attempt EXCEPT ![c] = @ + 1]
      /\ attempt[c] \in Nat /\ delay[c] \in Int /\ attempt'[c] = attempt[c] + 1
      /\ delay \in [Callers -> Int] /\ pc \in [Callers -> Place] /\ fallback[c] \in BOOLEAN
      /\ TypeOK
  BY FailureHandlerAssumption DEF OpTransient, Inv, TypeOK
<1>2. CASE UseFallbackOrRaise(c, fallback[c], "transient") /\ UNCHANGED delay
  <2>1. /\ pc'[c] \in {"idle", "fallback"}
        /\ \A d \in Callers \ {c} : pc'[d] = pc[d] /\ outcome'[d] = outcome[d]
    BY <1>1, <1>2, FallbackFacts
  <2> QED BY <1>1, <1>2, <2>1 DEF Inv, TypeOK
<1>3. CASE /\ pc' = [pc EXCEPT ![c] = "sleep"]
           /\ \E d \in Backoff(attempt'[c]) : delay' = [delay EXCEPT ![c] = d]
  <2>1. PICK d \in Backoff(attempt[c] + 1) : delay' = [delay EXCEPT ![c] = d]
    BY <1>1, <1>3
  <2>2. d >= Exponential(attempt[c] + 1) /\ delay'[c] = d
    BY <1>1, <2>1 DEF Backoff
  <2>3. d >= delay[c]
    <3>1. CASE attempt[c] = 0 /\ delay[c] = 0
      <4>1. Exponential(1) \in Nat /\ attempt[c] + 1 = 1
        BY <3>1, BackoffSteps
      <4> QED BY <2>1, <2>2, <3>1, <4>1 DEF Backoff
    <3>2. CASE attempt[c] > 0 /\ delay[c] \in Backoff(attempt[c])
      <4>1. /\ Exponential(attempt[c]) \in Nat
            /\ Exponential(attempt[c] + 1) = 2 * Exponential(attempt[c])
        BY <1>1, <3>2, BackoffSteps
      <4>2. delay[c] <= 2 * Exponential(attempt[c])
        BY <3>2 DEF Backoff
      <4>3. d \in Int
        BY <2>1 DEF Backoff
      <4> QED BY <1>1, <2>2, <4>1, <4>2, <4>3
    <3> QED BY <1>1, <3>1, <3>2 DEF DelayInv
  <2> QED BY <1>1, <1>3, <2>1, <2>2, <2>3 DEF Inv, TypeOK
<1> QED BY <1>2, <1>3 DEF OpTransient

LEMMA DelayStep == ASSUME Inv, DelayInv, [Next]_vars PROVE DelayInv'
<1>1. /\ pc \in [Callers -> Place] /\ attempt \in [Callers -> Nat] /\ delay \in [Callers -> Int]
  BY FailureHandlerAssumption DEF Inv, TypeOK
<1>2. ASSUME NEW c \in Callers, Begin(c) PROVE DelayInv'
  <2>1. /\ attempt' = [attempt EXCEPT ![c] = 0] /\ delay' = [delay EXCEPT ![c] = 0]
        /\ \A d \in Callers \ {c} : pc'[d] = pc[d]
    BY <1>1, <1>2 DEF Begin, UseFallbackOrRaise, EndCall
  <2> QED BY <1>1, <2>1 DEF DelayInv
<1>3. ASSUME NEW c \in Callers, OpTransient(c) PROVE DelayInv'
  <2>1. pc'[c] \in {"op", "sleep"} => pc'[c] = "sleep"
    BY <1>3, TransientDelay
  <2> QED BY <1>3, <2>1, TransientDelay DEF DelayInv
<1>4. ASSUME NEW c \in Callers,
             OpSucceeds(c) \/ OpPermanent(c) \/ OpOther(c) \/ FallbackEnds(c) \/ Cancel(c)
      PROVE  DelayInv'
  <2>1. /\ UNCHANGED <<attempt, delay>> /\ pc' = [pc EXCEPT ![c] = "idle"]
    BY <1>4 DEF OpSucceeds, OpPermanent, OpOther, FallbackEnds, Cancel, EndCall
  <2> QED BY <1>1, <2>1 DEF DelayInv
<1>5. ASSUME NEW c \in Callers, Wake(c) PROVE DelayInv'
  BY <1>1, <1>5 DEF Wake, DelayInv
<1>6. CASE UNCHANGED <<pc, attempt, delay>>
  BY <1>6 DEF DelayInv
<1> QED BY <1>2, <1>3, <1>4, <1>5, <1>6 DEF Next, OpEnds, Tick, Heal, vars

(* Within a call each backoff is at least as long as the one before,       *)
(* whatever the base delay and the number of retries: the jitter never     *)
(* exceeds the step to the next exponential delay (Requirement 8.3).       *)
THEOREM BackoffGrowsCorrect == Spec => BackoffGrows
<1> DEFINE Step ==
      \A c \in Callers : (pc[c] = "op" /\ pc'[c] = "sleep") => delay'[c] >= delay[c]
<1>1. Init => DelayInv
  BY DEF Init, DelayInv
<1>2. Inv /\ DelayInv /\ [Next]_vars => [Step]_vars
  <2> SUFFICES ASSUME Inv, DelayInv, [Next]_vars,
                      NEW c \in Callers, pc[c] = "op", pc'[c] = "sleep"
               PROVE  delay'[c] >= delay[c]
    OBVIOUS
  <2>1. pc \in [Callers -> Place]
    BY DEF Inv, TypeOK
  <2>2. OpTransient(c)
    <3>1. PICK d \in Callers : OpTransient(d)
      BY <2>1 DEF Next, vars, Begin, OpEnds, OpSucceeds, OpPermanent, OpOther, Wake,
         FallbackEnds, Cancel, Tick, Heal, UseFallbackOrRaise, EndCall
    <3>2. c = d
      BY <3>1, TransientDelay
    <3> QED BY <3>1, <3>2
  <2> QED BY <2>2, TransientDelay
<1> QED BY <1>1, <1>2, Invariance, DelayStep, PTL DEF Spec, BackoffGrows
=============================================================================
