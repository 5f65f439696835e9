---------------------------- MODULE BatcherProofs ----------------------------
(***************************************************************************)
(* Theorems about Batcher.tla, for every set of requests, batch size,      *)
(* window, number of loops, set of callers of stop() and either wait_for:  *)
(* nobody shares a request, every flush has its cause, every answer is the *)
(* request's own.                                                          *)
(***************************************************************************)
EXTENDS Batcher, FiniteSetTheorems, TLAPS

(* No request twice in a sequence, and none in two hands.                  *)
NoDup(q) == \A i, j \in DOMAIN q : q[i] = q[j] => i = j
Disjoint(A, B) == A \cap B = {}

Apart ==
    /\ NoDup(queue)
    /\ \A t \in Loops : NoDup(batch[t]) /\ Disjoint(Elements(queue), Elements(batch[t]))
    /\ \A p \in Stoppers : /\ NoDup(leftover[p])
                           /\ Disjoint(Elements(queue), Elements(leftover[p]))
    /\ \A t, u \in Loops : t # u => Disjoint(Elements(batch[t]), Elements(batch[u]))
    /\ \A p, q \in Stoppers : p # q => Disjoint(Elements(leftover[p]), Elements(leftover[q]))
    /\ \A t \in Loops, p \in Stoppers : Disjoint(Elements(batch[t]), Elements(leftover[p]))

(* In somebody's hands.                                                    *)
InHands(r) ==
    \/ r \in Elements(queue)
    \/ \E t \in Loops : r \in Elements(batch[t])
    \/ \E p \in Stoppers : r \in Elements(leftover[p])

Unsettled == \A r \in Requests : InHands(r) => future[r] \in {Pending, Cancelled}

(* What a loop holds at each of its awaits.                                *)
LoopPhase(t) ==
    /\ loop[t] \in {"unborn", "created", "first", "done"} => batch[t] = <<>>
    /\ loop[t] = "fill" => Len(batch[t]) \in 1..(MaxBatch - 1)
    /\ loop[t] \in {"taken", "flush", "last_flush"} => Len(batch[t]) \in 1..MaxBatch
    /\ loop[t] = "flush" => Len(batch[t]) = MaxBatch \/ age[batch[t][1]] >= Window
LoopPhases == \A t \in Loops : LoopPhase(t)

(* A caller of stop() awaits a loop, and holds requests in its drain only. *)
StopPhases ==
    \A p \in Stoppers :
        /\ stopper[p] = "await" => awaited[p] \in Loops
        /\ stopper[p] # "drain" => leftover[p] = <<>>

Inv == TypeOK /\ Apart /\ Unsettled /\ LoopPhases /\ StopPhases /\ OwnAnswer

-----------------------------------------------------------------------------
(* Sequences of requests and what they hold.                               *)
LEMMA EmptyFacts == Elements(<<>>) = {} /\ NoDup(<<>>) /\ <<>> \in Seq(Requests)
BY DEF Elements, NoDup

LEMMA AppendFacts ==
    ASSUME NEW q \in Seq(Requests), NEW r \in Requests
    PROVE  /\ Append(q, r) \in Seq(Requests)
           /\ Len(Append(q, r)) = Len(q) + 1
           /\ Elements(Append(q, r)) = Elements(q) \cup {r}
           /\ NoDup(q) /\ r \notin Elements(q) => NoDup(Append(q, r))
           /\ q # <<>> => Append(q, r)[1] = q[1]
<1>1. /\ Append(q, r) \in Seq(Requests) /\ Len(Append(q, r)) = Len(q) + 1
      /\ Append(q, r)[Len(q) + 1] = r
      /\ \A i \in DOMAIN q : Append(q, r)[i] = q[i]
      /\ DOMAIN Append(q, r) = 1..(Len(q) + 1) /\ DOMAIN q = 1..Len(q) /\ Len(q) \in Nat
      /\ q # <<>> => 1 \in DOMAIN q
  OBVIOUS
<1>2. \A i \in DOMAIN Append(q, r) :
          \/ i \in DOMAIN q /\ Append(q, r)[i] = q[i]
          \/ i = Len(q) + 1 /\ Append(q, r)[i] = r
  BY <1>1
<1>3. Elements(Append(q, r)) = Elements(q) \cup {r}
  <2>1. DOMAIN q \subseteq DOMAIN Append(q, r) /\ Len(q) + 1 \in DOMAIN Append(q, r)
    BY <1>1
  <2> QED BY <1>1, <1>2, <2>1 DEF Elements
<1>4. NoDup(q) /\ r \notin Elements(q) => NoDup(Append(q, r))
  BY <1>2 DEF Elements, NoDup
<1> QED BY <1>1, <1>3, <1>4

LEMMA TailFacts ==
    ASSUME NEW q \in Seq(Requests), q # <<>>
    PROVE  /\ Tail(q) \in Seq(Requests) /\ Head(q) \in Requests
           /\ Elements(q) = {Head(q)} \cup Elements(Tail(q))
           /\ NoDup(q) => NoDup(Tail(q)) /\ Head(q) \notin Elements(Tail(q))
<1>1. /\ Tail(q) \in Seq(Requests) /\ Head(q) \in Requests /\ Head(q) = q[1]
      /\ DOMAIN Tail(q) = 1..(Len(q) - 1) /\ DOMAIN q = 1..Len(q)
      /\ Len(q) \in Nat /\ 1 \in DOMAIN q
      /\ \A i \in DOMAIN Tail(q) : Tail(q)[i] = q[i + 1]
  OBVIOUS
<1>2. \A i \in DOMAIN Tail(q) : i + 1 \in DOMAIN q /\ i + 1 # 1 /\ Tail(q)[i] = q[i + 1]
  BY <1>1
<1>3. \A i \in DOMAIN q : i # 1 => i - 1 \in DOMAIN Tail(q) /\ Tail(q)[i - 1] = q[i]
  BY <1>1
<1>4. Elements(q) = {Head(q)} \cup Elements(Tail(q))
  BY <1>1, <1>2, <1>3 DEF Elements
<1>5. NoDup(q) => NoDup(Tail(q)) /\ Head(q) \notin Elements(Tail(q))
  BY <1>1, <1>2 DEF Elements, NoDup
<1> QED BY <1>1, <1>4, <1>5

LEMMA SingletonFacts ==
    ASSUME NEW r \in Requests
    PROVE  /\ <<r>> \in Seq(Requests) /\ Len(<<r>>) = 1 /\ <<r>>[1] = r
           /\ Elements(<<r>>) = {r} /\ NoDup(<<r>>)
BY DEF Elements, NoDup

(* A drain takes what it holds apart into the chunk it flushes and the     *)
(* rest; nothing gets lost or doubled in between.                          *)
LEMMA ChunkFacts ==
    ASSUME NEW q \in Seq(Requests)
    PROVE  /\ Chunk(q) \in Seq(Requests) /\ Rest(q) \in Seq(Requests)
           /\ Elements(q) = Elements(Chunk(q)) \cup Elements(Rest(q))
           /\ NoDup(q) => /\ NoDup(Rest(q))
                          /\ Disjoint(Elements(Chunk(q)), Elements(Rest(q)))
<1> DEFINE k == IF Len(q) < MaxBatch THEN Len(q) ELSE MaxBatch
<1>1. k \in 0..Len(q) /\ Len(q) \in Nat /\ DOMAIN q = 1..Len(q)
  BY BatcherAssumption
<1>2. Chunk(q) = SubSeq(q, 1, k)
  BY DEF Chunk
<1> HIDE DEF k
<1>3. /\ Chunk(q) \in Seq(Requests) /\ Len(Chunk(q)) = k /\ DOMAIN Chunk(q) = 1..k
      /\ \A i \in 1..k : Chunk(q)[i] = q[i]
  BY <1>1, <1>2
<1>4. Rest(q) = SubSeq(q, k + 1, Len(q))
  BY <1>3 DEF Rest
<1>5. /\ Rest(q) \in Seq(Requests) /\ DOMAIN Rest(q) = 1..(Len(q) - k)
      /\ \A i \in 1..(Len(q) - k) : Rest(q)[i] = q[i + k]
  BY <1>1, <1>4
<1>6. /\ \A i \in DOMAIN Chunk(q) : i \in DOMAIN q /\ i <= k /\ Chunk(q)[i] = q[i]
      /\ \A i \in DOMAIN Rest(q) : i + k \in DOMAIN q /\ i + k > k /\ Rest(q)[i] = q[i + k]
      /\ \A i \in DOMAIN q : \/ i \in DOMAIN Chunk(q) /\ Chunk(q)[i] = q[i]
                             \/ i - k \in DOMAIN Rest(q) /\ Rest(q)[i - k] = q[i]
  BY <1>1, <1>3, <1>5
<1>7. Elements(q) = Elements(Chunk(q)) \cup Elements(Rest(q))
  BY <1>6 DEF Elements
<1>8. ASSUME NoDup(q)
      PROVE  NoDup(Rest(q)) /\ Disjoint(Elements(Chunk(q)), Elements(Rest(q)))
  <2>1. NoDup(Rest(q))
    BY <1>1, <1>5, <1>6, <1>8 DEF NoDup
  <2>2. ASSUME NEW i \in DOMAIN Chunk(q), NEW j \in DOMAIN Rest(q)
        PROVE  Chunk(q)[i] # Rest(q)[j]
    <3>1. i \in DOMAIN q /\ j + k \in DOMAIN q /\ i # j + k
      BY <1>1, <1>3, <1>5, <1>6
    <3> QED BY <1>6, <1>8, <3>1 DEF NoDup
  <2> QED BY <2>1, <2>2 DEF Disjoint, Elements
<1> QED BY <1>3, <1>5, <1>7, <1>8

LEMMA ElementsType ==
    ASSUME NEW q \in Seq(Requests) PROVE Elements(q) \subseteq Requests
BY DEF Elements

-----------------------------------------------------------------------------
(* A flush answers the pending requests of its batch, each with its own    *)
(* completion or a failure, and no other.                                  *)
OwnOutcomes(r) == {Failed, Completion(r, "ok"), Completion(r, "degraded")}

LEMMA AnswerFacts ==
    ASSUME NEW b \in Seq(Requests), NEW completions \in CallResults(b), NEW i \in DOMAIN b
    PROVE  Answer(i, completions) \in OwnOutcomes(b[i])
<1>1. CASE \E k \in 0..Len(b) : completions = [j \in 1..k |-> Completion(b[j], "ok")]
  BY <1>1 DEF Answer, OwnOutcomes
<1>2. CASE completions = DegradedCompletions(b)
  BY <1>2 DEF Answer, OwnOutcomes, DegradedCompletions
<1> QED BY <1>1, <1>2 DEF CallResults

LEMMA FlushedFacts ==
    ASSUME NEW b \in Seq(Requests), Flushed(b)
    PROVE  /\ future' = [r \in Requests |-> future'[r]]
           /\ \A r \in Requests :
                 IF future[r] = Pending /\ r \in Elements(b)
                 THEN future'[r] \in OwnOutcomes(r)
                 ELSE future'[r] = future[r]
<1>1. PICK completions \in CallResults(b) : Settle(b, completions)
  BY DEF Flushed
<1>2. ASSUME NEW r \in Requests, future[r] = Pending, r \in Elements(b)
      PROVE  future'[r] \in OwnOutcomes(r)
  <2> DEFINE i == CHOOSE i \in DOMAIN b : b[i] = r
  <2>1. i \in DOMAIN b /\ b[i] = r
    BY <1>2 DEF Elements
  <2>2. future'[r] = Answer(i, completions)
    BY <1>1, <1>2 DEF Settle
  <2> HIDE DEF i
  <2> QED BY <2>1, <2>2, AnswerFacts
<1>3. future' = [r \in Requests |-> future'[r]]
  BY <1>1 DEF Settle
<1>4. \A r \in Requests : ~ (future[r] = Pending /\ r \in Elements(b)) => future'[r] = future[r]
  BY <1>1 DEF Settle
<1> QED BY <1>2, <1>3, <1>4

(* How requests change hands: one joins the queue; the head of the queue   *)
(* joins a batch; a batch, a chunk or a drain is let go of; a drain takes  *)
(* the queue.  Of the futures one is created, one is cancelled, or those   *)
(* of the batch or the chunk that is let go of are settled.                *)
JoinsQueue ==
    \E r \in Requests : /\ future[r] = Unborn /\ future' = [future EXCEPT ![r] = Pending]
                        /\ queue' = Append(queue, r) /\ UNCHANGED <<batch, leftover>>
JoinsBatch ==
    \E t \in Loops : /\ queue # <<>> /\ queue' = Tail(queue) /\ UNCHANGED leftover
                     /\ batch' = [batch EXCEPT ![t] = Append(batch[t], Head(queue))]
BatchGone ==
    \E t \in Loops : batch' = [batch EXCEPT ![t] = <<>>] /\ UNCHANGED <<queue, leftover>>
QueueDrained ==
    \E p \in Stoppers : /\ leftover' = [leftover EXCEPT ![p] = queue] /\ queue' = <<>>
                        /\ UNCHANGED batch
DrainShrinks ==
    \E p \in Stoppers :
        /\ leftover' \in {[leftover EXCEPT ![p] = Rest(leftover[p])],
                         [leftover EXCEPT ![p] = <<>>]}
        /\ UNCHANGED <<queue, batch>>
HandsKept == UNCHANGED <<queue, batch, leftover>>
Passes == JoinsBatch \/ BatchGone \/ QueueDrained \/ DrainShrinks \/ HandsKept

SomeCancelled ==
    /\ HandsKept
    /\ \E R \in SUBSET Requests :
          /\ \A r \in R : future[r] = Pending
          /\ future' = [r \in Requests |-> IF r \in R THEN Cancelled ELSE future[r]]
BatchSettled ==
    \E t \in Loops : /\ Flushed(batch[t]) /\ batch' = [batch EXCEPT ![t] = <<>>]
                     /\ UNCHANGED <<queue, leftover>>
ChunkSettled ==
    \E p \in Stoppers : /\ Flushed(Chunk(leftover[p]))
                        /\ leftover' = [leftover EXCEPT ![p] = Rest(leftover[p])]
                        /\ UNCHANGED <<queue, batch>>

Moves ==
    \/ JoinsQueue
    \/ Passes /\ UNCHANGED future
    \/ SomeCancelled
    \/ BatchSettled
    \/ ChunkSettled

(* Cancelling a loop moves its requests in one of these ways.              *)
LEMMA CancelMoves ==
    ASSUME NEW t \in Loops, CancelLoop(t), UNCHANGED leftover PROVE Passes
BY DEF CancelLoop, JoinsBatch, BatchGone, HandsKept, Passes

(* And so does every step.                                                 *)
LEMMA NextMoves == ASSUME Inv, [Next]_vars PROVE Moves
<1>1. ASSUME NEW r \in Requests, Submit(r) PROVE JoinsQueue
  BY <1>1 DEF Submit, JoinsQueue
<1>2. ASSUME NEW t \in Loops, LoopStep(t) PROVE Moves
  <2>1. CASE TakeFirst(t)
    <3>1. batch[t] = <<>> /\ queue # <<>> /\ Append(<<>>, Head(queue)) = <<Head(queue)>>
      BY <2>1 DEF TakeFirst, Inv, LoopPhases, LoopPhase
    <3> QED BY <2>1, <3>1 DEF TakeFirst, JoinsBatch, Passes, Moves
  <2>2. CASE FillTakes(t)
    BY <2>2 DEF FillTakes, JoinsBatch, Passes, Moves
  <2>3. CASE LoopStarts(t) \/ FillResumes(t) \/ WindowExpires(t)
    BY <2>3 DEF LoopStarts, FillResumes, WindowExpires, HandsKept, Passes, Moves
  <2>4. CASE FlushReturns(t)
    BY <2>4 DEF FlushReturns, BatchSettled, Moves
  <2> QED BY <1>2, <2>1, <2>2, <2>3, <2>4 DEF LoopStep
<1>3. ASSUME NEW p \in Stoppers, StopRunning(p) PROVE Passes /\ UNCHANGED future
  <2>1. current \in Loops /\ CancelLoop(current) /\ UNCHANGED <<leftover, future>>
    BY <1>3 DEF StopRunning, Running, Inv, TypeOK
  <2> QED BY <2>1, CancelMoves
<1>4. ASSUME NEW p \in Stoppers, StopIdle(p) \/ LoopAwaited(p)
      PROVE  Passes /\ UNCHANGED future
  BY <1>4 DEF StopIdle, LoopAwaited, BeginDrain, QueueDrained, Passes
<1>5. ASSUME NEW p \in Stoppers, DrainFlushReturns(p) PROVE ChunkSettled
  BY <1>5 DEF DrainFlushReturns, ChunkSettled
<1>6. ASSUME NEW p \in Stoppers, CancelStop(p) PROVE Passes /\ UNCHANGED future
  <2>1. CASE stopper[p] = "await" /\ CancelLoop(awaited[p]) /\ UNCHANGED <<leftover, future>>
    <3>1. awaited[p] \in Loops
      BY <2>1 DEF Inv, StopPhases
    <3> QED BY <2>1, <3>1, CancelMoves
  <2>2. CASE /\ leftover' = [leftover EXCEPT ![p] = <<>>]
             /\ UNCHANGED <<queue, batch, future>>
    BY <2>2 DEF DrainShrinks, Passes
  <2> QED BY <1>6, <2>1, <2>2 DEF CancelStop
<1>7. CASE Start \/ Tick \/ UNCHANGED vars
  BY <1>7 DEF Start, Tick, vars, HandsKept, Passes, Moves
<1>8. ASSUME NEW R \in SUBSET Requests, CancelSubmit(R) PROVE SomeCancelled
  BY <1>8 DEF CancelSubmit, SomeCancelled, HandsKept
<1> QED BY <1>1, <1>2, <1>3, <1>4, <1>5, <1>6, <1>7, <1>8 DEF Moves, Next, StopStep

(* No way of changing hands gives a request to two.                        *)
LEMMA ApartStep == ASSUME Inv, Moves PROVE Apart'
<1>0. /\ queue \in Seq(Requests) /\ batch \in [Loops -> Seq(Requests)]
      /\ leftover \in [Stoppers -> Seq(Requests)] /\ Apart
  BY DEF Inv, TypeOK
<1>1. CASE JoinsQueue
  <2>1. PICK r \in Requests : future[r] = Unborn /\ queue' = Append(queue, r)
                             /\ UNCHANGED <<batch, leftover>>
    BY <1>1 DEF JoinsQueue
  <2>2. ~ InHands(r)
    BY <2>1 DEF Inv, Unsettled, Unborn, Pending, Cancelled
  <2>3. Elements(queue') = Elements(queue) \cup {r} /\ NoDup(queue')
    BY <1>0, <2>1, <2>2, AppendFacts DEF InHands, Apart
  <2> QED BY <1>0, <2>1, <2>2, <2>3 DEF Apart, InHands, Disjoint
<1>2. CASE JoinsBatch
  <2>1. PICK t \in Loops :
            /\ queue # <<>> /\ queue' = Tail(queue) /\ UNCHANGED leftover
            /\ batch' = [batch EXCEPT ![t] = Append(batch[t], Head(queue))]
    BY <1>2 DEF JoinsBatch
  <2> DEFINE r == Head(queue)
  <2>2. /\ r \in Requests /\ Elements(queue) = {r} \cup Elements(queue')
        /\ NoDup(queue') /\ r \notin Elements(queue')
    BY <1>0, <2>1, TailFacts DEF Apart
  <2>3. r \notin Elements(batch[t])
    BY <1>0, <2>2 DEF Apart, Disjoint
  <2>4. Elements(batch'[t]) = Elements(batch[t]) \cup {r} /\ NoDup(batch'[t])
    BY <1>0, <2>1, <2>2, <2>3, AppendFacts DEF Apart
  <2>5. \A u \in Loops : u # t => batch'[u] = batch[u]
    BY <1>0, <2>1
  <2> HIDE DEF r
  <2> QED BY <1>0, <2>1, <2>2, <2>4, <2>5 DEF Apart, Disjoint
<1>3. CASE BatchGone
  <2>1. PICK t \in Loops : batch' = [batch EXCEPT ![t] = <<>>] /\ UNCHANGED <<queue, leftover>>
    BY <1>3 DEF BatchGone
  <2>2. \A u \in Loops : batch'[u] = IF u = t THEN <<>> ELSE batch[u]
    BY <1>0, <2>1
  <2> QED BY <1>0, <2>1, <2>2, EmptyFacts DEF Apart, Disjoint
<1>4. CASE QueueDrained
  <2>1. PICK p \in Stoppers : /\ leftover' = [leftover EXCEPT ![p] = queue] /\ queue' = <<>>
                             /\ UNCHANGED batch
    BY <1>4 DEF QueueDrained
  <2>2. \A q \in Stoppers : leftover'[q] = IF q = p THEN queue ELSE leftover[q]
    BY <1>0, <2>1
  <2> QED BY <1>0, <2>1, <2>2, EmptyFacts DEF Apart, Disjoint
<1>5. CASE DrainShrinks
  <2>1. PICK p \in Stoppers :
            /\ leftover' \in {[leftover EXCEPT ![p] = Rest(leftover[p])],
                             [leftover EXCEPT ![p] = <<>>]}
            /\ UNCHANGED <<queue, batch>>
    BY <1>5 DEF DrainShrinks
  <2>2. \A q \in Stoppers : q # p => leftover'[q] = leftover[q]
    BY <1>0, <2>1
  <2>3. leftover'[p] \in {Rest(leftover[p]), <<>>}
    BY <1>0, <2>1
  <2>4. NoDup(leftover'[p]) /\ Elements(leftover'[p]) \subseteq Elements(leftover[p])
    BY <1>0, <2>3, EmptyFacts, ChunkFacts DEF Apart
  <2> QED BY <1>0, <2>1, <2>2, <2>4 DEF Apart, Disjoint
<1>6. CASE HandsKept
  BY <1>0, <1>6 DEF HandsKept, Apart
<1> QED BY <1>1, <1>2, <1>3, <1>4, <1>5, <1>6
       DEF Moves, Passes, SomeCancelled, BatchSettled, BatchGone, ChunkSettled, DrainShrinks

(* Requests in hands are never settled, and settled ones in no hands: the  *)
(* step that settles a batch or a chunk lets go of it, and by Apart nobody *)
(* else holds any of it.                                                   *)
LEMMA UnsettledStep == ASSUME Inv, Moves PROVE Unsettled'
<1>0. /\ queue \in Seq(Requests) /\ batch \in [Loops -> Seq(Requests)]
      /\ leftover \in [Stoppers -> Seq(Requests)] /\ future \in [Requests -> Future]
      /\ Apart /\ Unsettled
  BY DEF Inv, TypeOK
<1>1. CASE JoinsQueue
  <2>1. PICK r \in Requests : /\ future' = [future EXCEPT ![r] = Pending]
                             /\ queue' = Append(queue, r) /\ UNCHANGED <<batch, leftover>>
    BY <1>1 DEF JoinsQueue
  <2>2. Elements(queue') = Elements(queue) \cup {r}
    BY <1>0, <2>1, AppendFacts
  <2>3. \A x \in Requests : InHands(x)' => x = r \/ InHands(x)
    BY <2>1, <2>2 DEF InHands
  <2> QED BY <1>0, <2>1, <2>3 DEF Unsettled
<1>2. CASE Passes /\ UNCHANGED future
  <2>1. ASSUME NEW x \in Requests, InHands(x)' PROVE InHands(x)
    <3>1. CASE JoinsBatch
      <4>1. PICK t \in Loops :
                /\ queue # <<>> /\ queue' = Tail(queue) /\ UNCHANGED leftover
                /\ batch' = [batch EXCEPT ![t] = Append(batch[t], Head(queue))]
        BY <3>1 DEF JoinsBatch
      <4>2. /\ Head(queue) \in Requests
            /\ Elements(queue) = {Head(queue)} \cup Elements(queue')
        BY <1>0, <4>1, TailFacts
      <4>3. Elements(batch'[t]) = Elements(batch[t]) \cup {Head(queue)}
        BY <1>0, <4>1, <4>2, AppendFacts
      <4>4. \A u \in Loops : u # t => batch'[u] = batch[u]
        BY <1>0, <4>1
      <4> QED BY <2>1, <4>1, <4>2, <4>3, <4>4 DEF InHands
    <3>2. CASE BatchGone
      <4>1. PICK t \in Loops : /\ batch' = [batch EXCEPT ![t] = <<>>]
                              /\ UNCHANGED <<queue, leftover>>
        BY <3>2 DEF BatchGone
      <4>2. \A u \in Loops : batch'[u] = IF u = t THEN <<>> ELSE batch[u]
        BY <1>0, <4>1
      <4> QED BY <2>1, <4>1, <4>2, EmptyFacts DEF InHands
    <3>3. CASE QueueDrained
      <4>1. PICK p \in Stoppers : /\ leftover' = [leftover EXCEPT ![p] = queue]
                                 /\ queue' = <<>> /\ UNCHANGED batch
        BY <3>3 DEF QueueDrained
      <4>2. \A q \in Stoppers : leftover'[q] = IF q = p THEN queue ELSE leftover[q]
        BY <1>0, <4>1
      <4> QED BY <2>1, <4>1, <4>2, EmptyFacts DEF InHands
    <3>4. CASE DrainShrinks
      <4>1. PICK p \in Stoppers :
                /\ leftover' \in {[leftover EXCEPT ![p] = Rest(leftover[p])],
                                 [leftover EXCEPT ![p] = <<>>]}
                /\ UNCHANGED <<queue, batch>>
        BY <3>4 DEF DrainShrinks
      <4>2. /\ \A q \in Stoppers : q # p => leftover'[q] = leftover[q]
            /\ leftover'[p] \in {Rest(leftover[p]), <<>>}
        BY <1>0, <4>1
      <4>3. Elements(leftover'[p]) \subseteq Elements(leftover[p])
        BY <1>0, <4>2, EmptyFacts, ChunkFacts
      <4> QED BY <2>1, <4>1, <4>2, <4>3 DEF InHands
    <3>5. CASE HandsKept
      BY <2>1, <3>5 DEF HandsKept, InHands
    <3> QED BY <1>2, <3>1, <3>2, <3>3, <3>4, <3>5 DEF Passes
  <2> QED BY <1>0, <1>2, <2>1 DEF Unsettled
<1>3. CASE SomeCancelled
  BY <1>0, <1>3 DEF SomeCancelled, HandsKept, Unsettled, InHands
<1>4. CASE BatchSettled
  <2>1. PICK t \in Loops : /\ Flushed(batch[t]) /\ batch' = [batch EXCEPT ![t] = <<>>]
                          /\ UNCHANGED <<queue, leftover>>
    BY <1>4 DEF BatchSettled
  <2>2. \A u \in Loops : batch'[u] = IF u = t THEN <<>> ELSE batch[u]
    BY <1>0, <2>1
  <2>3. ASSUME NEW x \in Requests, InHands(x)'
        PROVE  InHands(x) /\ x \notin Elements(batch[t])
    BY <1>0, <2>1, <2>2, <2>3, EmptyFacts DEF InHands, Apart, Disjoint
  <2>4. \A x \in Requests : x \notin Elements(batch[t]) => future'[x] = future[x]
    BY <1>0, <2>1, FlushedFacts
  <2> QED BY <1>0, <2>3, <2>4 DEF Unsettled
<1>5. CASE ChunkSettled
  <2>1. PICK p \in Stoppers : /\ Flushed(Chunk(leftover[p]))
                             /\ leftover' = [leftover EXCEPT ![p] = Rest(leftover[p])]
                             /\ UNCHANGED <<queue, batch>>
    BY <1>5 DEF ChunkSettled
  <2> DEFINE chunk == Chunk(leftover[p])
  <2>2. \A q \in Stoppers : leftover'[q] = IF q = p THEN Rest(leftover[p]) ELSE leftover[q]
    BY <1>0, <2>1
  <2>3. /\ chunk \in Seq(Requests)
        /\ Elements(leftover[p]) = Elements(chunk) \cup Elements(Rest(leftover[p]))
        /\ Disjoint(Elements(chunk), Elements(Rest(leftover[p])))
    BY <1>0, ChunkFacts DEF Apart
  <2>4. ASSUME NEW x \in Requests, InHands(x)' PROVE InHands(x) /\ x \notin Elements(chunk)
    BY <1>0, <2>1, <2>2, <2>3, <2>4 DEF InHands, Apart, Disjoint
  <2>5. \A x \in Requests : x \notin Elements(chunk) => future'[x] = future[x]
    BY <2>1, <2>3, FlushedFacts
  <2> QED BY <1>0, <2>4, <2>5 DEF Unsettled
<1> QED BY <1>1, <1>2, <1>3, <1>4, <1>5 DEF Moves

(* A future that is resolved is resolved with the request's own prompt.    *)
LEMMA OwnAnswerStep == ASSUME Inv, Moves PROVE OwnAnswer'
<1>0. /\ batch \in [Loops -> Seq(Requests)] /\ leftover \in [Stoppers -> Seq(Requests)]
      /\ future \in [Requests -> Future] /\ OwnAnswer
  BY DEF Inv, TypeOK
<1> DEFINE Becomes(r) == OwnOutcomes(r) \cup {Pending, Cancelled, future[r]}
           Goal == \A r \in Requests : future'[r] \in Becomes(r)
<1>1. ASSUME JoinsQueue \/ SomeCancelled PROVE Goal
  <2>1. \/ \E x \in Requests : future' = [future EXCEPT ![x] = Pending]
        \/ \E R \in SUBSET Requests :
              future' = [r \in Requests |-> IF r \in R THEN Cancelled ELSE future[r]]
    BY <1>1 DEF JoinsQueue, SomeCancelled
  <2> QED BY <1>0, <2>1
<1>2. ASSUME UNCHANGED future PROVE Goal
  BY <1>2
<1>3. ASSUME NEW b \in Seq(Requests), Flushed(b)
      PROVE  Goal
  BY <1>3, FlushedFacts
<1>4. ASSUME BatchSettled PROVE Goal
  BY <1>0, <1>3, <1>4 DEF BatchSettled
<1>5. ASSUME ChunkSettled PROVE Goal
  <2>1. PICK p \in Stoppers : Flushed(Chunk(leftover[p]))
    BY <1>5 DEF ChunkSettled
  <2> QED BY <1>0, <1>3, <2>1, ChunkFacts
<1>6. Goal
  BY <1>1, <1>2, <1>4, <1>5 DEF Moves
<1>7. ASSUME NEW r \in Requests, future'[r].kind \in {"ok", "degraded"}
      PROVE  future'[r].of = r
  <2>1. \A f \in OwnOutcomes(r) \cup {Pending, Cancelled} :
            f.kind \in {"ok", "degraded"} => f.of = r
    BY DEF OwnOutcomes, Failed, Completion, Pending, Cancelled
  <2>2. CASE future'[r] = future[r]
    BY <1>0, <1>7, <2>2 DEF OwnAnswer
  <2>3. CASE future'[r] \in OwnOutcomes(r) \cup {Pending, Cancelled}
    BY <1>7, <2>1, <2>3
  <2> QED BY <1>6, <2>2, <2>3
<1> QED BY <1>7 DEF OwnAnswer

-----------------------------------------------------------------------------
(* The state is kept well typed.                                           *)
LEMMA FutureTypes ==
    /\ {Unborn, Pending, Cancelled, Failed} \subseteq Future
    /\ \A r \in Requests : OwnOutcomes(r) \subseteq Future
BY DEF Future, OwnOutcomes

LEMMA HandsTypeStep ==
    ASSUME Inv, Moves
    PROVE  /\ queue' \in Seq(Requests) /\ batch' \in [Loops -> Seq(Requests)]
           /\ leftover' \in [Stoppers -> Seq(Requests)]
           /\ future' \in [Requests -> Future]
<1>0. /\ queue \in Seq(Requests) /\ batch \in [Loops -> Seq(Requests)]
      /\ leftover \in [Stoppers -> Seq(Requests)] /\ future \in [Requests -> Future]
  BY DEF Inv, TypeOK
<1>1. CASE JoinsQueue \/ SomeCancelled
  BY <1>0, <1>1, FutureTypes, AppendFacts DEF JoinsQueue, SomeCancelled, HandsKept
<1>2. CASE Passes /\ UNCHANGED future
  <2>1. CASE JoinsBatch
    <3>1. PICK t \in Loops :
              /\ queue # <<>> /\ queue' = Tail(queue) /\ UNCHANGED leftover
              /\ batch' = [batch EXCEPT ![t] = Append(batch[t], Head(queue))]
      BY <2>1 DEF JoinsBatch
    <3>2. Tail(queue) \in Seq(Requests) /\ Append(batch[t], Head(queue)) \in Seq(Requests)
      BY <1>0, <3>1, TailFacts, AppendFacts
    <3> QED BY <1>0, <1>2, <3>1, <3>2
  <2>2. CASE BatchGone \/ QueueDrained \/ HandsKept
    BY <1>0, <1>2, <2>2, EmptyFacts DEF BatchGone, QueueDrained, HandsKept
  <2>3. CASE DrainShrinks
    <3>1. PICK p \in Stoppers :
              /\ leftover' \in {[leftover EXCEPT ![p] = Rest(leftover[p])],
                               [leftover EXCEPT ![p] = <<>>]}
              /\ UNCHANGED <<queue, batch>>
      BY <2>3 DEF DrainShrinks
    <3>2. Rest(leftover[p]) \in Seq(Requests)
      BY <1>0, ChunkFacts
    <3> QED BY <1>0, <1>2, <3>1, <3>2, EmptyFacts
  <2> QED BY <1>2, <2>1, <2>2, <2>3 DEF Passes
<1>3. ASSUME NEW b \in Seq(Requests), Flushed(b) PROVE future' \in [Requests -> Future]
  <2>1. \A r \in Requests : future'[r] \in Future
    BY <1>0, <1>3, FlushedFacts, FutureTypes
  <2>2. future' = [r \in Requests |-> future'[r]]
    BY <1>3, FlushedFacts
  <2> QED BY <2>1, <2>2
<1>4. CASE BatchSettled
  BY <1>0, <1>3, <1>4, EmptyFacts DEF BatchSettled
<1>5. CASE ChunkSettled
  BY <1>0, <1>3, <1>5, ChunkFacts DEF ChunkSettled
<1> QED BY <1>1, <1>2, <1>4, <1>5 DEF Moves

Control ==
    {"unborn", "created", "first", "fill", "taken", "flush", "last_flush", "done"}

LEMMA CancelType ==
    ASSUME TypeOK, NEW t \in Loops, CancelLoop(t) PROVE loop' \in [Loops -> Control]
BY DEF TypeOK, Control, CancelLoop, AfterCancelledFill

LEMMA LoopTypeStep ==
    ASSUME Inv, [Next]_vars
    PROVE  /\ loop' \in [Loops -> Control] /\ current' \in Loops \cup {NoLoop}
           /\ stopped' \in BOOLEAN
<1>0. /\ loop \in [Loops -> Control] /\ current \in Loops \cup {NoLoop}
      /\ stopped \in BOOLEAN
  BY DEF Inv, TypeOK, Control
<1>1. CASE EnsureRunning
  BY <1>0, <1>1 DEF EnsureRunning, Control
<1>2. ASSUME NEW t \in Loops, LoopStep(t)
      PROVE  loop' \in [Loops -> Control] /\ UNCHANGED <<current, stopped>>
  <2>1. {LoopHead} \subseteq Control /\ \A b : AfterAppend(b) \in Control
    BY DEF LoopHead, AfterAppend, Control
  <2>2. \E c \in Control : loop' = [loop EXCEPT ![t] = c]
    BY <1>0, <1>2, <2>1 DEF LoopStep, LoopStarts, TakeFirst, FillTakes, FillResumes,
                           WindowExpires, FlushReturns, Control
  <2>3. UNCHANGED <<current, stopped>>
    BY <1>2 DEF LoopStep, LoopStarts, TakeFirst, FillTakes, FillResumes,
                WindowExpires, FlushReturns
  <2> QED BY <1>0, <2>2, <2>3
<1>3. ASSUME NEW p \in Stoppers, StopRunning(p)
      PROVE  loop' \in [Loops -> Control] /\ current' = NoLoop /\ stopped'
  <2>1. current \in Loops /\ CancelLoop(current)
    BY <1>0, <1>3 DEF StopRunning, Running
  <2> QED BY <1>3, <2>1, CancelType DEF StopRunning, Inv
<1>4. ASSUME NEW p \in Stoppers, StopIdle(p)
      PROVE  UNCHANGED loop /\ current' = NoLoop /\ stopped'
  BY <1>4 DEF StopIdle
<1>5. ASSUME NEW p \in Stoppers, CancelStop(p)
      PROVE  loop' \in [Loops -> Control] /\ UNCHANGED <<current, stopped>>
  <2>1. CASE stopper[p] = "await" /\ CancelLoop(awaited[p]) /\ UNCHANGED <<current, stopped>>
    <3>1. awaited[p] \in Loops
      BY <2>1 DEF Inv, StopPhases
    <3> QED BY <2>1, <3>1, CancelType DEF Inv
  <2>2. CASE UNCHANGED <<current, stopped, loop>>
    BY <1>0, <2>2
  <2> QED BY <1>5, <2>1, <2>2 DEF CancelStop
<1>6. ASSUME NEW p \in Stoppers, StopStep(p) PROVE UNCHANGED <<loop, current, stopped>>
  BY <1>6 DEF StopStep, LoopAwaited, DrainFlushReturns
<1>7. ASSUME NEW r \in Requests, Submit(r) PROVE EnsureRunning
  BY <1>7 DEF Submit
<1>8. ASSUME NEW R \in SUBSET Requests, CancelSubmit(R) PROVE UNCHANGED <<loop, current, stopped>>
  BY <1>8 DEF CancelSubmit
<1>9. CASE Start
  BY <1>1, <1>9 DEF Start
<1>10. CASE Tick \/ UNCHANGED vars
  BY <1>0, <1>10 DEF Tick, vars
<1> QED BY <1>0, <1>1, <1>2, <1>3, <1>4, <1>5, <1>6, <1>7, <1>8, <1>9, <1>10 DEF Next

(* Time only moves forward, and a request in hands is not stamped again.   *)
Aged ==
    /\ age' \in [Requests -> Int] /\ \A r \in Requests : age'[r] <= Window
    /\ \A r \in Requests : InHands(r) => age'[r] >= age[r]

LEMMA AgeStep == ASSUME Inv, [Next]_vars PROVE Aged
<1>0. /\ age \in [Requests -> Int] /\ \A r \in Requests : age[r] <= Window
      /\ Window \in Nat
  BY BatcherAssumption DEF Inv, TypeOK
<1>1. ASSUME NEW r \in Requests, Submit(r) PROVE Aged
  <2>1. PICK a \in Stamps : age' = [age EXCEPT ![r] = a]
    BY <1>1 DEF Submit
  <2>2. a \in Int /\ a <= Window
    BY BatcherAssumption
  <2>3. ~ InHands(r)
    BY <1>1 DEF Submit, Inv, Unsettled, Unborn, Pending, Cancelled
  <2> QED BY <1>0, <2>1, <2>2, <2>3 DEF Aged
<1>2. CASE Tick
  <2>1. \A r \in Requests : age'[r] = IF future[r] # Unborn /\ age[r] < Window
                                    THEN age[r] + 1 ELSE age[r]
    BY <1>2 DEF Tick
  <2>2. age' = [r \in Requests |-> age'[r]]
    BY <1>2 DEF Tick
  <2>3. \A r \in Requests : age'[r] \in Int /\ age'[r] <= Window /\ age'[r] >= age[r]
    BY <1>0, <2>1
  <2> QED BY <2>2, <2>3 DEF Aged
<1>3. CASE UNCHANGED age
  BY <1>0, <1>3 DEF Aged
<1>4. ASSUME NEW t \in Loops, LoopStep(t) PROVE UNCHANGED age
  BY <1>4 DEF LoopStep, LoopStarts, TakeFirst, FillTakes, FillResumes, WindowExpires,
              FlushReturns
<1>5. ASSUME NEW p \in Stoppers,
             StopRunning(p) \/ StopIdle(p) \/ StopStep(p) \/ CancelStop(p)
      PROVE  UNCHANGED age
  BY <1>5 DEF StopRunning, StopIdle, StopStep, LoopAwaited, DrainFlushReturns, CancelStop
<1>6. ASSUME Start \/ UNCHANGED vars \/ \E R \in SUBSET Requests : CancelSubmit(R)
      PROVE  UNCHANGED age
  BY <1>6 DEF Start, vars, CancelSubmit
<1> QED BY <1>1, <1>2, <1>3, <1>4, <1>5, <1>6 DEF Next

(* The callers of stop().                                                  *)
LEMMA StopStepFacts ==
    ASSUME Inv, [Next]_vars
    PROVE  /\ stopper' \in [Stoppers -> {"off", "await", "drain"}]
           /\ awaited' \in [Stoppers -> Loops \cup {NoLoop}]
           /\ StopPhases'
<1>0. /\ stopper \in [Stoppers -> {"off", "await", "drain"}]
      /\ awaited \in [Stoppers -> Loops \cup {NoLoop}]
      /\ leftover \in [Stoppers -> Seq(Requests)] /\ StopPhases
      /\ current \in Loops \cup {NoLoop}
  BY DEF Inv, TypeOK
<1> DEFINE Goal == /\ stopper' \in [Stoppers -> {"off", "await", "drain"}]
                   /\ awaited' \in [Stoppers -> Loops \cup {NoLoop}]
                   /\ StopPhases'
<1>1. ASSUME NEW p \in Stoppers, StopRunning(p) PROVE Goal
  <2>1. /\ stopper' = [stopper EXCEPT ![p] = "await"]
        /\ awaited' = [awaited EXCEPT ![p] = current]
        /\ leftover' = leftover /\ stopper[p] = "off" /\ current \in Loops
    BY <1>0, <1>1 DEF StopRunning, Running
  <2> QED BY <1>0, <2>1 DEF StopPhases
<1>2. ASSUME NEW p \in Stoppers, StopIdle(p) \/ LoopAwaited(p) PROVE Goal
  <2>1. /\ leftover' = [leftover EXCEPT ![p] = queue] /\ awaited' = awaited
        /\ stopper' = [stopper EXCEPT ![p] = IF queue = <<>> THEN "off" ELSE "drain"]
    BY <1>2 DEF StopIdle, LoopAwaited, BeginDrain
  <2> QED BY <1>0, <2>1 DEF StopPhases
<1>3. ASSUME NEW p \in Stoppers, DrainFlushReturns(p) PROVE Goal
  <2>1. /\ leftover' = [leftover EXCEPT ![p] = Rest(leftover[p])] /\ awaited' = awaited
        /\ stopper[p] = "drain"
        /\ stopper' = [stopper EXCEPT ![p] =
                          IF leftover'[p] = <<>> THEN "off" ELSE stopper[p]]
    BY <1>3 DEF DrainFlushReturns
  <2> QED BY <1>0, <2>1 DEF StopPhases
<1>4. ASSUME NEW p \in Stoppers, CancelStop(p) PROVE Goal
  <2>1. CASE UNCHANGED <<stopper, awaited, leftover>>
    BY <1>0, <2>1 DEF StopPhases
  <2>2. CASE /\ stopper' = [stopper EXCEPT ![p] = "off"] /\ awaited' = awaited
             /\ leftover' = [leftover EXCEPT ![p] = <<>>]
    BY <1>0, <2>2 DEF StopPhases
  <2> QED BY <1>4, <2>1, <2>2 DEF CancelStop
<1>5. CASE UNCHANGED <<stopper, awaited, leftover>>
  BY <1>0, <1>5 DEF StopPhases
<1>6. ASSUME NEW t \in Loops, LoopStep(t) PROVE UNCHANGED <<stopper, awaited, leftover>>
  BY <1>6 DEF LoopStep, LoopStarts, TakeFirst, FillTakes, FillResumes, WindowExpires,
              FlushReturns
<1>7. ASSUME \/ Start \/ Tick \/ UNCHANGED vars
             \/ \E r \in Requests : Submit(r)
             \/ \E R \in SUBSET Requests : CancelSubmit(R)
      PROVE  UNCHANGED <<stopper, awaited, leftover>>
  BY <1>7 DEF Start, Tick, vars, Submit, CancelSubmit
<1> QED BY <1>1, <1>2, <1>3, <1>4, <1>5, <1>6, <1>7 DEF Next, StopStep

(* A loop that does not move keeps what it holds and the cause to flush.   *)
LEMMA PhaseKept ==
    ASSUME Inv, Aged, NEW u \in Loops, loop'[u] = loop[u], batch'[u] = batch[u]
    PROVE  LoopPhase(u)'
<1>1. LoopPhase(u) /\ batch[u] \in Seq(Requests) /\ age \in [Requests -> Int]
  BY DEF Inv, TypeOK, LoopPhases
<1>2. ASSUME loop[u] = "flush"
      PROVE  Len(batch[u]) = MaxBatch \/ age'[batch[u][1]] >= Window
  <2>1. Len(batch[u]) \in 1..MaxBatch
    BY <1>1, <1>2 DEF LoopPhase
  <2>2. 1 \in DOMAIN batch[u] /\ batch[u][1] \in Requests
    BY <1>1, <2>1
  <2>3. InHands(batch[u][1])
    BY <2>2 DEF InHands, Elements
  <2>4. age'[batch[u][1]] >= age[batch[u][1]] /\ age'[batch[u][1]] \in Int
    BY <2>2, <2>3 DEF Aged
  <2>5. age[batch[u][1]] \in Int /\ Window \in Int
    BY <1>1, <2>2, BatcherAssumption
  <2> QED BY <1>1, <1>2, <2>4, <2>5 DEF LoopPhase
<1> QED BY <1>1, <1>2 DEF LoopPhase

(* Where a request that has joined a batch leaves the loop.                *)
LEMMA AppendPhase ==
    ASSUME Inv, NEW t \in Loops, NEW b \in Seq(Requests), Len(b) \in 1..MaxBatch,
           loop'[t] = AfterAppend(b), batch'[t] = b, UNCHANGED age
    PROVE  LoopPhase(t)'
<1>1. b[1] \in Requests /\ Len(b) \in Nat /\ MaxBatch \in Nat
  BY BatcherAssumption
<1>2. age[b[1]] \in Int /\ Window \in Int
  BY <1>1, BatcherAssumption DEF Inv, TypeOK
<1> QED BY <1>1, <1>2 DEF AfterAppend, LoopPhase

LEMMA CancelPhase ==
    ASSUME Inv, Aged, NEW t \in Loops, CancelLoop(t) PROVE LoopPhases'
<1>1. /\ loop \in [Loops -> Control] /\ batch \in [Loops -> Seq(Requests)]
      /\ queue \in Seq(Requests) /\ LoopPhase(t) /\ MaxBatch \in Nat \ {0}
  BY BatcherAssumption DEF Inv, TypeOK, LoopPhases, Control
<1>2. \A u \in Loops : u # t => loop'[u] = loop[u] /\ batch'[u] = batch[u]
  BY <1>1 DEF CancelLoop
<1>3. LoopPhase(t)'
  <2>1. CASE loop'[t] = "done" /\ batch'[t] = <<>>
    BY <2>1 DEF LoopPhase
  <2>2. CASE loop[t] = "fill" /\ loop'[t] = "last_flush" /\ batch'[t] = batch[t]
    BY <1>1, <2>2 DEF LoopPhase
  <2>3. CASE /\ loop[t] = "fill" /\ loop'[t] = "taken" /\ queue # <<>>
             /\ batch'[t] = Append(batch[t], Head(queue))
    <3>1. Len(batch'[t]) = Len(batch[t]) + 1 /\ Len(batch[t]) \in 1..(MaxBatch - 1)
      BY <1>1, <2>3, TailFacts, AppendFacts DEF LoopPhase
    <3> QED BY <1>1, <2>3, <3>1 DEF LoopPhase
  <2>4. CASE loop'[t] = loop[t] /\ batch'[t] = batch[t]
    BY <2>4, PhaseKept
  <2>5. loop[t] \in {"created", "first"} => batch[t] = <<>>
    BY <1>1 DEF LoopPhase
  <2> QED BY <1>1, <2>1, <2>2, <2>3, <2>4, <2>5 DEF CancelLoop, AfterCancelledFill
<1> QED BY <1>2, <1>3, PhaseKept DEF LoopPhases

LEMMA MovingPhase ==
    ASSUME Inv, Aged, NEW t \in Loops, LoopStep(t) PROVE LoopPhase(t)'
<1>1. /\ loop \in [Loops -> Control] /\ batch \in [Loops -> Seq(Requests)]
      /\ queue \in Seq(Requests) /\ LoopPhases /\ MaxBatch \in Nat \ {0}
  BY BatcherAssumption DEF Inv, TypeOK, Control
<1>2. LoopPhase(t) /\ batch[t] \in Seq(Requests)
  BY <1>1 DEF LoopPhases
<1>3. CASE LoopStarts(t)
  BY <1>1, <1>2, <1>3 DEF LoopStarts, LoopHead, LoopPhase
<1>4. CASE TakeFirst(t)
  <2> DEFINE b == <<Head(queue)>>
  <2>1. /\ b \in Seq(Requests) /\ Len(b) \in 1..MaxBatch /\ batch'[t] = b
    BY <1>1, <1>4, TailFacts, SingletonFacts DEF TakeFirst
  <2>2. loop'[t] = AfterAppend(b) /\ UNCHANGED age
    BY <1>1, <1>4, <2>1 DEF TakeFirst
  <2> HIDE DEF b
  <2> QED BY <2>1, <2>2, AppendPhase
<1>5. CASE FillTakes(t)
  <2> DEFINE b == Append(batch[t], Head(queue))
  <2>1. /\ b \in Seq(Requests) /\ Len(b) \in 1..MaxBatch /\ batch'[t] = b
    <3>1. Len(batch[t]) \in 1..(MaxBatch - 1) /\ queue # <<>>
      BY <1>2, <1>5 DEF FillTakes, LoopPhase
    <3>2. b \in Seq(Requests) /\ Len(b) = Len(batch[t]) + 1
      BY <1>1, <1>2, <3>1, TailFacts, AppendFacts
    <3> QED BY <1>1, <1>5, <3>1, <3>2 DEF FillTakes
  <2>2. loop'[t] \in {"taken", AfterAppend(b)} /\ UNCHANGED age
    BY <1>1, <1>5, <2>1 DEF FillTakes
  <2> HIDE DEF b
  <2>3. CASE loop'[t] = "taken"
    BY <2>1, <2>3 DEF LoopPhase
  <2>4. CASE loop'[t] = AfterAppend(b)
    BY <2>1, <2>2, <2>4, AppendPhase
  <2>5. loop'[t] = "taken" \/ loop'[t] = AfterAppend(b)
    BY <2>2
  <2> QED BY <2>3, <2>4, <2>5
<1>6. CASE FillResumes(t)
  <2>1. /\ Len(batch[t]) \in 1..MaxBatch /\ batch'[t] = batch[t]
        /\ loop'[t] = AfterAppend(batch[t]) /\ UNCHANGED age
    BY <1>1, <1>2, <1>6 DEF FillResumes, LoopPhase
  <2> QED BY <1>2, <2>1, AppendPhase
<1>7. CASE WindowExpires(t)
  BY <1>1, <1>2, <1>7 DEF WindowExpires, LoopPhase
<1>8. CASE FlushReturns(t)
  <2>1. batch'[t] = <<>> /\ loop'[t] \in {"first", "done"}
    BY <1>1, <1>8 DEF FlushReturns, LoopHead
  <2> QED BY <2>1 DEF LoopPhase
<1> QED BY <1>3, <1>4, <1>5, <1>6, <1>7, <1>8 DEF LoopStep

LEMMA LoopPhasesStep == ASSUME Inv, [Next]_vars PROVE LoopPhases'
<1>0. /\ loop \in [Loops -> Control] /\ batch \in [Loops -> Seq(Requests)]
      /\ queue \in Seq(Requests) /\ LoopPhases /\ MaxBatch \in Nat \ {0} /\ Aged
  BY BatcherAssumption, AgeStep DEF Inv, TypeOK, Control
<1>1. ASSUME NEW t \in Loops, LoopStep(t) PROVE LoopPhases'
  <2>1. \A u \in Loops : u # t => loop'[u] = loop[u] /\ batch'[u] = batch[u]
    BY <1>0, <1>1 DEF LoopStep, LoopStarts, TakeFirst, FillTakes, FillResumes,
                      WindowExpires, FlushReturns
  <2>2. LoopPhase(t)'
    BY <1>0, <1>1, MovingPhase
  <2> QED BY <1>0, <2>1, <2>2, PhaseKept DEF LoopPhases
<1>2. ASSUME NEW p \in Stoppers, StopRunning(p) PROVE LoopPhases'
  <2>1. current \in Loops /\ CancelLoop(current)
    BY <1>2 DEF StopRunning, Running, Inv, TypeOK
  <2> QED BY <1>0, <2>1, CancelPhase
<1>3. ASSUME NEW p \in Stoppers, CancelStop(p) PROVE LoopPhases'
  <2>1. CASE stopper[p] = "await" /\ CancelLoop(awaited[p])
    <3>1. awaited[p] \in Loops
      BY <2>1 DEF Inv, StopPhases
    <3> QED BY <1>0, <2>1, <3>1, CancelPhase
  <2>2. CASE UNCHANGED <<loop, batch>>
    BY <1>0, <2>2, PhaseKept DEF LoopPhases
  <2> QED BY <1>3, <2>1, <2>2 DEF CancelStop
<1>4. CASE EnsureRunning /\ UNCHANGED batch
  <2>1. CASE UNCHANGED loop
    BY <1>0, <1>4, <2>1, PhaseKept DEF LoopPhases
  <2>2. CASE \E t \in Loops : loop[t] = "unborn" /\ loop' = [loop EXCEPT ![t] = "created"]
    <3>1. PICK t \in Loops : loop[t] = "unborn" /\ loop' = [loop EXCEPT ![t] = "created"]
      BY <2>2
    <3>2. LoopPhase(t)'
      BY <1>0, <1>4, <3>1 DEF LoopPhases, LoopPhase
    <3>3. \A u \in Loops : u # t => loop'[u] = loop[u] /\ batch'[u] = batch[u]
      BY <1>0, <1>4, <3>1
    <3> QED BY <1>0, <3>2, <3>3, PhaseKept DEF LoopPhases
  <2> QED BY <1>4, <2>1, <2>2 DEF EnsureRunning
<1>5. ASSUME \/ Tick \/ UNCHANGED vars \/ \E R \in SUBSET Requests : CancelSubmit(R)
             \/ \E p \in Stoppers : StopIdle(p) \/ StopStep(p)
      PROVE  LoopPhases'
  <2>1. UNCHANGED <<loop, batch>>
    BY <1>5 DEF Tick, vars, CancelSubmit, StopIdle, StopStep, LoopAwaited, DrainFlushReturns
  <2> QED BY <1>0, <2>1, PhaseKept DEF LoopPhases
<1>6. ASSUME Start \/ \E r \in Requests : Submit(r) PROVE EnsureRunning /\ UNCHANGED batch
  BY <1>6 DEF Start, Submit
<1> QED BY <1>1, <1>2, <1>3, <1>4, <1>5, <1>6 DEF Next

-----------------------------------------------------------------------------
LEMMA InitInv == Init => Inv
<1> SUFFICES ASSUME Init PROVE Inv
  OBVIOUS
<1>1. TypeOK
  <2>1. 0 <= Window /\ Unborn \in Future /\ <<>> \in Seq(Requests)
    BY BatcherAssumption, FutureTypes
  <2>2. /\ queue \in Seq(Requests) /\ future \in [Requests -> Future]
        /\ batch \in [Loops -> Seq(Requests)] /\ leftover \in [Stoppers -> Seq(Requests)]
    BY <2>1 DEF Init
  <2>3. age \in [Requests -> Int] /\ \A r \in Requests : age[r] <= Window
    BY <2>1 DEF Init
  <2> QED BY <2>2, <2>3 DEF Init, TypeOK
<1>2. \A r : ~ InHands(r)
  BY EmptyFacts DEF Init, InHands
<1>3. Apart
  BY EmptyFacts DEF Init, Apart, Disjoint
<1>4. LoopPhases /\ StopPhases
  BY DEF Init, LoopPhases, LoopPhase, StopPhases
<1>5. OwnAnswer
  BY DEF Init, OwnAnswer, Unborn
<1> QED BY <1>1, <1>2, <1>3, <1>4, <1>5 DEF Inv, Unsettled

LEMMA InvStep == ASSUME Inv, [Next]_vars PROVE Inv'
<1>1. Moves
  BY NextMoves
<1>2. TypeOK'
  BY <1>1, HandsTypeStep, LoopTypeStep, AgeStep, StopStepFacts DEF TypeOK, Control, Aged
<1> QED BY <1>1, <1>2, ApartStep, UnsettledStep, OwnAnswerStep, LoopPhasesStep,
           StopStepFacts DEF Inv

(* The invariant holds in every run of every batcher.                      *)
THEOREM Invariance == Spec => []Inv
<1>1. Init => Inv
  BY InitInv
<1>2. Inv /\ [Next]_vars => Inv'
  BY InvStep
<1> QED BY <1>1, <1>2, PTL DEF Spec

-----------------------------------------------------------------------------
(* The batcher is well typed whatever is submitted, cancelled and stopped. *)
THEOREM TypeCorrect == Spec => []TypeOK
<1>1. Inv => TypeOK
  BY DEF Inv
<1> QED BY <1>1, Invariance, PTL

(* The places of a request, one by one.                                   *)
LEMMA PlacesFacts ==
    \A r, x : x \in Places(r) <=>
        \/ \E i \in DOMAIN queue : queue[i] = r /\ x = <<"queue", 0, i>>
        \/ \E t \in Loops : \E i \in DOMAIN batch[t] :
              batch[t][i] = r /\ x = <<"batch", t, i>>
        \/ \E p \in Stoppers : \E i \in DOMAIN leftover[p] :
              leftover[p][i] = r /\ x = <<"drain", p, i>>
<1> TAKE r, x
<1>1. x \in {<<"queue", 0, i>> : i \in {i \in DOMAIN queue : queue[i] = r}} <=>
        \E i \in DOMAIN queue : queue[i] = r /\ x = <<"queue", 0, i>>
  BY Zenon
<1>2. x \in UNION {{<<"batch", t, i>> : i \in {i \in DOMAIN batch[t] : batch[t][i] = r}} :
                     t \in Loops} <=>
        \E t \in Loops : x \in {<<"batch", t, i>> :
                                 i \in {i \in DOMAIN batch[t] : batch[t][i] = r}}
  BY Zenon
<1>3. \A t : x \in {<<"batch", t, i>> : i \in {i \in DOMAIN batch[t] : batch[t][i] = r}} <=>
                \E i \in DOMAIN batch[t] : batch[t][i] = r /\ x = <<"batch", t, i>>
  BY Zenon
<1>4. x \in UNION {{<<"drain", p, i>> :
                      i \in {i \in DOMAIN leftover[p] : leftover[p][i] = r}} :
                     p \in Stoppers} <=>
        \E p \in Stoppers : x \in {<<"drain", p, i>> :
                                 i \in {i \in DOMAIN leftover[p] : leftover[p][i] = r}}
  BY Zenon
<1>5. \A p : x \in {<<"drain", p, i>> :
                     i \in {i \in DOMAIN leftover[p] : leftover[p][i] = r}} <=>
                \E i \in DOMAIN leftover[p] : leftover[p][i] = r /\ x = <<"drain", p, i>>
  BY Zenon
<1> DEFINE A == {<<"queue", 0, i>> : i \in {i \in DOMAIN queue : queue[i] = r}}
           B == UNION {{<<"batch", t, i>> : i \in {i \in DOMAIN batch[t] : batch[t][i] = r}} :
                     t \in Loops}
           C == UNION {{<<"drain", p, i>> :
                      i \in {i \in DOMAIN leftover[p] : leftover[p][i] = r}} :
                     p \in Stoppers}
<1>6. Places(r) = A \cup B \cup C
  BY DEF Places
<1>7. x \in Places(r) <=> x \in A \/ x \in B \/ x \in C
  <2> HIDE DEF A, B, C
  <2> QED BY <1>6
<1> QED BY <1>1, <1>2, <1>3, <1>4, <1>5, <1>7, Zenon

LEMMA HeldFacts == \A r : Held(r) <=> InHands(r)
<1> TAKE r
<1>1. Held(r) <=> \E x : x \in Places(r)
  BY DEF Held
<1>2. (\E x : x \in Places(r)) <=>
        \/ \E i \in DOMAIN queue : queue[i] = r
        \/ \E t \in Loops : \E i \in DOMAIN batch[t] : batch[t][i] = r
        \/ \E p \in Stoppers : \E i \in DOMAIN leftover[p] : leftover[p][i] = r
  <2>1. ASSUME NEW x \in Places(r)
        PROVE  \/ \E i \in DOMAIN queue : queue[i] = r
               \/ \E t \in Loops : \E i \in DOMAIN batch[t] : batch[t][i] = r
               \/ \E p \in Stoppers : \E i \in DOMAIN leftover[p] : leftover[p][i] = r
    BY PlacesFacts, Zenon
  <2>2. ASSUME NEW i \in DOMAIN queue, queue[i] = r PROVE \E x : x \in Places(r)
    <3>1. <<"queue", 0, i>> \in Places(r)
      BY <2>2, PlacesFacts, Zenon
    <3> QED BY <3>1
  <2>3. ASSUME NEW t \in Loops, NEW i \in DOMAIN batch[t], batch[t][i] = r
        PROVE  \E x : x \in Places(r)
    <3>1. <<"batch", t, i>> \in Places(r)
      BY <2>3, PlacesFacts, Zenon
    <3> QED BY <3>1
  <2>4. ASSUME NEW p \in Stoppers, NEW i \in DOMAIN leftover[p], leftover[p][i] = r
        PROVE  \E x : x \in Places(r)
    <3>1. <<"drain", p, i>> \in Places(r)
      BY <2>4, PlacesFacts, Zenon
    <3> QED BY <3>1
  <2> QED BY <2>1, <2>2, <2>3, <2>4, Zenon
<1>3. InHands(r) <=>
        \/ \E i \in DOMAIN queue : queue[i] = r
        \/ \E t \in Loops : \E i \in DOMAIN batch[t] : batch[t][i] = r
        \/ \E p \in Stoppers : \E i \in DOMAIN leftover[p] : leftover[p][i] = r
  BY DEF InHands, Elements
<1> QED BY <1>1, <1>2, <1>3

(* When nobody shares, any two places of a request are the same one.       *)
LEMMA OnePlace ==
    ASSUME Apart, NEW r, NEW x \in Places(r), NEW y \in Places(r) PROVE x = y
<1> DEFINE InQueue(z) == \E i \in DOMAIN queue : queue[i] = r /\ z = <<"queue", 0, i>>
           InBatch(z) == \E t \in Loops : \E i \in DOMAIN batch[t] :
                            batch[t][i] = r /\ z = <<"batch", t, i>>
           InDrain(z) == \E p \in Stoppers : \E i \in DOMAIN leftover[p] :
                            leftover[p][i] = r /\ z = <<"drain", p, i>>
<1>1. /\ InQueue(x) \/ InBatch(x) \/ InDrain(x)
      /\ InQueue(y) \/ InBatch(y) \/ InDrain(y)
  BY PlacesFacts
<1>2. \A z : InQueue(z) => r \in Elements(queue)
  BY DEF Elements
<1>3. \A z : InBatch(z) => \E t \in Loops : r \in Elements(batch[t])
  BY DEF Elements
<1>4. \A z : InDrain(z) => \E p \in Stoppers : r \in Elements(leftover[p])
  BY DEF Elements
<1>5. CASE InQueue(x) /\ InQueue(y)
  BY <1>5 DEF Apart, NoDup
<1>6. CASE InBatch(x) /\ InBatch(y)
  <2>1. PICK t \in Loops : \E i \in DOMAIN batch[t] : batch[t][i] = r /\ x = <<"batch", t, i>>
    BY <1>6
  <2>2. PICK u \in Loops : \E j \in DOMAIN batch[u] : batch[u][j] = r /\ y = <<"batch", u, j>>
    BY <1>6
  <2>3. t = u
    BY <2>1, <2>2 DEF Apart, Disjoint, Elements
  <2>4. PICK i \in DOMAIN batch[t] : batch[t][i] = r /\ x = <<"batch", t, i>>
    BY <2>1
  <2>5. PICK j \in DOMAIN batch[t] : batch[t][j] = r /\ y = <<"batch", t, j>>
    BY <2>2, <2>3
  <2> QED BY <2>4, <2>5 DEF Apart, NoDup
<1>7. CASE InDrain(x) /\ InDrain(y)
  <2>1. PICK p \in Stoppers : \E i \in DOMAIN leftover[p] : leftover[p][i] = r /\ x = <<"drain", p, i>>
    BY <1>7
  <2>2. PICK q \in Stoppers : \E j \in DOMAIN leftover[q] : leftover[q][j] = r /\ y = <<"drain", q, j>>
    BY <1>7
  <2>3. p = q
    BY <2>1, <2>2 DEF Apart, Disjoint, Elements
  <2>4. PICK i \in DOMAIN leftover[p] : leftover[p][i] = r /\ x = <<"drain", p, i>>
    BY <2>1
  <2>5. PICK j \in DOMAIN leftover[p] : leftover[p][j] = r /\ y = <<"drain", p, j>>
    BY <2>2, <2>3
  <2> QED BY <2>4, <2>5 DEF Apart, NoDup
<1> HIDE DEF InQueue, InBatch, InDrain
<1>8. /\ ~ (r \in Elements(queue) /\ \E t \in Loops : r \in Elements(batch[t]))
      /\ ~ (r \in Elements(queue) /\ \E p \in Stoppers : r \in Elements(leftover[p]))
      /\ ~ (/\ \E t \in Loops : r \in Elements(batch[t])
            /\ \E p \in Stoppers : r \in Elements(leftover[p]))
  BY DEF Apart, Disjoint
<1> QED BY <1>1, <1>2, <1>3, <1>4, <1>5, <1>6, <1>7, <1>8

(* No request of any batcher is ever in two places: of the queue, of the   *)
(* batches of however many loops, and of the drains of however many        *)
(* callers of stop(); and a settled one is in none.                        *)
THEOREM SingleOwnerCorrect == Spec => []SingleOwner
<1>1. ASSUME Inv, NEW r \in Requests
      PROVE  /\ Cardinality(Places(r)) <= 1
             /\ Held(r) => future[r] \in {Pending, Cancelled}
  <2>1. \A x, y \in Places(r) : x = y
    BY <1>1, OnePlace DEF Inv
  <2>2. ASSUME Places(r) = {} PROVE Cardinality(Places(r)) <= 1
    BY <2>2, FS_EmptySet
  <2>3. ASSUME Places(r) # {} PROVE Cardinality(Places(r)) <= 1
    <3>1. PICK x : x \in Places(r)
      BY <2>3
    <3>2. Places(r) = {x}
      BY <2>1, <3>1
    <3> QED BY <3>2, FS_Singleton
  <2>4. Held(r) => future[r] \in {Pending, Cancelled}
    BY <1>1, HeldFacts DEF Inv, Unsettled
  <2> QED BY <2>2, <2>3, <2>4
<1>2. Inv => SingleOwner
  BY <1>1 DEF SingleOwner
<1> QED BY <1>2, Invariance, PTL

(* Every batch of every loop is of the right size and flushed for cause.   *)
THEOREM FlushForCauseCorrect == Spec => []FlushForCause
<1>1. Inv => FlushForCause
  BY DEF Inv, LoopPhases, LoopPhase, FlushForCause
<1> QED BY <1>1, Invariance, PTL

(* Every resolved request of every batch has its own completion, however   *)
(* many completions the provider returned.                                 *)
THEOREM OwnAnswerCorrect == Spec => []OwnAnswer
<1>1. Inv => OwnAnswer
  BY DEF Inv
<1> QED BY <1>1, Invariance, PTL
=============================================================================
