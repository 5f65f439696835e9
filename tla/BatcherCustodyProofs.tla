------------------------- MODULE BatcherCustodyProofs -------------------------
(***************************************************************************)
(* Batcher.tla implements Custody.tla, for every value of its constants:   *)
(* what the loops, drains, restarts and cancellations of a batcher do to a *)
(* request is one of the moves of a custodian.                             *)
(***************************************************************************)
EXTENDS BatcherProofs

Flushing == {"flush", "last_flush"}

Answered(r) == {Completion(r, "ok"), Completion(r, "degraded")}

(* Where a request is tells its custodian.                                 *)
Located ==
    \A r \in Requests :
        /\ future[r] \in {Unborn, Cancelled, Failed, Pending} \cup Answered(r)
        /\ future[r] = Unborn => Custodian(r) = "new"
        /\ future[r] = Cancelled => Custodian(r) = "abandoned"
        /\ future[r] = Failed => Custodian(r) = "failed"
        /\ future[r] \in Answered(r) => Custodian(r) = "answered"
        /\ future[r] = Pending =>
              /\ r \in Elements(queue) => Custodian(r) = "held"
              /\ \A t \in Loops : r \in Elements(batch[t]) =>
                    Custodian(r) = IF loop[t] \in Flushing THEN "sent" ELSE "held"
              /\ \A p \in Stoppers : r \in Elements(leftover[p]) =>
                    Custodian(r) = IF r \in Elements(Chunk(leftover[p]))
                                   THEN "sent" ELSE "draining"
              /\ ~ InHands(r) => Custodian(r) = "lost"

LEMMA LocatedFacts == Inv => Located
<1> SUFFICES ASSUME Inv, NEW r \in Requests
             PROVE  Located!(r)
  BY DEF Located
<1>1. future[r] \in {Unborn, Cancelled, Failed, Pending} \cup Answered(r)
  <2>1. future[r] \in Future /\ (future[r].kind \in {"ok", "degraded"} => future[r].of = r)
    BY DEF Inv, TypeOK, OwnAnswer
  <2>2. CASE \E s \in Requests, how \in {"ok", "degraded"} : future[r] = Completion(s, how)
    <3>1. PICK s \in Requests, how \in {"ok", "degraded"} : future[r] = Completion(s, how)
      BY <2>2
    <3>2. s = r
      BY <2>1, <3>1 DEF Completion
    <3> QED BY <3>1, <3>2 DEF Answered
  <2> QED BY <2>1, <2>2 DEF Future
<1>2. /\ Unborn # Cancelled /\ Unborn # Failed /\ Unborn # Pending
      /\ Cancelled # Failed /\ Cancelled # Pending /\ Failed # Pending
      /\ \A c \in Answered(r) : /\ c # Unborn /\ c # Cancelled /\ c # Failed /\ c # Pending
                                /\ c.of = r
  BY DEF Unborn, Cancelled, Failed, Pending, Answered, Completion
<1>3. future[r] = Unborn => Custodian(r) = "new"
  BY <1>2 DEF Custodian
<1>4. future[r] = Cancelled => Custodian(r) = "abandoned"
  BY <1>2 DEF Custodian
<1>5. future[r] = Failed => Custodian(r) = "failed"
  BY <1>2 DEF Custodian
<1>6. future[r] \in Answered(r) => Custodian(r) = "answered"
  BY <1>2 DEF Custodian
<1>7. ASSUME future[r] = Pending
      PROVE  Custodian(r) = IF ~ InHands(r) THEN "lost"
                            ELSE IF Sent(r) THEN "sent"
                            ELSE IF \E p \in Stoppers : r \in Elements(leftover[p]) THEN "draining"
                            ELSE "held"
  BY <1>2, <1>7, HeldFacts DEF Custodian
<1>8. \A p \in Stoppers : Elements(Chunk(leftover[p])) \subseteq Elements(leftover[p])
  BY ChunkFacts DEF Inv, TypeOK
<1>9. ASSUME future[r] = Pending, r \in Elements(queue) PROVE Custodian(r) = "held"
  <2>1. /\ \A t \in Loops : r \notin Elements(batch[t])
        /\ \A p \in Stoppers : r \notin Elements(leftover[p])
    BY <1>9 DEF Inv, Apart, Disjoint
  <2> QED BY <1>7, <1>8, <1>9, <2>1 DEF InHands, Sent
<1>10. ASSUME future[r] = Pending, NEW t \in Loops, r \in Elements(batch[t])
       PROVE  Custodian(r) = IF loop[t] \in Flushing THEN "sent" ELSE "held"
  <2>1. /\ \A u \in Loops : u # t => r \notin Elements(batch[u])
        /\ \A p \in Stoppers : r \notin Elements(leftover[p])
    BY <1>10 DEF Inv, Apart, Disjoint
  <2>2. InHands(r) /\ (Sent(r) <=> loop[t] \in Flushing)
    BY <1>8, <1>10, <2>1 DEF InHands, Sent, Flushing
  <2> QED BY <1>7, <1>10, <2>1, <2>2
<1>11. ASSUME future[r] = Pending, NEW p \in Stoppers, r \in Elements(leftover[p])
       PROVE  Custodian(r) = IF r \in Elements(Chunk(leftover[p])) THEN "sent" ELSE "draining"
  <2>1. /\ \A q \in Stoppers : q # p => r \notin Elements(leftover[q])
        /\ \A t \in Loops : r \notin Elements(batch[t])
    BY <1>11 DEF Inv, Apart, Disjoint
  <2>2. InHands(r) /\ (Sent(r) <=> r \in Elements(Chunk(leftover[p])))
    BY <1>8, <1>11, <2>1 DEF InHands, Sent
  <2> QED BY <1>7, <1>11, <2>2
<1>12. future[r] = Pending /\ ~ InHands(r) => Custodian(r) = "lost"
  BY <1>7
<1> QED BY <1>1, <1>3, <1>4, <1>5, <1>6, <1>9, <1>10, <1>11, <1>12

LEMMA LocatedNext == Inv' => Located'
BY LocatedFacts, PTL

(* A request whose future is settled or not yet created stays where it is. *)
LEMMA OthersStay ==
    ASSUME Located, Located', NEW r \in Requests, future'[r] = future[r], future[r] # Pending
    PROVE  Custodian(r)' = Custodian(r)
BY DEF Located

(* The settled part of a step: those that were with the provider.          *)
LEMMA AnsweredMoves ==
    ASSUME Located, Located', NEW r \in Requests, future'[r] \in OwnOutcomes(r)
    PROVE  Custodian(r)' \in {"answered", "failed"}
BY DEF Located, OwnOutcomes, Answered

(* What a loop, or a drain, may do to requests.                            *)
Sending   == {<<"held", "sent">>, <<"held", "draining">>}
Answering == {<<"sent", "answered">>, <<"sent", "failed">>, <<"draining", "sent">>}
Losing    == {<<"sent", "lost">>, <<"draining", "lost">>}

Moved(r, allowed) ==
    Custodian(r)' = Custodian(r) \/ <<Custodian(r), Custodian(r)'>> \in allowed

-----------------------------------------------------------------------------
(* Where the requests of each pair of hands go, by the hands that change.  *)

(* A request that stays in a batch is sent when the batch is.              *)
LEMMA BatchKept ==
    ASSUME Located, Located', NEW r \in Requests, NEW t \in Loops,
           future'[r] = future[r], future[r] = Pending,
           r \in Elements(batch[t]), r \in Elements(batch'[t]),
           loop[t] \in Flushing => loop'[t] \in Flushing
    PROVE  Moved(r, Sending)
<1>1. Custodian(r) = IF loop[t] \in Flushing THEN "sent" ELSE "held"
  BY DEF Located
<1>2. Custodian(r)' = IF loop'[t] \in Flushing THEN "sent" ELSE "held"
  BY DEF Located
<1> QED BY <1>1, <1>2 DEF Moved, Sending

(* A request in hands that do not change stays where it is.                *)
LEMMA Untouched ==
    ASSUME Located, Located', NEW r \in Requests, future'[r] = future[r],
           \/ r \in Elements(queue) /\ r \in Elements(queue')
           \/ \E t \in Loops : /\ r \in Elements(batch[t])
                               /\ batch'[t] = batch[t] /\ loop'[t] = loop[t]
           \/ \E p \in Stoppers : r \in Elements(leftover[p]) /\ leftover'[p] = leftover[p]
           \/ ~ InHands(r) /\ ~ InHands(r)'
    PROVE  Custodian(r)' = Custodian(r)
<1> SUFFICES ASSUME future[r] = Pending PROVE Custodian(r)' = Custodian(r)
  BY OthersStay
<1>1. CASE r \in Elements(queue) /\ r \in Elements(queue')
  BY <1>1 DEF Located
<1>2. ASSUME NEW t \in Loops, r \in Elements(batch[t]),
             batch'[t] = batch[t], loop'[t] = loop[t]
      PROVE  Custodian(r)' = Custodian(r)
  BY <1>2 DEF Located
<1>3. ASSUME NEW p \in Stoppers, r \in Elements(leftover[p]), leftover'[p] = leftover[p]
      PROVE  Custodian(r)' = Custodian(r)
  <2>1. Chunk(leftover'[p]) = Chunk(leftover[p])
    BY <1>3 DEF Chunk
  <2> QED BY <1>3, <2>1 DEF Located
<1>4. CASE ~ InHands(r) /\ ~ InHands(r)'
  BY <1>4 DEF Located
<1> QED BY <1>1, <1>2, <1>3, <1>4

(* Loop t goes on, perhaps with the head of the queue, but does not come   *)
(* back from the provider.                                                 *)
LoopGoesOn(t) ==
    /\ UNCHANGED <<future, leftover>>
    /\ \A u \in Loops : u # t => batch'[u] = batch[u] /\ loop'[u] = loop[u]
    /\ loop[t] \in Flushing => loop'[t] \in Flushing
    /\ \/ UNCHANGED <<queue, batch>>
       \/ /\ queue # <<>> /\ queue' = Tail(queue)
          /\ batch' = [batch EXCEPT ![t] = Append(batch[t], Head(queue))]

LEMMA GoesOnMoves ==
    ASSUME Inv, Inv', NEW t \in Loops, LoopGoesOn(t), NEW r \in Requests
    PROVE  Moved(r, Sending)
<1>0. Located /\ Located' /\ future'[r] = future[r]
  BY LocatedFacts, LocatedNext DEF LoopGoesOn
<1>1. /\ batch \in [Loops -> Seq(Requests)] /\ queue \in Seq(Requests)
      /\ leftover' = leftover
  BY DEF Inv, TypeOK, LoopGoesOn
<1>2. CASE future[r] # Pending
  BY <1>0, <1>2, OthersStay DEF Moved
<1>3. CASE future[r] = Pending /\ UNCHANGED <<queue, batch>>
  <2>1. InHands(r)' <=> InHands(r)
    BY <1>1, <1>3 DEF InHands, Elements
  <2>2. CASE r \in Elements(batch[t])
    BY <1>0, <1>3, <2>2, BatchKept DEF LoopGoesOn
  <2>3. CASE r \notin Elements(batch[t])
    BY <1>0, <1>1, <1>3, <2>1, <2>3, Untouched DEF Moved, LoopGoesOn, InHands
  <2> QED BY <2>2, <2>3
<1>4. CASE /\ future[r] = Pending /\ queue # <<>> /\ queue' = Tail(queue)
           /\ batch' = [batch EXCEPT ![t] = Append(batch[t], Head(queue))]
  <2>1. /\ Elements(queue) = {Head(queue)} \cup Elements(queue') /\ Head(queue) \in Requests
        /\ Elements(batch'[t]) = Elements(batch[t]) \cup {Head(queue)}
    BY <1>1, <1>4, TailFacts, AppendFacts
  <2>2. CASE r = Head(queue)
    <3>1. Custodian(r) = "held"
      BY <1>0, <1>4, <2>1, <2>2 DEF Located
    <3>2. Custodian(r)' \in {"held", "sent"}
      BY <1>0, <1>4, <2>1, <2>2 DEF Located
    <3> QED BY <3>1, <3>2 DEF Moved, Sending
  <2>3. CASE r \in Elements(batch[t])
    BY <1>0, <1>4, <2>1, <2>3, BatchKept DEF LoopGoesOn
  <2>4. CASE r # Head(queue) /\ r \notin Elements(batch[t])
    <3>1. InHands(r)' <=> InHands(r)
      <4>1. \A u \in Loops : r \in Elements(batch'[u]) <=> r \in Elements(batch[u])
        BY <2>1, <2>4 DEF LoopGoesOn
      <4> QED BY <1>1, <2>1, <2>4, <4>1 DEF InHands
    <3>2. r \in Elements(queue) => r \in Elements(queue')
      BY <2>1, <2>4
    <3> QED BY <1>0, <1>1, <2>4, <3>1, <3>2, Untouched DEF Moved, LoopGoesOn, InHands
  <2> QED BY <2>2, <2>3, <2>4
<1> QED BY <1>2, <1>3, <1>4 DEF LoopGoesOn

(* Loop t comes back from the provider, its batch answered or abandoned.   *)
LoopComesBack(t) ==
    /\ loop[t] \in Flushing
    /\ batch' = [batch EXCEPT ![t] = <<>>]
    /\ UNCHANGED <<queue, leftover>>
    /\ \A u \in Loops : u # t => loop'[u] = loop[u]

LEMMA ComesBackElsewhere ==
    ASSUME Inv, Inv', NEW t \in Loops, LoopComesBack(t), NEW r \in Requests,
           future'[r] = future[r], r \notin Elements(batch[t])
    PROVE  Custodian(r)' = Custodian(r)
<1>1. Located /\ Located'
  BY LocatedFacts, LocatedNext
<1>2. /\ batch'[t] = <<>> /\ Elements(<<>>) = {}
      /\ \A u \in Loops : u # t => batch'[u] = batch[u]
  BY EmptyFacts DEF Inv, TypeOK, LoopComesBack
<1>3. \A u \in Loops : r \in Elements(batch'[u]) <=> r \in Elements(batch[u])
  BY <1>2
<1>4. InHands(r)' <=> InHands(r)
  BY <1>3 DEF InHands, LoopComesBack
<1> QED BY <1>1, <1>2, <1>4, Untouched DEF LoopComesBack, InHands

LEMMA ComesBackAnswered ==
    ASSUME Inv, Inv', NEW t \in Loops, LoopComesBack(t), Flushed(batch[t]), NEW r \in Requests
    PROVE  Moved(r, Answering)
<1>1. Located /\ Located' /\ batch[t] \in Seq(Requests)
  BY LocatedFacts, LocatedNext DEF Inv, TypeOK
<1>2. CASE future[r] = Pending /\ r \in Elements(batch[t])
  <2>1. Custodian(r) = "sent"
    BY <1>1, <1>2 DEF Located, LoopComesBack
  <2>2. future'[r] \in OwnOutcomes(r)
    BY <1>1, <1>2, FlushedFacts
  <2>3. Custodian(r)' \in {"answered", "failed"}
    BY <1>1, <2>2, AnsweredMoves
  <2> QED BY <2>1, <2>3 DEF Moved, Answering
<1>3. CASE ~ (future[r] = Pending /\ r \in Elements(batch[t]))
  <2>1. future'[r] = future[r]
    BY <1>1, <1>3, FlushedFacts
  <2> QED BY <1>1, <1>3, <2>1, OthersStay, ComesBackElsewhere DEF Moved
<1> QED BY <1>2, <1>3

LEMMA ComesBackLost ==
    ASSUME Inv, Inv', NEW t \in Loops, LoopComesBack(t), UNCHANGED future, NEW r \in Requests
    PROVE  Moved(r, Losing)
<1>1. Located /\ Located'
  BY LocatedFacts, LocatedNext
<1>2. CASE future[r] = Pending /\ r \in Elements(batch[t])
  <2>1. Custodian(r) = "sent"
    BY <1>1, <1>2 DEF Located, LoopComesBack
  <2>2. ~ InHands(r)'
    <3>1. /\ r \notin Elements(queue) /\ \A p \in Stoppers : r \notin Elements(leftover[p])
          /\ \A u \in Loops : u # t => r \notin Elements(batch[u])
      BY <1>2 DEF Inv, Apart, Disjoint
    <3>2. \A u \in Loops : batch'[u] = IF u = t THEN <<>> ELSE batch[u]
      BY DEF Inv, TypeOK, LoopComesBack
    <3> QED BY <3>1, <3>2, EmptyFacts DEF InHands, LoopComesBack
  <2>3. Custodian(r)' = "lost"
    BY <1>1, <1>2, <2>2 DEF Located
  <2> QED BY <2>1, <2>3 DEF Moved, Losing
<1>3. CASE ~ (future[r] = Pending /\ r \in Elements(batch[t]))
  BY <1>1, <1>3, OthersStay, ComesBackElsewhere DEF Moved
<1> QED BY <1>2, <1>3

(* Drain p takes the queue, or gets from one chunk to the next, or is      *)
(* given up.                                                               *)
DrainChanges(p) ==
    /\ UNCHANGED <<batch, loop>>
    /\ \A q \in Stoppers : q # p => leftover'[q] = leftover[q]

LEMMA DrainElsewhere ==
    ASSUME Inv, Inv', NEW p \in Stoppers, DrainChanges(p), NEW r \in Requests,
           future'[r] = future[r], r \notin Elements(leftover[p]), r \notin Elements(leftover'[p]),
           r \in Elements(queue) <=> r \in Elements(queue')
    PROVE  Custodian(r)' = Custodian(r)
<1>1. Located /\ Located'
  BY LocatedFacts, LocatedNext
<1>2. \A q \in Stoppers : r \in Elements(leftover'[q]) <=> r \in Elements(leftover[q])
  BY DEF DrainChanges
<1>3. InHands(r)' <=> InHands(r)
  BY <1>2 DEF InHands, DrainChanges
<1> QED BY <1>1, <1>3, Untouched DEF DrainChanges, InHands

LEMMA DrainTakesQueue ==
    ASSUME Inv, Inv', NEW p \in Stoppers, UNCHANGED <<future, batch, loop>>,
           stopper[p] # "drain", BeginDrain(p), NEW r \in Requests
    PROVE  Moved(r, Sending)
<1>1. Located /\ Located'
  BY LocatedFacts, LocatedNext
<1>2. /\ leftover[p] = <<>> /\ leftover'[p] = queue /\ queue' = <<>> /\ DrainChanges(p)
  BY DEF Inv, TypeOK, StopPhases, BeginDrain, DrainChanges
<1>3. CASE future[r] # Pending
  BY <1>1, <1>3, OthersStay DEF Moved
<1>4. CASE future[r] = Pending /\ r \in Elements(queue)
  BY <1>1, <1>2, <1>4 DEF Located, Moved, Sending
<1>5. CASE r \notin Elements(queue)
  BY <1>1, <1>2, <1>5, EmptyFacts, DrainElsewhere DEF Moved
<1> QED BY <1>3, <1>4, <1>5

LEMMA ChunkAnswered ==
    ASSUME Inv, Inv', NEW p \in Stoppers, UNCHANGED <<queue, batch, loop>>,
           Flushed(Chunk(leftover[p])),
           leftover' = [leftover EXCEPT ![p] = Rest(leftover[p])], NEW r \in Requests
    PROVE  Moved(r, Answering)
<1>1. Located /\ Located' /\ leftover[p] \in Seq(Requests) /\ NoDup(leftover[p])
  BY LocatedFacts, LocatedNext DEF Inv, TypeOK, Apart
<1>2. leftover'[p] = Rest(leftover[p]) /\ DrainChanges(p)
  BY DEF Inv, TypeOK, DrainChanges
<1>3. /\ Chunk(leftover[p]) \in Seq(Requests)
      /\ Elements(leftover[p]) = Elements(Chunk(leftover[p])) \cup Elements(leftover'[p])
      /\ Disjoint(Elements(Chunk(leftover[p])), Elements(leftover'[p]))
  BY <1>1, <1>2, ChunkFacts
<1>4. CASE future[r] = Pending /\ r \in Elements(Chunk(leftover[p]))
  <2>1. Custodian(r) = "sent"
    BY <1>1, <1>3, <1>4 DEF Located
  <2>2. future'[r] \in OwnOutcomes(r)
    BY <1>3, <1>4, FlushedFacts
  <2>3. Custodian(r)' \in {"answered", "failed"}
    BY <1>1, <2>2, AnsweredMoves
  <2> QED BY <2>1, <2>3 DEF Moved, Answering
<1>5. CASE ~ (future[r] = Pending /\ r \in Elements(Chunk(leftover[p])))
  <2>1. future'[r] = future[r]
    BY <1>3, <1>5, FlushedFacts
  <2>2. CASE future[r] # Pending
    BY <1>1, <2>1, <2>2, OthersStay DEF Moved
  <2>3. CASE future[r] = Pending /\ r \in Elements(leftover'[p])
    <3>1. Custodian(r) = "draining"
      BY <1>1, <1>3, <1>5, <2>3 DEF Located
    <3>2. Custodian(r)' \in {"sent", "draining"}
      BY <1>1, <2>1, <2>3 DEF Located
    <3> QED BY <3>1, <3>2 DEF Moved, Answering
  <2>4. CASE future[r] = Pending /\ r \notin Elements(leftover'[p])
    <3>1. r \notin Elements(leftover[p])
      BY <1>3, <1>5, <2>4
    <3> QED BY <1>2, <2>1, <2>4, <3>1, DrainElsewhere DEF Moved
  <2> QED BY <2>2, <2>3, <2>4
<1> QED BY <1>4, <1>5

LEMMA DrainLost ==
    ASSUME Inv, Inv', NEW p \in Stoppers, UNCHANGED <<queue, batch, loop, future>>,
           leftover' = [leftover EXCEPT ![p] = <<>>], NEW r \in Requests
    PROVE  Moved(r, Losing)
<1>1. Located /\ Located'
  BY LocatedFacts, LocatedNext
<1>2. leftover'[p] = <<>> /\ DrainChanges(p)
  BY DEF Inv, TypeOK, DrainChanges
<1>3. CASE future[r] = Pending /\ r \in Elements(leftover[p])
  <2>1. Custodian(r) \in {"sent", "draining"}
    BY <1>1, <1>3 DEF Located
  <2>2. ~ InHands(r)'
    <3>1. /\ r \notin Elements(queue) /\ \A t \in Loops : r \notin Elements(batch[t])
          /\ \A q \in Stoppers : q # p => r \notin Elements(leftover[q])
      BY <1>3 DEF Inv, Apart, Disjoint
    <3> QED BY <1>2, <3>1, EmptyFacts DEF InHands, DrainChanges
  <2>3. Custodian(r)' = "lost"
    BY <1>1, <1>3, <2>2 DEF Located
  <2> QED BY <2>1, <2>3 DEF Moved, Losing
<1>4. CASE ~ (future[r] = Pending /\ r \in Elements(leftover[p]))
  BY <1>1, <1>2, <1>4, EmptyFacts, OthersStay, DrainElsewhere DEF Moved
<1> QED BY <1>3, <1>4

-----------------------------------------------------------------------------
(* From the moves of requests to the steps of the custodian.               *)
LEMMA SendStep == ASSUME \A r \in Requests : Moved(r, Sending) PROVE Hands!Send
BY DEF Moved, Sending, Hands!Send, Hands!Moves

LEMMA SettleStep == ASSUME \A r \in Requests : Moved(r, Answering) PROVE Hands!Settle
BY DEF Moved, Answering, Hands!Settle, Hands!Moves

LEMMA LoseStep ==
    ASSUME \A r \in Requests : Moved(r, Losing),
           \/ \E p \in Stoppers : stopper[p] # "off"
           \/ \E p \in Stoppers : stopper'[p] # "off"
    PROVE  Hands!Lose
BY DEF Moved, Losing, Hands!Lose, Hands!Moves

LEMMA StillMoves ==
    ASSUME Inv, Inv', UNCHANGED <<queue, future, loop, batch, leftover>>, NEW r \in Requests
    PROVE  Custodian(r)' = Custodian(r)
<1>1. Located /\ Located'
  BY LocatedFacts, LocatedNext
<1>2. InHands(r)' <=> InHands(r)
  BY DEF InHands
<1> QED BY <1>1, <1>2, Untouched DEF InHands

(* A loop that is cancelled sends its batch on or loses it.                *)
LEMMA CancelCustody ==
    ASSUME Inv, Inv', NEW t \in Loops, CancelLoop(t), UNCHANGED <<future, leftover>>
    PROVE  \/ \A r \in Requests : Moved(r, Sending)
           \/ \A r \in Requests : Moved(r, Losing)
<1>1. loop \in [Loops -> {"unborn", "created", "first", "fill", "taken",
                         "flush", "last_flush", "done"}]
      /\ batch \in [Loops -> Seq(Requests)]
  BY DEF Inv, TypeOK
<1>2. CASE LoopGoesOn(t)
  BY <1>2, GoesOnMoves
<1>3. CASE LoopComesBack(t)
  BY <1>3, ComesBackLost
<1>4. LoopGoesOn(t) \/ LoopComesBack(t)
  BY <1>1 DEF CancelLoop, LoopGoesOn, LoopComesBack, Flushing, AfterCancelledFill
<1> QED BY <1>2, <1>3, <1>4

LEMMA SubmitStep ==
    ASSUME Inv, Inv', NEW r \in Requests, Submit(r) PROVE Hands!Accept(r)
<1>1. /\ Located /\ Located' /\ queue \in Seq(Requests)
      /\ future \in [Requests -> Future] /\ loop \in [Loops -> Control]
  BY LocatedFacts, LocatedNext DEF Inv, TypeOK, Control
<1>2. /\ future[r] = Unborn /\ future'[r] = Pending /\ queue' = Append(queue, r)
      /\ \A s \in Requests : s # r => future'[s] = future[s]
      /\ UNCHANGED <<batch, leftover, stopper>>
  BY <1>1 DEF Submit
<1>3. Elements(queue') = Elements(queue) \cup {r}
  BY <1>1, <1>2, AppendFacts
<1>4. \A t \in Loops : loop'[t] # loop[t] => batch[t] = <<>>
  BY <1>1 DEF Submit, EnsureRunning, Inv, LoopPhases, LoopPhase
<1>5. Custodian(r) = "new" /\ Custodian(r)' = "held"
  BY <1>1, <1>2, <1>3 DEF Located
<1>6. ASSUME NEW s \in Requests, s # r PROVE Custodian(s)' = Custodian(s)
  <2>1. InHands(s)' <=> InHands(s)
    BY <1>2, <1>3, <1>6 DEF InHands
  <2>2. \A t \in Loops : s \in Elements(batch[t]) => loop'[t] = loop[t]
    BY <1>4, EmptyFacts
  <2> QED BY <1>1, <1>2, <1>3, <1>6, <2>1, <2>2, Untouched DEF InHands
<1> QED BY <1>2, <1>5, <1>6 DEF Hands!Accept

LEMMA CancelSubmitStep ==
    ASSUME Inv, Inv', NEW R \in SUBSET Requests, CancelSubmit(R) PROVE Hands!Abandon(R)
<1>1. Located /\ Located' /\ future \in [Requests -> Future]
  BY LocatedFacts, LocatedNext DEF Inv, TypeOK
<1>2. /\ \A r \in R : future[r] = Pending /\ future'[r] = Cancelled
      /\ \A s \in Requests : s \notin R => future'[s] = future[s]
      /\ UNCHANGED <<queue, loop, batch, leftover, stopper>>
  BY <1>1 DEF CancelSubmit
<1>3. \A r \in R : Custodian(r)' = "abandoned"
  BY <1>1, <1>2 DEF Located
<1>4. \A r \in R : Custodian(r) \in {"held", "sent", "draining", "lost"}
  BY <1>1, <1>2 DEF Located, InHands
<1>5. ASSUME NEW s \in Requests, s \notin R PROVE Custodian(s)' = Custodian(s)
  <2>1. InHands(s)' <=> InHands(s)
    BY <1>2 DEF InHands
  <2> QED BY <1>1, <1>2, <1>5, <2>1, Untouched DEF InHands
<1> QED BY <1>2, <1>3, <1>4, <1>5 DEF Hands!Abandon

LEMMA StartStep == ASSUME Inv, Inv', Start PROVE Hands!Send
<1>1. loop \in [Loops -> Control]
  BY DEF Inv, TypeOK, Control
<1>2. CASE UNCHANGED loop
  <2>1. UNCHANGED <<queue, future, loop, batch, leftover>>
    BY <1>2 DEF Start
  <2> QED BY <2>1, StillMoves, SendStep DEF Moved
<1>3. CASE ~ UNCHANGED loop
  <2>1. PICK t \in Loops : loop[t] = "unborn" /\ loop' = [loop EXCEPT ![t] = "created"]
    BY <1>3 DEF Start, EnsureRunning
  <2>2. LoopGoesOn(t)
    BY <1>1, <2>1 DEF Start, LoopGoesOn, Flushing
  <2> QED BY <2>2, GoesOnMoves, SendStep
<1> QED BY <1>2, <1>3

LEMMA LoopStepMoves ==
    ASSUME Inv, Inv', NEW t \in Loops, LoopStep(t) PROVE Hands!Send \/ Hands!Settle
<1>1. loop \in [Loops -> Control] /\ batch \in [Loops -> Seq(Requests)]
  BY DEF Inv, TypeOK, Control
<1>2. CASE FlushReturns(t)
  <2>1. LoopComesBack(t) /\ Flushed(batch[t])
    BY <1>1, <1>2 DEF FlushReturns, LoopComesBack, Flushing
  <2> QED BY <2>1, ComesBackAnswered, SettleStep
<1>3. CASE TakeFirst(t)
  <2>1. batch[t] = <<>> /\ queue # <<>> /\ Append(<<>>, Head(queue)) = <<Head(queue)>>
    BY <1>3 DEF TakeFirst, Inv, LoopPhases, LoopPhase
  <2>2. LoopGoesOn(t)
    BY <1>1, <1>3, <2>1 DEF TakeFirst, LoopGoesOn, Flushing
  <2> QED BY <2>2, GoesOnMoves, SendStep
<1>4. CASE FillTakes(t)
  <2>1. LoopGoesOn(t)
    BY <1>1, <1>4 DEF FillTakes, LoopGoesOn, Flushing
  <2> QED BY <2>1, GoesOnMoves, SendStep
<1>5. CASE LoopStarts(t) \/ FillResumes(t) \/ WindowExpires(t)
  <2>1. LoopGoesOn(t)
    BY <1>1, <1>5 DEF LoopStarts, FillResumes, WindowExpires, LoopGoesOn, Flushing
  <2> QED BY <2>1, GoesOnMoves, SendStep
<1> QED BY <1>2, <1>3, <1>4, <1>5 DEF LoopStep

LEMMA StopMoves ==
    ASSUME Inv, Inv', NEW p \in Stoppers, StopRunning(p) \/ StopIdle(p) \/ LoopAwaited(p)
    PROVE  Hands!Send \/ Hands!Lose
<1>1. CASE StopRunning(p)
  <2>1. /\ current \in Loops /\ CancelLoop(current) /\ UNCHANGED <<future, leftover>>
        /\ stopper'[p] = "await"
    BY <1>1 DEF StopRunning, Running, Inv, TypeOK
  <2> QED BY <2>1, CancelCustody, SendStep, LoseStep
<1>2. CASE StopIdle(p) \/ LoopAwaited(p)
  <2>1. /\ stopper[p] # "drain" /\ BeginDrain(p)
        /\ UNCHANGED <<future, batch, loop>>
    BY <1>2 DEF StopIdle, LoopAwaited
  <2> QED BY <2>1, DrainTakesQueue, SendStep
<1> QED BY <1>1, <1>2

LEMMA CancelStopMoves ==
    ASSUME Inv, Inv', NEW p \in Stoppers, CancelStop(p) PROVE Hands!Send \/ Hands!Lose
<1>1. CASE stopper[p] = "await" /\ CancelLoop(awaited[p]) /\ UNCHANGED <<leftover, future>>
  <2>1. awaited[p] \in Loops
    BY <1>1 DEF Inv, StopPhases
  <2> QED BY <1>1, <2>1, CancelCustody, SendStep, LoseStep
<1>2. CASE /\ stopper[p] = "drain" /\ leftover' = [leftover EXCEPT ![p] = <<>>]
           /\ UNCHANGED <<queue, batch, loop, future>>
  BY <1>2, DrainLost, LoseStep
<1> QED BY <1>1, <1>2 DEF CancelStop

LEMMA DrainFlushMoves ==
    ASSUME Inv, Inv', NEW p \in Stoppers, DrainFlushReturns(p) PROVE Hands!Settle
<1>1. /\ Flushed(Chunk(leftover[p])) /\ UNCHANGED <<queue, batch, loop>>
      /\ leftover' = [leftover EXCEPT ![p] = Rest(leftover[p])]
  BY DEF DrainFlushReturns
<1> QED BY <1>1, ChunkAnswered, SettleStep

(* A batcher of any size, with any number of loops and callers of stop()   *)
(* and every cancellation the code admits, does to its requests only what  *)
(* a custodian may: each is sent once, settled once in the batch it was    *)
(* sent in, and lost only by a cancelled flush or drain.                   *)
THEOREM CustodyImplemented == Spec => CustodySpec
<1>1. Init => Hands!Init
  <2> SUFFICES ASSUME Init PROVE Hands!Init
    OBVIOUS
  <2>1. Located
    BY InitInv, LocatedFacts
  <2>2. \A r \in Requests : Custodian(r) = "new"
    BY <2>1 DEF Located, Init
  <2> QED BY <2>2 DEF Init, Hands!Init
<1>2. ASSUME Inv, Inv', [Next]_vars PROVE [Hands!Next]_Hands!vars
  <2>1. CASE Start
    BY <1>2, <2>1, StartStep DEF Hands!Next
  <2>2. CASE Tick \/ UNCHANGED vars
    <3>1. UNCHANGED <<queue, future, loop, batch, leftover>>
      BY <2>2 DEF Tick, vars
    <3> QED BY <1>2, <3>1, StillMoves, SendStep DEF Hands!Next, Moved
  <2>3. ASSUME NEW r \in Requests, Submit(r) PROVE Hands!Next
    BY <1>2, <2>3, SubmitStep DEF Hands!Next
  <2>6. ASSUME NEW R \in SUBSET Requests, CancelSubmit(R) PROVE Hands!Next
    BY <1>2, <2>6, CancelSubmitStep DEF Hands!Next
  <2>4. ASSUME NEW t \in Loops, LoopStep(t) PROVE Hands!Next
    BY <1>2, <2>4, LoopStepMoves DEF Hands!Next
  <2>5. ASSUME NEW p \in Stoppers,
               StopRunning(p) \/ StopIdle(p) \/ StopStep(p) \/ CancelStop(p)
        PROVE  Hands!Next
    BY <1>2, <2>5, StopMoves, CancelStopMoves, DrainFlushMoves DEF Hands!Next, StopStep
  <2> QED BY <1>2, <2>1, <2>2, <2>3, <2>4, <2>5, <2>6 DEF Next
<1> QED BY <1>1, <1>2, Invariance, PTL DEF Spec, CustodySpec, Hands!Spec
=============================================================================
