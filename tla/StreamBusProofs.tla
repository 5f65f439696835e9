-------------------------- MODULE StreamBusProofs --------------------------
(***************************************************************************)
(* Theorems about StreamBus.tla, for every size, both policies and every   *)
(* number of events: the types, the order of what the subscriber gets, the *)
(* freshest event, the end of the stream, the account of what was lost,    *)
(* and that the bus is a LossyChannel.                                     *)
(***************************************************************************)
EXTENDS StreamBus, FiniteSetTheorems, TLAPS

(* The subscriber's events come in emission order, each at most once.      *)
Ascending(q) ==
    \A i, j \in DOMAIN q :
        i < j /\ q[i].kind = "event" /\ q[j].kind = "event" => q[i].n < q[j].n
InOrder == Ascending(delivered)

(* Once the bus is closed the end is in the queue, behind everything else, *)
(* until the subscriber has taken it: no eviction ever removes it.         *)
EndIsComing ==
    closed /\ ~ finished => queue # <<>> /\ queue[Len(queue)] = Sentinel

-----------------------------------------------------------------------------
(* What makes them inductive: the queue continues what was delivered, its  *)
(* events have been emitted, and only its last item can be the sentinel.   *)
Continues(q) ==
    /\ q \in Seq(Item)
    /\ Ascending(q)
    /\ \A i \in DOMAIN delivered, j \in DOMAIN q :
          delivered[i].kind = "event" /\ q[j].kind = "event" => delivered[i].n < q[j].n
    /\ \A j \in DOMAIN q : q[j].kind = "event" => q[j].n <= emitted

SentinelLast ==
    /\ \A i \in DOMAIN queue : queue[i] = Sentinel => closed /\ i = Len(queue)
    /\ finished => closed /\ queue = <<>>

Inv ==
    /\ TypeOK
    /\ dropped <= emitted
    /\ InOrder
    /\ \A i \in DOMAIN delivered : delivered[i].kind = "event" => delivered[i].n <= emitted
    /\ Continues(queue)
    /\ SentinelLast
    /\ EndIsComing
    /\ Freshness

(* Items and their kinds.                                                  *)
LEMMA ItemFacts ==
    /\ Sentinel \in Item /\ Sentinel.kind = "close"
    /\ \A k \in Nat : /\ Marker(k) \in Item /\ Marker(k).kind = "dropped"
                      /\ EventItem(k) \in Item /\ EventItem(k).kind = "event"
                      /\ EventItem(k).n = k
BY DEF Sentinel, Item, Marker, EventItem

LEMMA ItemTypes ==
    \A q \in Seq(Item) : \A i \in DOMAIN q : q[i] \in Item /\ q[i].n \in Nat
<1>1. \A x \in Item : x.n \in Nat
  BY DEF Item
<1> QED BY <1>1

(* Appending to a queue, or dropping its head, leaves the other items.     *)
LEMMA AppendFacts ==
    ASSUME NEW q \in Seq(Item), NEW x \in Item
    PROVE  /\ Append(q, x) \in Seq(Item)
           /\ Len(Append(q, x)) = Len(q) + 1
           /\ Append(q, x)[Len(q) + 1] = x
           /\ \A i \in DOMAIN q : Append(q, x)[i] = q[i]
           /\ DOMAIN Append(q, x) = 1..(Len(q) + 1) /\ DOMAIN q = 1..Len(q)
OBVIOUS

LEMMA TailFacts ==
    ASSUME NEW q \in Seq(Item), q # <<>>
    PROVE  /\ Tail(q) \in Seq(Item)
           /\ Len(Tail(q)) = Len(q) - 1
           /\ \A i \in DOMAIN Tail(q) : Tail(q)[i] = q[i + 1]
           /\ DOMAIN Tail(q) = 1..(Len(q) - 1) /\ DOMAIN q = 1..Len(q)
           /\ Head(q) = q[1] /\ 1 \in DOMAIN q
OBVIOUS

(* Evicting the oldest item, or appending one that is no event, lets the   *)
(* queue go on from what was delivered.                                    *)
LEMMA ContinuesTail ==
    ASSUME NEW q, Continues(q), q # <<>> PROVE Continues(Tail(q))
<1>1. q \in Seq(Item)
  BY DEF Continues
<1>2. \A i \in DOMAIN Tail(q) : i + 1 \in DOMAIN q /\ Tail(q)[i] = q[i + 1]
  BY <1>1, TailFacts
<1>3. DOMAIN Tail(q) \subseteq Int
  BY <1>1, TailFacts
<1>4. Tail(q) \in Seq(Item)
  BY <1>1, TailFacts
<1> QED BY <1>2, <1>3, <1>4 DEF Continues, Ascending

LEMMA ContinuesAppend ==
    ASSUME NEW q, Continues(q), NEW x \in Item, x.kind # "event"
    PROVE  Continues(Append(q, x))
<1>1. q \in Seq(Item)
  BY DEF Continues
<1>2. \A i \in DOMAIN Append(q, x) :
          \/ i \in DOMAIN q /\ Append(q, x)[i] = q[i]
          \/ Append(q, x)[i] = x
  BY <1>1, AppendFacts
<1>3. Append(q, x) \in Seq(Item)
  BY <1>1, AppendFacts
<1> QED BY <1>2, <1>3 DEF Continues, Ascending

-----------------------------------------------------------------------------
LEMMA InitInv == Init => Inv
<1> SUFFICES ASSUME Init PROVE Inv
  OBVIOUS
<1>1. /\ queue = <<>> /\ delivered = <<>> /\ queue \in Seq(Item) /\ delivered \in Seq(Item)
      /\ DOMAIN queue = {} /\ DOMAIN delivered = {} /\ Len(queue) = 0
  BY DEF Init
<1>2. maxsize \in Nat /\ Len(queue) <= maxsize /\ 0 \in 0..MaxEvents
  BY <1>1, StreamBusAssumption DEF Init
<1>3. TypeOK
  BY <1>1, <1>2 DEF Init, TypeOK
<1> QED BY <1>1, <1>3 DEF Init, Inv, InOrder, Ascending, Continues, SentinelLast,
                         EndIsComing, Freshness

(* The queue on which Emit puts the event, a marker already in it.         *)
LEMMA MarkerFacts ==
    ASSUME Inv
    PROVE  /\ Continues(QueueAfterMarker)
           /\ Len(QueueAfterMarker) <= maxsize
           /\ DroppedAfterMarker \in 0..emitted
           /\ \A i \in DOMAIN QueueAfterMarker :
                 QueueAfterMarker[i] = Sentinel => \E j \in DOMAIN queue : queue[j] = Sentinel
<1>1. queue \in Seq(Item) /\ dropped \in Nat /\ maxsize \in Nat /\ emitted \in Nat
  BY StreamBusAssumption DEF Inv, TypeOK
<1>2. CASE Announces
  <2>1. QueueAfterMarker = Append(queue, Marker(dropped)) /\ DroppedAfterMarker = 0
    BY <1>2 DEF QueueAfterMarker, DroppedAfterMarker
  <2>2. Marker(dropped) \in Item /\ Marker(dropped).kind = "dropped"
        /\ Marker(dropped) # Sentinel
    BY <1>1, ItemFacts
  <2>3. Continues(QueueAfterMarker)
    BY <2>1, <2>2, ContinuesAppend DEF Inv
  <2>4. Len(queue) < maxsize
    BY <1>2 DEF Announces, HasRoom
  <2> QED BY <1>1, <2>1, <2>2, <2>3, <2>4, AppendFacts
<1>3. CASE ~ Announces
  BY <1>1, <1>3 DEF QueueAfterMarker, DroppedAfterMarker, Inv, TypeOK
<1> QED BY <1>2, <1>3

(* Emit keeps the invariant: on a full queue the event takes the place of  *)
(* the oldest item, so there is always a slot for it under DROP_OLDEST.    *)
LEMMA EmitInv == ASSUME Inv, Emit PROVE Inv'
<1> DEFINE q == QueueAfterMarker
           e == EventItem(emitted + 1)
<1>1. /\ Continues(q) /\ Len(q) <= maxsize /\ DroppedAfterMarker \in 0..emitted
      /\ \A i \in DOMAIN q : q[i] # Sentinel
  BY MarkerFacts DEF Inv, SentinelLast, Emit
<1>2. /\ maxsize \in Nat \ {0} /\ emitted \in Nat /\ MaxEvents \in Nat
      /\ q \in Seq(Item) /\ e \in Item /\ e.kind = "event" /\ e.n = emitted + 1
      /\ e # Sentinel
  BY <1>1, StreamBusAssumption, ItemFacts DEF Inv, TypeOK, Continues
<1>3. /\ emitted < MaxEvents /\ emitted' = emitted + 1 /\ ~ closed
      /\ UNCHANGED <<maxsize, policy, closed, delivered, finished>>
  BY DEF Emit
<1>4. ASSUME NEW r, Continues(r), Len(r) < maxsize, queue' = Append(r, e),
             \A i \in DOMAIN r : r[i] # Sentinel
      PROVE  /\ Continues(queue)' /\ SentinelLast' /\ Freshness'
             /\ queue' \in Seq(Item) /\ Len(queue') <= maxsize
  <2>1. r \in Seq(Item)
    BY <1>4 DEF Continues
  <2>2. /\ queue' \in Seq(Item) /\ Len(queue') = Len(r) + 1
        /\ Len(queue') \in DOMAIN queue' /\ queue'[Len(queue')] = e
        /\ \A i \in DOMAIN queue' :
              \/ i \in DOMAIN r /\ queue'[i] = r[i] /\ i < Len(queue')
              \/ queue'[i] = e /\ i = Len(queue')
    BY <1>2, <1>4, <2>1, AppendFacts
  <2>3. Continues(queue)'
    <3>1. \A i \in DOMAIN r : r[i].kind = "event" => r[i].n <= emitted /\ r[i].n \in Int
      BY <1>4, <2>1, ItemTypes DEF Continues
    <3>2. \A i \in DOMAIN delivered : delivered[i].kind = "event" => delivered[i].n <= emitted
      BY DEF Inv
    <3>3. \A i \in DOMAIN delivered : delivered[i].n \in Int
      BY ItemTypes DEF Inv, TypeOK
    <3>4. Ascending(queue')
      BY <1>2, <1>4, <2>2, <3>1 DEF Continues, Ascending
    <3>5. \A i \in DOMAIN delivered, j \in DOMAIN queue' :
              delivered[i].kind = "event" /\ queue'[j].kind = "event"
                  => delivered[i].n < queue'[j].n
      BY <1>2, <1>4, <2>2, <3>2, <3>3 DEF Continues
    <3>6. \A j \in DOMAIN queue' : queue'[j].kind = "event" => queue'[j].n <= emitted'
      BY <1>2, <1>3, <2>2, <3>1
    <3> QED BY <1>3, <2>2, <3>4, <3>5, <3>6 DEF Continues
  <2>4. SentinelLast'
    BY <1>2, <1>3, <1>4, <2>2 DEF Inv, SentinelLast
  <2>5. Freshness'
    <3>1. /\ delivered \in Seq(Item) /\ queue' \in Seq(Item)
          /\ Reachable' = delivered \o queue'
      BY <1>3, <2>2 DEF Inv, TypeOK, Reachable
    <3>2. /\ Len(delivered) + Len(queue') \in DOMAIN Reachable'
          /\ Reachable'[Len(delivered) + Len(queue')] = e
      BY <2>2, <3>1
    <3> QED BY <1>3, <3>2 DEF Freshness, Visible
  <2> QED BY <1>2, <1>4, <2>1, <2>2, <2>3, <2>4, <2>5
<1>8. ASSUME queue' \in Seq(Item), Len(queue') <= maxsize,
              dropped' \in 0..(emitted + 1)
       PROVE  TypeOK' /\ dropped' <= emitted' /\ InOrder' /\ EndIsComing'
              /\ \A i \in DOMAIN delivered' :
                    delivered'[i].kind = "event" => delivered'[i].n <= emitted'
  <2>1. dropped' \in 0..MaxEvents /\ emitted' \in 0..MaxEvents /\ dropped' <= emitted'
    BY <1>2, <1>3, <1>8
  <2>2. TypeOK'
    BY <1>3, <1>8, <2>1 DEF Inv, TypeOK
  <2>3. InOrder' /\ EndIsComing'
    BY <1>3 DEF Inv, InOrder, Ascending, EndIsComing
  <2>4. \A i \in DOMAIN delivered :
            delivered[i].kind = "event" => delivered[i].n <= emitted + 1
    BY <1>2, ItemTypes DEF Inv, TypeOK
  <2> QED BY <1>3, <2>1, <2>2, <2>3, <2>4
<1>5. CASE HasRoom(q) /\ queue' = Append(q, e) /\ dropped' = DroppedAfterMarker
  <2>1. Len(q) < maxsize
    BY <1>5 DEF HasRoom
  <2>2. /\ Continues(queue)' /\ SentinelLast' /\ Freshness'
        /\ queue' \in Seq(Item) /\ Len(queue') <= maxsize
    BY <1>1, <1>4, <1>5, <2>1
  <2>3. dropped' \in 0..(emitted + 1)
    BY <1>1, <1>2, <1>5
  <2> QED BY <1>8, <2>2, <2>3 DEF Inv
<1>6. CASE ~ HasRoom(q) /\ queue' = Replace(q, e) /\ dropped' = DroppedAfterMarker + 1
  <2>1. Len(q) = maxsize /\ q # <<>>
    BY <1>1, <1>2, <1>6 DEF HasRoom
  <2>2. Continues(Tail(q)) /\ queue' = Append(Tail(q), e)
    BY <1>1, <1>6, <2>1, ContinuesTail DEF Replace
  <2>3. Len(Tail(q)) < maxsize /\ \A i \in DOMAIN Tail(q) : Tail(q)[i] # Sentinel
    BY <1>1, <1>2, <2>1, TailFacts
  <2>4. /\ Continues(queue)' /\ SentinelLast' /\ Freshness'
        /\ queue' \in Seq(Item) /\ Len(queue') <= maxsize
    BY <1>4, <2>2, <2>3
  <2>5. dropped' \in 0..(emitted + 1)
    BY <1>1, <1>2, <1>6
  <2> QED BY <1>8, <2>4, <2>5 DEF Inv
<1>7. CASE policy = "drop_newest" /\ queue' = q /\ dropped' = DroppedAfterMarker + 1
  <2>1. \A j \in DOMAIN q : q[j].kind = "event" => q[j].n <= emitted + 1
    BY <1>1, <1>2, ItemTypes DEF Continues
  <2>2. Continues(queue)'
    BY <1>1, <1>2, <1>3, <1>7, <2>1 DEF Continues, Ascending
  <2>3. SentinelLast' /\ Freshness'
    BY <1>1, <1>3, <1>7 DEF Inv, SentinelLast, Freshness
  <2>4. dropped' \in 0..(emitted + 1)
    BY <1>1, <1>2, <1>7
  <2> QED BY <1>1, <1>2, <1>7, <1>8, <2>2, <2>3, <2>4 DEF Inv
<1> QED BY <1>3, <1>5, <1>6, <1>7 DEF Emit

(* Closing: whatever is evicted, the sentinel is put last.                 *)
LEMMA ForcePutFacts ==
    ASSUME Inv, NEW q, Continues(q), Len(q) <= maxsize,
           \A i \in DOMAIN q : q[i] # Sentinel,
           NEW x \in Item, x.kind # "event"
    PROVE  /\ Continues(ForcePut(q, x)) /\ Len(ForcePut(q, x)) <= maxsize
           /\ ForcePut(q, x) # <<>> /\ ForcePut(q, x)[Len(ForcePut(q, x))] = x
           /\ \A i \in DOMAIN ForcePut(q, x) :
                 ForcePut(q, x)[i] = Sentinel => i = Len(ForcePut(q, x)) /\ x = Sentinel
<1> DEFINE r == IF HasRoom(q) THEN q ELSE Tail(q)
<1>1. q \in Seq(Item) /\ maxsize \in Nat \ {0}
  BY StreamBusAssumption DEF Continues, Inv, TypeOK
<1>2. /\ Continues(r) /\ r \in Seq(Item) /\ Len(r) < maxsize
      /\ \A i \in DOMAIN r : r[i] # Sentinel
  <2>1. CASE HasRoom(q)
    BY <1>1, <2>1 DEF HasRoom
  <2>2. CASE ~ HasRoom(q)
    <3>1. q # <<>> /\ Len(q) = maxsize
      BY <1>1, <2>2 DEF HasRoom
    <3>2. Continues(Tail(q))
      BY <3>1, ContinuesTail
    <3> QED BY <1>1, <2>2, <3>1, <3>2, TailFacts
  <2> QED BY <2>1, <2>2
<1>3. ForcePut(q, x) = Append(r, x)
  BY DEF ForcePut
<1>4. Continues(Append(r, x))
  BY <1>2, ContinuesAppend
<1> HIDE DEF r
<1> QED BY <1>1, <1>2, <1>3, <1>4, AppendFacts

LEMMA CloseInv == ASSUME Inv, Close PROVE Inv'
<1> DEFINE q == IF dropped > 0 THEN ForcePut(queue, Marker(dropped)) ELSE queue
<1>1. /\ ~ closed /\ closed' /\ dropped' = 0 /\ queue' = ForcePut(q, Sentinel)
      /\ UNCHANGED <<maxsize, policy, emitted, delivered, finished>>
  BY DEF Close, ClosedQueue
<1>2. /\ dropped \in Nat /\ emitted \in Nat /\ MaxEvents \in Nat
      /\ Continues(queue) /\ Len(queue) <= maxsize
      /\ \A i \in DOMAIN queue : queue[i] # Sentinel
  BY <1>1, StreamBusAssumption DEF Inv, TypeOK, SentinelLast
<1>3. /\ Marker(dropped) \in Item /\ Marker(dropped).kind = "dropped"
      /\ Marker(dropped) # Sentinel
  BY <1>2, ItemFacts
<1>4. Continues(q) /\ Len(q) <= maxsize /\ \A i \in DOMAIN q : q[i] # Sentinel
  BY <1>2, <1>3, ForcePutFacts
<1>5. /\ Continues(queue') /\ Len(queue') <= maxsize
      /\ queue' # <<>> /\ queue'[Len(queue')] = Sentinel
      /\ \A i \in DOMAIN queue' : queue'[i] = Sentinel => i = Len(queue')
  BY <1>1, <1>4, ItemFacts, ForcePutFacts
<1>6. Continues(queue)' /\ queue' \in Seq(Item)
  BY <1>1, <1>5 DEF Continues, Ascending
<1>7. TypeOK'
  BY <1>1, <1>2, <1>5, <1>6 DEF Inv, TypeOK
<1>8. SentinelLast' /\ EndIsComing' /\ Freshness'
  BY <1>1, <1>5 DEF Inv, SentinelLast, EndIsComing, Freshness
<1> QED BY <1>1, <1>2, <1>6, <1>7, <1>8 DEF Inv, InOrder, Ascending

(* The subscriber takes the head of the queue: what it has and what is     *)
(* queued stay one sequence.                                               *)
LEMMA DeliverInv == ASSUME Inv, Deliver PROVE Inv'
<1> DEFINE h == Head(queue)
<1>1. /\ ~ finished /\ queue # <<>> /\ queue' = Tail(queue)
      /\ UNCHANGED <<maxsize, policy, closed, dropped, emitted>>
  BY DEF Deliver
<1>2. /\ queue \in Seq(Item) /\ delivered \in Seq(Item) /\ Len(queue) <= maxsize
      /\ maxsize \in Nat /\ emitted \in Nat
  BY StreamBusAssumption DEF Inv, TypeOK
<1>3. /\ queue' \in Seq(Item) /\ Len(queue') = Len(queue) - 1
      /\ \A i \in DOMAIN queue' : i + 1 \in DOMAIN queue /\ queue'[i] = queue[i + 1]
      /\ DOMAIN queue' = 1..(Len(queue) - 1) /\ DOMAIN queue = 1..Len(queue)
      /\ 1 \in DOMAIN queue /\ h = queue[1] /\ h \in Item /\ Len(queue) \in Nat
  BY <1>1, <1>2, TailFacts, ItemTypes
<1>4. Continues(Tail(queue))
  BY <1>1, ContinuesTail DEF Inv
<1>5. CASE h = Sentinel
  <2>1. closed /\ Len(queue) = 1 /\ finished' /\ UNCHANGED delivered
    BY <1>3, <1>5 DEF Deliver, Inv, SentinelLast
  <2>2. queue' = <<>>
    BY <1>3, <2>1
  <2>3. Continues(queue)'
    BY <1>1, <1>4, <2>1 DEF Continues, Ascending
  <2>4. TypeOK'
    BY <1>1, <1>2, <1>3, <2>1 DEF Inv, TypeOK
  <2>5. SentinelLast' /\ EndIsComing' /\ Freshness'
    BY <1>1, <2>1, <2>2 DEF SentinelLast, EndIsComing, Freshness
  <2> QED BY <1>1, <2>1, <2>3, <2>4, <2>5 DEF Inv, InOrder, Ascending
<1>6. CASE h # Sentinel
  <2>1. delivered' = Append(delivered, h) /\ UNCHANGED finished
    BY <1>6 DEF Deliver
  <2>2. /\ delivered' \in Seq(Item)
        /\ \A i \in DOMAIN delivered' :
              \/ i \in DOMAIN delivered /\ delivered'[i] = delivered[i] /\ i < Len(delivered')
              \/ delivered'[i] = queue[1] /\ i = Len(delivered')
    BY <1>2, <1>3, <2>1, AppendFacts
  <2>3. TypeOK'
    BY <1>1, <1>2, <1>3, <2>1, <2>2 DEF Inv, TypeOK
  <2>4. InOrder'
    BY <1>3, <2>2 DEF Inv, InOrder, Ascending, Continues
  <2>5. \A i \in DOMAIN delivered' : delivered'[i].kind = "event" => delivered'[i].n <= emitted
    BY <1>3, <2>2 DEF Inv, Continues
  <2>6. Continues(queue)'
    <3>1. \A i \in DOMAIN delivered', j \in DOMAIN queue' :
              delivered'[i].kind = "event" /\ queue'[j].kind = "event"
                  => delivered'[i].n < queue'[j].n
      <4> SUFFICES ASSUME NEW i \in DOMAIN delivered', NEW j \in DOMAIN queue',
                          delivered'[i].kind = "event", queue'[j].kind = "event"
                   PROVE  delivered'[i].n < queue'[j].n
        OBVIOUS
      <4>1. j + 1 \in DOMAIN queue /\ queue'[j] = queue[j + 1] /\ 1 < j + 1
        BY <1>3
      <4>2. CASE i \in DOMAIN delivered /\ delivered'[i] = delivered[i]
        BY <4>1, <4>2 DEF Inv, Continues
      <4>3. CASE delivered'[i] = queue[1]
        BY <1>3, <4>1, <4>3 DEF Inv, Continues, Ascending
      <4> QED BY <2>2, <4>2, <4>3
    <3> QED BY <1>1, <1>4, <3>1 DEF Continues, Ascending
  <2>7. SentinelLast'
    <3>1. ASSUME NEW i \in DOMAIN queue', queue'[i] = Sentinel
          PROVE  closed /\ i = Len(queue')
      BY <1>3, <3>1 DEF Inv, SentinelLast
    <3> QED BY <1>1, <2>1, <3>1 DEF SentinelLast
  <2>8. EndIsComing'
    <3>1. ASSUME closed PROVE queue' # <<>> /\ queue'[Len(queue')] = Sentinel
      <4>1. queue[Len(queue)] = Sentinel
        BY <1>1, <3>1 DEF Inv, EndIsComing
      <4>2. Len(queue) # 1
        BY <1>3, <1>6, <4>1
      <4>3. Len(queue') >= 1 /\ Len(queue') \in DOMAIN queue'
        BY <1>3, <4>2
      <4> QED BY <1>3, <4>1, <4>3
    <3> QED BY <1>1, <3>1 DEF EndIsComing
  <2>9. Freshness'
    <3>1. delivered' \o queue' = delivered \o queue
      BY <1>1, <1>2, <2>1
    <3> QED BY <1>1, <3>1 DEF Inv, Freshness, Visible, Reachable
  <2> QED BY <1>1, <2>3, <2>4, <2>5, <2>6, <2>7, <2>8, <2>9 DEF Inv
<1> QED BY <1>5, <1>6

(* The invariant holds in every run of every bus.                          *)
THEOREM Invariance == Spec => []Inv
<1>1. Init => Inv
  BY InitInv
<1>2. Inv /\ [Next]_vars => Inv'
  <2> SUFFICES ASSUME Inv, [Next]_vars PROVE Inv'
    OBVIOUS
  <2>1. CASE UNCHANGED vars
    BY <2>1 DEF vars, Inv, TypeOK, InOrder, Ascending, Continues, SentinelLast,
                EndIsComing, Freshness, Visible, Reachable
  <2> QED BY <2>1, EmitInv, CloseInv, DeliverInv DEF Next
<1> QED BY <1>1, <1>2, PTL DEF Spec

-----------------------------------------------------------------------------
(* The bus is well typed, its queue never longer than maxsize, whatever    *)
(* the size, the policy and the number of events (Requirement 5.3).        *)
THEOREM TypeCorrect == Spec => []TypeOK
<1>1. Inv => TypeOK
  BY DEF Inv
<1> QED BY <1>1, Invariance, PTL

(* The subscriber gets events in emission order and none twice, whatever   *)
(* emit and close evict (Requirement 5.2).                                 *)
THEOREM InOrderCorrect == Spec => []InOrder
<1>1. Inv => InOrder
  BY DEF Inv
<1> QED BY <1>1, Invariance, PTL

(* An open DROP_OLDEST bus of any size still holds, or has delivered, the  *)
(* event that was emitted last.                                            *)
THEOREM FreshnessCorrect == Spec => []Freshness
<1>1. Inv => Freshness
  BY DEF Inv
<1> QED BY <1>1, Invariance, PTL

(* A closed bus always has the end for its subscriber: close makes room    *)
(* for the sentinel and nothing evicts it, so the generator can return.    *)
THEOREM EndIsComingCorrect == Spec => []EndIsComing
<1>1. Inv => EndIsComing
  BY DEF Inv
<1> QED BY <1>1, Invariance, PTL

-----------------------------------------------------------------------------
(* Losses and what the markers claim.  Claims are counted, so what a step  *)
(* does to a sequence becomes what it does to a finite set.                *)
Claimed(q) == Cardinality(Claims(q))
EventsOf(q) == {n \in Nat : \E i \in DOMAIN q : q[i] = EventItem(n)}

(* The items that occur: markers tell of at least one loss and of no more  *)
(* than there are events.                                                  *)
ProperItem == {Sentinel} \cup {EventItem(n) : n \in 1..MaxEvents}
                         \cup {Marker(n) : n \in 1..MaxEvents}

LossInv ==
    /\ delivered \in Seq(ProperItem) /\ queue \in Seq(ProperItem)
    /\ LossAccounted

LEMMA ProperItemFacts ==
    /\ ProperItem \subseteq Item
    /\ Sentinel \in ProperItem /\ ~ IsMarker(Sentinel) /\ ~ IsEvent(Sentinel)
    /\ \A x \in ProperItem :
          \/ x = Sentinel
          \/ IsMarker(x) /\ ~ IsEvent(x) /\ x.n \in 1..MaxEvents
          \/ IsEvent(x) /\ ~ IsMarker(x) /\ x.n \in 1..MaxEvents /\ x = EventItem(x.n)
    /\ \A k \in 1..MaxEvents : /\ Marker(k) \in ProperItem /\ IsMarker(Marker(k))
                              /\ ~ IsEvent(Marker(k)) /\ Marker(k).n = k
                              /\ EventItem(k) \in ProperItem /\ IsEvent(EventItem(k))
                              /\ ~ IsMarker(EventItem(k))
<1>1. 1..MaxEvents \subseteq Nat
  BY StreamBusAssumption
<1>2. /\ Sentinel \in Item /\ ~ IsMarker(Sentinel) /\ ~ IsEvent(Sentinel)
      /\ \A k \in Nat : /\ Marker(k) \in Item /\ IsMarker(Marker(k))
                        /\ ~ IsEvent(Marker(k)) /\ Marker(k).n = k
                        /\ EventItem(k) \in Item /\ IsEvent(EventItem(k))
                        /\ ~ IsMarker(EventItem(k)) /\ EventItem(k).n = k
  BY DEF Item, Sentinel, EventItem, Marker, IsMarker, IsEvent
<1>3. \A x : x \in ProperItem <=>
               \/ x = Sentinel
               \/ \E k \in 1..MaxEvents : x = Marker(k) \/ x = EventItem(k)
  BY DEF ProperItem
<1> QED BY <1>1, <1>2, <1>3

LEMMA ClaimsFinite ==
    ASSUME NEW q \in Seq(Item)
    PROVE  IsFiniteSet(Claims(q)) /\ Claimed(q) \in Nat
<1>1. IsFiniteSet((1..Len(q)) \X (1..MaxEvents))
  <2>1. 1 \in Int /\ Len(q) \in Int /\ MaxEvents \in Int
    BY StreamBusAssumption
  <2>2. IsFiniteSet(1..Len(q)) /\ IsFiniteSet(1..MaxEvents)
    BY <2>1, FS_Interval
  <2> QED BY <2>2, FS_Product
<1>2. Claims(q) \subseteq (1..Len(q)) \X (1..MaxEvents)
  BY DEF Claims
<1> QED BY <1>1, <1>2, FS_Subset, FS_CardinalityType DEF Claimed

(* A marker of k adds k claims, any other item none.                       *)
LEMMA ClaimedAppend ==
    ASSUME NEW q \in Seq(Item), NEW x \in Item
    PROVE  /\ ~ IsMarker(x) => Claimed(Append(q, x)) = Claimed(q)
           /\ IsMarker(x) /\ x.n \in 0..MaxEvents =>
                  Claimed(Append(q, x)) = Claimed(q) + x.n
<1>1. /\ DOMAIN Append(q, x) = 1..(Len(q) + 1) /\ DOMAIN q = 1..Len(q) /\ Len(q) \in Nat
      /\ Append(q, x)[Len(q) + 1] = x /\ \A i \in 1..Len(q) : Append(q, x)[i] = q[i]
  BY AppendFacts
<1>2. CASE ~ IsMarker(x)
  <2>1. Claims(Append(q, x)) = Claims(q)
    BY <1>1, <1>2 DEF Claims
  <2> QED BY <1>2, <2>1 DEF Claimed
<1>3. CASE IsMarker(x) /\ x.n \in 0..MaxEvents
  <2> DEFINE New == {Len(q) + 1} \X (1..x.n)
  <2>1. Claims(Append(q, x)) = Claims(q) \cup New
    BY <1>1, <1>3, StreamBusAssumption DEF Claims
  <2>2. Claims(q) \cap New = {}
    BY <1>1 DEF Claims
  <2>3. IsFiniteSet(New) /\ Cardinality(New) = x.n
    <3>1. x.n \in Nat /\ IsFiniteSet(1..x.n) /\ Cardinality(1..x.n) = x.n
      <4>1. 1 \in Int /\ x.n \in Nat /\ x.n \in Int
        BY <1>3, StreamBusAssumption
      <4>2. /\ IsFiniteSet(1..x.n)
            /\ Cardinality(1..x.n) = IF 1 > x.n THEN 0 ELSE x.n - 1 + 1
        BY <4>1, FS_Interval
      <4> QED BY <4>1, <4>2
    <3>2. IsFiniteSet({Len(q) + 1}) /\ Cardinality({Len(q) + 1}) = 1
      BY FS_Singleton
    <3>3. IsFiniteSet(New) /\ Cardinality(New) = Cardinality({Len(q) + 1}) * Cardinality(1..x.n)
      BY <3>1, <3>2, FS_Product
    <3> QED BY <3>1, <3>2, <3>3
  <2>4. Cardinality(Claims(q) \cup New) = Cardinality(Claims(q)) + x.n
    <3>1. IsFiniteSet(Claims(q)) /\ Cardinality(Claims(q)) \in Nat
      BY ClaimsFinite DEF Claimed
    <3>2. x.n \in Nat
      BY <1>3, StreamBusAssumption
    <3>3. Cardinality(Claims(q) \cup New)
            = Cardinality(Claims(q)) + Cardinality(New) - Cardinality(Claims(q) \cap New)
      BY <2>3, <3>1, FS_Union
    <3>4. Cardinality(Claims(q) \cap New) = 0
      BY <2>2, FS_EmptySet
    <3> HIDE DEF New
    <3> QED BY <2>3, <3>1, <3>2, <3>3, <3>4
  <2> QED BY <1>3, <2>1, <2>4 DEF Claimed
<1> QED BY <1>2, <1>3

(* Evicting the oldest queued item takes its claims away and adds none.    *)
LEMMA EvictFacts ==
    ASSUME NEW d \in Seq(Item), NEW q \in Seq(Item), q # <<>>
    PROVE  /\ d \o q \in Seq(Item) /\ d \o Tail(q) \in Seq(Item)
           /\ Len(d \o Tail(q)) = Len(d) + Len(q) - 1 /\ Len(d \o q) = Len(d) + Len(q)
           /\ Len(d) + 1 \in DOMAIN (d \o q) /\ (d \o q)[Len(d) + 1] = Head(q)
           /\ DOMAIN (d \o Tail(q)) = 1..(Len(d) + Len(q) - 1)
           /\ DOMAIN (d \o q) = 1..(Len(d) + Len(q))
           /\ \A i \in DOMAIN (d \o Tail(q)) :
                 (d \o Tail(q))[i] = (d \o q)[IF i <= Len(d) THEN i ELSE i + 1]
           /\ Len(d) \in Nat /\ Len(q) \in Nat \ {0}
<1>1. /\ Tail(q) \in Seq(Item) /\ Len(Tail(q)) = Len(q) - 1 /\ Len(q) \in Nat \ {0}
      /\ Len(d) \in Nat /\ \A i \in 1..(Len(q) - 1) : Tail(q)[i] = q[i + 1]
      /\ Head(q) = q[1]
  BY TailFacts
<1>2. /\ \A i \in 1..(Len(d) + Len(q)) :
             (d \o q)[i] = IF i <= Len(d) THEN d[i] ELSE q[i - Len(d)]
      /\ \A i \in 1..(Len(d) + Len(q) - 1) :
             (d \o Tail(q))[i] = IF i <= Len(d) THEN d[i] ELSE Tail(q)[i - Len(d)]
  BY <1>1
<1> QED BY <1>1, <1>2

LEMMA ClaimedEvict ==
    ASSUME NEW d \in Seq(Item), NEW q \in Seq(Item), q # <<>>
    PROVE  /\ Claimed(d \o Tail(q)) <= Claimed(d \o q)
           /\ IsMarker(Head(q)) /\ Head(q).n \in 1..MaxEvents =>
                  Claimed(d \o Tail(q)) + 1 <= Claimed(d \o q)
<1> DEFINE old == d \o q
           new == d \o Tail(q)
           p == Len(d) + 1
           Shift(c) == <<IF c[1] < p THEN c[1] ELSE c[1] + 1, c[2]>>
           f == [c \in Claims(new) |-> Shift(c)]
<1>1. /\ old \in Seq(Item) /\ new \in Seq(Item) /\ p \in Nat
      /\ DOMAIN old = 1..(Len(d) + Len(q)) /\ DOMAIN new = 1..(Len(d) + Len(q) - 1)
      /\ p \in DOMAIN old /\ old[p] = Head(q)
      /\ \A i \in DOMAIN new : new[i] = old[IF i < p THEN i ELSE i + 1]
  <2>1. \A i \in DOMAIN new : (i < p) <=> (i <= Len(d))
    BY EvictFacts
  <2> QED BY <2>1, EvictFacts
<1> HIDE DEF old, new, p
<1>2. \A c \in Claims(new) : Shift(c) \in Claims(old) /\ Shift(c)[1] # p
  BY <1>1 DEF Claims
<1>3. \A b, c \in Claims(new) : Shift(b) = Shift(c) => b = c
  <2>1. \A c \in Claims(new) : c = <<c[1], c[2]>> /\ c[1] \in Nat
    BY <1>1 DEF Claims
  <2>2. \A b, c \in Claims(new) : Shift(b) = Shift(c) => b[1] = c[1] /\ b[2] = c[2]
    BY <1>1, <2>1
  <2> QED BY <2>1, <2>2
<1>4. IsFiniteSet(Claims(old)) /\ Claimed(old) \in Nat
  BY <1>1, ClaimsFinite
<1>5. ASSUME NEW T, T \subseteq Claims(old), \A c \in Claims(new) : Shift(c) \in T
      PROVE  Cardinality(Claims(new)) <= Cardinality(T)
  <2>1. f \in Injection(Claims(new), T)
    BY <1>3, <1>5 DEF Injection, IsInjective
  <2>2. IsFiniteSet(T)
    BY <1>4, <1>5, FS_Subset
  <2> QED BY <2>1, <2>2, FS_Injection
<1>6. Claimed(new) <= Claimed(old)
  BY <1>2, <1>5 DEF Claimed
<1>7. ASSUME IsMarker(Head(q)), Head(q).n \in 1..MaxEvents
      PROVE  Claimed(new) + 1 <= Claimed(old)
  <2> DEFINE T == Claims(old) \ {<<p, 1>>}
  <2>1. <<p, 1>> \in Claims(old)
    BY <1>1, <1>7, StreamBusAssumption DEF Claims
  <2>2. Cardinality(T) = Claimed(old) - 1
    BY <1>4, <2>1, FS_RemoveElement DEF Claimed
  <2>3. \A c \in Claims(new) : Shift(c) \in T
    BY <1>2
  <2>4. Cardinality(Claims(new)) <= Cardinality(T)
    BY <1>5, <2>3
  <2>5. Claimed(new) \in Nat
    BY <1>1, ClaimsFinite
  <2> QED BY <1>4, <2>2, <2>4, <2>5 DEF Claimed
<1> QED BY <1>6, <1>7 DEF old, new

(* What of a sequence is visible after the same two changes.  Its events   *)
(* ascend, so an evicted event is gone for good.                           *)
LEMMA EventsAppend ==
    ASSUME NEW q \in Seq(Item), NEW x \in Item
    PROVE  EventsOf(Append(q, x)) = EventsOf(q) \cup {n \in Nat : x = EventItem(n)}
<1>1. /\ DOMAIN Append(q, x) = 1..(Len(q) + 1) /\ DOMAIN q = 1..Len(q) /\ Len(q) \in Nat
      /\ Append(q, x)[Len(q) + 1] = x /\ \A i \in 1..Len(q) : Append(q, x)[i] = q[i]
  BY AppendFacts
<1> QED BY <1>1 DEF EventsOf

LEMMA EventItemFacts ==
    \A m, n \in Nat : EventItem(m) = EventItem(n) => m = n
BY DEF EventItem

LEMMA EventsEvict ==
    ASSUME NEW d \in Seq(Item), NEW q \in Seq(Item), q # <<>>
    PROVE  /\ EventsOf(d \o Tail(q)) \subseteq EventsOf(d \o q)
           /\ ~ IsEvent(Head(q)) => EventsOf(d \o Tail(q)) = EventsOf(d \o q)
           /\ IsEvent(Head(q)) /\ Ascending(d \o q) =>
                 EventsOf(d \o Tail(q)) = EventsOf(d \o q) \ {Head(q).n}
<1> DEFINE old == d \o q
           new == d \o Tail(q)
           p == Len(d) + 1
<1>1. /\ old \in Seq(Item) /\ new \in Seq(Item) /\ p \in Nat
      /\ p \in DOMAIN old /\ old[p] = Head(q) /\ Head(q) \in Item
      /\ DOMAIN old \subseteq Int /\ DOMAIN new \subseteq Int
  <2>1. Head(q) \in Item
    BY TailFacts
  <2> QED BY <2>1, EvictFacts
<1>6. ASSUME NEW i \in DOMAIN new
      PROVE  \E j \in DOMAIN old \ {p} : new[i] = old[j]
  <2>1. i \in Int /\ 1 <= i /\ i <= Len(d) + Len(q) - 1
    BY <1>6, EvictFacts
  <2>2. new[i] = old[IF i <= Len(d) THEN i ELSE i + 1]
    BY <1>6, EvictFacts
  <2>3. DOMAIN old = 1..(Len(d) + Len(q)) /\ Len(d) \in Nat /\ Len(q) \in Nat \ {0}
    BY EvictFacts
  <2> HIDE DEF old, new
  <2>4. CASE i <= Len(d)
    BY <2>1, <2>2, <2>3, <2>4
  <2>5. CASE ~ (i <= Len(d))
    BY <2>1, <2>2, <2>3, <2>5
  <2> QED BY <2>4, <2>5
<1>7. ASSUME NEW i \in DOMAIN old, i # p
      PROVE  \E j \in DOMAIN new : old[i] = new[j]
  <2>1. /\ DOMAIN new = 1..(Len(d) + Len(q) - 1)
        /\ \A j \in DOMAIN new : new[j] = old[IF j <= Len(d) THEN j ELSE j + 1]
        /\ DOMAIN old = 1..(Len(d) + Len(q)) /\ Len(d) \in Nat /\ Len(q) \in Nat \ {0}
    BY EvictFacts
  <2>2. i \in Int /\ 1 <= i /\ i <= Len(d) + Len(q)
    BY <2>1
  <2> HIDE DEF old, new
  <2>3. CASE i <= Len(d)
    BY <2>1, <2>2, <2>3
  <2>4. CASE ~ (i <= Len(d))
    <3>1. i - 1 \in DOMAIN new /\ ~ (i - 1 <= Len(d)) /\ (i - 1) + 1 = i
      BY <1>7, <2>1, <2>2, <2>4
    <3> QED BY <2>1, <3>1
  <2> QED BY <2>3, <2>4
<1> HIDE DEF old, new, p
<1>2. EventsOf(new) \subseteq EventsOf(old)
  BY <1>6 DEF EventsOf
<1>3. \A n \in EventsOf(old) : n \in EventsOf(new) \/ old[p] = EventItem(n)
  BY <1>7 DEF EventsOf
<1>4. ~ IsEvent(Head(q)) => EventsOf(new) = EventsOf(old)
  <2>1. \A n \in Nat : IsEvent(EventItem(n))
    BY ItemFacts DEF IsEvent
  <2>2. EventsOf(old) \subseteq Nat
    BY DEF EventsOf
  <2> QED BY <1>1, <1>2, <1>3, <2>1, <2>2
<1>5. ASSUME IsEvent(Head(q)), Ascending(old)
      PROVE  EventsOf(new) = EventsOf(old) \ {Head(q).n}
  <2>1. \A n \in Nat : Head(q) = EventItem(n) => n = Head(q).n
    BY ItemFacts
  <2>2. Head(q).n \in Nat
    BY <1>1 DEF Item
  <2>3. ASSUME NEW i \in DOMAIN new PROVE new[i] # EventItem(Head(q).n)
    <3>1. PICK j \in DOMAIN old \ {p} : new[i] = old[j]
      BY <1>6, <2>3
    <3>2. j < p \/ p < j
      BY <1>1
    <3>3. old[j].kind = "event" /\ old[p].kind = "event" => old[j].n # old[p].n
      BY <1>1, <1>5, <2>2, <3>2 DEF Ascending
    <3>4. old[p].kind = "event"
      BY <1>1, <1>5 DEF IsEvent
    <3>5. EventItem(Head(q).n).kind = "event" /\ EventItem(Head(q).n).n = old[p].n
      BY <1>1, <2>2, ItemFacts
    <3> QED BY <3>1, <3>3, <3>4, <3>5
  <2>4. Head(q).n \notin EventsOf(new)
    BY <2>3 DEF EventsOf
  <2>5. EventsOf(old) \subseteq Nat
    BY DEF EventsOf
  <2> QED BY <1>1, <1>2, <1>3, <2>1, <2>4, <2>5
<1> QED BY <1>2, <1>4, <1>5 DEF old, new

LEMMA AscendingConcat ==
    ASSUME NEW d \in Seq(Item), NEW q \in Seq(Item), Ascending(d), Ascending(q),
           \A i \in DOMAIN d, j \in DOMAIN q :
               d[i].kind = "event" /\ q[j].kind = "event" => d[i].n < q[j].n
    PROVE  Ascending(d \o q)
<1> DEFINE r == d \o q
<1>1. /\ \A i \in DOMAIN r :
            \/ i \in DOMAIN d /\ r[i] = d[i]
            \/ i - Len(d) \in DOMAIN q /\ i > Len(d) /\ r[i] = q[i - Len(d)]
      /\ DOMAIN r \subseteq Int /\ Len(d) \in Nat
      /\ DOMAIN d = 1..Len(d) /\ DOMAIN q = 1..Len(q)
  OBVIOUS
<1> HIDE DEF r
<1> SUFFICES ASSUME NEW i \in DOMAIN r, NEW j \in DOMAIN r, i < j,
                    r[i].kind = "event", r[j].kind = "event"
             PROVE  r[i].n < r[j].n
  BY DEF Ascending, r
<1>2. CASE j \in DOMAIN d /\ r[j] = d[j]
  <2>1. i \in DOMAIN d /\ r[i] = d[i]
    BY <1>1, <1>2
  <2> QED BY <1>2, <2>1 DEF Ascending
<1>3. CASE j - Len(d) \in DOMAIN q /\ r[j] = q[j - Len(d)]
  <2>1. CASE i \in DOMAIN d /\ r[i] = d[i]
    BY <1>3, <2>1
  <2>2. CASE i - Len(d) \in DOMAIN q /\ r[i] = q[i - Len(d)]
    <3>1. i - Len(d) < j - Len(d)
      BY <1>1
    <3> QED BY <1>3, <2>2, <3>1 DEF Ascending
  <2> QED BY <1>1, <2>1, <2>2
<1> QED BY <1>1, <1>2, <1>3

LEMMA LostFacts ==
    ASSUME Inv
    PROVE  /\ Reachable \in Seq(Item) /\ Ascending(Reachable)
           /\ Lost = (1..emitted) \ EventsOf(Reachable)
           /\ EventsOf(Reachable) \subseteq 0..emitted
           /\ IsFiniteSet(Lost) /\ Cardinality(Lost) \in Nat
<1>1. delivered \in Seq(Item) /\ queue \in Seq(Item) /\ emitted \in Nat
  BY StreamBusAssumption DEF Inv, TypeOK
<1>2. /\ Reachable \in Seq(Item)
      /\ \A i \in DOMAIN Reachable :
            \/ i \in DOMAIN delivered /\ Reachable[i] = delivered[i]
            \/ i - Len(delivered) \in DOMAIN queue /\ i > Len(delivered)
                 /\ Reachable[i] = queue[i - Len(delivered)]
      /\ DOMAIN Reachable \subseteq Int /\ Len(delivered) \in Nat
      /\ DOMAIN delivered = 1..Len(delivered) /\ DOMAIN queue = 1..Len(queue)
  BY <1>1 DEF Reachable
<1>3. Ascending(Reachable)
  BY <1>1, AscendingConcat DEF Inv, InOrder, Continues, Reachable
<1>4. Lost = (1..emitted) \ EventsOf(Reachable)
  BY <1>1 DEF Lost, Visible, EventsOf
<1>5. EventsOf(Reachable) \subseteq 0..emitted
  <2>1. \A i \in DOMAIN Reachable : Reachable[i].kind = "event" => Reachable[i].n <= emitted
    BY <1>2 DEF Inv, Continues
  <2> QED BY <1>1, <2>1, ItemFacts DEF EventsOf
<1>6. IsFiniteSet(Lost) /\ Cardinality(Lost) \in Nat
  <2>1. 1 \in Int /\ emitted \in Int
    BY <1>1
  <2>2. IsFiniteSet(1..emitted)
    BY <2>1, FS_Interval
  <2> QED BY <1>4, <2>2, FS_Subset, FS_CardinalityType
<1> QED BY <1>2, <1>3, <1>4, <1>5, <1>6

(* Putting an item at the end of the queue puts it at the end of all that  *)
(* can be seen; handing the head on moves nothing.                         *)
LEMMA ConcatFacts ==
    ASSUME NEW d \in Seq(Item), NEW q \in Seq(Item)
    PROVE  /\ d \o q \in Seq(Item)
           /\ \A x \in Item : d \o Append(q, x) = Append(d \o q, x)
           /\ q # <<>> => Append(d, Head(q)) \o Tail(q) = d \o q
<1>1. ASSUME NEW x \in Item PROVE d \o Append(q, x) = Append(d \o q, x)
  OBVIOUS
<1>2. q # <<>> => Append(d, Head(q)) \o Tail(q) = d \o q
  OBVIOUS
<1>3. d \o q \in Seq(Item)
  OBVIOUS
<1> QED BY <1>1, <1>2, <1>3

(* Turning what is owed into a queued marker tells of exactly as much.     *)
LEMMA MarkerBalance ==
    ASSUME Inv, LossInv
    PROVE  /\ QueueAfterMarker \in Seq(ProperItem)
           /\ delivered \o QueueAfterMarker \in Seq(Item)
           /\ EventsOf(delivered \o QueueAfterMarker) = EventsOf(Reachable)
           /\ Claimed(delivered \o QueueAfterMarker) + DroppedAfterMarker = Announced
           /\ DroppedAfterMarker \in Nat /\ Announced \in Nat
<1>1. /\ delivered \in Seq(Item) /\ queue \in Seq(Item) /\ dropped \in 0..MaxEvents
      /\ Reachable \in Seq(Item) /\ queue \in Seq(ProperItem) /\ MaxEvents \in Nat
  BY LostFacts, StreamBusAssumption DEF Inv, TypeOK, LossInv
<1>2. Announced = Claimed(Reachable) + dropped /\ Claimed(Reachable) \in Nat
  BY <1>1, ClaimsFinite DEF Announced, Claimed
<1>3. CASE Announces
  <2> DEFINE x == Marker(dropped)
  <2>1. dropped \in 1..MaxEvents
    BY <1>1, <1>3 DEF Announces
  <2>2. x \in ProperItem /\ x \in Item /\ IsMarker(x) /\ ~ IsEvent(x) /\ x.n = dropped
    BY <2>1, ProperItemFacts
  <2>3. QueueAfterMarker = Append(queue, x) /\ DroppedAfterMarker = 0
    BY <1>3 DEF QueueAfterMarker, DroppedAfterMarker
  <2>4. delivered \o QueueAfterMarker = Append(Reachable, x)
    BY <1>1, <2>2, <2>3, ConcatFacts DEF Reachable
  <2>5. \A n \in Nat : x # EventItem(n)
    BY <2>2, ItemFacts DEF IsEvent
  <2>6. EventsOf(Append(Reachable, x)) = EventsOf(Reachable)
    <3>1. EventsOf(Append(Reachable, x))
            = EventsOf(Reachable) \cup {n \in Nat : x = EventItem(n)}
      BY <1>1, <2>2, EventsAppend
    <3>2. {n \in Nat : x = EventItem(n)} = {}
      BY <2>5
    <3> QED BY <3>1, <3>2
  <2>7. Claimed(Append(Reachable, x)) = Claimed(Reachable) + dropped
    BY <1>1, <2>2, ClaimedAppend
  <2>8. Append(queue, x) \in Seq(ProperItem) /\ Append(Reachable, x) \in Seq(Item)
    BY <1>1, <2>2
  <2> HIDE DEF x
  <2> QED BY <1>1, <1>2, <2>3, <2>4, <2>6, <2>7, <2>8
<1>4. CASE ~ Announces
  BY <1>1, <1>2, <1>4 DEF QueueAfterMarker, DroppedAfterMarker, Reachable
<1> QED BY <1>3, <1>4

(* Emit, by what happens to the event: it is queued, it takes the place of *)
(* the oldest item, or it is lost itself.                                  *)
LEMMA EmitLoss == ASSUME Inv, Inv', LossInv, Emit PROVE LossInv'
<1> DEFINE q == QueueAfterMarker
           k == DroppedAfterMarker
           e == EventItem(emitted + 1)
           r == delivered \o q
<1>1. /\ q \in Seq(ProperItem) /\ r \in Seq(Item) /\ EventsOf(r) = EventsOf(Reachable)
      /\ Claimed(r) + k = Announced /\ k \in Nat /\ Announced \in Nat
  BY MarkerBalance
<1>2. /\ emitted \in Nat /\ MaxEvents \in Nat /\ emitted < MaxEvents /\ maxsize \in Nat \ {0}
      /\ emitted' = emitted + 1 /\ UNCHANGED <<policy, closed, delivered, maxsize>>
      /\ ~ closed /\ delivered \in Seq(ProperItem) /\ policy' = policy
  BY StreamBusAssumption DEF Inv, TypeOK, Emit, LossInv
<1>3. /\ e \in ProperItem /\ e \in Item /\ IsEvent(e) /\ ~ IsMarker(e)
      /\ {n \in Nat : e = EventItem(n)} = {emitted + 1}
  <2>1. emitted + 1 \in 1..MaxEvents
    BY <1>2
  <2>2. \A n \in Nat : e = EventItem(n) <=> n = emitted + 1
    BY <1>2, EventItemFacts
  <2> QED BY <1>2, <2>1, <2>2, ProperItemFacts
<1>4. /\ Lost = (1..emitted) \ EventsOf(Reachable) /\ EventsOf(Reachable) \subseteq 0..emitted
      /\ Lost' = (1..(emitted + 1)) \ EventsOf(Reachable')
      /\ Reachable' = delivered \o queue' /\ Reachable' \in Seq(Item)
      /\ IsFiniteSet(Lost) /\ Cardinality(Lost) \in Nat
  <2>1. delivered' \in Seq(Item) /\ queue' \in Seq(Item)
    BY DEF Inv, TypeOK
  <2>2. Reachable' = delivered \o queue' /\ Reachable' \in Seq(Item)
    BY <1>2, <2>1 DEF Reachable
  <2>3. Lost' = (1..(emitted + 1)) \ EventsOf(Reachable')
    BY <1>2, <2>2 DEF Lost, Visible, EventsOf
  <2> QED BY <2>2, <2>3, LostFacts
<1>5. /\ Announced' = Claimed(Reachable') + dropped' /\ Claimed(Reachable') \in Nat
      /\ Announced <= Cardinality(Lost) /\ (Lost # {} => Announced > 0)
      /\ policy = "drop_newest" => Announced = Cardinality(Lost)
  BY <1>2, <1>4, ClaimsFinite DEF Announced, Claimed, LossInv, LossAccounted
<1>6. q \in Seq(Item) /\ delivered \in Seq(Item)
  BY <1>1, <1>2, ProperItemFacts
<1> HIDE DEF q, k, r, e
<1>7. CASE HasRoom(q) /\ queue' = Append(q, e) /\ dropped' = k
  <2>1. Reachable' = Append(r, e)
    BY <1>3, <1>4, <1>6, <1>7, ConcatFacts DEF r
  <2>2. Claimed(Reachable') = Claimed(r) /\ EventsOf(Reachable') = EventsOf(r) \cup {emitted + 1}
    BY <1>1, <1>3, <2>1, ClaimedAppend, EventsAppend
  <2>3. Lost' = Lost
    BY <1>1, <1>2, <1>4, <2>2
  <2>4. Announced' = Announced
    BY <1>1, <1>5, <1>7, <2>2
  <2>5. queue' \in Seq(ProperItem)
    BY <1>1, <1>3, <1>7
  <2> QED BY <1>2, <1>5, <2>3, <2>4, <2>5 DEF LossInv, LossAccounted
<1>8. CASE /\ ~ HasRoom(q) /\ policy = "drop_oldest"
           /\ queue' = Replace(q, e) /\ dropped' = k + 1
  <2> DEFINE t == delivered \o Tail(q)
             h == Head(q)
  <2>1. q # <<>>
    BY <1>2, <1>6, <1>8 DEF HasRoom
  <2>2. /\ Tail(q) \in Seq(ProperItem) /\ Tail(q) \in Seq(Item) /\ h \in ProperItem
        /\ h = q[1] /\ 1 \in DOMAIN q /\ queue' = Append(Tail(q), e)
    BY <1>1, <1>6, <1>8, <2>1 DEF Replace
  <2>3. Reachable' = Append(t, e) /\ t \in Seq(Item)
    <3>1. Reachable' = delivered \o Append(Tail(q), e)
      BY <1>4, <2>2
    <3> QED BY <1>3, <1>6, <2>2, <3>1, ConcatFacts
  <2>4. Claimed(Reachable') = Claimed(t) /\ EventsOf(Reachable') = EventsOf(t) \cup {emitted + 1}
    BY <1>3, <2>3, ClaimedAppend, EventsAppend
  <2>5. Claimed(t) \in Nat /\ Claimed(r) \in Nat
    BY <1>1, <2>3, ClaimsFinite
  <2>6. queue' \in Seq(ProperItem)
    BY <1>3, <2>2
  <2>7. Announced' > 0
    BY <1>1, <1>5, <1>8, <2>4, <2>5
  <2>8. Announced' <= Cardinality(Lost')
    <3>1. CASE IsEvent(h) /\ h.n \in 1..MaxEvents /\ h = EventItem(h.n)
      <4>1. EventsOf(t) = EventsOf(r) \ {h.n}
        <5>1. Ascending(r)
          <6>1. /\ Continues(q) /\ InOrder
                /\ \A i \in DOMAIN delivered, j \in DOMAIN q :
                      delivered[i].kind = "event" /\ q[j].kind = "event"
                          => delivered[i].n < q[j].n
            BY MarkerFacts DEF q, Inv, Continues
          <6> QED BY <1>6, <6>1, AscendingConcat DEF r, Continues, InOrder
        <5> QED BY <1>6, <2>1, <3>1, <5>1, EventsEvict DEF r
      <4>2. h.n \in EventsOf(r)
        <5>1. Len(delivered) + 1 \in DOMAIN r /\ r[Len(delivered) + 1] = h
          BY <1>6, <2>1, EvictFacts DEF r
        <5>2. h.n \in Nat
          BY <3>1, <1>2
        <5> QED BY <3>1, <5>1, <5>2 DEF EventsOf
      <4>3. h.n \in 1..emitted
        BY <1>1, <1>2, <1>4, <3>1, <4>2
      <4>4. Lost' = Lost \cup {h.n} /\ h.n \notin Lost
        <5> DEFINE N == h.n
                   Ev == EventsOf(Reachable)
        <5>1. /\ Lost' = (1..(emitted + 1)) \ ((Ev \ {N}) \cup {emitted + 1})
              /\ Lost = (1..emitted) \ Ev /\ N \in 1..emitted /\ N \in Ev
          BY <1>1, <1>4, <2>4, <4>1, <4>2, <4>3
        <5> HIDE DEF N, Ev
        <5>2. Lost' = Lost \cup {N} /\ N \notin Lost
          BY <1>2, <5>1
        <5> QED BY <5>2 DEF N
      <4>5. Cardinality(Lost') = Cardinality(Lost) + 1
        BY <1>4, <4>4, FS_AddElement
      <4>6. Claimed(t) <= Claimed(r)
        BY <1>6, <2>1, ClaimedEvict DEF r
      <4> HIDE DEF t, h
      <4> QED BY <1>1, <1>4, <1>5, <1>8, <2>4, <2>5, <4>5, <4>6
    <3>2. CASE IsMarker(h) /\ ~ IsEvent(h) /\ h.n \in 1..MaxEvents
      <4>1. EventsOf(t) = EventsOf(r) /\ Claimed(t) + 1 <= Claimed(r)
        BY <1>6, <2>1, <3>2, EventsEvict, ClaimedEvict DEF r
      <4>2. Lost' = Lost
        BY <1>1, <1>2, <1>4, <2>4, <4>1
      <4> HIDE DEF t, h
      <4>3. Announced' <= Announced /\ Announced' \in Nat
        BY <1>1, <1>5, <1>8, <2>4, <2>5, <4>1
      <4>4. Cardinality(Lost') = Cardinality(Lost)
        BY <4>2
      <4> QED BY <1>1, <1>4, <1>5, <4>3, <4>4
    <3>3. h # Sentinel
      BY <1>2, <2>2, MarkerFacts DEF q, Inv, SentinelLast
    <3> QED BY <2>2, <3>1, <3>2, <3>3, ProperItemFacts
  <2> QED BY <1>2, <1>8, <2>6, <2>7, <2>8 DEF LossInv, LossAccounted
<1>9. CASE policy = "drop_newest" /\ queue' = q /\ dropped' = k + 1
  <2>1. Reachable' = r
    BY <1>4, <1>9 DEF r
  <2>2. Lost' = Lost \cup {emitted + 1} /\ emitted + 1 \notin Lost
    BY <1>1, <1>2, <1>4, <2>1
  <2>3. Cardinality(Lost') = Cardinality(Lost) + 1
    BY <1>4, <2>2, FS_AddElement
  <2>4. Announced' = Announced + 1
    BY <1>1, <1>5, <1>9, <2>1
  <2> QED BY <1>1, <1>2, <1>4, <1>5, <1>9, <2>3, <2>4 DEF LossInv, LossAccounted
<1> QED BY <1>2, <1>7, <1>8, <1>9 DEF Emit, q, k, e


(* _force_put tells of no more than what is put and makes nothing visible. *)
LEMMA ForcePutLoss ==
    ASSUME NEW d \in Seq(Item), NEW q \in Seq(ProperItem), NEW x \in ProperItem,
           ~ IsEvent(x), maxsize \in Nat \ {0}
    PROVE  /\ ForcePut(q, x) \in Seq(ProperItem)
           /\ EventsOf(d \o ForcePut(q, x)) \subseteq EventsOf(d \o q)
           /\ IsMarker(x) => Claimed(d \o ForcePut(q, x)) <= Claimed(d \o q) + x.n
           /\ ~ IsMarker(x) => Claimed(d \o ForcePut(q, x)) <= Claimed(d \o q)
<1> DEFINE r == IF HasRoom(q) THEN q ELSE Tail(q)
<1>1. q \in Seq(Item) /\ x \in Item /\ d \o q \in Seq(Item) /\ MaxEvents \in Nat
  BY ProperItemFacts, ConcatFacts, StreamBusAssumption
<1>2. /\ r \in Seq(ProperItem) /\ EventsOf(d \o r) \subseteq EventsOf(d \o q)
      /\ Claimed(d \o r) <= Claimed(d \o q)
  <2>1. CASE HasRoom(q)
    <3>1. r = q
      BY <2>1
    <3>2. Claimed(d \o q) \in Nat
      BY <1>1, ClaimsFinite
    <3> HIDE DEF r
    <3> QED BY <3>1, <3>2
  <2>2. CASE ~ HasRoom(q)
    <3>1. q # <<>> /\ r = Tail(q)
      BY <1>1, <2>2 DEF HasRoom
    <3>2. Tail(q) \in Seq(ProperItem)
      BY <3>1
    <3> QED BY <1>1, <3>1, <3>2, EventsEvict, ClaimedEvict
  <2> QED BY <2>1, <2>2
<1>3. ForcePut(q, x) = Append(r, x)
  BY DEF ForcePut
<1> HIDE DEF r
<1>4. r \in Seq(Item) /\ d \o r \in Seq(Item) /\ Claimed(d \o r) \in Nat
  <2>1. r \in Seq(Item)
    BY <1>2, ProperItemFacts
  <2>2. d \o r \in Seq(Item)
    BY <2>1
  <2> QED BY <2>1, <2>2, ClaimsFinite
<1>5. d \o ForcePut(q, x) = Append(d \o r, x)
  BY <1>1, <1>3, <1>4, ConcatFacts
<1>6. EventsOf(d \o ForcePut(q, x)) = EventsOf(d \o r)
  <2>1. {n \in Nat : x = EventItem(n)} = {}
    BY ItemFacts DEF IsEvent
  <2>2. EventsOf(Append(d \o r, x)) = EventsOf(d \o r) \cup {n \in Nat : x = EventItem(n)}
    BY <1>1, <1>4, EventsAppend
  <2> QED BY <1>5, <2>1, <2>2
<1>7. IsMarker(x) => x.n \in 1..MaxEvents
  BY ProperItemFacts
<1>8. /\ IsMarker(x) => Claimed(Append(d \o r, x)) = Claimed(d \o r) + x.n
      /\ ~ IsMarker(x) => Claimed(Append(d \o r, x)) = Claimed(d \o r)
  <2>1. IsMarker(x) => x.n \in 0..MaxEvents
    BY <1>1, <1>7
  <2> QED BY <1>1, <1>4, <2>1, ClaimedAppend
<1>9. ForcePut(q, x) \in Seq(ProperItem)
  BY <1>2, <1>3
<1>10. Claimed(d \o q) \in Nat
  BY <1>1, ClaimsFinite
<1> QED BY <1>1, <1>2, <1>4, <1>5, <1>6, <1>7, <1>8, <1>9, <1>10

(* close puts what is owed into a marker, or loses it: never more.         *)
LEMMA CloseLoss == ASSUME Inv, Inv', LossInv, Close PROVE LossInv'
<1> DEFINE q == IF dropped > 0 THEN ForcePut(queue, Marker(dropped)) ELSE queue
<1>1. /\ closed' = TRUE /\ dropped' = 0 /\ queue' = ForcePut(q, Sentinel)
      /\ UNCHANGED <<maxsize, policy, emitted, delivered>>
  BY DEF Close, ClosedQueue
<1>2. /\ queue \in Seq(ProperItem) /\ delivered \in Seq(ProperItem)
      /\ queue \in Seq(Item) /\ delivered \in Seq(Item) /\ maxsize \in Nat \ {0}
      /\ dropped \in 0..MaxEvents /\ MaxEvents \in Nat /\ emitted \in Nat
  BY StreamBusAssumption DEF LossInv, Inv, TypeOK
<1>3. /\ Announced = Claimed(Reachable) + dropped /\ Claimed(Reachable) \in Nat
      /\ Announced <= Cardinality(Lost) /\ Cardinality(Lost) \in Nat
      /\ Lost = (1..emitted) \ EventsOf(Reachable) /\ IsFiniteSet(Lost)
      /\ Reachable = delivered \o queue /\ Reachable \in Seq(Item)
  BY <1>2, LostFacts, ClaimsFinite DEF Announced, Claimed, LossInv, LossAccounted, Reachable
<1>4. /\ q \in Seq(ProperItem) /\ EventsOf(delivered \o q) \subseteq EventsOf(Reachable)
      /\ Claimed(delivered \o q) <= Announced
  <2>1. CASE dropped > 0
    <3> DEFINE x == Marker(dropped)
    <3>1. x \in ProperItem /\ IsMarker(x) /\ ~ IsEvent(x) /\ x.n = dropped
      <4>1. dropped \in 1..MaxEvents
        BY <1>2, <2>1
      <4> QED BY <4>1, ProperItemFacts
    <3>2. q = ForcePut(queue, x)
      BY <2>1
    <3> HIDE DEF x, q
    <3> QED BY <1>2, <1>3, <3>1, <3>2, ForcePutLoss
  <2>2. CASE ~ (dropped > 0)
    BY <1>2, <1>3, <2>2
  <2> QED BY <2>1, <2>2
<1> HIDE DEF q
<1>5. /\ queue' \in Seq(ProperItem)
      /\ EventsOf(delivered \o queue') \subseteq EventsOf(delivered \o q)
      /\ Claimed(delivered \o queue') <= Claimed(delivered \o q)
  BY <1>1, <1>2, <1>4, ProperItemFacts, ForcePutLoss
<1>6. delivered' = delivered /\ emitted' = emitted
  BY <1>1
<1>7. Reachable' = delivered \o queue' /\ Reachable' \in Seq(Item)
  <2>1. queue' \in Seq(Item)
    BY <1>5, ProperItemFacts
  <2> QED BY <1>2, <1>6, <2>1, ConcatFacts DEF Reachable
<1>8. Lost' = (1..emitted) \ EventsOf(Reachable')
  BY <1>2, <1>6, <1>7 DEF Lost, Visible, EventsOf
<1>9. Cardinality(Lost) <= Cardinality(Lost') /\ Cardinality(Lost') \in Nat
  <2>1. Lost \subseteq Lost' /\ Lost' \subseteq 1..emitted
    BY <1>3, <1>4, <1>5, <1>7, <1>8
  <2>2. IsFiniteSet(1..emitted)
    <3>1. 1 \in Int /\ emitted \in Int
      BY <1>2
    <3> QED BY <3>1, FS_Interval
  <2>3. IsFiniteSet(Lost')
    BY <2>1, <2>2, FS_Subset
  <2> QED BY <2>1, <2>3, FS_Subset, FS_CardinalityType
<1>10. Claimed(delivered \o queue') \in Nat /\ Claimed(delivered \o q) \in Nat
  <2>1. delivered \o queue' \in Seq(Item) /\ delivered \o q \in Seq(Item)
    BY <1>2, <1>4, <1>7, ProperItemFacts, ConcatFacts
  <2> QED BY <2>1, ClaimsFinite
<1>11. Announced' = Claimed(delivered \o queue')
  BY <1>1, <1>7, <1>10 DEF Announced, Claimed
<1>12. Announced' <= Cardinality(Lost')
  BY <1>2, <1>3, <1>4, <1>5, <1>9, <1>10, <1>11
<1> QED BY <1>1, <1>2, <1>5, <1>6, <1>12 DEF LossInv, LossAccounted

(* Handing an item on changes nothing of what can be seen; taking the      *)
(* sentinel takes no claim and no event.                                   *)
LEMMA DeliverLoss == ASSUME Inv, Inv', LossInv, Deliver PROVE LossInv'
<1> DEFINE h == Head(queue)
<1>1. /\ queue # <<>> /\ queue' = Tail(queue)
      /\ UNCHANGED <<maxsize, policy, closed, dropped, emitted>>
      /\ IF h = Sentinel THEN delivered' = delivered ELSE delivered' = Append(delivered, h)
  BY DEF Deliver
<1>2. /\ queue \in Seq(ProperItem) /\ delivered \in Seq(ProperItem)
      /\ queue \in Seq(Item) /\ delivered \in Seq(Item)
  BY DEF LossInv, Inv, TypeOK
<1>3. h \in ProperItem /\ Tail(queue) \in Seq(ProperItem)
  BY <1>1, <1>2
<1>4. delivered' \in Seq(ProperItem) /\ queue' \in Seq(ProperItem)
  <2>1. Append(delivered, h) \in Seq(ProperItem)
    BY <1>2, <1>3
  <2> HIDE DEF h
  <2> QED BY <1>1, <1>2, <1>3, <2>1
<1>5. CASE h = Sentinel
  <2>1. closed /\ closed'
    <3>1. 1 \in DOMAIN queue /\ h = queue[1]
      BY <1>1, <1>2, TailFacts
    <3> QED BY <1>1, <1>5, <3>1 DEF Inv, SentinelLast
  <2>2. delivered' = delivered /\ Reachable' = delivered \o Tail(queue)
    BY <1>1, <1>5 DEF Reachable
  <2>3. /\ EventsOf(Reachable') = EventsOf(Reachable)
        /\ Claimed(Reachable') <= Claimed(Reachable)
    BY <1>1, <1>2, <1>5, <2>2, EventsEvict, ClaimedEvict, ProperItemFacts DEF Reachable
  <2>4. Reachable \in Seq(Item) /\ Reachable' \in Seq(Item)
    BY <1>1, <1>2, <2>2, EvictFacts DEF Reachable
  <2>5. Lost' = Lost
    <3>1. \A n \in 1..emitted : n \in Nat
      BY StreamBusAssumption DEF Inv, TypeOK
    <3>2. Lost = (1..emitted) \ EventsOf(Reachable)
      BY LostFacts
    <3>3. Lost' = (1..emitted) \ EventsOf(Reachable')
      BY <1>1, <3>1 DEF Lost, Visible, EventsOf
    <3> QED BY <2>3, <3>2, <3>3
  <2>6. Announced' <= Announced /\ Announced' \in Nat /\ Announced \in Nat
    <3>1. Claimed(Reachable') \in Nat /\ Claimed(Reachable) \in Nat /\ dropped \in Nat
      BY <2>4, ClaimsFinite, StreamBusAssumption DEF Inv, TypeOK
    <3>2. dropped' = dropped
      BY <1>1
    <3> QED BY <2>3, <3>1, <3>2 DEF Announced, Claimed
  <2>7. Announced' <= Cardinality(Lost')
    <3>1. Cardinality(Lost') = Cardinality(Lost)
      BY <2>5
    <3> QED BY <2>6, <3>1, LostFacts DEF LossInv, LossAccounted
  <2> QED BY <1>4, <2>1, <2>7 DEF LossInv, LossAccounted
<1>6. CASE h # Sentinel
  <2>1. Reachable' = Reachable
    BY <1>1, <1>2, <1>6, ConcatFacts DEF Reachable
  <2> QED BY <1>1, <1>4, <2>1 DEF LossInv, LossAccounted, Announced, Lost, Visible
<1> QED BY <1>5, <1>6

LEMMA InitLoss == ASSUME Init PROVE LossInv
<1>1. Inv /\ delivered = <<>> /\ queue = <<>> /\ dropped = 0 /\ emitted = 0
  BY InitInv DEF Init
<1>2. Reachable = <<>> /\ Lost = {}
  BY <1>1 DEF Reachable, Lost
<1>3. Claims(Reachable) = {}
  BY <1>2 DEF Claims
<1>4. Announced = 0 /\ Cardinality(Lost) = 0
  BY <1>1, <1>2, <1>3, FS_EmptySet DEF Announced
<1> QED BY <1>1, <1>2, <1>4 DEF LossInv, LossAccounted

(* Only proper items are ever queued or delivered, and the account of what *)
(* was lost holds in every run of every bus.                               *)
THEOREM LossInvariance == Spec => []LossInv
<1>1. Init => LossInv
  BY InitLoss
<1>2. Inv /\ Inv' /\ LossInv /\ [Next]_vars => LossInv'
  <2> SUFFICES ASSUME Inv, Inv', LossInv, [Next]_vars PROVE LossInv'
    OBVIOUS
  <2>1. CASE UNCHANGED vars
    BY <2>1 DEF vars, LossInv, LossAccounted, Announced, Reachable, Lost, Visible
  <2> QED BY <2>1, EmitLoss, CloseLoss, DeliverLoss DEF Next
<1> QED BY <1>1, <1>2, Invariance, PTL DEF Spec

(* Every loss is accounted for, whatever the size, the policy and the      *)
(* number of events: never more announced than lost, and while the bus is  *)
(* open never nothing when something is (Requirement 5.3).                 *)
THEOREM LossAccountedCorrect == Spec => []LossAccounted
<1>1. LossInv => LossAccounted
  BY DEF LossInv
<1> QED BY <1>1, LossInvariance, PTL

-----------------------------------------------------------------------------
(* The bus as a lossy channel: what each change of a sequence is to the    *)
(* receiver.                                                               *)
LEMMA MessagesAreEvents ==
    ASSUME NEW q \in Seq(Item) PROVE Messages(q) = EventsOf(q)
<1>1. \A i \in DOMAIN q : q[i] \in Item
  BY ItemTypes
<1>2. \A x \in Item : IsEvent(x) => x.n \in Nat /\ x = EventItem(x.n)
  BY DEF Item, IsEvent, EventItem
<1>3. \A n \in Nat : IsEvent(EventItem(n)) /\ EventItem(n).n = n
  BY ItemFacts DEF IsEvent
<1> QED BY <1>1, <1>2, <1>3 DEF Messages, EventsOf

LEMMA MessagesAppend ==
    ASSUME NEW q \in Seq(Item), NEW x \in Item
    PROVE  /\ ~ IsEvent(x) => Messages(Append(q, x)) = Messages(q)
           /\ \A n \in Nat : x = EventItem(n) =>
                  Messages(Append(q, x)) = Messages(q) \cup {n}
<1>1. /\ Messages(Append(q, x)) = EventsOf(Append(q, x)) /\ Messages(q) = EventsOf(q)
      /\ EventsOf(Append(q, x)) = EventsOf(q) \cup {n \in Nat : x = EventItem(n)}
  BY AppendFacts, MessagesAreEvents, EventsAppend
<1>2. \A n \in Nat : IsEvent(EventItem(n))
  BY ItemFacts DEF IsEvent
<1>3. \A n \in Nat : x = EventItem(n) => {m \in Nat : x = EventItem(m)} = {n}
  BY EventItemFacts
<1>4. ~ IsEvent(x) => {m \in Nat : x = EventItem(m)} = {}
  BY <1>2
<1> QED BY <1>1, <1>3, <1>4

(* The head of a queue is its oldest message, or no message.               *)
LEMMA MessagesTail ==
    ASSUME NEW q \in Seq(Item), q # <<>>, Ascending(q)
    PROVE  /\ ~ IsEvent(Head(q)) => Messages(Tail(q)) = Messages(q)
           /\ IsEvent(Head(q)) =>
                 /\ Messages(Tail(q)) = Messages(q) \ {Head(q).n}
                 /\ Channel!Oldest(Messages(q)) = {Head(q).n}
<1>1. /\ Tail(q) \in Seq(Item) /\ Head(q) = q[1] /\ 1 \in DOMAIN q /\ <<>> \in Seq(Item)
      /\ <<>> \o q = q /\ <<>> \o Tail(q) = Tail(q) /\ DOMAIN q = 1..Len(q)
  BY TailFacts
<1>2. Messages(Tail(q)) = EventsOf(Tail(q)) /\ Messages(q) = EventsOf(q)
  BY <1>1, MessagesAreEvents
<1>3. /\ ~ IsEvent(Head(q)) => EventsOf(Tail(q)) = EventsOf(q)
      /\ IsEvent(Head(q)) => EventsOf(Tail(q)) = EventsOf(q) \ {Head(q).n}
  <2> DEFINE d == <<>>
  <2>1. d \in Seq(Item) /\ d \o q = q /\ d \o Tail(q) = Tail(q)
    BY <1>1
  <2> HIDE DEF d
  <2>2. /\ ~ IsEvent(Head(q)) => EventsOf(d \o Tail(q)) = EventsOf(d \o q)
        /\ IsEvent(Head(q)) /\ Ascending(d \o q) =>
              EventsOf(d \o Tail(q)) = EventsOf(d \o q) \ {Head(q).n}
    BY <2>1, EventsEvict
  <2> QED BY <2>1, <2>2
<1>4. ASSUME IsEvent(Head(q)) PROVE Channel!Oldest(Messages(q)) = {Head(q).n}
  <2>1. Head(q).n \in Messages(q)
    BY <1>1, <1>4 DEF Messages
  <2>2. \A i \in DOMAIN q : IsEvent(q[i]) => q[1].n <= q[i].n /\ q[i].n \in Nat
    <3> SUFFICES ASSUME NEW i \in DOMAIN q, IsEvent(q[i])
                 PROVE  q[1].n <= q[i].n /\ q[i].n \in Nat
      OBVIOUS
    <3>1. q[i].n \in Nat /\ q[1].n \in Nat /\ (i = 1 \/ 1 < i)
      BY <1>1, ItemTypes
    <3> QED BY <1>1, <1>4, <3>1 DEF Ascending, IsEvent
  <2>3. \A m \in Messages(q) : Head(q).n <= m /\ m \in Nat
    BY <1>1, <2>2 DEF Messages
  <2> QED BY <2>1, <2>3 DEF Channel!Oldest
<1> QED BY <1>2, <1>3, <1>4

LEMMA TellsFacts ==
    ASSUME NEW q \in Seq(Item)
    PROVE  /\ \A x \in Item : Tells(Append(q, x)) <=> Tells(q) \/ IsMarker(x)
           /\ q # <<>> => (Tells(q) <=> IsMarker(Head(q)) \/ Tells(Tail(q)))
<1>1. ASSUME NEW x \in Item PROVE Tells(Append(q, x)) <=> Tells(q) \/ IsMarker(x)
  <2>1. /\ DOMAIN Append(q, x) = 1..(Len(q) + 1) /\ DOMAIN q = 1..Len(q) /\ Len(q) \in Nat
        /\ Append(q, x)[Len(q) + 1] = x /\ \A i \in 1..Len(q) : Append(q, x)[i] = q[i]
    BY AppendFacts
  <2> QED BY <2>1 DEF Tells
<1>2. ASSUME q # <<>> PROVE Tells(q) <=> IsMarker(Head(q)) \/ Tells(Tail(q))
  <2>1. /\ DOMAIN Tail(q) = 1..(Len(q) - 1) /\ DOMAIN q = 1..Len(q) /\ Len(q) \in Nat
        /\ Head(q) = q[1] /\ 1 \in DOMAIN q /\ \A i \in 1..(Len(q) - 1) : Tail(q)[i] = q[i + 1]
    BY <1>2, TailFacts
  <2>2. \A i \in DOMAIN q : i = 1 \/ (i - 1 \in DOMAIN Tail(q) /\ Tail(q)[i - 1] = q[i])
    BY <2>1
  <2>3. \A i \in DOMAIN Tail(q) : i + 1 \in DOMAIN q /\ Tail(q)[i] = q[i + 1]
    BY <2>1
  <2> QED BY <2>1, <2>2, <2>3 DEF Tells
<1> QED BY <1>1, <1>2

LEMMA ReceivedAppend ==
    ASSUME NEW d \in Seq(Item), NEW x \in Item
    PROVE  AsReceived(Append(d, x)) = Append(AsReceived(d), IF IsEvent(x) THEN x.n ELSE 0)
<1> DEFINE m(i) == IF IsEvent(i) THEN i.n ELSE 0
<1>1. \A i \in Item : m(i) \in Nat
  BY DEF Item
<1>2. /\ DOMAIN Append(d, x) = 1..(Len(d) + 1) /\ DOMAIN d = 1..Len(d) /\ Len(d) \in Nat
      /\ Append(d, x)[Len(d) + 1] = x /\ \A i \in 1..Len(d) : Append(d, x)[i] = d[i]
      /\ \A i \in 1..Len(d) : d[i] \in Item
  BY AppendFacts
<1> HIDE DEF m
<1>3. AsReceived(d) = [i \in 1..Len(d) |-> m(d[i])]
  BY <1>2 DEF AsReceived, m
<1>4. AsReceived(Append(d, x)) = [i \in 1..(Len(d) + 1) |-> m(Append(d, x)[i])]
  BY <1>2 DEF AsReceived, m
<1>5. AsReceived(d) \in Seq(Nat) /\ Len(AsReceived(d)) = Len(d)
  BY <1>1, <1>2, <1>3
<1>6. Append(AsReceived(d), m(x)) = [i \in 1..(Len(d) + 1) |-> m(Append(d, x)[i])]
  BY <1>1, <1>2, <1>3, <1>5
<1> QED BY <1>4, <1>6 DEF m

(* Putting an item with force loses the oldest message or none.            *)
LEMMA ForcePutMessages ==
    ASSUME NEW q \in Seq(Item), Ascending(q), NEW x \in Item, ~ IsEvent(x),
           maxsize \in Nat \ {0}
    PROVE  /\ Messages(ForcePut(q, x))
                 \in {Messages(q), Messages(q) \ Channel!Oldest(Messages(q))}
           /\ Tells(ForcePut(q, x)) => Tells(q) \/ IsMarker(x)
<1> DEFINE r == IF HasRoom(q) THEN q ELSE Tail(q)
<1>1. /\ r \in Seq(Item) /\ (Tells(r) => Tells(q))
      /\ Messages(r) \in {Messages(q), Messages(q) \ Channel!Oldest(Messages(q))}
  <2>1. CASE HasRoom(q)
    BY <2>1
  <2>2. CASE ~ HasRoom(q)
    <3>1. q # <<>> /\ r = Tail(q) /\ Tail(q) \in Seq(Item)
      BY <2>2, TailFacts DEF HasRoom
    <3> HIDE DEF r
    <3> QED BY <3>1, MessagesTail, TellsFacts
  <2> QED BY <2>1, <2>2
<1>2. ForcePut(q, x) = Append(r, x)
  BY DEF ForcePut
<1> HIDE DEF r
<1> QED BY <1>1, <1>2, MessagesAppend, TellsFacts

-----------------------------------------------------------------------------
(* Every step of the bus is one of the channel, or none.                   *)
LEMMA EmitSends == ASSUME Inv, LossInv, Emit PROVE Channel!Send
<1> DEFINE q == QueueAfterMarker
           e == EventItem(emitted + 1)
<1>1. /\ ~ closed /\ emitted' = emitted + 1 /\ emitted \in Nat /\ maxsize \in Nat \ {0}
      /\ delivered' = delivered /\ closed' = closed /\ finished' = finished
  BY StreamBusAssumption DEF Emit, Inv, TypeOK
<1>2. /\ queue \in Seq(Item) /\ dropped \in Nat /\ q \in Seq(Item) /\ Ascending(q)
      /\ DroppedAfterMarker \in Nat
  BY MarkerBalance, MarkerFacts, ProperItemFacts, StreamBusAssumption
     DEF Inv, TypeOK, Continues
<1>3. /\ e \in Item /\ IsEvent(e) /\ ~ IsMarker(e) /\ emitted + 1 \in Nat
  BY <1>1, ItemFacts DEF IsEvent, IsMarker
<1>4. /\ Messages(q) = Messages(queue)
      /\ Told <=> DroppedAfterMarker > 0 \/ Tells(delivered) \/ Tells(q)
  <2>1. CASE Announces
    <3>1. /\ q = Append(queue, Marker(dropped)) /\ DroppedAfterMarker = 0 /\ dropped > 0
      BY <2>1 DEF QueueAfterMarker, DroppedAfterMarker, Announces
    <3>2. /\ Marker(dropped) \in Item /\ IsMarker(Marker(dropped))
          /\ ~ IsEvent(Marker(dropped))
      BY <1>2, ItemFacts DEF IsMarker, IsEvent
    <3>3. Messages(Append(queue, Marker(dropped))) = Messages(queue)
      BY <1>2, <3>2, MessagesAppend
    <3>4. Tells(Append(queue, Marker(dropped)))
      BY <1>2, <3>2, TellsFacts
    <3> HIDE DEF q
    <3> QED BY <3>1, <3>3, <3>4 DEF Told
  <2>2. CASE ~ Announces
    BY <2>2 DEF QueueAfterMarker, DroppedAfterMarker, Told
  <2> QED BY <2>1, <2>2
<1> HIDE DEF q, e
<1>5. UNCHANGED AsReceived(delivered) /\ (~ closed)' = ~ closed /\ finished' = finished
  BY <1>1
<1>6. \A r \in Seq(Item) : /\ Append(r, e) \in Seq(Item)
                           /\ Messages(Append(r, e)) = Messages(r) \cup {emitted + 1}
                           /\ Tells(Append(r, e)) <=> Tells(r)
  BY <1>3, MessagesAppend, TellsFacts DEF e
<1>7. CASE HasRoom(q) /\ queue' = Append(q, e) /\ dropped' = DroppedAfterMarker
  <2>1. Messages(queue') = Messages(queue) \cup {emitted + 1}
    BY <1>2, <1>4, <1>6, <1>7
  <2>2. Told' = Told
    BY <1>1, <1>2, <1>4, <1>6, <1>7 DEF Told
  <2> QED BY <1>1, <1>5, <2>1, <2>2 DEF Channel!Send
<1>8. CASE /\ ~ HasRoom(q) /\ queue' = Replace(q, e) /\ dropped' = DroppedAfterMarker + 1
  <2>1. q # <<>> /\ Tail(q) \in Seq(Item) /\ queue' = Append(Tail(q), e)
    BY <1>1, <1>2, <1>8, TailFacts DEF HasRoom, Replace
  <2>2. Messages(queue') = Messages(Tail(q)) \cup {emitted + 1}
    BY <1>6, <2>1
  <2>3. Told' = TRUE
    BY <1>2, <1>8 DEF Told
  <2>4. CASE IsEvent(Head(q))
    <3>1. Messages(Tail(q)) = Messages(queue) \ Channel!Oldest(Messages(queue))
      BY <1>2, <1>4, <2>1, <2>4, MessagesTail
    <3> QED BY <1>1, <1>5, <2>2, <2>3, <3>1 DEF Channel!Send
  <2>5. CASE ~ IsEvent(Head(q))
    <3>1. Messages(Tail(q)) = Messages(queue)
      BY <1>2, <1>4, <2>1, <2>5, MessagesTail
    <3>2. Head(q) # Sentinel /\ Head(q) \in ProperItem
      <4>1. q[1] = Head(q) /\ 1 \in DOMAIN q /\ q \in Seq(ProperItem)
        BY <1>2, <2>1, TailFacts, MarkerBalance DEF q
      <4> QED BY <1>1, <4>1, MarkerFacts DEF q, Inv, SentinelLast
    <3>3. IsMarker(Head(q))
      BY <2>5, <3>2, ProperItemFacts
    <3>4. Told
      BY <1>2, <1>4, <2>1, <3>3, TellsFacts
    <3>5. Told' = Told
      BY <2>3, <3>4 DEF Told
    <3> QED BY <1>1, <1>5, <2>2, <3>1, <3>5 DEF Channel!Send
  <2> QED BY <2>4, <2>5
<1>9. CASE queue' = q /\ dropped' = DroppedAfterMarker + 1
  <2>1. Told' = TRUE /\ Messages(queue') = Messages(queue)
    BY <1>2, <1>4, <1>9 DEF Told
  <2> QED BY <1>1, <1>5, <2>1 DEF Channel!Send
<1> QED BY <1>1, <1>7, <1>8, <1>9 DEF Emit, q, e

LEMMA CloseCloses == ASSUME Inv, LossInv, Close PROVE Channel!Close
<1> DEFINE q == IF dropped > 0 THEN ForcePut(queue, Marker(dropped)) ELSE queue
           T == Messages(queue)
           one == T \ Channel!Oldest(T)
<1>1. /\ ~ closed /\ closed' = TRUE /\ dropped' = 0 /\ queue' = ForcePut(q, Sentinel)
      /\ emitted' = emitted /\ delivered' = delivered /\ finished' = finished
  BY DEF Close, ClosedQueue
<1>2. /\ queue \in Seq(Item) /\ Ascending(queue) /\ dropped \in Nat /\ maxsize \in Nat \ {0}
      /\ Continues(queue) /\ Len(queue) <= maxsize
      /\ \A i \in DOMAIN queue : queue[i] # Sentinel
  BY <1>1, StreamBusAssumption DEF Inv, TypeOK, Continues, SentinelLast
<1>3. /\ Marker(dropped) \in Item /\ ~ IsEvent(Marker(dropped))
      /\ Marker(dropped).kind # "event" /\ Marker(dropped) # Sentinel
      /\ Sentinel \in Item /\ ~ IsEvent(Sentinel) /\ ~ IsMarker(Sentinel)
  BY <1>2, ItemFacts DEF IsEvent, IsMarker
<1>4. q \in Seq(Item) /\ Ascending(q)
  BY <1>2, <1>3, ForcePutFacts DEF Continues
<1>5. Messages(q) \in {T, one} /\ (Tells(q) => dropped > 0 \/ Tells(queue))
  BY <1>2, <1>3, ForcePutMessages
<1> HIDE DEF q
<1>6. /\ Messages(queue') \in {Messages(q), Messages(q) \ Channel!Oldest(Messages(q))}
      /\ Tells(queue') => Tells(q)
  BY <1>1, <1>2, <1>3, <1>4, ForcePutMessages
<1>7. Messages(queue') \in {T, one, one \ Channel!Oldest(one)}
  BY <1>5, <1>6
<1>8. Told' => Told
  BY <1>1, <1>2, <1>5, <1>6 DEF Told
<1>9. Told' \in {FALSE, Told}
  BY <1>8 DEF Told
<1> QED BY <1>1, <1>7, <1>9 DEF Channel!Close

LEMMA DeliverReceives ==
    ASSUME Inv, LossInv, Deliver
    PROVE  Channel!Receive \/ Channel!Hear \/ Channel!End
<1> DEFINE h == Head(queue)
<1>1. /\ ~ finished /\ queue # <<>> /\ queue' = Tail(queue)
      /\ UNCHANGED <<closed, dropped, emitted>>
      /\ IF h = Sentinel THEN finished' = TRUE /\ delivered' = delivered
                         ELSE delivered' = Append(delivered, h) /\ finished' = finished
  BY DEF Deliver
<1>2. /\ queue \in Seq(Item) /\ delivered \in Seq(Item) /\ Ascending(queue)
      /\ h \in ProperItem /\ h \in Item /\ h = queue[1] /\ 1 \in DOMAIN queue
      /\ DOMAIN queue = 1..Len(queue)
  <2>1. queue \in Seq(Item) /\ delivered \in Seq(Item) /\ Ascending(queue)
    BY DEF Inv, TypeOK, Continues
  <2>2. h = queue[1] /\ 1 \in DOMAIN queue /\ DOMAIN queue = 1..Len(queue)
    BY <1>1, <2>1, TailFacts
  <2>3. h \in ProperItem
    BY <2>2 DEF LossInv
  <2> QED BY <2>1, <2>2, <2>3, ProperItemFacts
<1> HIDE DEF h
<1>3. CASE h = Sentinel
  <2>1. closed /\ Len(queue) = 1
    BY <1>2, <1>3 DEF Inv, SentinelLast
  <2>2. Messages(queue) = {}
    <3>1. \A i \in DOMAIN queue : i = 1
      BY <1>2, <2>1
    <3>2. ~ IsEvent(queue[1])
      BY <1>2, <1>3, ProperItemFacts
    <3> QED BY <3>1, <3>2 DEF Messages
  <2>3. Messages(queue') = Messages(queue) /\ (Tells(queue') <=> Tells(queue))
    BY <1>1, <1>2, <1>3, ProperItemFacts, MessagesTail, TellsFacts DEF h
  <2>4. Told' = Told
    BY <1>1, <1>3, <2>3 DEF Told
  <2>5. Channel!End
    BY <1>1, <1>3, <2>1, <2>2, <2>3, <2>4 DEF Channel!End
  <2> QED BY <2>5
<1>4. CASE h # Sentinel
  <2>1. /\ delivered' = Append(delivered, h) /\ finished' = finished
        /\ AsReceived(delivered') = Append(AsReceived(delivered), IF IsEvent(h) THEN h.n ELSE 0)
    BY <1>1, <1>2, <1>4, ReceivedAppend
  <2>2. Told' = Told
    <3>1. /\ Tells(delivered') <=> Tells(delivered) \/ IsMarker(h)
          /\ Tells(queue) <=> IsMarker(h) \/ Tells(queue')
      BY <1>1, <1>2, <2>1, TellsFacts DEF h
    <3> QED BY <1>1, <3>1 DEF Told
  <2>3. CASE IsEvent(h)
    <3>1. /\ Messages(queue') = Messages(queue) \ {h.n}
          /\ Channel!Oldest(Messages(queue)) = {h.n}
      BY <1>1, <1>2, <2>3, MessagesTail DEF h
    <3>2. AsReceived(delivered') = Append(AsReceived(delivered), h.n)
      BY <2>1, <2>3
    <3>3. Channel!Receive
      BY <1>1, <2>1, <2>2, <3>1, <3>2 DEF Channel!Receive
    <3> QED BY <3>3
  <2>4. CASE ~ IsEvent(h)
    <3>1. IsMarker(h)
      BY <1>2, <1>4, <2>4, ProperItemFacts
    <3>2. Told
      BY <1>1, <1>2, <3>1, TellsFacts DEF h, Told
    <3>3. Messages(queue') = Messages(queue)
      BY <1>1, <1>2, <2>4, MessagesTail DEF h
    <3>4. AsReceived(delivered') = Append(AsReceived(delivered), 0)
      BY <2>1, <2>4
    <3>5. Channel!Hear
      BY <1>1, <2>1, <2>2, <3>2, <3>3, <3>4 DEF Channel!Hear, Channel!Notice
    <3> QED BY <3>5
  <2> QED BY <2>3, <2>4
<1> QED BY <1>3, <1>4

(* A bus of any size and either policy is a lossy channel: emit loses at   *)
(* most the oldest or the new event and never in silence, close at most    *)
(* two more, what arrives arrives in order and once, and the end behind    *)
(* everything that is left (Requirements 5.2, 5.3, 5.5).                   *)
THEOREM ChannelImplemented == Spec => ChannelSpec
<1>1. Init => Channel!Init
  <2> SUFFICES ASSUME Init PROVE Channel!Init
    OBVIOUS
  <2>1. /\ Messages(queue) = {} /\ AsReceived(delivered) = <<>>
        /\ ~ Tells(delivered) /\ ~ Tells(queue)
    BY DEF Init, Messages, AsReceived, Tells
  <2> QED BY <2>1 DEF Init, Channel!Init, Told
<1>2. Inv /\ LossInv /\ [Next]_vars => [Channel!Next]_Channel!vars
  <2> SUFFICES ASSUME Inv, LossInv, [Next]_vars PROVE [Channel!Next]_Channel!vars
    OBVIOUS
  <2>1. CASE UNCHANGED vars
    BY <2>1 DEF vars, Channel!vars, Messages, AsReceived, Told, Tells
  <2> QED BY <2>1, EmitSends, CloseCloses, DeliverReceives DEF Next, Channel!Next
<1> QED BY <1>1, <1>2, Invariance, LossInvariance, PTL DEF Spec, ChannelSpec, Channel!Spec

-----------------------------------------------------------------------------
(* A bus larger than the run loses nothing.                                *)
AllThere ==
    emitted < maxsize =>
        /\ dropped = 0
        /\ Len(delivered) + Len(queue) =
              IF closed /\ ~ finished THEN emitted + 1 ELSE emitted
        /\ \A i \in DOMAIN delivered : delivered[i] = EventItem(i)
        /\ \A j \in DOMAIN queue :
              Len(delivered) + j <= emitted => queue[j] = EventItem(Len(delivered) + j)

(* What the queue, or what was delivered, shows of the end of the run.     *)
Shows(q) == \E i \in DOMAIN q : q[i] = EventItem(emitted) \/ IsMarker(q[i])

(* Under DROP_OLDEST the last event is the last item of an open queue, so  *)
(* that close evicts it from a queue of two or more only if there is a     *)
(* marker behind it.                                                       *)
LastWord ==
    policy = "drop_oldest" /\ emitted > 0 =>
        \/ Shows(delivered)
        \/ ~ closed /\ queue # <<>> /\ queue[Len(queue)] = EventItem(emitted)
        \/ closed /\ (maxsize >= 2 => Shows(queue))

LEMMA BasicFacts ==
    ASSUME Inv
    PROVE  /\ queue \in Seq(Item) /\ delivered \in Seq(Item)
           /\ maxsize \in Nat \ {0} /\ emitted \in Nat /\ dropped \in Nat
           /\ Len(queue) \in Nat /\ Len(delivered) \in Nat /\ Len(queue) <= maxsize
           /\ DOMAIN queue = 1..Len(queue) /\ DOMAIN delivered = 1..Len(delivered)
BY StreamBusAssumption DEF Inv, TypeOK

LEMMA AllThereStep == ASSUME Inv, AllThere, [Next]_vars PROVE AllThere'
<1> USE BasicFacts
<1> SUFFICES ASSUME emitted' < maxsize'
             PROVE  /\ dropped' = 0
                    /\ Len(delivered') + Len(queue') =
                          IF closed' /\ ~ finished' THEN emitted' + 1 ELSE emitted'
                    /\ \A i \in DOMAIN delivered' : delivered'[i] = EventItem(i)
                    /\ \A j \in DOMAIN queue' :
                          Len(delivered') + j <= emitted'
                              => queue'[j] = EventItem(Len(delivered') + j)
  BY DEF AllThere, EventItem
<1>1. CASE Emit
  <2>1. /\ ~ closed /\ ~ finished /\ emitted' = emitted + 1
        /\ UNCHANGED <<maxsize, closed, finished, delivered>>
    BY <1>1 DEF Emit, Inv, SentinelLast
  <2>2. dropped = 0 /\ Len(delivered) + Len(queue) = emitted
    BY <2>1 DEF AllThere
  <2>3. QueueAfterMarker = queue /\ DroppedAfterMarker = 0 /\ HasRoom(queue)
    BY <2>1, <2>2 DEF QueueAfterMarker, DroppedAfterMarker, Announces, HasRoom
  <2>4. queue' = Append(queue, EventItem(emitted + 1)) /\ dropped' = 0
    BY <1>1, <2>1, <2>3 DEF Emit
  <2>5. EventItem(emitted + 1) \in Item
    BY ItemFacts
  <2>6. /\ Len(queue') = Len(queue) + 1
        /\ \A j \in DOMAIN queue' : \/ j \in DOMAIN queue /\ queue'[j] = queue[j]
                                    \/ j = Len(queue) + 1 /\ queue'[j] = EventItem(emitted + 1)
    BY <2>4, <2>5, AppendFacts
  <2>7. ASSUME NEW j \in DOMAIN queue', Len(delivered') + j <= emitted'
        PROVE  queue'[j] = EventItem(Len(delivered') + j)
    <3>1. CASE j \in DOMAIN queue /\ queue'[j] = queue[j]
      BY <2>1, <2>2, <3>1 DEF AllThere
    <3>2. CASE j = Len(queue) + 1 /\ queue'[j] = EventItem(emitted + 1)
      <4>1. Len(delivered') + j = emitted + 1
        BY <2>1, <2>2, <3>2
      <4> QED BY <3>2, <4>1
    <3> QED BY <2>6, <3>1, <3>2
  <2>8. \A i \in DOMAIN delivered' : delivered'[i] = EventItem(i)
    BY <2>1 DEF AllThere
  <2> QED BY <2>1, <2>2, <2>4, <2>6, <2>7, <2>8
<1>2. CASE Close
  <2>1. /\ ~ closed /\ ~ finished /\ closed' /\ dropped' = 0
        /\ UNCHANGED <<maxsize, emitted, finished, delivered>>
    BY <1>2 DEF Close, Inv, SentinelLast
  <2>2. dropped = 0 /\ Len(delivered) + Len(queue) = emitted
    BY <2>1 DEF AllThere
  <2>3. queue' = Append(queue, Sentinel)
    BY <1>2, <2>1, <2>2 DEF Close, ClosedQueue, ForcePut, HasRoom
  <2>4. \A j \in DOMAIN queue' : Len(delivered) + j <= emitted
                                    => j \in DOMAIN queue /\ queue'[j] = queue[j]
    BY <2>2, <2>3, ItemFacts, AppendFacts
  <2>5. Len(queue') = Len(queue) + 1
    BY <2>3, ItemFacts, AppendFacts
  <2> QED BY <2>1, <2>2, <2>4, <2>5 DEF AllThere
<1>3. CASE Deliver
  <2>1. /\ ~ finished /\ queue # <<>> /\ queue' = Tail(queue)
        /\ UNCHANGED <<maxsize, closed, dropped, emitted>>
    BY <1>3 DEF Deliver
  <2>2. /\ Len(queue') = Len(queue) - 1 /\ DOMAIN queue' = 1..(Len(queue) - 1)
        /\ \A j \in DOMAIN queue' : queue'[j] = queue[j + 1]
        /\ Head(queue) = queue[1] /\ 1 \in DOMAIN queue /\ queue[1] \in Item
    BY <2>1, TailFacts
  <2>3. CASE Head(queue) = Sentinel
    <3>1. closed /\ Len(queue) = 1 /\ finished' /\ UNCHANGED delivered
      BY <1>3, <2>2, <2>3 DEF Deliver, Inv, SentinelLast
    <3> QED BY <2>1, <2>2, <3>1 DEF AllThere
  <2>4. CASE Head(queue) # Sentinel
    <3>1. delivered' = Append(delivered, queue[1]) /\ UNCHANGED finished
      BY <1>3, <2>2, <2>4 DEF Deliver
    <3>2. Len(delivered) + 1 <= emitted
      <4>1. CASE closed
        <5>1. queue[Len(queue)] = Sentinel
          BY <2>1, <4>1 DEF Inv, EndIsComing
        <5>2. Len(queue) # 1
          BY <2>2, <2>4, <5>1
        <5> QED BY <2>1, <2>2, <4>1, <5>2 DEF AllThere
      <4>2. CASE ~ closed
        BY <2>1, <2>2, <4>2 DEF AllThere
      <4> QED BY <4>1, <4>2
    <3>3. queue[1] = EventItem(Len(delivered) + 1)
      BY <2>1, <2>2, <3>2 DEF AllThere
    <3>4. /\ Len(delivered') = Len(delivered) + 1
          /\ \A i \in DOMAIN delivered' : delivered'[i] = EventItem(i)
      BY <2>1, <2>2, <3>1, <3>3, AppendFacts DEF AllThere
    <3>5. \A j \in DOMAIN queue' :
              Len(delivered') + j <= emitted => queue'[j] = EventItem(Len(delivered') + j)
      <4> SUFFICES ASSUME NEW j \in DOMAIN queue', Len(delivered') + j <= emitted
                   PROVE  queue'[j] = EventItem(Len(delivered') + j)
        OBVIOUS
      <4>1. j + 1 \in DOMAIN queue /\ queue'[j] = queue[j + 1]
        BY <2>2
      <4>2. Len(delivered) + (j + 1) = Len(delivered') + j
        BY <2>2, <3>4
      <4> QED BY <2>1, <4>1, <4>2 DEF AllThere
    <3> QED BY <2>1, <2>2, <3>1, <3>4, <3>5 DEF AllThere
  <2> QED BY <2>3, <2>4
<1>4. CASE UNCHANGED vars
  BY <1>4 DEF vars, AllThere
<1> QED BY <1>1, <1>2, <1>3, <1>4 DEF Next

(* What stands last survives the eviction that makes room behind it.       *)
LEMMA ForcePutKeepsLast ==
    ASSUME NEW q \in Seq(Item), q # <<>>, maxsize \in Nat, maxsize >= 2,
           Len(q) <= maxsize, NEW x \in Item
    PROVE  \E i \in DOMAIN ForcePut(q, x) : ForcePut(q, x)[i] = q[Len(q)]
<1>1. Len(q) \in Nat /\ Len(q) \in DOMAIN q /\ DOMAIN q = 1..Len(q)
  OBVIOUS
<1>2. CASE HasRoom(q)
  <2>1. ForcePut(q, x) = Append(q, x)
    BY <1>2 DEF ForcePut
  <2>2. Len(q) \in DOMAIN Append(q, x) /\ Append(q, x)[Len(q)] = q[Len(q)]
    BY <1>1, AppendFacts
  <2> QED BY <2>1, <2>2
<1>3. CASE ~ HasRoom(q)
  <2>1. ForcePut(q, x) = Append(Tail(q), x) /\ Len(q) >= 2
    BY <1>1, <1>3 DEF ForcePut, HasRoom
  <2>2. /\ Tail(q) \in Seq(Item) /\ Len(Tail(q)) = Len(q) - 1
        /\ Len(q) - 1 \in DOMAIN Tail(q) /\ Tail(q)[Len(q) - 1] = q[Len(q)]
    BY <1>1, <2>1, TailFacts
  <2>3. Len(q) - 1 \in DOMAIN Append(Tail(q), x)
        /\ Append(Tail(q), x)[Len(q) - 1] = Tail(q)[Len(q) - 1]
    BY <1>1, <2>2, AppendFacts
  <2> QED BY <2>1, <2>2, <2>3
<1> QED BY <1>2, <1>3

LEMMA LastWordStep == ASSUME Inv, LastWord, [Next]_vars PROVE LastWord'
<1> USE BasicFacts
<1> SUFFICES ASSUME policy' = "drop_oldest", emitted' > 0
             PROVE  \/ Shows(delivered)'
                    \/ ~ closed' /\ queue' # <<>> /\ queue'[Len(queue')] = EventItem(emitted')
                    \/ closed' /\ (maxsize' >= 2 => Shows(queue)')
  BY DEF LastWord, EventItem
<1>1. CASE Emit
  <2>1. ~ closed' /\ emitted' = emitted + 1 /\ policy = "drop_oldest"
    BY <1>1 DEF Emit
  <2>2. QueueAfterMarker \in Seq(Item) /\ EventItem(emitted + 1) \in Item
        /\ Len(QueueAfterMarker) <= maxsize
    BY MarkerFacts, ItemFacts DEF Continues
  <2>3. CASE queue' = Append(QueueAfterMarker, EventItem(emitted + 1))
    BY <2>1, <2>2, <2>3, AppendFacts
  <2>4. CASE queue' = Append(Tail(QueueAfterMarker), EventItem(emitted + 1))
            /\ ~ HasRoom(QueueAfterMarker)
    <3>1. QueueAfterMarker # <<>>
      BY <2>2, <2>4 DEF HasRoom
    <3> QED BY <2>1, <2>2, <2>4, <3>1, TailFacts, AppendFacts
  <2> QED BY <1>1, <2>1, <2>3, <2>4 DEF Emit, Replace
<1>2. CASE Close
  <2> DEFINE q == IF dropped > 0 THEN ForcePut(queue, Marker(dropped)) ELSE queue
  <2>1. /\ ~ closed /\ closed' /\ queue' = ForcePut(q, Sentinel)
        /\ UNCHANGED <<maxsize, policy, emitted, delivered>>
    BY <1>2 DEF Close, ClosedQueue
  <2>2. Shows(delivered) => Shows(delivered)'
    BY <2>1 DEF Shows
  <2>3. ASSUME ~ Shows(delivered), maxsize >= 2 PROVE Shows(queue)'
    <3>1. queue # <<>> /\ queue[Len(queue)] = EventItem(emitted)
      BY <2>1, <2>3 DEF LastWord
    <3>2. /\ q \in Seq(Item) /\ q # <<>> /\ Len(q) <= maxsize
          /\ q[Len(q)] = EventItem(emitted) \/ IsMarker(q[Len(q)])
      <4>1. CASE dropped > 0
        <5>1. /\ Continues(queue) /\ \A i \in DOMAIN queue : queue[i] # Sentinel
              /\ Marker(dropped) \in Item /\ Marker(dropped).kind = "dropped"
          BY <2>1, ItemFacts DEF Inv, SentinelLast
        <5> QED BY <4>1, <5>1, ForcePutFacts DEF Continues, IsMarker
      <4>2. CASE ~ (dropped > 0)
        BY <3>1, <4>2
      <4> QED BY <4>1, <4>2
    <3> HIDE DEF q
    <3>3. PICK i \in DOMAIN queue' : queue'[i] = q[Len(q)]
      BY <2>1, <2>3, <3>2, ItemFacts, ForcePutKeepsLast
    <3> QED BY <2>1, <3>2, <3>3 DEF Shows
  <2> QED BY <2>1, <2>2, <2>3
<1>3. CASE Deliver
  <2>1. /\ queue # <<>> /\ queue' = Tail(queue) /\ ~ finished
        /\ UNCHANGED <<maxsize, policy, closed, dropped, emitted>>
    BY <1>3 DEF Deliver
  <2>2. /\ Len(queue') = Len(queue) - 1 /\ DOMAIN queue' = 1..(Len(queue) - 1)
        /\ \A j \in DOMAIN queue' : queue'[j] = queue[j + 1]
        /\ Head(queue) = queue[1] /\ 1 \in DOMAIN queue /\ queue[1] \in Item
    BY <2>1, TailFacts
  <2>3. \/ queue[1] = Sentinel /\ delivered' = delivered
        \/ delivered' = Append(delivered, queue[1])
    BY <1>3, <2>2 DEF Deliver
  <2>4. Shows(delivered) => Shows(delivered)'
    <3>1. ASSUME NEW i \in DOMAIN delivered
          PROVE  i \in DOMAIN delivered' /\ delivered'[i] = delivered[i]
      BY <2>2, <2>3, AppendFacts
    <3> QED BY <2>1, <3>1 DEF Shows
  <2>5. ASSUME queue[1] = EventItem(emitted) \/ IsMarker(queue[1])
        PROVE  Shows(delivered)'
    <3>1. queue[1] # Sentinel
      BY <2>5, ItemFacts DEF IsMarker
    <3>2. delivered' = Append(delivered, queue[1])
      BY <2>3, <3>1
    <3>3. Len(delivered) + 1 \in DOMAIN delivered' /\ delivered'[Len(delivered) + 1] = queue[1]
      BY <2>2, <3>2, AppendFacts
    <3> QED BY <2>1, <2>5, <3>3 DEF Shows
  <2>6. ASSUME ~ closed, queue[Len(queue)] = EventItem(emitted), Len(queue) # 1
        PROVE  queue' # <<>> /\ queue'[Len(queue')] = EventItem(emitted)
    <3>1. Len(queue) >= 2
      BY <2>2, <2>6
    <3>2. Len(queue') \in DOMAIN queue' /\ Len(queue') + 1 = Len(queue)
      BY <2>2, <3>1
    <3>3. queue'[Len(queue')] = queue[Len(queue)]
      BY <2>2, <3>2
    <3> QED BY <2>6, <3>2, <3>3
  <2>7. ASSUME Shows(queue), ~ (queue[1] = EventItem(emitted) \/ IsMarker(queue[1]))
        PROVE  Shows(queue)'
    <3>1. PICK i \in DOMAIN queue : queue[i] = EventItem(emitted) \/ IsMarker(queue[i])
      BY <2>7 DEF Shows
    <3>2. i - 1 \in DOMAIN queue' /\ queue'[i - 1] = queue[i]
      BY <2>2, <2>7, <3>1
    <3> QED BY <2>1, <3>1, <3>2 DEF Shows
  <2> QED BY <2>1, <2>4, <2>5, <2>6, <2>7 DEF LastWord
<1>4. CASE UNCHANGED vars
  BY <1>4 DEF vars, LastWord, Shows
<1> QED BY <1>1, <1>2, <1>3, <1>4 DEF Next

(* On a bus larger than the number of events nothing is lost and nothing   *)
(* moves: what was delivered and what is queued are the events one after   *)
(* the other.  On a DROP_OLDEST bus of two or more the subscriber that     *)
(* takes everything sees the last event, or a marker: close cannot evict   *)
(* both (streaming.py:251-275).                                            *)
THEOREM LastWordCorrect == Spec => [](Inv /\ AllThere /\ LastWord)
<1>1. Init => AllThere /\ LastWord
  BY DEF Init, AllThere, LastWord
<1>2. Inv /\ AllThere /\ LastWord /\ [Next]_vars => AllThere' /\ LastWord'
  BY AllThereStep, LastWordStep
<1> QED BY <1>1, <1>2, Invariance, PTL DEF Spec
=============================================================================
