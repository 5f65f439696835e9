----------------------------- MODULE StreamBus -----------------------------
(***************************************************************************)
(* agentic/streaming.py: StreamBus, a bounded queue between a synchronous  *)
(* producer (emit, close) and one subscriber (the generator of subscribe). *)
(* emit and close contain no await, so each is one step; the subscriber's  *)
(* await on the queue is the only place where it can be overtaken.         *)
(*                                                                         *)
(* Events are numbered by emission; their payload is not modelled.  An     *)
(* emit on a closed bus and a second close change nothing and are          *)
(* stuttering steps.                                                       *)
(*                                                                         *)
(* An operator X_Mistake is X with one plausible mistake in the code it    *)
(* stands for.  No action uses it: it shows that a property notices.       *)
(***************************************************************************)
EXTENDS Integers, Sequences, FiniteSets

CONSTANTS
    Sizes,          \* the values maxsize may be constructed with
    Policies,       \* the policies it may be constructed with
    MaxEvents       \* bound on the number of events emitted

ASSUME StreamBusAssumption ==
    /\ Sizes \subseteq Nat \ {0}
    /\ Policies \subseteq {"drop_oldest", "drop_newest"}  \* REJECT is an alias
    /\ MaxEvents \in Nat

VARIABLES
    maxsize,        \* fixed at construction
    policy,         \* fixed at construction
    queue,          \* _queue, oldest item first
    closed,         \* _closed
    dropped,        \* _dropped: losses not yet put into a marker
    emitted,        \* number of events emitted so far
    delivered,      \* the items the subscriber has been handed, oldest first
    finished        \* the subscriber's generator has returned

vars == <<maxsize, policy, queue, closed, dropped, emitted, delivered, finished>>

EventItem(n) == [kind |-> "event", n |-> n]
Marker(k)    == [kind |-> "dropped", n |-> k]    \* a DROPPED event
Sentinel     == [kind |-> "close", n |-> 0]

Item == [kind : {"event", "dropped", "close"}, n : Nat]

HasRoom_KeepsOneFree(q) == Len(q) < maxsize - 1
HasRoom(q) == Len(q) < maxsize

(* _force_put: evict the oldest item if that is what it takes.             *)
ForcePut_Overfills(q, item) == Append(q, item)
ForcePut_OnlyTries(q, item) == IF HasRoom(q) THEN Append(q, item) ELSE q
ForcePut(q, item) == Append(IF HasRoom(q) THEN q ELSE Tail(q), item)

-----------------------------------------------------------------------------
Init ==
    /\ maxsize \in Sizes
    /\ policy \in Policies
    /\ queue = <<>>
    /\ closed = FALSE
    /\ dropped = 0
    /\ emitted = 0
    /\ delivered = <<>>
    /\ finished = FALSE

(* _drain_pending_marker: what it leaves of the queue and of the count.    *)
Announces == dropped > 0 /\ HasRoom(queue)
QueueAfterMarker == IF Announces THEN Append(queue, Marker(dropped)) ELSE queue
DroppedAfterMarker_NotReset == dropped
DroppedAfterMarker == IF Announces THEN 0 ELSE dropped

(* DROP_OLDEST on a full queue.                                            *)
Replace_Forgets(q, item) == Tail(q)
Replace_InPlace(q, item) == <<item>> \o Tail(q)
Replace(q, item) == Append(Tail(q), item)

Emit ==
    /\ ~ closed
    /\ emitted < MaxEvents
    /\ emitted' = emitted + 1
    /\ \/ /\ HasRoom(QueueAfterMarker)
          /\ queue' = Append(QueueAfterMarker, EventItem(emitted'))
          /\ dropped' = DroppedAfterMarker
       \/ /\ ~ HasRoom(QueueAfterMarker)
          /\ policy = "drop_oldest"
          /\ queue' = Replace(QueueAfterMarker, EventItem(emitted'))
          /\ dropped' = DroppedAfterMarker + 1
       \/ /\ ~ HasRoom(QueueAfterMarker)
          /\ policy = "drop_newest"
          /\ queue' = QueueAfterMarker
          /\ dropped' = DroppedAfterMarker + 1
    /\ UNCHANGED <<maxsize, policy, closed, delivered, finished>>

(* The queue close leaves: a marker if one is owed, then the sentinel.     *)
ClosedQueue ==
    ForcePut(IF dropped > 0 THEN ForcePut(queue, Marker(dropped)) ELSE queue,
             Sentinel)

Close ==
    /\ ~ closed
    /\ closed' = TRUE
    /\ dropped' = 0
    /\ queue' = ClosedQueue
    /\ UNCHANGED <<maxsize, policy, emitted, delivered, finished>>

(* The subscriber takes the oldest item: it is handed on, or ends it.      *)
Deliver ==
    /\ ~ finished
    /\ queue # <<>>
    /\ queue' = Tail(queue)
    /\ IF Head(queue) = Sentinel
       THEN finished' = TRUE /\ UNCHANGED delivered
       ELSE delivered' = Append(delivered, Head(queue)) /\ UNCHANGED finished
    /\ UNCHANGED <<maxsize, policy, closed, dropped, emitted>>

Next == Emit \/ Close \/ Deliver

Spec == Init /\ [][Next]_vars

(* The subscriber keeps asking for the next event.                         *)
FairSpec == Spec /\ WF_vars(Deliver)

-----------------------------------------------------------------------------
(* Everything that has been or can still be handed to the subscriber.      *)
Reachable == delivered \o queue
Visible(n) == EventItem(n) \in {Reachable[i] : i \in DOMAIN Reachable}
Lost == {n \in 1..emitted : ~ Visible(n)}

(* The losses the markers of a sequence tell of: one claim for each, the   *)
(* k-th one of the marker at place i.                                      *)
IsMarker(item) == item.kind = "dropped"
Claims(q) == {c \in (DOMAIN q) \X (1..MaxEvents) :
                 IsMarker(q[c[1]]) /\ c[2] <= q[c[1]].n}

(* The losses the subscriber has been or can still be told about.          *)
Announced == Cardinality(Claims(Reachable)) + dropped

TypeOK ==
    /\ maxsize \in Sizes /\ policy \in Policies
    /\ queue \in Seq(Item) /\ Len(queue) <= maxsize
    /\ closed \in BOOLEAN /\ finished \in BOOLEAN
    /\ dropped \in 0..MaxEvents
    /\ emitted \in 0..MaxEvents
    /\ delivered \in Seq(Item)

(* A sequence of items as the receiver of a lossy channel sees it: the     *)
(* messages in it, what they and the notices arrive as, and whether there  *)
(* is a notice.                                                            *)
IsEvent(item) == item.kind = "event"
Messages(q) == {q[i].n : i \in {k \in DOMAIN q : IsEvent(q[k])}}
AsReceived(q) == [i \in DOMAIN q |-> IF IsEvent(q[i]) THEN q[i].n ELSE 0]
Tells(q) == \E i \in DOMAIN q : IsMarker(q[i])
Told == dropped > 0 \/ Tells(delivered) \/ Tells(queue)

Channel == INSTANCE LossyChannel
              WITH sent     <- emitted,
                   transit  <- Messages(queue),
                   received <- AsReceived(delivered),
                   told     <- Told,
                   open     <- ~ closed,
                   ended    <- finished

(* The bus is a lossy channel: whatever markers and policies do to the     *)
(* queue, the subscriber gets the events in emission order, each at most   *)
(* once, emit loses one at a time and never in silence, a marker arrives   *)
(* only when something was lost, and nothing lies behind the sentinel      *)
(* (Requirements 5.2, 5.3, 5.5).                                           *)
ChannelSpec == Channel!Spec

(* While the bus is open no loss goes unnoticed: whenever an event is gone *)
(* a marker has been delivered, is queued, or is owed.  The markers never  *)
(* claim more losses than there are, although an evicted marker is itself  *)
(* counted as a lost event; and under the policy that evicts nothing they  *)
(* claim exactly as many, until close.                                     *)
LossAccounted ==
    /\ Announced <= Cardinality(Lost)
    /\ ~ closed => /\ Lost # {} => Announced > 0
                   /\ policy = "drop_newest" => Announced = Cardinality(Lost)

(* Under DROP_OLDEST the freshest event is never the one that is lost      *)
(* while the bus is open: marker and eviction together still leave it a    *)
(* slot, maxsize = 1 included.                                             *)
Freshness ==
    (policy = "drop_oldest" /\ ~ closed /\ emitted > 0) => Visible(emitted)

(* Once the bus is closed the subscriber returns, however full the queue   *)
(* was (close, _force_put).                                                *)
SubscriberEnds == closed ~> finished

-----------------------------------------------------------------------------
(* A claim of the documentation that the code does not keep.               *)

(* streaming.py:303: "a subscriber always learns about lost events before  *)
(* the stream ends".                                                       *)
LossAnnouncedByEnd ==
    finished => (Lost # {} => \E i \in DOMAIN delivered :
                                  delivered[i].kind = "dropped")
=============================================================================
