---------------------------- MODULE LossyChannel ----------------------------
(***************************************************************************)
(* What a stream bus promises its subscriber, with the queue, its markers  *)
(* and its policies left out: messages 1, 2, 3, ... are sent, what arrives *)
(* arrives in order and once, sending never waits and loses at most one    *)
(* message, of which the receiver is told while the channel is open; it is *)
(* told only of what was lost.  Closing may lose two more without a word,  *)
(* and the end comes only after everything that is left has arrived.       *)
(***************************************************************************)
EXTENDS Naturals, Sequences

VARIABLES
    sent,       \* how many messages have been sent
    transit,    \* the messages still to arrive
    received,   \* the messages and notices of loss that have arrived,
                \* oldest first
    told,       \* the receiver has been or will be told of a loss
    open,       \* the channel has not been closed
    ended       \* the receiver has seen the end

vars == <<sent, transit, received, told, open, ended>>

Notice == 0     \* no message has this number

Oldest(S) == {n \in S : \A m \in S : n <= m}

Init ==
    /\ sent = 0
    /\ transit = {}
    /\ received = <<>>
    /\ told = FALSE
    /\ open = TRUE
    /\ ended = FALSE

(* Nothing is lost, or the oldest message, or the new one.                 *)
Send ==
    /\ open
    /\ sent' = sent + 1
    /\ \/ /\ transit' = transit \cup {sent'}
          /\ told' = told
       \/ /\ transit' = (transit \ Oldest(transit)) \cup {sent'}
          /\ told' = TRUE
       \/ /\ transit' = transit
          /\ told' = TRUE
    /\ UNCHANGED <<received, open, ended>>

Receive ==
    /\ ~ ended
    /\ \E n \in Oldest(transit) :
          /\ received' = Append(received, n)
          /\ transit' = transit \ {n}
    /\ UNCHANGED <<sent, told, open, ended>>

(* A notice arrives among the messages.                                    *)
Hear ==
    /\ ~ ended
    /\ told
    /\ received' = Append(received, Notice)
    /\ UNCHANGED <<sent, transit, told, open, ended>>

Close ==
    /\ open
    /\ open' = FALSE
    /\ LET one == transit \ Oldest(transit)
       IN  transit' \in {transit, one, one \ Oldest(one)}
    /\ told' \in {FALSE, told}
    /\ UNCHANGED <<sent, received, ended>>

End ==
    /\ ~ open
    /\ ~ ended
    /\ transit = {}
    /\ ended' = TRUE
    /\ UNCHANGED <<sent, transit, received, told, open>>

Next == Send \/ Receive \/ Hear \/ Close \/ End

Spec == Init /\ [][Next]_vars
=============================================================================
