------------------------------- MODULE Custody -------------------------------
(***************************************************************************)
(* What a batcher promises of the requests it is given, with its queue,    *)
(* loops, batches and clock left out: each request is in one pair of hands *)
(* at a time, is sent once, and is settled once by the answer to the batch *)
(* it was sent in.  A request can get lost only after it has left the      *)
(* common queue and only while somebody is in stop(), and the step that    *)
(* loses it settles nothing.                                               *)
(***************************************************************************)
EXTENDS Naturals

CONSTANT Requests

VARIABLES
    custody,    \* where each request is
    stopping    \* whether somebody is in stop()

vars == <<custody, stopping>>

Init == /\ custody = [r \in Requests |-> "new"]
        /\ stopping = FALSE

(* Every request stays where it is or makes one of the given moves.        *)
Moves(allowed) ==
    \A r \in Requests : custody'[r] = custody[r]
                          \/ <<custody[r], custody'[r]>> \in allowed

Accept(r) ==
    /\ custody[r] = "new"
    /\ custody' = [custody EXCEPT ![r] = "held"]
    /\ UNCHANGED stopping

(* A batch goes to the provider, or a drain takes over what is queued and  *)
(* sends its first chunk.                                                  *)
Send ==
    /\ Moves({<<"held", "sent">>, <<"held", "draining">>})
    /\ stopping' \in BOOLEAN

(* A batch is answered, every request of it; a drain sends its next chunk. *)
Settle ==
    /\ Moves({<<"sent", "answered">>, <<"sent", "failed">>, <<"draining", "sent">>})
    /\ stopping' \in BOOLEAN

(* The submitters of R give up.                                            *)
Abandon(R) ==
    /\ \A r \in R : custody[r] \in {"held", "sent", "draining", "lost"}
    /\ custody' = [r \in Requests |-> IF r \in R THEN "abandoned" ELSE custody[r]]
    /\ UNCHANGED stopping

(* A loop or a drain is cancelled with requests in its hands.              *)
Lose ==
    /\ stopping \/ stopping'
    /\ Moves({<<"sent", "lost">>, <<"draining", "lost">>})
    /\ stopping' \in BOOLEAN

Next == \/ Send \/ Settle \/ Lose
        \/ \E r \in Requests : Accept(r)
        \/ \E R \in SUBSET Requests : Abandon(R)

Spec == Init /\ [][Next]_vars
=============================================================================
