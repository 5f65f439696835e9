----------------------------- MODULE MCBatcher -----------------------------
(***************************************************************************)
(* Batcher with interchangeable requests and stoppers.                     *)
(***************************************************************************)
EXTENDS Batcher, TLC

(* Requests stamped by submit(), and by callers with a time to come.       *)
StampedByCallers == {-1, 0}

Interchangeable == Permutations(Requests) \cup Permutations(Stoppers)
=============================================================================
