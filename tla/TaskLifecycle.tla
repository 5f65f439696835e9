---------------------------- MODULE TaskLifecycle ----------------------------
(***************************************************************************)
(* What a run promises of the steps of a task, with the scheduler, the     *)
(* results and the stream left out: a step is launched only when all its   *)
(* dependencies are COMPLETED, ends once, and a step that never ran may be *)
(* written off only when nothing is running, nothing can be launched, and  *)
(* one of its own dependencies is not COMPLETED.                           *)
(***************************************************************************)
EXTENDS TaskDag

VARIABLES
    deps,       \* the task's dependency relation, fixed for the run
    status      \* the status of each step

vars == <<deps, status>>

Quiescent == \A s \in Steps : status[s] # "running"

Init == /\ deps \in ValidDeps
        /\ status = [s \in Steps |-> "pending"]

(* The steps of a wave start together.                                     *)
Launch ==
    /\ Quiescent
    /\ \E S \in SUBSET ReadySteps(deps, status) :
          /\ S # {}
          /\ status' = [s \in Steps |->
                            IF s \in S THEN "running" ELSE status[s]]
    /\ UNCHANGED deps

End(s) ==
    /\ status[s] = "running"
    /\ \E t \in TerminalStatus : status' = [status EXCEPT ![s] = t]
    /\ UNCHANGED deps

WriteOff(s) ==
    /\ status[s] = "pending"
    /\ Quiescent
    /\ ReadySteps(deps, status) = {}
    /\ Unsatisfied(deps, status, s) # {}
    /\ status' = [status EXCEPT ![s] = "failed"]
    /\ UNCHANGED deps

Next == Launch \/ \E s \in Steps : End(s) \/ WriteOff(s)

Spec == Init /\ [][Next]_vars
=============================================================================
