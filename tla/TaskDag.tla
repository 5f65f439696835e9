------------------------------- MODULE TaskDag -------------------------------
(***************************************************************************)
(* The Task of agentic/models.py as a constant-level structure: N steps,   *)
(* the dependency relation a validated Task may carry, and the queries the *)
(* orchestrator asks of it.  Step s is task.steps[s - 1], so the order of  *)
(* the numbers is the order of the list; a DAG is not required to list a   *)
(* step after its dependencies.                                            *)
(*                                                                         *)
(* An operator X_Mistake is X with one plausible mistake in the code it    *)
(* stands for.  No action uses it: it shows that a property notices.       *)
(***************************************************************************)
EXTENDS Integers

CONSTANT N                              \* the number of steps of the task

ASSUME NAssumption == N \in Nat \ {0}   \* Task.validate refuses an empty list

Steps == 1..N

StepStatus     == {"pending", "running", "completed", "degraded", "failed"}
TerminalStatus == {"completed", "degraded", "failed"}

(* A dependency relation is acyclic when every non-empty set of steps has  *)
(* a member that depends on no member of the set.  A self-dependency is a  *)
(* cycle, and the set of all steps yields the entry point that             *)
(* Task.validate asks for.                                                 *)
Acyclic(d) ==
    \A S \in SUBSET Steps : S # {} => \E s \in S : d[s] \cap S = {}

(* The relations Task.validate accepts (depends_on read as a set).         *)
ValidDeps == {d \in [Steps -> SUBSET Steps] : Acyclic(d)}

(* Dependencies of s that are not COMPLETED.                               *)
Unsatisfied_DegradedCounts(d, st, s) ==
    {p \in d[s] : st[p] \notin {"completed", "degraded"}}
Unsatisfied(d, st, s) == {p \in d[s] : st[p] # "completed"}

(* Task.ready_steps: the PENDING steps all of whose dependencies are       *)
(* COMPLETED.                                                              *)
ReadySteps_ListedBefore(d, st) ==
    {s \in Steps : st[s] = "pending" /\ \A p \in d[s] : st[p] = "completed" /\ p < s}
ReadySteps(d, st) ==
    {s \in Steps : st[s] = "pending" /\ Unsatisfied(d, st, s) = {}}

IsTerminal(st) == \A s \in Steps : st[s] \in TerminalStatus
=============================================================================
