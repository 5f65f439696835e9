--------------------------- MODULE MCAgenticSystem ---------------------------
(***************************************************************************)
(* AgenticSystem with the built-in planner's chain and a plan whose steps  *)
(* share their batches, and providers that show every kind of trouble.     *)
(***************************************************************************)
EXTENDS AgenticSystem, TLC

(* Besides the built-in plan those of an injected planner: three entry     *)
(* points, so that steps share a batch and queue up behind it; and a step  *)
(* that comes after one entry point and meets what the other did to the    *)
(* breaker.                                                                *)
ThreePlans ==
    {[BuiltInPlan EXCEPT !.deps = d] :
        d \in {BuiltInPlan.deps, <<{}, {}, {}>>, <<{}, {}, {1}>>}}

Plain == <<>>
On(g, x) == Pattern(g) :> x
Exact(s, x) == Exactly(Prompt(s, BuiltInPlan.type[s])) :> x

(* Besides the demo's: two patterns that match the same prompts, an exact  *)
(* prompt that fails in another way than the one behind it in its batch,   *)
(* and texts that are not what they seem.                                  *)
Providers == DemoBehaviours \cup {
    [failOn |-> On("*", "transient") @@ On("analyzer", "permanent"), responses |-> Plain],
    [failOn |-> On("writer", "other") @@ Exact(2, "transient"), responses |-> Plain],
    [failOn |-> Plain,
     responses |-> On("*", "plain") @@ Exact(2, "degraded_looking") @@ Exact(3, "blank")]}
=============================================================================
