--------------------------- MODULE TaskValidation ---------------------------
(***************************************************************************)
(* Task.validate of agentic/models.py on a list of N steps: the checks on  *)
(* text, ids and dependencies, then the depth-first search with colours of *)
(* _assert_acyclic, one iteration per step of the specification.           *)
(*                                                                         *)
(* A frame of the search's stack is a node with the dependencies its       *)
(* iterator has still to yield.  depends_on is read as a set and its       *)
(* members are looked at in any order, so every order of a list without    *)
(* repetitions is covered.  The empty list of steps (refused before        *)
(* anything is looked at) is outside N.                                    *)
(*                                                                         *)
(* An operator X_Mistake is X with one plausible mistake in the code it    *)
(* stands for.  No action uses it: it shows that a property notices.       *)
(***************************************************************************)
EXTENDS TaskDag, Sequences

CONSTANT Ids                            \* the step ids that occur

VARIABLES
    blank,      \* the text is empty or only white space
    id,         \* Step.id of each step
    depends,    \* Step.depends_on of each step
    verdict,    \* how far validate() is, or what it decided
    color,      \* the colour of each step
    stack,      \* the frames of the search, the innermost last
    suspect     \* the step the "cycle detected" error names (0: none)

task == <<blank, id, depends>>
vars == <<blank, id, depends, verdict, color, stack, suspect>>

(* The dependencies of s as positions in the list.                         *)
Adjacency == [s \in Steps |-> {t \in Steps : id[t] \in depends[s]}]

Frame_OfIds(s) == [node |-> s, left |-> depends[s]]
Frame(s) == [node |-> s, left |-> Adjacency[s]]
Top == stack[Len(stack)]
White == {s \in Steps : color[s] = "white"}

-----------------------------------------------------------------------------
(* The checks before the search.  An unknown and a self dependency are     *)
(* looked for in the same pass over the list.                              *)
DuplicateId == \E s, t \in Steps : s # t /\ id[s] = id[t]
BadDependency ==
    \E s \in Steps : \E d \in depends[s] : d \notin {id[t] : t \in Steps} \/ d = id[s]
NoEntryPoint == \A s \in Steps : depends[s] # {}

Init ==
    /\ blank \in BOOLEAN
    /\ id \in [Steps -> Ids]
    /\ depends \in [Steps -> SUBSET Ids]
    /\ verdict = "none"
    /\ color = [s \in Steps |-> "white"]
    /\ stack = <<>>
    /\ suspect = 0

Refuse ==
    /\ verdict = "none"
    /\ blank \/ DuplicateId \/ BadDependency \/ NoEntryPoint
    /\ verdict' = "refused"
    /\ UNCHANGED <<task, color, stack, suspect>>

BeginSearch ==
    /\ verdict = "none"
    /\ ~ (blank \/ DuplicateId \/ BadDependency \/ NoEntryPoint)
    /\ verdict' = "searching"
    /\ UNCHANGED <<task, color, stack, suspect>>

(* The next start of the outer loop that is still white.                   *)
NextStart(s) ==
    /\ verdict = "searching" /\ stack = <<>>
    /\ s \in White /\ \A t \in White : s <= t
    /\ color' = [color EXCEPT ![s] = "gray"]
    /\ stack' = <<Frame(s)>>
    /\ UNCHANGED <<task, verdict, suspect>>

(* Does a dependency close a cycle?                                        *)
ClosesCycle_AnySeen(d) == color[d] # "white"
ClosesCycle(d) == color[d] = "gray"

(* Push a dependency on the stack, its parent's iterator moved past it.    *)
Descend(d) ==
    /\ stack' = Append([stack EXCEPT ![Len(stack)].left = @ \ {d}], Frame(d))
    /\ color' = [color EXCEPT ![d] = "gray"]

(* The innermost iterator yields d.                                        *)
LookAt(d) ==
    /\ verdict = "searching" /\ stack # <<>>
    /\ d \in Top.left
    /\ \/ /\ ClosesCycle(d)
          /\ verdict' = "cycle" /\ suspect' = d
          /\ UNCHANGED <<color, stack>>
       \/ /\ ~ ClosesCycle(d) /\ color[d] = "white"
          /\ Descend(d)
          /\ UNCHANGED <<verdict, suspect>>
       \/ /\ ~ ClosesCycle(d) /\ color[d] # "white"
          /\ stack' = [stack EXCEPT ![Len(stack)].left = @ \ {d}]
          /\ UNCHANGED <<verdict, color, suspect>>
    /\ UNCHANGED task

(* The innermost iterator is exhausted.                                    *)
Leave_StaysGray ==
    /\ stack' = SubSeq(stack, 1, Len(stack) - 1)
    /\ UNCHANGED color
Leave_NotTheRoot ==
    /\ Len(stack) > 1
    /\ stack' = SubSeq(stack, 1, Len(stack) - 1)
    /\ color' = [color EXCEPT ![Top.node] = "black"]
Leave ==
    /\ stack' = SubSeq(stack, 1, Len(stack) - 1)
    /\ color' = [color EXCEPT ![Top.node] = "black"]

Backtrack ==
    /\ verdict = "searching" /\ stack # <<>>
    /\ Top.left = {}
    /\ Leave
    /\ UNCHANGED <<task, verdict, suspect>>

Accept ==
    /\ verdict = "searching" /\ stack = <<>> /\ White = {}
    /\ verdict' = "accepted"
    /\ UNCHANGED <<task, color, stack, suspect>>

Next == \/ Refuse \/ BeginSearch \/ Backtrack \/ Accept
        \/ \E s \in Steps : NextStart(s) \/ LookAt(s)

Spec == Init /\ [][Next]_vars

(* validate() is called and runs to its end.                               *)
FairSpec == Spec /\ WF_vars(Next)

-----------------------------------------------------------------------------
(* The search stays among the steps of the task, and its stack is never    *)
(* deeper than the task is long.                                           *)
TypeOK ==
    /\ blank \in BOOLEAN
    /\ id \in [Steps -> Ids]
    /\ depends \in [Steps -> SUBSET Ids]
    /\ verdict \in {"none", "searching", "accepted", "refused", "cycle"}
    /\ color \in [Steps -> {"white", "gray", "black"}]
    /\ stack \in Seq([node : Steps, left : SUBSET Steps]) /\ Len(stack) <= N
    /\ suspect \in Steps \cup {0}

(* What the documentation of Task asks for, with acyclicity by its         *)
(* definition instead of by a search.                                      *)
Valid ==
    /\ ~ blank
    /\ \A s, t \in Steps : id[s] = id[t] => s = t
    /\ \A s \in Steps : depends[s] \subseteq {id[t] : t \in Steps}
    /\ Acyclic(Adjacency)

(* validate() accepts exactly the valid tasks: the orchestrator is handed  *)
(* every relation of ValidDeps and no other.  And the step it names in     *)
(* "Dependency cycle detected involving step" lies on a cycle: it belongs  *)
(* to every set of steps that holds its dependencies and the dependencies  *)
(* of its members.                                                         *)
DecidesValidity ==
    /\ verdict = "accepted" => Valid
    /\ verdict \in {"refused", "cycle"} => ~ Valid
    /\ verdict = "cycle" =>
          \A A \in SUBSET Steps :
              (Adjacency[suspect] \subseteq A /\ \A t \in A : Adjacency[t] \subseteq A)
                  => suspect \in A

(* The colours mean what the search relies on: the gray steps are those on *)
(* the stack, each a dependency of the one below it, and whatever a black  *)
(* step depends on is black.                                               *)
ColoursMeanWhatTheySay ==
    /\ {s \in Steps : color[s] = "gray"} = {stack[i].node : i \in DOMAIN stack}
    /\ \A i \in 1..(Len(stack) - 1) : stack[i + 1].node \in Adjacency[stack[i].node]
    /\ \A s \in Steps : color[s] = "black" =>
          \A t \in Adjacency[s] : color[t] = "black"

(* Validation comes to a decision.                                         *)
Decides == <>(verdict \in {"accepted", "refused", "cycle"})
=============================================================================
