------------------------- MODULE TaskValidationProofs -------------------------
(***************************************************************************)
(* Theorems about TaskValidation.tla, for tasks of every length, with any  *)
(* ids and dependencies: Task.validate accepts the valid tasks and refuses *)
(* the others, and a cycle it reports goes through the step it names.      *)
(***************************************************************************)
EXTENDS TaskValidation, FiniteSetTheorems, FunctionTheorems, TLAPS

Frames == [node : Steps, left : SUBSET Steps]

Types ==
    /\ id \in [Steps -> Ids]
    /\ depends \in [Steps -> SUBSET Ids]
    /\ verdict \in {"none", "searching", "accepted", "refused", "cycle"}
    /\ color \in [Steps -> {"white", "gray", "black"}]
    /\ stack \in Seq(Frames)
    /\ blank \in BOOLEAN /\ suspect \in Steps \cup {0}

(* No step is on the stack twice: only white ones are pushed.              *)
Distinct == \A i, j \in 1..Len(stack) : stack[i].node = stack[j].node => i = j

(* A frame has dependencies of its step left, and has dealt with the       *)
(* others: they are black, or the one that was pushed on top of it.        *)
DealtWith ==
    \A i \in 1..Len(stack) :
        /\ stack[i].left \subseteq Adjacency[stack[i].node]
        /\ \A t \in Adjacency[stack[i].node] \ stack[i].left :
              color[t] = "black" \/ (i < Len(stack) /\ t = stack[i + 1].node)

(* Among the black steps there is no cycle.                                *)
Black == {s \in Steps : color[s] = "black"}
BlackAcyclic == \A S \in SUBSET Black : S # {} => \E s \in S : Adjacency[s] \cap S = {}

(* A step on the stack is reached from every one below it.                 *)
Closed(A) == \A t \in A : Adjacency[t] \subseteq A
Reached ==
    \A A \in SUBSET Steps : Closed(A) =>
        \A i, j \in 1..Len(stack) :
            i < j /\ Adjacency[stack[i].node] \subseteq A => stack[j].node \in A

Faulty == blank \/ DuplicateId \/ BadDependency \/ NoEntryPoint

(* How far validate() is.                                                  *)
Search ==
    /\ verdict \in {"none", "refused"} => stack = <<>>
    /\ verdict \in {"searching", "accepted", "cycle"} => ~ Faulty
    /\ verdict = "accepted" => stack = <<>> /\ White = {}
    /\ verdict = "refused" => Faulty
    /\ verdict = "cycle" =>
          stack # <<>> /\ suspect \in Top.left /\ color[suspect] = "gray"

Inv == /\ Types /\ Distinct /\ DealtWith /\ BlackAcyclic /\ Reached /\ Search
       /\ ColoursMeanWhatTheySay

-----------------------------------------------------------------------------
LEMMA AdjacencyFacts ==
    /\ \A s \in Steps : Adjacency[s] \subseteq Steps
    /\ \A s, t \in Steps : t \in Adjacency[s] <=> id[t] \in depends[s]
    /\ UNCHANGED task => Adjacency' = Adjacency
    /\ \A s \in Steps : Frame(s).node = s /\ Frame(s).left = Adjacency[s] /\ Frame(s) \in Frames
BY DEF Adjacency, task, Frame, Frames

(* Taking d from what the innermost frame has left.                        *)
Taken(q, d) == [q EXCEPT ![Len(q)].left = @ \ {d}]

LEMMA TakenFacts ==
    ASSUME NEW q \in Seq(Frames), q # <<>>, NEW d
    PROVE  /\ Taken(q, d) \in Seq(Frames) /\ Len(Taken(q, d)) = Len(q) /\ Len(q) \in Nat \ {0}
           /\ \A i \in 1..Len(q) :
                 /\ Taken(q, d)[i].node = q[i].node
                 /\ Taken(q, d)[i].left = IF i = Len(q) THEN q[i].left \ {d} ELSE q[i].left
<1>1. Len(q) \in Nat \ {0} /\ \A i \in 1..Len(q) : q[i] \in Frames
  OBVIOUS
<1> DEFINE f == [q[Len(q)] EXCEPT !.left = @ \ {d}]
<1>2. f \in Frames /\ f.node = q[Len(q)].node /\ f.left = q[Len(q)].left \ {d}
  BY <1>1 DEF Frames
<1>3. Taken(q, d) = [q EXCEPT ![Len(q)] = f]
  BY DEF Taken
<1> HIDE DEF f
<1>4. /\ Taken(q, d) \in Seq(Frames) /\ Len(Taken(q, d)) = Len(q)
      /\ \A i \in 1..Len(q) : Taken(q, d)[i] = IF i = Len(q) THEN f ELSE q[i]
  BY <1>1, <1>2, <1>3
<1> QED BY <1>1, <1>2, <1>4

LEMMA PushFacts ==
    ASSUME NEW q \in Seq(Frames), NEW f \in Frames
    PROVE  /\ Append(q, f) \in Seq(Frames) /\ Len(Append(q, f)) = Len(q) + 1
           /\ \A i \in 1..Len(q) : Append(q, f)[i] = q[i]
           /\ Append(q, f)[Len(q) + 1] = f
OBVIOUS

LEMMA PopFacts ==
    ASSUME NEW q \in Seq(Frames), q # <<>>
    PROVE  /\ SubSeq(q, 1, Len(q) - 1) \in Seq(Frames)
           /\ Len(SubSeq(q, 1, Len(q) - 1)) = Len(q) - 1
           /\ \A i \in 1..(Len(q) - 1) : SubSeq(q, 1, Len(q) - 1)[i] = q[i]
<1> DEFINE k == Len(q) - 1
<1>1. k \in 0..Len(q) /\ Len(q) \in Nat
  OBVIOUS
<1> HIDE DEF k
<1>2. /\ SubSeq(q, 1, k) \in Seq(Frames) /\ Len(SubSeq(q, 1, k)) = k
      /\ \A i \in 1..k : SubSeq(q, 1, k)[i] = q[i]
  BY <1>1
<1> QED BY <1>2 DEF k

-----------------------------------------------------------------------------
(* What each step does to the stack, its frames taken apart.               *)

(* The innermost frame loses d.                                            *)
FrameLoses(d) ==
    \A i \in 1..Len(stack) :
        /\ stack'[i].node = stack[i].node
        /\ stack'[i].left = IF i = Len(stack) THEN stack[i].left \ {d} ELSE stack[i].left

LEMMA DescendShape ==
    ASSUME Inv, NEW d \in Steps, stack # <<>>, Descend(d), color[d] = "white"
    PROVE  /\ stack' \in Seq(Frames) /\ Len(stack') = Len(stack) + 1 /\ Len(stack) \in Nat \ {0}
           /\ FrameLoses(d)
           /\ stack'[Len(stack) + 1].node = d /\ stack'[Len(stack) + 1].left = Adjacency[d]
           /\ color' = [color EXCEPT ![d] = "gray"]
<1> DEFINE q == Taken(stack, d)
           f == Frame(d)
<1>1. stack \in Seq(Frames)
  BY DEF Inv, Types
<1>2. stack' = Append(q, f) /\ color' = [color EXCEPT ![d] = "gray"]
  BY DEF Descend, Taken
<1>3. f \in Frames /\ f.node = d /\ f.left = Adjacency[d]
  BY AdjacencyFacts
<1>4. /\ q \in Seq(Frames) /\ Len(q) = Len(stack) /\ Len(stack) \in Nat \ {0}
      /\ \A i \in 1..Len(stack) :
            /\ q[i].node = stack[i].node
            /\ q[i].left = IF i = Len(stack) THEN stack[i].left \ {d} ELSE stack[i].left
  BY <1>1, TakenFacts
<1> HIDE DEF q, f
<1>5. /\ stack' \in Seq(Frames) /\ Len(stack') = Len(stack) + 1
      /\ stack'[Len(stack) + 1] = f
      /\ \A i \in 1..Len(stack) : stack'[i] = q[i]
  BY <1>2, <1>3, <1>4, PushFacts
<1> QED BY <1>2, <1>3, <1>4, <1>5 DEF FrameLoses

LEMMA SkipShape ==
    ASSUME Inv, NEW d \in Steps, stack # <<>>,
           stack' = [stack EXCEPT ![Len(stack)].left = @ \ {d}]
    PROVE  /\ stack' \in Seq(Frames) /\ Len(stack') = Len(stack) /\ Len(stack) \in Nat \ {0}
           /\ FrameLoses(d)
<1> DEFINE q == Taken(stack, d)
<1>1. stack \in Seq(Frames) /\ stack' = q
  BY DEF Inv, Types, Taken
<1>2. /\ q \in Seq(Frames) /\ Len(q) = Len(stack) /\ Len(stack) \in Nat \ {0}
      /\ \A i \in 1..Len(stack) :
            /\ q[i].node = stack[i].node
            /\ q[i].left = IF i = Len(stack) THEN stack[i].left \ {d} ELSE stack[i].left
  BY <1>1, TakenFacts
<1> HIDE DEF q
<1> QED BY <1>1, <1>2 DEF FrameLoses

LEMMA LeaveShape ==
    ASSUME Inv, stack # <<>>, Leave
    PROVE  /\ stack' \in Seq(Frames) /\ Len(stack') = Len(stack) - 1 /\ Len(stack) \in Nat \ {0}
           /\ \A i \in 1..(Len(stack) - 1) : stack'[i] = stack[i]
           /\ Top.node \in Steps /\ color[Top.node] = "gray"
           /\ color' = [color EXCEPT ![Top.node] = "black"]
<1>1. stack \in Seq(Frames) /\ Len(stack) \in Nat \ {0}
  BY DEF Inv, Types
<1>2. Top \in Frames /\ Len(stack) \in DOMAIN stack
  BY <1>1 DEF Top
<1>3. Top.node \in Steps /\ color[Top.node] = "gray"
  BY <1>2 DEF Frames, Inv, ColoursMeanWhatTheySay, Top
<1> QED BY <1>1, <1>3, PopFacts DEF Leave

LEMMA StartShape ==
    ASSUME Inv, NEW s \in Steps, NextStart(s)
    PROVE  /\ stack' \in Seq(Frames) /\ Len(stack') = 1
           /\ stack'[1].node = s /\ stack'[1].left = Adjacency[s]
           /\ Len(stack) = 0 /\ color[s] = "white" /\ color' = [color EXCEPT ![s] = "gray"]
BY AdjacencyFacts DEF NextStart, White

(* The frames below are steps of the task, and know dependencies only.     *)
LEMMA FrameFacts ==
    ASSUME Inv
    PROVE  /\ Len(stack) \in Nat /\ DOMAIN stack = 1..Len(stack)
           /\ \A i \in 1..Len(stack) : /\ stack[i].node \in Steps
                                       /\ stack[i].left \subseteq Adjacency[stack[i].node]
                                       /\ color[stack[i].node] = "gray"
           /\ stack # <<>> => Len(stack) \in 1..Len(stack)
<1>1. stack \in Seq(Frames)
  BY DEF Inv, Types
<1>2. Len(stack) \in Nat /\ DOMAIN stack = 1..Len(stack) /\ \A i \in 1..Len(stack) : stack[i] \in Frames
  BY <1>1
<1>3. stack # <<>> => Len(stack) # 0
  BY <1>1
<1> QED BY <1>2, <1>3 DEF Frames, Inv, DealtWith, ColoursMeanWhatTheySay

-----------------------------------------------------------------------------
(* Step by step: a start of the outer loop.                                *)
LEMMA StartInv == ASSUME Inv, NEW s \in Steps, NextStart(s) PROVE Inv'
<1>1. /\ stack' \in Seq(Frames) /\ Len(stack') = 1
      /\ stack'[1].node = s /\ stack'[1].left = Adjacency[s]
      /\ Len(stack) = 0 /\ color[s] = "white" /\ color' = [color EXCEPT ![s] = "gray"]
  BY StartShape
<1>2. /\ UNCHANGED <<blank, id, depends, verdict, suspect>> /\ verdict = "searching"
      /\ Adjacency' = Adjacency /\ color \in [Steps -> {"white", "gray", "black"}]
      /\ stack' # <<>>
  BY <1>1, AdjacencyFacts DEF NextStart, task, Inv, Types
<1>3. Types'
  BY <1>1, <1>2 DEF Inv, Types
<1>4. Distinct' /\ Reached'
  BY <1>1 DEF Distinct, Reached
<1>5. DealtWith'
  BY <1>1, <1>2 DEF DealtWith
<1>6. Black' = Black
  BY <1>1, <1>2 DEF Black
<1>7. BlackAcyclic'
  BY <1>2, <1>6 DEF BlackAcyclic, Inv
<1>8. Search'
  BY <1>2 DEF Inv, Search, Faulty, DuplicateId, BadDependency, NoEntryPoint
<1>9. ColoursMeanWhatTheySay'
  <2>1. {t \in Steps : color'[t] = "gray"} = {s}
    BY <1>1, <1>2 DEF Inv, ColoursMeanWhatTheySay
  <2>2. {stack'[i].node : i \in DOMAIN stack'} = {s}
    BY <1>1
  <2>3. \A t \in Steps : color'[t] = "black" <=> color[t] = "black"
    BY <1>1, <1>2
  <2>4. \A i \in 1..(Len(stack') - 1) : stack'[i + 1].node \in Adjacency[stack'[i].node]
    BY <1>1
  <2> QED BY <1>2, <2>1, <2>2, <2>3, <2>4, AdjacencyFacts DEF Inv, ColoursMeanWhatTheySay
<1> QED BY <1>3, <1>4, <1>5, <1>7, <1>8, <1>9 DEF Inv

(* A dependency that is black already.                                     *)
LEMMA SkipInv ==
    ASSUME Inv, NEW d \in Steps, verdict = "searching", stack # <<>>, d \in Top.left,
           color[d] = "black", stack' = [stack EXCEPT ![Len(stack)].left = @ \ {d}],
           UNCHANGED <<task, verdict, color, suspect>>
    PROVE  Inv'
<1>1. /\ stack' \in Seq(Frames) /\ Len(stack') = Len(stack) /\ Len(stack) \in Nat \ {0}
      /\ FrameLoses(d)
  BY SkipShape
<1>2. /\ Adjacency' = Adjacency /\ UNCHANGED <<blank, id, depends>>
      /\ DOMAIN stack' = DOMAIN stack /\ DOMAIN stack = 1..Len(stack)
  BY <1>1, AdjacencyFacts, FrameFacts DEF task
<1>3. Types'
  BY <1>1, <1>2 DEF Inv, Types
<1>4. Distinct'
  BY <1>1 DEF FrameLoses, Inv, Distinct
<1>5. Reached'
  BY <1>1, <1>2 DEF FrameLoses, Inv, Reached, Closed
<1>6. DealtWith'
  <2> SUFFICES ASSUME NEW i \in 1..Len(stack)
               PROVE  /\ stack'[i].left \subseteq Adjacency[stack[i].node]
                      /\ \A t \in Adjacency[stack[i].node] \ stack'[i].left :
                            color[t] = "black" \/ (i < Len(stack) /\ t = stack'[i + 1].node)
    BY <1>1, <1>2 DEF DealtWith, FrameLoses
  <2>1. stack'[i].left \subseteq stack[i].left /\ stack[i].left \subseteq stack'[i].left \cup {d}
    BY <1>1 DEF FrameLoses
  <2>2. i < Len(stack) => stack'[i + 1].node = stack[i + 1].node
    BY <1>1 DEF FrameLoses
  <2> QED BY <2>1, <2>2 DEF Inv, DealtWith
<1>7. BlackAcyclic'
  BY <1>2 DEF Inv, BlackAcyclic, Black
<1>8. Search'
  BY <1>1, <1>2 DEF Inv, Search, Faulty, DuplicateId, BadDependency, NoEntryPoint
<1>9. ColoursMeanWhatTheySay'
  BY <1>1, <1>2 DEF FrameLoses, Inv, ColoursMeanWhatTheySay
<1> QED BY <1>3, <1>4, <1>5, <1>6, <1>7, <1>8, <1>9 DEF Inv

(* A white dependency is pushed on the stack.                              *)
LEMMA DescendInv ==
    ASSUME Inv, NEW d \in Steps, verdict = "searching", stack # <<>>, d \in Top.left,
           color[d] = "white", Descend(d), UNCHANGED <<task, verdict, suspect>>
    PROVE  Inv'
<1> DEFINE k == Len(stack)
<1>1. /\ stack' \in Seq(Frames) /\ Len(stack') = k + 1 /\ k \in Nat \ {0}
      /\ FrameLoses(d)
      /\ stack'[k + 1].node = d /\ stack'[k + 1].left = Adjacency[d]
      /\ color' = [color EXCEPT ![d] = "gray"]
  BY DescendShape
<1>2. /\ Adjacency' = Adjacency /\ UNCHANGED <<blank, id, depends>>
      /\ DOMAIN stack' = 1..(k + 1) /\ DOMAIN stack = 1..k
      /\ color \in [Steps -> {"white", "gray", "black"}]
  BY <1>1, AdjacencyFacts, FrameFacts DEF task, Inv, Types
<1>3. \A i \in 1..k : stack'[i].node = stack[i].node /\ stack[i].node # d /\ stack[i].node \in Steps
  BY <1>1, FrameFacts DEF FrameLoses
<1>4. d \in Adjacency[stack[k].node]
  BY <1>1, FrameFacts DEF Top
<1>5. Types'
  BY <1>1, <1>2 DEF Inv, Types
<1>6. Distinct'
  <2> SUFFICES ASSUME NEW i \in 1..(k + 1), NEW j \in 1..(k + 1), stack'[i].node = stack'[j].node
               PROVE  i = j
    BY <1>1 DEF Distinct
  <2>1. i \in 1..k \/ i = k + 1
    BY <1>1
  <2>2. j \in 1..k \/ j = k + 1
    BY <1>1
  <2> QED BY <1>1, <1>3, <2>1, <2>2 DEF Inv, Distinct
<1>7. Reached'
  <2> SUFFICES ASSUME NEW A \in SUBSET Steps, Closed(A),
                      NEW i \in 1..(k + 1), NEW j \in 1..(k + 1), i < j,
                      Adjacency[stack'[i].node] \subseteq A
               PROVE  stack'[j].node \in A
    BY <1>1, <1>2 DEF Reached, Closed
  <2>1. i \in 1..k /\ stack'[i].node = stack[i].node
    BY <1>1, <1>3
  <2>2. CASE j \in 1..k
    BY <1>3, <2>1, <2>2 DEF Inv, Reached
  <2>3. CASE j = k + 1
    <3>1. i = k \/ stack[k].node \in A
      BY <1>1, <2>1 DEF Inv, Reached
    <3> QED BY <1>1, <1>4, <2>1, <2>3, <3>1 DEF Closed
  <2> QED BY <1>1, <2>2, <2>3
<1>8. DealtWith'
  <2> SUFFICES ASSUME NEW i \in 1..(k + 1)
               PROVE  /\ stack'[i].left \subseteq Adjacency[stack'[i].node]
                      /\ \A t \in Adjacency[stack'[i].node] \ stack'[i].left :
                            color'[t] = "black" \/ (i < k + 1 /\ t = stack'[i + 1].node)
    BY <1>1, <1>2 DEF DealtWith
  <2>1. CASE i = k + 1
    BY <1>1, <2>1
  <2>2. CASE i \in 1..k
    <3>1. /\ stack'[i].left = IF i = k THEN stack[i].left \ {d} ELSE stack[i].left
          /\ stack'[i].node = stack[i].node
      BY <1>1, <2>2 DEF FrameLoses
    <3>2. \A t \in Steps : color[t] = "black" => color'[t] = "black"
      BY <1>1, <1>2
    <3>3. stack[i].left \subseteq Adjacency[stack[i].node]
      BY <2>2, FrameFacts
    <3>4. ASSUME NEW t \in Adjacency[stack[i].node], t \notin stack'[i].left
          PROVE  color'[t] = "black" \/ t = stack'[i + 1].node
      <4>1. t \in Steps
        BY <1>3, <2>2, AdjacencyFacts
      <4>2. CASE i = k /\ t = d
        BY <1>1, <4>2
      <4>3. CASE ~ (i = k /\ t = d)
        <5>1. t \notin stack[i].left
          BY <3>1, <3>4, <4>3
        <5>2. color[t] = "black" \/ (i < k /\ t = stack[i + 1].node)
          BY <2>2, <5>1 DEF Inv, DealtWith
        <5>3. i < k => i + 1 \in 1..k
          BY <1>1, <2>2
        <5> QED BY <1>3, <3>2, <4>1, <5>2, <5>3
      <4> QED BY <4>2, <4>3
    <3>5. i < k + 1
      BY <1>1, <2>2
    <3> HIDE DEF k
    <3> QED BY <3>1, <3>3, <3>4, <3>5
  <2> QED BY <1>1, <2>1, <2>2
<1>9. Black' = Black
  BY <1>1, <1>2 DEF Black
<1>10. BlackAcyclic'
  BY <1>2, <1>9 DEF BlackAcyclic, Inv
<1>11. Search'
  BY <1>1, <1>2 DEF Inv, Search, Faulty, DuplicateId, BadDependency, NoEntryPoint
<1>12. ColoursMeanWhatTheySay'
  <2>1. {t \in Steps : color'[t] = "gray"} = {t \in Steps : color[t] = "gray"} \cup {d}
    BY <1>1, <1>2
  <2>2. {stack'[i].node : i \in DOMAIN stack'} = {stack[i].node : i \in DOMAIN stack} \cup {d}
    <3>1. \A i \in 1..(k + 1) : i \in 1..k \/ i = k + 1
      BY <1>1
    <3>2. k + 1 \in 1..(k + 1) /\ \A i \in 1..k : i \in 1..(k + 1)
      BY <1>1
    <3> HIDE DEF k
    <3> QED BY <1>1, <1>2, <1>3, <3>1, <3>2
  <2>3. \A t \in Steps : color'[t] = "black" <=> color[t] = "black"
    BY <1>1, <1>2
  <2>4. ASSUME NEW i \in 1..k PROVE stack'[i + 1].node \in Adjacency[stack'[i].node]
    <3>1. CASE i = k
      BY <1>1, <1>3, <1>4, <3>1
    <3>2. CASE i \in 1..(k - 1)
      <4>1. stack[i + 1].node \in Adjacency[stack[i].node]
        BY <3>2 DEF Inv, ColoursMeanWhatTheySay
      <4> QED BY <1>1, <1>3, <3>2, <4>1
    <3> QED BY <1>1, <3>1, <3>2
  <2>5. \A i \in 1..(Len(stack') - 1) : stack'[i + 1].node \in Adjacency[stack'[i].node]
    BY <1>1, <2>4
  <2> HIDE DEF k
  <2> QED BY <1>2, <2>1, <2>2, <2>3, <2>5, AdjacencyFacts DEF Inv, ColoursMeanWhatTheySay
<1> QED BY <1>5, <1>6, <1>7, <1>8, <1>10, <1>11, <1>12 DEF Inv

(* The innermost step has no dependency left: it turns black.              *)
LEMMA BacktrackInv == ASSUME Inv, Backtrack PROVE Inv'
<1> DEFINE k == Len(stack)
           s == Top.node
<1>1. /\ stack' \in Seq(Frames) /\ Len(stack') = k - 1 /\ k \in Nat \ {0}
      /\ \A i \in 1..(k - 1) : stack'[i] = stack[i]
      /\ s \in Steps /\ color[s] = "gray" /\ color' = [color EXCEPT ![s] = "black"]
  BY LeaveShape DEF Backtrack
<1>2. /\ Adjacency' = Adjacency /\ UNCHANGED <<blank, id, depends, verdict, suspect>>
      /\ verdict = "searching"
      /\ DOMAIN stack' = 1..(k - 1) /\ DOMAIN stack = 1..k
      /\ color \in [Steps -> {"white", "gray", "black"}]
  BY <1>1, AdjacencyFacts, FrameFacts DEF task, Backtrack, Inv, Types
<1>3. s = stack[k].node /\ stack[k].left = {} /\ k \in 1..k
  BY <1>1 DEF Backtrack, Top
<1>4. Adjacency[s] \subseteq Black
  BY <1>1, <1>3, AdjacencyFacts DEF Inv, DealtWith, Black
<1>5. \A i \in 1..(k - 1) : i \in 1..k /\ stack[i].node \in Steps /\ stack[i].node # s
  BY <1>1, <1>3, FrameFacts DEF Inv, Distinct
<1> HIDE DEF s
<1>6. Black' = Black \cup {s} /\ s \notin Black /\ Black \subseteq Steps
  BY <1>1, <1>2 DEF Black
<1>7. Types'
  BY <1>1, <1>2 DEF Inv, Types
<1>8. Distinct' /\ Reached'
  BY <1>1, <1>2, <1>5 DEF Inv, Distinct, Reached, Closed
<1>9. DealtWith'
  <2> SUFFICES ASSUME NEW i \in 1..(k - 1)
               PROVE  /\ stack[i].left \subseteq Adjacency[stack[i].node]
                      /\ \A t \in Adjacency[stack[i].node] \ stack[i].left :
                            color'[t] = "black" \/ (i < k - 1 /\ t = stack'[i + 1].node)
    BY <1>1, <1>2 DEF DealtWith
  <2>1. ASSUME NEW t \in Adjacency[stack[i].node], t \notin stack[i].left
        PROVE  color'[t] = "black" \/ (i < k - 1 /\ t = stack'[i + 1].node)
    <3>1. t \in Steps
      BY <1>5, AdjacencyFacts
    <3>2. color[t] = "black" \/ (i < k /\ t = stack[i + 1].node)
      BY <1>5, <2>1 DEF Inv, DealtWith
    <3>3. CASE i = k - 1
      BY <1>1, <1>2, <1>3, <3>1, <3>2, <3>3
    <3>4. CASE i < k - 1
      <4>1. i + 1 \in 1..(k - 1)
        BY <1>1, <3>4
      <4> QED BY <1>1, <1>2, <3>1, <3>2, <3>4, <4>1
    <3> QED BY <1>1, <3>3, <3>4
  <2> QED BY <1>5, <2>1, FrameFacts
<1>10. BlackAcyclic'
  <2> SUFFICES ASSUME NEW S \in SUBSET (Black \cup {s}), S # {}
               PROVE  \E t \in S : Adjacency[t] \cap S = {}
    BY <1>2, <1>6 DEF BlackAcyclic
  <2>1. \A t \in Black : s \notin Adjacency[t]
    BY <1>1, <1>6, AdjacencyFacts DEF Inv, ColoursMeanWhatTheySay, Black
  <2>2. CASE S \ {s} = {}
    <3>1. S = {s}
      BY <2>2
    <3> QED BY <1>4, <1>6, <3>1
  <2>3. CASE S \ {s} # {}
    <3>1. S \ {s} \in SUBSET Black
      OBVIOUS
    <3>2. PICK t \in S \ {s} : Adjacency[t] \cap (S \ {s}) = {}
      BY <2>3, <3>1 DEF Inv, BlackAcyclic
    <3> QED BY <2>1, <3>1, <3>2
  <2> QED BY <2>2, <2>3
<1>11. Search'
  BY <1>1, <1>2 DEF Inv, Search, Faulty, DuplicateId, BadDependency, NoEntryPoint
<1>12. ColoursMeanWhatTheySay'
  <2>1. {t \in Steps : color'[t] = "gray"} = {t \in Steps : color[t] = "gray"} \ {s}
    BY <1>1, <1>2
  <2>2. {stack'[i].node : i \in DOMAIN stack'} = {stack[i].node : i \in DOMAIN stack} \ {s}
    <3>1. \A i \in 1..k : i \in 1..(k - 1) \/ i = k
      BY <1>1
    <3> HIDE DEF k
    <3> QED BY <1>1, <1>2, <1>3, <1>5, <3>1
  <2>3. \A i \in 1..(Len(stack') - 1) : stack'[i + 1].node \in Adjacency[stack'[i].node]
    <3>1. ASSUME NEW i \in 1..(k - 2) PROVE stack'[i + 1].node \in Adjacency[stack'[i].node]
      <4>1. i \in 1..(k - 1) /\ i + 1 \in 1..(k - 1)
        BY <1>1
      <4> QED BY <1>1, <4>1 DEF Inv, ColoursMeanWhatTheySay
    <3> QED BY <1>1, <3>1
  <2>4. ASSUME NEW t \in Steps, color'[t] = "black" PROVE \A u \in Adjacency[t] : color'[u] = "black"
    <3>1. Adjacency[t] \subseteq Black
      BY <1>1, <1>2, <1>4, <2>4, AdjacencyFacts DEF Inv, ColoursMeanWhatTheySay, Black
    <3> QED BY <1>6, <3>1 DEF Black
  <2> HIDE DEF k
  <2> QED BY <1>2, <2>1, <2>2, <2>3, <2>4 DEF Inv, ColoursMeanWhatTheySay
<1> QED BY <1>7, <1>8, <1>9, <1>10, <1>11, <1>12 DEF Inv

(* The steps that move the verdict only.                                   *)
LEMMA VerdictInv ==
    ASSUME Inv, UNCHANGED <<task, color, stack>>, Types', Search' PROVE Inv'
<1>1. Adjacency' = Adjacency
  BY AdjacencyFacts
<1>2. Distinct' /\ DealtWith' /\ Reached'
  BY <1>1 DEF Inv, Distinct, DealtWith, Reached, Closed
<1>3. BlackAcyclic'
  BY <1>1 DEF Inv, BlackAcyclic, Black
<1>4. ColoursMeanWhatTheySay'
  BY <1>1 DEF Inv, ColoursMeanWhatTheySay
<1> QED BY <1>2, <1>3, <1>4 DEF Inv

LEMMA InitInv == Init => Inv
<1> SUFFICES ASSUME Init PROVE Inv
  OBVIOUS
<1>1. stack = <<>> /\ Len(stack) = 0 /\ DOMAIN stack = {} /\ stack \in Seq(Frames)
  BY DEF Init
<1>2. Types /\ Search
  BY <1>1 DEF Init, Types, Search
<1>3. Distinct /\ DealtWith /\ Reached
  BY <1>1 DEF Distinct, DealtWith, Reached
<1>4. Black = {}
  BY DEF Init, Black
<1>5. BlackAcyclic
  BY <1>4 DEF BlackAcyclic
<1>6. ColoursMeanWhatTheySay
  BY <1>1 DEF Init, ColoursMeanWhatTheySay
<1> QED BY <1>2, <1>3, <1>5, <1>6 DEF Inv

LEMMA InvStep == Inv /\ [Next]_vars => Inv'
<1> SUFFICES ASSUME Inv, [Next]_vars PROVE Inv'
  OBVIOUS
<1>1. Types /\ Search
  BY DEF Inv
<1>2. ASSUME UNCHANGED task PROVE Faulty' <=> Faulty
  BY <1>2 DEF task, Faulty, DuplicateId, BadDependency, NoEntryPoint
<1>3. CASE Refuse
  <2>1. Types' /\ Search' /\ UNCHANGED <<task, color, stack>>
    BY <1>1, <1>2, <1>3 DEF Refuse, Types, Search, Faulty, task
  <2> QED BY <2>1, VerdictInv
<1>4. CASE BeginSearch
  <2>1. Types' /\ Search' /\ UNCHANGED <<task, color, stack>>
    BY <1>1, <1>2, <1>4 DEF BeginSearch, Types, Search, Faulty, task
  <2> QED BY <2>1, VerdictInv
<1>5. CASE Accept
  <2>1. Types' /\ Search' /\ UNCHANGED <<task, color, stack>>
    BY <1>1, <1>2, <1>5 DEF Accept, Types, Search, White, task
  <2> QED BY <2>1, VerdictInv
<1>6. ASSUME NEW d \in Steps, LookAt(d) PROVE Inv'
  <2>1. CASE verdict' = "cycle"
    <3>1. /\ UNCHANGED <<task, color, stack>> /\ verdict = "searching" /\ suspect' = d
          /\ stack # <<>> /\ d \in Top.left /\ color[d] = "gray"
      BY <1>6, <2>1 DEF LookAt, ClosesCycle
    <3>2. Types' /\ Search'
      BY <1>1, <1>2, <2>1, <3>1 DEF Types, Search, Top, task
    <3> QED BY <3>1, <3>2, VerdictInv
  <2>2. CASE verdict' # "cycle"
    <3>1. color[d] \in {"white", "gray", "black"}
      BY <1>1 DEF Types
    <3>2. CASE color[d] = "white"
      BY <1>6, <2>2, <3>2, DescendInv DEF LookAt, ClosesCycle
    <3>3. CASE color[d] = "black"
      BY <1>6, <2>2, <3>3, SkipInv DEF LookAt, ClosesCycle
    <3> QED BY <1>6, <2>2, <3>1, <3>2, <3>3 DEF LookAt, ClosesCycle
  <2> QED BY <2>1, <2>2
<1>7. CASE UNCHANGED vars
  <2>1. Types' /\ Search' /\ UNCHANGED <<task, color, stack>>
    BY <1>1, <1>2, <1>7 DEF vars, Types, Search, White, Top, task
  <2> QED BY <2>1, VerdictInv
<1> QED BY <1>3, <1>4, <1>5, <1>6, <1>7, StartInv, BacktrackInv DEF Next

THEOREM Invariance == Spec => []Inv
BY InitInv, InvStep, PTL DEF Spec

-----------------------------------------------------------------------------
(* The search of a task of any length goes no deeper than the task is      *)
(* long.                                                                   *)
THEOREM TypeCorrect == Spec => []TypeOK
<1>1. ASSUME Inv PROVE Len(stack) <= N
  <2> DEFINE f == [i \in 1..Len(stack) |-> stack[i].node]
  <2>1. f \in Injection(1..Len(stack), 1..N)
    BY <1>1, FrameFacts DEF Inv, Distinct, Injection, IsInjective, Steps
  <2>2. IsFiniteSet(1..N) /\ Cardinality(1..N) = N /\ N \in Nat
    BY NAssumption, FS_Interval
  <2>3. Cardinality(1..Len(stack)) <= Cardinality(1..N)
    BY <2>1, <2>2, FS_Injection
  <2>4. Cardinality(1..Len(stack)) = Len(stack)
    <3>1. Len(stack) \in Nat
      BY <1>1, FrameFacts
    <3>2. Cardinality(1..Len(stack)) = IF 1 > Len(stack) THEN 0 ELSE Len(stack) - 1 + 1
      BY <3>1, FS_Interval
    <3> QED BY <3>1, <3>2
  <2> QED BY <2>2, <2>3, <2>4
<1>2. Inv => TypeOK
  BY <1>1 DEF Inv, Types, TypeOK, Frames
<1> QED BY <1>2, Invariance, PTL

(* The colours mean what the search relies on, for every task.             *)
THEOREM ColoursCorrect == Spec => []ColoursMeanWhatTheySay
<1>1. Inv => ColoursMeanWhatTheySay
  BY DEF Inv
<1> QED BY <1>1, Invariance, PTL

(* What an accepted task is.                                               *)
LEMMA AcceptedValid == ASSUME Inv, verdict = "accepted" PROVE Valid
<1>1. /\ stack = <<>> /\ White = {} /\ ~ Faulty
      /\ id \in [Steps -> Ids] /\ depends \in [Steps -> SUBSET Ids]
  BY DEF Inv, Search, Types
<1>2. Black = Steps
  <2>1. {stack[i].node : i \in DOMAIN stack} = {}
    BY <1>1
  <2>2. \A s \in Steps : color[s] # "gray" /\ color[s] # "white"
    BY <1>1, <2>1 DEF Inv, ColoursMeanWhatTheySay, White
  <2> QED BY <2>2 DEF Inv, Types, Black
<1>3. Acyclic(Adjacency)
  BY <1>2 DEF Inv, BlackAcyclic, Acyclic
<1>4. /\ ~ blank
      /\ \A s, t \in Steps : id[s] = id[t] => s = t
      /\ \A s \in Steps : depends[s] \subseteq {id[t] : t \in Steps}
  BY <1>1 DEF Faulty, DuplicateId, BadDependency
<1> QED BY <1>3, <1>4 DEF Valid

(* What the checks before the search refuse.                               *)
LEMMA FaultyInvalid == ASSUME Inv, Faulty PROVE ~ Valid
<1> SUFFICES ASSUME Valid PROVE FALSE
  OBVIOUS
<1>1. /\ ~ blank /\ ~ DuplicateId /\ Acyclic(Adjacency)
      /\ \A s \in Steps : depends[s] \subseteq {id[t] : t \in Steps}
  BY DEF Valid, DuplicateId
<1>2. CASE BadDependency
  <2>1. PICK s \in Steps : \E d \in depends[s] : d = id[s]
    BY <1>1, <1>2 DEF BadDependency
  <2>2. s \in Adjacency[s]
    BY <2>1, AdjacencyFacts
  <2>3. {s} \in SUBSET Steps /\ {s} # {} /\ Adjacency[s] \cap {s} # {}
    BY <2>2
  <2> QED BY <1>1, <2>3 DEF Acyclic
<1>3. CASE NoEntryPoint
  <2>1. Steps # {}
    BY NAssumption DEF Steps
  <2>2. PICK s \in Steps : Adjacency[s] \cap Steps = {}
    BY <1>1, <2>1 DEF Acyclic
  <2>3. PICK t \in Steps : id[t] \in depends[s]
    BY <1>1, <1>3, <2>2 DEF NoEntryPoint
  <2> QED BY <2>2, <2>3, AdjacencyFacts
<1> QED BY <1>1, <1>2, <1>3 DEF Faulty

(* What a reported cycle is: a step of the stack that the innermost one    *)
(* depends on.                                                             *)
LEMMA CycleFacts ==
    ASSUME Inv, verdict = "cycle"
    PROVE  \E j \in 1..Len(stack) :
              /\ stack[j].node = suspect /\ suspect \in Adjacency[Top.node]
              /\ Len(stack) \in Nat \ {0}
<1>1. stack # <<>> /\ suspect \in Top.left /\ color[suspect] = "gray"
  BY DEF Inv, Search
<1>2. Len(stack) \in 1..Len(stack) /\ suspect \in Adjacency[Top.node] /\ suspect \in Steps
  BY <1>1, FrameFacts, AdjacencyFacts DEF Top
<1>3. \E j \in DOMAIN stack : stack[j].node = suspect
  BY <1>1, <1>2 DEF Inv, ColoursMeanWhatTheySay
<1> QED BY <1>2, <1>3, FrameFacts

LEMMA CycleInvalid == ASSUME Inv, verdict = "cycle" PROVE ~ Valid
<1> DEFINE k == Len(stack)
<1>1. PICK j \in 1..k : /\ stack[j].node = suspect /\ suspect \in Adjacency[Top.node]
                       /\ k \in Nat \ {0}
  BY CycleFacts
<1> DEFINE S == {stack[i].node : i \in j..k}
<1>2. S \in SUBSET Steps /\ suspect \in S
  BY <1>1, FrameFacts
<1>3. ASSUME NEW i \in j..k PROVE Adjacency[stack[i].node] \cap S # {}
  <2>1. CASE i = k
    BY <1>1, <1>2, <2>1 DEF Top
  <2>2. CASE i < k
    <3>1. i + 1 \in j..k /\ i \in 1..(k - 1)
      BY <1>1, <2>2
    <3>2. stack[i + 1].node \in Adjacency[stack[i].node]
      BY <3>1 DEF Inv, ColoursMeanWhatTheySay
    <3> QED BY <3>1, <3>2
  <2> QED BY <1>1, <2>1, <2>2
<1>4. \A s \in S : Adjacency[s] \cap S # {}
  BY <1>3
<1> HIDE DEF S
<1>5. ~ Acyclic(Adjacency)
  BY <1>2, <1>4 DEF Acyclic
<1> QED BY <1>5 DEF Valid

LEMMA SuspectOnCycle ==
    ASSUME Inv, verdict = "cycle", NEW A \in SUBSET Steps,
           Adjacency[suspect] \subseteq A, Closed(A)
    PROVE  suspect \in A
<1>1. PICK j \in 1..Len(stack) : /\ stack[j].node = suspect /\ suspect \in Adjacency[Top.node]
                                /\ Len(stack) \in Nat \ {0}
  BY CycleFacts
<1>2. CASE j = Len(stack)
  BY <1>1, <1>2 DEF Top
<1>3. CASE j < Len(stack)
  <2>1. Top.node \in A
    BY <1>1, <1>3 DEF Inv, Reached, Top
  <2> QED BY <1>1, <2>1 DEF Closed
<1> QED BY <1>1, <1>2, <1>3

(* Task.validate decides validity of every task, of any length, and names  *)
(* a step of a cycle when it refuses one for a cycle.                      *)
THEOREM DecidesCorrect == Spec => []DecidesValidity
<1>1. ASSUME Inv PROVE verdict \in {"refused", "cycle"} => ~ Valid
  BY <1>1, FaultyInvalid, CycleInvalid DEF Inv, Search
<1>2. ASSUME Inv, verdict = "cycle", NEW A \in SUBSET Steps,
             Adjacency[suspect] \subseteq A /\ \A t \in A : Adjacency[t] \subseteq A
      PROVE  suspect \in A
  BY <1>2, SuspectOnCycle DEF Closed
<1>3. Inv => DecidesValidity
  <2> SUFFICES ASSUME Inv PROVE DecidesValidity
    OBVIOUS
  <2>1. verdict = "accepted" => Valid
    BY AcceptedValid
  <2> HIDE DEF Inv
  <2> QED BY <1>1, <1>2, <2>1, Zenon DEF DecidesValidity
<1> QED BY <1>3, Invariance, PTL
=============================================================================
