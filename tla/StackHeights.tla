---------------------------- MODULE StackHeights ----------------------------
(***************************************************************************)
(* The last pass of CompileUnit::doInterBlockAnalysis, analyze_code.cpp    *)
(* lines 759-782: the height of the value stack at the start of every      *)
(* block.  It reuses the links of the pass before (DefinedLocals), which   *)
(* left every block linked to itself.  Now a block that links to itself    *)
(* has not been found, one that links to Nil is done, and any other is     *)
(* listed.  The list starts with block 0 while that still links to itself. *)
(*                                                                         *)
(* emitBlock trusts the answer: it takes that many slots of the frame for  *)
(* filled, and sp_map tells the unwinder to release them.                  *)
(***************************************************************************)
EXTENDS Integers

CONSTANTS Nil,
          Unset,          \* a height never written
          co_stacksize

ASSUME HeightAssumption == Nil \notin Int /\ Unset \notin Int /\ co_stacksize \in Nat

VARIABLES nblock, branch, fall_through,
          stack_effect, branch_stack_difference,
          true_height,    \* the heights CPython's compiler laid the code out with
          worklist_head, worklist_link, initial_stack_height

graph == <<nblock, branch, fall_through, stack_effect, branch_stack_difference, true_height>>
vars  == <<nblock, branch, fall_through, stack_effect, branch_stack_difference, true_height,
           worklist_head, worklist_link, initial_stack_height>>

Block == 0 .. nblock - 1

\* The edges out of b, each with what is added to the height on the way.
Edges(b) ==
  (IF branch[b] = Nil THEN {} ELSE {<<branch[b], branch_stack_difference[b]>>})
    \cup (IF fall_through[b] THEN {<<b + 1, 0>>} ELSE {})

\* What the earlier passes leave.  The code is balanced: whichever way control
\* comes to a block, it finds the stack as high.
GraphOK ==
  /\ nblock \in Nat \ {0}
  /\ branch       \in [Block -> Block \cup {Nil}]
  /\ fall_through \in [Block -> BOOLEAN]
  /\ ~fall_through[nblock - 1]
  /\ stack_effect            \in [Block -> Int]
  /\ branch_stack_difference \in [Block -> Int]
  /\ true_height  \in [Block -> 0 .. co_stacksize]
  /\ true_height[0] \in {0, 1}
  /\ \A b \in Block :
       /\ branch[b] # Nil =>
            true_height[branch[b]] = true_height[b] + stack_effect[b] + branch_stack_difference[b]
       /\ fall_through[b] => true_height[b + 1] = true_height[b] + stack_effect[b]

\* Block 0 starts with an empty stack, or in a generator with the value sent.
Init ==
  /\ GraphOK
  /\ worklist_head = 0
  /\ worklist_link = [b \in Block |-> b]
  /\ initial_stack_height = [b \in Block |-> IF b = 0 THEN true_height[0] ELSE Unset]

VisitAny(pass, s, height) ==
  IF s = Nil THEN pass
  ELSE [head   |-> s,
        link   |-> [pass.link EXCEPT ![s] = pass.head],
        height |-> [pass.height EXCEPT ![s] = height]]

\* A successor not found before gets its height and is listed.
Visit(pass, s, height) ==
  IF s = Nil \/ pass.link[s] # s THEN pass
  ELSE [head   |-> s,
        link   |-> [pass.link EXCEPT ![s] = pass.head],
        height |-> [pass.height EXCEPT ![s] = height]]

outgoing(b) == initial_stack_height[b] + stack_effect[b]

popped == [head   |-> worklist_link[worklist_head],
           link   |-> [worklist_link EXCEPT ![worklist_head] = Nil],
           height |-> initial_stack_height]

ProcessIgnoringBranchDifference ==
  LET b     == worklist_head
      first == Visit(popped, branch[b], outgoing(b))
      last  == IF fall_through[b] THEN Visit(first, b + 1, outgoing(b)) ELSE first
  IN  /\ worklist_head # Nil
      /\ worklist_head' = last.head
      /\ worklist_link' = last.link
      /\ initial_stack_height' = last.height
      /\ UNCHANGED graph

ProcessBranchOnly ==
  LET b     == worklist_head
      first == Visit(popped, branch[b], outgoing(b) + branch_stack_difference[b])
      last  == IF fall_through[b] /\ branch[b] = Nil
                 THEN Visit(first, b + 1, outgoing(b)) ELSE first
  IN  /\ worklist_head # Nil
      /\ worklist_head' = last.head
      /\ worklist_link' = last.link
      /\ initial_stack_height' = last.height
      /\ UNCHANGED graph

ProcessWithDifferenceOnBothWays ==
  LET b     == worklist_head
      to    == outgoing(b) + branch_stack_difference[b]
      first == Visit(popped, branch[b], to)
      last  == IF fall_through[b] THEN Visit(first, b + 1, to) ELSE first
  IN  /\ worklist_head # Nil
      /\ worklist_head' = last.head
      /\ worklist_link' = last.link
      /\ initial_stack_height' = last.height
      /\ UNCHANGED graph

ProcessHead ==
  LET b     == worklist_head
      first == Visit(popped, branch[b], outgoing(b) + branch_stack_difference[b])
      last  == IF fall_through[b] THEN Visit(first, b + 1, outgoing(b)) ELSE first
  IN  /\ worklist_head # Nil
      /\ worklist_head' = last.head
      /\ worklist_link' = last.link
      /\ initial_stack_height' = last.height
      /\ UNCHANGED graph

Next == ProcessHead

Spec == Init /\ [][Next]_vars

FairSpec == Spec /\ WF_vars(Next)

-----------------------------------------------------------------------------
TypeOK ==
  /\ GraphOK
  /\ worklist_head \in Block \cup {Nil}
  /\ worklist_link \in [Block -> Block \cup {Nil}]
  /\ initial_stack_height \in [Block -> (0 .. co_stacksize) \cup {Unset}]

Found(b) == b = 0 \/ worklist_link[b] # b

\* Every height the pass works out is the one the code has there, and no block
\* is listed, or worked on, before it has one.
HeightsRight == \A b \in Block : Found(b) => initial_stack_height[b] = true_height[b]

\* The assertions of the loop hold in every turn: heights are within the frame,
\* and a successor found before was given the same height.
AssertionsHold ==
  worklist_head # Nil =>
    \A e \in Edges(worklist_head) :
      LET height == outgoing(worklist_head) + e[2]
      IN  /\ height \in 0 .. co_stacksize
          /\ popped.link[e[1]] # e[1] => initial_stack_height[e[1]] = height

\* When the loop ends it has gone over every block control can reach: block 0
\* and the successors of every block gone over.  Nothing is left in the list,
\* although block 0 was in it while it linked to itself.
AllReached ==
  worklist_head = Nil =>
    LET done == {b \in Block : worklist_link[b] = Nil}
    IN  /\ 0 \in done
        /\ \A b \in done : \A e \in Edges(b) : e[1] \in done

\* The do-while loop ends, although block 0 is worked on twice.
Terminates == <>(worklist_head = Nil)
=============================================================================
