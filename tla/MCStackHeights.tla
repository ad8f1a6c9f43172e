--------------------------- MODULE MCStackHeights ---------------------------
(***************************************************************************)
(* Every balanced control-flow graph of at most MaxBlock blocks, the       *)
(* stack effects of a few values.                                          *)
(***************************************************************************)
EXTENDS StackHeights

CONSTANT MaxBlock     \* bound on the number of blocks

MCInit ==
  /\ nblock \in 1 .. MaxBlock
  /\ branch \in [Block -> Block \cup {Nil}]
  /\ fall_through \in {f \in [Block -> BOOLEAN] : ~f[nblock - 1]}
  /\ true_height \in [Block -> 0 .. co_stacksize]
  /\ stack_effect \in [Block -> {-1, 0, 1}]
  /\ branch_stack_difference =
       [b \in Block |-> IF branch[b] = Nil THEN 0
                        ELSE true_height[branch[b]] - true_height[b] - stack_effect[b]]
  /\ \A b \in Block : fall_through[b] => true_height[b + 1] = true_height[b] + stack_effect[b]
  /\ Init

MCSpec == MCInit /\ [][Next]_vars /\ WF_vars(Next)
=============================================================================
