-------------------------- MODULE MCDefinedLocals --------------------------
(***************************************************************************)
(* Every control-flow graph of at most MaxBlock blocks in which each block *)
(* but the first has a predecessor and a block changes at most one local.  *)
(* Three blocks are the fewest in which a block in the middle of the list  *)
(* can be relinked, and two locals the fewest in which a block taken up    *)
(* again for one of them carries another.                                  *)
(***************************************************************************)
EXTENDS DefinedLocals

CONSTANT MaxBlock     \* bound on the number of blocks

\* Locals a block leaves alone: all but at most one.
KeptChoices == {Local} \cup {Local \ {x} : x \in Local}

MCInit ==
  /\ nblock \in 1 .. MaxBlock
  /\ branch \in [Block -> Block \cup {Nil}]
  /\ fall_through \in {f \in [Block -> BOOLEAN] : ~f[nblock - 1]}
  /\ \A b \in Block \ {0} : \E a \in Block \ {b} : b \in Successors(a)
  /\ locals_kept \in [Block -> KeptChoices]
  /\ locals_set \in {f \in [Block -> SUBSET Local] :
                       \A b \in Block : f[b] \cap locals_kept[b] = {}}
  /\ entry_locals \in SUBSET Local
  /\ Init

MCSpec == MCInit /\ [][Next]_vars /\ WF_vars(Next)
=============================================================================
