----------------------------- MODULE MCParseCFG -----------------------------
(***************************************************************************)
(* Every code of at most MaxCode units the compiler might emit, over one   *)
(* representative of each class of opcodes parseCFG tells apart.           *)
(***************************************************************************)
EXTENDS ParseCFG

CONSTANT MaxCode      \* bound on the length of the code

Unit(op, args) == [op : {op}, arg : args]

Args == 0 .. ArgBase - 1

Units ==
  UNION {Unit(op, {0}) : op \in {"NOP", "YIELD_VALUE", "POP_BLOCK", "RETURN_VALUE"}}
  \cup UNION {Unit(op, Args) : op \in {"EXTENDED_ARG", "JUMP_FORWARD", "JUMP_ABSOLUTE",
                                       "POP_JUMP_IF_TRUE", "SETUP_FINALLY"}}

Terminators == {u \in Units : isTerminator(u.op)}

\* The units without arguments have no prefixes.
PrefixesUsed ==
  \A v \in DOMAIN code : code[v].op = "EXTENDED_ARG" =>
    Jumps(code[v + 1].op) \/ code[v + 1].op = "EXTENDED_ARG"

MCInit ==
  /\ \E last \in 0 .. MaxCode - 1 :
       \E body \in [0 .. last - 1 -> Units], end \in Terminators :
         code = [v \in 0 .. last |-> IF v = last THEN end ELSE body[v]]
  /\ Emitted(code) /\ ~OneBlockLoop   \* or BranchesResolved fails
  /\ PrefixesUsed
  /\ InitParse

MCSpec == MCInit /\ [][ParseNext]_parseVars /\ WF_parseVars(ParseNext)
=============================================================================
