---------------------------- MODULE MustDefined ----------------------------
(***************************************************************************)
(* What the locals analysis of doInterBlockAnalysis (analyze_code.cpp)     *)
(* promises: for every basic block, the set of local variables that are    *)
(* assigned on every path into the block.  The answer is the greatest      *)
(* solution of the data-flow inequations below; the specification reaches  *)
(* it by processing the pending blocks in any order, so that the order in  *)
(* which the code's linked worklist picks them is left to DefinedLocals.   *)
(*                                                                         *)
(* The control-flow graph is held in variables that no step changes: it is *)
(* what the earlier passes of the compiler left behind.                    *)
(***************************************************************************)
EXTENDS Integers

CONSTANTS Local,      \* the local variable slots of the code object
          Nil         \* the null pointer

VARIABLES nblock,     \* number of blocks, exception blocks included
          branch,     \* the block's jump target, or Nil
          fall,       \* does control fall through to the block after it?
          kept,       \* locals a block leaves as it found them
          set,        \* locals a block leaves assigned
          entry,      \* locals assigned when the function is entered
          input,      \* the answer: locals assigned at the start of a block
          pending     \* blocks whose successors have not seen their input yet

graph == <<nblock, branch, fall, kept, set, entry>>
vars  == <<nblock, branch, fall, kept, set, entry, input, pending>>

Block == 0 .. nblock - 1

GraphOK ==
  /\ nblock \in Nat \ {0}
  /\ branch \in [Block -> Block \cup {Nil}]
  /\ fall   \in [Block -> BOOLEAN]
  /\ ~fall[nblock - 1]
  /\ kept   \in [Block -> SUBSET Local]
  /\ set    \in [Block -> SUBSET Local]
  /\ entry  \in SUBSET Local

\* The blocks control may enter after block b.
Successors(b) == {s \in Block : s = branch[b] \/ (fall[b] /\ s = b + 1)}

\* Locals assigned at the end of block b when those in X are at its start.
Output(b, X) == (X \cap kept[b]) \cup set[b]

\* X answers the question soundly: no local is claimed at a block that some
\* predecessor, or the function's entry, does not provide.
Solution(X) ==
  /\ X[0] \subseteq entry
  /\ \A b \in Block : \A s \in Successors(b) : X[s] \subseteq Output(b, X[b])

-----------------------------------------------------------------------------
Init ==
  /\ GraphOK
  /\ input = [b \in Block |-> IF b = 0 THEN entry ELSE Local]
  /\ pending = Block

\* Some pending block tells its successors what it provides; those that lose a
\* local become pending, itself included when it is its own successor.
Process(b) ==
  LET out   == Output(b, input[b])
      fewer == {s \in Successors(b) : ~(input[s] \subseteq out)}
  IN  /\ b \in pending
      /\ input' = [s \in Block |-> IF s \in Successors(b) THEN input[s] \cap out
                                                          ELSE input[s]]
      /\ pending' = (pending \ {b}) \cup fewer
      /\ UNCHANGED graph

Next == \E b \in Block : Process(b)

Spec == Init /\ [][Next]_vars

-----------------------------------------------------------------------------
TypeOK ==
  /\ GraphOK
  /\ input \in [Block -> SUBSET Local]
  /\ pending \in SUBSET Block

\* A block that is not pending has told its successors all it provides: what is
\* claimed at a successor is provided by it.
Settled ==
  /\ input[0] \subseteq entry
  /\ \A b \in Block \ pending : \A s \in Successors(b) :
       input[s] \subseteq Output(b, input[b])

\* When nothing is pending the answer is sound.
SoundWhenDone == pending = {} => Solution(input)

\* Nothing is given up that some sound answer claims: the analysis loses no
\* precision, whatever the order of the blocks.
KeepsEverySolution ==
  \A X \in [Block -> SUBSET Local] :
    Solution(X) => \A b \in Block : X[b] \subseteq input[b]
=============================================================================
