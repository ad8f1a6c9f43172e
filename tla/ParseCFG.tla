------------------------------ MODULE ParseCFG ------------------------------
(***************************************************************************)
(* CompileUnit::parseCFG (analyze_code.cpp 74-168): the bytecode is cut    *)
(* into basic blocks in three passes over it.                              *)
(*   scan    one step per code unit: boundaries are marked and counted;    *)
(*   create  one step per boundary: a block is filled in, its branch still *)
(*           an offset into the code;                                      *)
(*   link    one step per block: offsets become blocks, and the branch of  *)
(*           a try block's setup goes through an exception block, stored   *)
(*           after the code's own blocks.                                  *)
(***************************************************************************)
EXTENDS Bytecode

CONSTANT Nil             \* the null pointer; also the offset "no branch"

ASSUME NilAssumption == Nil \notin Int

VARIABLES
  code,                  \* the code object's units
  phase,                 \* "scan", "create", "link" or "parsed"
  cursor,                \* the unit scanned, created_block_num, the block linked
  is_boundary,           \* units a block ends before
  block_num, try_block_num, handler_num,
  blocks,                \* the array of blocks, exception blocks last
  exception_block_index  \* the next exception block to hand out

parseVars == <<code, phase, cursor, is_boundary, block_num, try_block_num,
               handler_num, blocks, exception_block_index>>

\* py_instr_num
py_instr_num == Cardinality(DOMAIN code)

\* A block of the array as its constructor leaves it.
FreshBlock ==
  [end_index |-> Nil, fall_through |-> FALSE, branch |-> Nil,
   eh_body_enter |-> FALSE, eh_body_exit |-> FALSE, eh_setup_block |-> Nil]

InitParse ==
  /\ phase = "scan"
  /\ cursor = 0
  /\ is_boundary = {}
  /\ block_num = 0 /\ try_block_num = 0 /\ handler_num = 1
  /\ blocks = <<>>
  /\ exception_block_index = 0

-----------------------------------------------------------------------------
MarksOfJumpsOnly(vpc) ==
  LET op == code[vpc].op
  IN  CASE op = "POP_BLOCK" -> {vpc + 1}
        [] Jumps(op) -> {Destination(code, vpc)}
        [] OTHER -> {}

\* Units a block must begin at because of the unit at vpc.
Marks(vpc) ==
  LET op == code[vpc].op
  IN  CASE op = "POP_BLOCK" -> {vpc + 1}
        [] Jumps(op) -> {Destination(code, vpc)} \cup
                          (IF isTerminator(op) THEN {} ELSE {vpc + 1})
        [] OTHER -> {}

\* A boundary is counted when checkAndSet finds it unset.
Scan ==
  /\ phase = "scan" /\ cursor < py_instr_num
  /\ is_boundary'   = is_boundary \cup Marks(cursor)
  /\ block_num'     = block_num + Cardinality(Marks(cursor) \ is_boundary)
  /\ try_block_num' = IF isTryBlockSetup(code[cursor].op) THEN try_block_num + 1
                                                          ELSE try_block_num
  /\ handler_num'   = IF code[cursor].op = "YIELD_VALUE" THEN handler_num + 1
                                                         ELSE handler_num
  /\ cursor' = cursor + 1
  /\ UNCHANGED <<code, phase, blocks, exception_block_index>>

EndScanCountingTheBeginning ==
  /\ phase = "scan" /\ cursor = py_instr_num
  /\ is_boundary' = (is_boundary \cup {py_instr_num}) \ {0}
  /\ block_num' = block_num + Cardinality({py_instr_num} \ is_boundary)
  /\ blocks' = [b \in 0 .. block_num' + try_block_num - 1 |-> FreshBlock]
  /\ phase' = "create" /\ cursor' = 0
  /\ UNCHANGED <<code, try_block_num, handler_num, exception_block_index>>

\* The end of the code ends a block; its beginning ends none.
EndScan ==
  /\ phase = "scan" /\ cursor = py_instr_num
  /\ is_boundary' = (is_boundary \cup {py_instr_num}) \ {0}
  /\ block_num' = block_num + Cardinality({py_instr_num} \ is_boundary)
                            - Cardinality({0} \cap is_boundary)
  /\ blocks' = [b \in 0 .. block_num' + try_block_num - 1 |-> FreshBlock]
  /\ phase' = "create" /\ cursor' = 0
  /\ UNCHANGED <<code, try_block_num, handler_num, exception_block_index>>

-----------------------------------------------------------------------------
\* The unit the block being created begins at.
start_index == IF cursor = 0 THEN 0 ELSE blocks[cursor - 1].end_index

\* A block that ends before `end`: what follows depends on its last unit alone.
BlockEndingAt(end) ==
  LET op == code[end - 1].op
  IN  [FreshBlock EXCEPT
         !.end_index     = end,
         !.fall_through  = ~isTerminator(op),
         !.branch        = IF Jumps(op) THEN Destination(code, end - 1) ELSE Nil,
         !.eh_body_enter = isTryBlockSetup(op),
         !.eh_body_exit  = (op = "POP_BLOCK")]

Create ==
  LET ends == {e \in is_boundary : e > start_index}
      new  == BlockEndingAt(Min(ends))
  IN  /\ phase = "create" /\ ends # {}
      /\ blocks' = [blocks EXCEPT ![cursor] = new]
      /\ handler_num' = IF new.eh_body_enter THEN handler_num + 1 ELSE handler_num
      /\ cursor' = cursor + 1
      /\ UNCHANGED <<code, phase, is_boundary, block_num, try_block_num,
                     exception_block_index>>

EndCreate ==
  /\ phase = "create" /\ \A e \in is_boundary : e <= start_index
  /\ exception_block_index' = block_num
  /\ phase' = "link" /\ cursor' = 0
  /\ UNCHANGED <<code, is_boundary, block_num, try_block_num, handler_num, blocks>>

-----------------------------------------------------------------------------
Outside == -1            \* a pointer to no block of the array

findPyBlockEndingThere(offset) ==
  {IF offset = 0 THEN 0
                 ELSE CHOOSE b \in 0 .. block_num - 1 : blocks[b].end_index = offset}

\* findPyBlock: binary search for the block that ends where the offset is; the
\* block wanted is the one after it, and the first block when none ends there.
\* The index to begin with, block_num - 2, is unsigned: with a single block the
\* search reads far outside the array, and its result may be anything.
findPyBlock(offset) ==
  LET search[at \in (0 .. block_num) \X (-1 .. block_num - 1)] ==
        LET left  == at[1]
            right == at[2]
            mid   == left + (right - left) \div 2
            end   == blocks[mid].end_index
        IN  IF left > right THEN 0
            ELSE IF end < offset THEN search[<<mid + 1, right>>]
            ELSE IF end > offset THEN search[<<left, mid - 1>>]
            ELSE mid + 1
  IN  IF block_num = 1 THEN {0, Outside} ELSE {search[<<0, block_num - 2>>]}

\* A code of a single block that jumps to its own beginning, the only one with a
\* jump for which findPyBlock searches outside the array.
OneBlockLoop ==
  LET last == py_instr_num - 1
  IN  /\ Jumps(code[last].op) /\ Destination(code, last) = 0
      /\ \A v \in 0 .. last - 1 : ~Jumps(code[v].op) /\ code[v].op # "POP_BLOCK"

targets(branch) == IF branch = Nil THEN {Nil} ELSE findPyBlock(branch)

\* Going on to the next block only from a block that branches.
LinkStayingAtPlainBlocks ==
  /\ phase = "link" /\ cursor < block_num
  /\ \E target \in targets(blocks[cursor].branch) :
       blocks' = [blocks EXCEPT ![cursor].branch = target]
  /\ cursor' = IF blocks[cursor].branch = Nil THEN cursor ELSE cursor + 1
  /\ UNCHANGED <<code, phase, is_boundary, block_num, try_block_num, handler_num,
                 exception_block_index>>

\* The setup of a try block branches to an exception block, which branches to
\* the handler; any other block branches to its target.
Link ==
  LET b  == blocks[cursor]
      eb == exception_block_index
  IN  /\ phase = "link" /\ cursor < block_num
      /\ \E target \in targets(b.branch) :
           blocks' =
             IF b.branch # Nil /\ b.eh_body_enter
               THEN [blocks EXCEPT ![cursor].branch = eb,
                                   ![eb].branch = target,
                                   ![eb].eh_setup_block = cursor]
               ELSE [blocks EXCEPT ![cursor].branch = target]
      /\ exception_block_index' = IF b.branch # Nil /\ b.eh_body_enter THEN eb + 1 ELSE eb
      /\ cursor' = cursor + 1
      /\ UNCHANGED <<code, phase, is_boundary, block_num, try_block_num, handler_num>>

EndLink ==
  /\ phase = "link" /\ cursor = block_num
  /\ phase' = "parsed"
  /\ UNCHANGED <<code, cursor, is_boundary, block_num, try_block_num, handler_num,
                 blocks, exception_block_index>>

ParseNext == Scan \/ EndScan \/ Create \/ EndCreate \/ Link \/ EndLink

-----------------------------------------------------------------------------
CodeBlocks == 0 .. block_num - 1
AllBlocks  == 0 .. block_num + try_block_num - 1

\* The first unit of code block b.
BlockStart(b) == IF b = 0 THEN 0 ELSE blocks[b - 1].end_index

\* The array reserved from the counts of the first pass is filled exactly by the
\* blocks of the second and the exception blocks of the third (the assertions on
\* created_block_num and exception_block_index): no write is ever beyond it.
CountsAgree ==
  /\ phase = "create" => cursor <= block_num
  /\ phase = "create" /\ (\A e \in is_boundary : e <= start_index) => cursor = block_num
  /\ phase \in {"link", "parsed"} => exception_block_index <= block_num + try_block_num
  /\ phase = "parsed" => exception_block_index = block_num + try_block_num

\* The blocks are basic blocks: they cover the code in order, control leaves a
\* block only at its last unit and enters it only at its first, a try block
\* begins and ends at a block's end, and control never falls off the last block.
BasicBlocks ==
  phase = "parsed" =>
    /\ \A b \in CodeBlocks : BlockStart(b) < blocks[b].end_index
    /\ blocks[block_num - 1].end_index = py_instr_num
    /\ ~blocks[block_num - 1].fall_through
    /\ \A b \in CodeBlocks : \A v \in BlockStart(b) .. blocks[b].end_index - 2 :
         code[v].op # "POP_BLOCK" /\ ~Jumps(code[v].op) /\ ~isTerminator(code[v].op)
    /\ \A v \in DOMAIN code : Jumps(code[v].op) =>
         \E b \in CodeBlocks : BlockStart(b) = Destination(code, v)

\* Every jump was resolved to the block that begins at its destination, and the
\* setup of a try block reaches its handler through an exception block of its
\* own that knows it.
BranchesResolved ==
  phase = "parsed" =>
    \A b \in CodeBlocks :
      LET tail   == blocks[b].end_index - 1
          direct == blocks[b].branch
          eb     == direct
      IN  /\ ~Jumps(code[tail].op) => direct = Nil
          /\ Jumps(code[tail].op) /\ ~isTryBlockSetup(code[tail].op) =>
               direct \in CodeBlocks /\ BlockStart(direct) = Destination(code, tail)
          /\ isTryBlockSetup(code[tail].op) =>
               /\ eb \in AllBlocks \ CodeBlocks
               /\ blocks[eb].eh_setup_block = b
               /\ blocks[eb].branch \in CodeBlocks
               /\ BlockStart(blocks[eb].branch) = Destination(code, tail)

\* A block never begins between a unit and its EXTENDED_ARG prefixes, so that the
\* argument emitBlock accumulates forward in the block is the one the analysis
\* reads walking back.
OpargsAgree ==
  phase = "parsed" =>
    \A b \in CodeBlocks : \A v \in BlockStart(b) .. blocks[b].end_index - 1 :
      emittedOparg(code, BlockStart(b), v) = oparg(code, v)

\* Parsing ends.
Parses == <>(phase = "parsed")
=============================================================================
