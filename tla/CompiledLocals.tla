--------------------------- MODULE CompiledLocals ---------------------------
(***************************************************************************)
(* The life of a function's local variables from bytecode to execution:    *)
(* parseCFG, the part of doIntraBlockAnalysis that summarises each block,  *)
(* analyzeEHBlock and the worklist of doInterBlockAnalysis, and then the   *)
(* code emitBlock makes of LOAD_FAST, STORE_FAST and DELETE_FAST, run with *)
(* every instruction that may raise free to do so.  Emission drops the     *)
(* test for an unassigned local wherever the analysis claims it assigned;  *)
(* the run tells whether the claim was true.                               *)
(***************************************************************************)
EXTENDS ParseCFG, Sequences

CONSTANTS Local,           \* 0 .. co_nlocals - 1
          CO_MAXBLOCKS,    \* entries of a frame's block stack: 20 in CPython
          ChunkBits        \* bits of a BitArray chunk: 64

ASSUME LocalAssumption == IsFiniteSet(Local) /\ Local = 0 .. Cardinality(Local) - 1
ASSUME ChunkAssumption == ChunkBits \in Nat \ {0}

VARIABLES
  signature,               \* what the code object says of its parameters
  locals_kept, locals_set, locals_ever_deleted,
  visited_eh_block,        \* the exception block a block was last visited for
  eh_calls,                \* pending calls of analyzeEHBlock, the next one last
  entry_locals,            \* the locals the entry mask lets through
  locals_input, worklist_link, worklist_head,
  pc,                      \* unit executed next
  bound,                   \* locals whose slot is not NULL
  defined,                 \* defined_locals, as emitBlock has it at this unit
  blockstack               \* f_blockstack: <<kind, handler block>>

analysis == <<locals_kept, locals_set, locals_ever_deleted, visited_eh_block, eh_calls>>
flowVars == <<entry_locals, locals_input, worklist_link, worklist_head>>
runVars  == <<pc, bound, defined, blockstack>>
vars     == <<parseVars, signature, analysis, flowVars, runVars>>

-----------------------------------------------------------------------------
\* Parameters: positional, keyword-only, *args and **kwargs, in this order the
\* first locals.  The call machinery binds them all before the first unit runs.
Signature == [argcount : Nat, kwonly : Nat, varargs : BOOLEAN, varkw : BOOLEAN]

Parameters(sig) ==
  LET n == sig.argcount + sig.kwonly + (IF sig.varargs THEN 1 ELSE 0)
                                     + (IF sig.varkw THEN 1 ELSE 0)
  IN  {x \in Local : x < n}

CO_VARARGS     == 4
CO_VARKEYWORDS == 8

\* analyze_code.cpp 720-721: the flags are added as they are.
maskedArgs(sig) ==
  sig.argcount + (IF sig.varargs THEN CO_VARARGS ELSE 0)
    + sig.kwonly + (IF sig.varkw THEN CO_VARKEYWORDS ELSE 0)

entryMasksOffByOne(sig) == {{x \in Local : x <= maskedArgs(sig)}}

\* analyze_code.cpp 722-725: the locals let through, chunk by chunk.  A shift by
\* the width of a chunk or more is undefined: the machine shifts by the remainder
\* (SHL) or by all of it (BZHI).
entryMasks(sig) ==
  LET left(chunk) == IF maskedArgs(sig) > chunk * ChunkBits
                       THEN maskedArgs(sig) - chunk * ChunkBits ELSE 0
      shl  == {x \in Local : x % ChunkBits < left(x \div ChunkBits) % ChunkBits}
      bzhi == {x \in Local : x % ChunkBits < left(x \div ChunkBits)}
  IN  {shl, bzhi}

Flow == INSTANCE DefinedLocals WITH
  nblock       <- block_num + try_block_num,
  branch       <- [b \in AllBlocks |-> blocks[b].branch],
  fall_through <- [b \in AllBlocks |-> blocks[b].fall_through]

InitCompile ==
  /\ InitParse
  /\ locals_kept = <<>> /\ locals_set = <<>> /\ locals_ever_deleted = <<>>
  /\ visited_eh_block = <<>> /\ eh_calls = <<>>
  /\ entry_locals = {} /\ locals_input = <<>> /\ worklist_link = <<>> /\ worklist_head = Nil
  /\ pc = 0 /\ bound = {} /\ defined = {} /\ blockstack = <<>>

-----------------------------------------------------------------------------
\* The summaries parseCFG reserves: an exception block keeps everything.
StartIntra ==
  /\ phase = "parsed"
  /\ locals_kept = <<>>
  /\ locals_kept'         = [b \in AllBlocks |-> IF b \in CodeBlocks THEN {} ELSE Local]
  /\ locals_set'          = [b \in AllBlocks |-> {}]
  /\ locals_ever_deleted' = [b \in AllBlocks |-> {}]
  /\ visited_eh_block'    = [b \in AllBlocks |-> Nil]
  /\ phase' = "intra" /\ cursor' = py_instr_num
  /\ UNCHANGED <<code, is_boundary, block_num, try_block_num, handler_num, blocks,
                 exception_block_index, signature, eh_calls, flowVars, runVars>>

BlockOf(vpc) == CHOOSE b \in CodeBlocks : BlockStart(b) <= vpc /\ vpc < blocks[b].end_index

\* doIntraBlockAnalysis on the unit before the cursor, going backward.  Until its
\* first unit is done, a block's locals_kept holds the locals touched so far and
\* its locals_set those whose last touch deletes them; then they become what
\* their names say.
Intra ==
  LET vpc     == cursor - 1
      b       == BlockOf(vpc)
      op      == code[vpc].op
      x       == oparg(code, vpc)
      touched == locals_kept[b] \cup
                 (IF op \in {"LOAD_FAST", "STORE_FAST", "DELETE_FAST"} THEN {x} ELSE {})
      deleted == locals_set[b] \cup
                 (IF op = "DELETE_FAST" THEN {x} \ locals_kept[b] ELSE {})
      first   == vpc = BlockStart(b)
  IN  /\ phase = "intra" /\ cursor > 0
      /\ locals_kept' = [locals_kept EXCEPT ![b] = IF first THEN Local \ touched ELSE touched]
      /\ locals_set'  = [locals_set EXCEPT ![b] = IF first THEN touched \ deleted ELSE deleted]
      /\ locals_ever_deleted' =
           [locals_ever_deleted EXCEPT ![b] = @ \cup (IF op = "DELETE_FAST" THEN {x} ELSE {})]
      /\ cursor' = vpc
      /\ UNCHANGED <<code, phase, is_boundary, block_num, try_block_num, handler_num, blocks,
                     exception_block_index, signature, visited_eh_block, eh_calls, flowVars,
                     runVars>>

EndIntra ==
  /\ phase = "intra" /\ cursor = 0
  /\ phase' = "eh" /\ cursor' = block_num
  /\ UNCHANGED <<code, is_boundary, block_num, try_block_num, handler_num, blocks,
                 exception_block_index, signature, analysis, flowVars, runVars>>

-----------------------------------------------------------------------------
VisitBodyUnnested ==
  /\ phase = "eh" /\ eh_calls = <<>> /\ cursor \in AllBlocks
  /\ eh_calls' = <<[eb |-> cursor, b |-> blocks[cursor].eh_setup_block + 1, depth |-> 0]>>
  /\ cursor' = cursor + 1
  /\ UNCHANGED <<code, phase, is_boundary, block_num, try_block_num, handler_num, blocks,
                 exception_block_index, signature, locals_kept, locals_set,
                 locals_ever_deleted, visited_eh_block, flowVars, runVars>>

\* The loop over the exception blocks: the body of a try block is visited from
\* the block after its setup, nested once.
VisitBody ==
  /\ phase = "eh" /\ eh_calls = <<>> /\ cursor \in AllBlocks
  /\ eh_calls' = <<[eb |-> cursor, b |-> blocks[cursor].eh_setup_block + 1, depth |-> 1]>>
  /\ cursor' = cursor + 1
  /\ UNCHANGED <<code, phase, is_boundary, block_num, try_block_num, handler_num, blocks,
                 exception_block_index, signature, locals_kept, locals_set,
                 locals_ever_deleted, visited_eh_block, flowVars, runVars>>

NeverTooNested(depth) == FALSE

\* The limit on how deep bodies nest, which is to keep the block stack's last
\* entry free.
TooNested(depth) == depth >= CO_MAXBLOCKS - 1

\* One call of analyzeEHBlock.  A local some block of the body deletes may be
\* unassigned in the handler.  The calls it makes are queued, the branch's to
\* run first; a body that nests too deep aborts the compilation.
analyzeEHBlock ==
  LET call     == eh_calls[Len(eh_calls)]
      rest     == SubSeq(eh_calls, 1, Len(eh_calls) - 1)
      eb       == call.eb
      block    == blocks[call.b]
      target   == IF block.eh_body_enter THEN blocks[block.branch].branch ELSE block.branch
      after    == call.depth + (IF block.eh_body_enter THEN 1 ELSE 0)
                             - (IF block.eh_body_exit THEN 1 ELSE 0)
      falls    == block.fall_through /\ after # 0
      onFall   == IF falls THEN <<[eb |-> eb, b |-> call.b + 1, depth |-> after]>> ELSE <<>>
      onBranch == IF block.branch # Nil THEN <<[eb |-> eb, b |-> target, depth |-> call.depth]>>
                                        ELSE <<>>
  IN  /\ phase = "eh" /\ eh_calls # <<>>
      /\ IF visited_eh_block[call.b] = eb
           THEN /\ eh_calls' = rest
                /\ UNCHANGED <<phase, locals_kept, visited_eh_block>>
           ELSE /\ visited_eh_block' = [visited_eh_block EXCEPT ![call.b] = eb]
                /\ locals_kept' = [locals_kept EXCEPT ![eb] = @ \ locals_ever_deleted[call.b]]
                /\ IF falls /\ TooNested(after)
                     THEN phase' = "rejected" /\ UNCHANGED eh_calls
                     ELSE eh_calls' = rest \o onFall \o onBranch /\ UNCHANGED phase
      /\ UNCHANGED <<code, cursor, is_boundary, block_num, try_block_num, handler_num, blocks,
                     exception_block_index, signature, locals_set, locals_ever_deleted,
                     flowVars, runVars>>

ArrayOrderWithoutEnd == [b \in AllBlocks |-> IF b + 1 \in AllBlocks THEN b + 1 ELSE b]

ArrayOrderOfCodeBlocks == [b \in AllBlocks |-> IF b + 1 \in CodeBlocks THEN b + 1 ELSE Nil]

\* The list as the loop over the array links it.
ArrayOrder == [b \in AllBlocks |-> IF b + 1 \in AllBlocks THEN b + 1 ELSE Nil]

StartFlow ==
  /\ phase = "eh" /\ eh_calls = <<>> /\ cursor \notin AllBlocks
  /\ phase' = "flow"
  /\ entry_locals' \in entryMasks(signature)
  /\ worklist_head' = 0
  /\ worklist_link' = ArrayOrder
  /\ locals_input'  = [b \in AllBlocks |-> IF b = 0 THEN entry_locals' ELSE Local]
  /\ UNCHANGED <<code, cursor, is_boundary, block_num, try_block_num, handler_num, blocks,
                 exception_block_index, signature, analysis, runVars>>

\* One turn of the worklist.
FlowStep ==
  /\ phase = "flow"
  /\ UNCHANGED <<parseVars, signature, analysis, runVars>>
  /\ Flow!ProcessHead

\* The list is empty: exception blocks are cut out of the graph, and the code is
\* emitted and called.
StartRun ==
  /\ phase = "flow" /\ worklist_head = Nil
  /\ blocks' = [b \in AllBlocks |->
                  IF blocks[b].eh_body_enter
                    THEN [blocks[b] EXCEPT !.branch = blocks[blocks[b].branch].branch]
                    ELSE blocks[b]]
  /\ phase' = "run"
  /\ pc' = 0
  /\ bound' = Parameters(signature)
  /\ defined' = locals_input[0]
  /\ UNCHANGED <<code, cursor, is_boundary, block_num, try_block_num, handler_num,
                 exception_block_index, signature, analysis, flowVars, blockstack>>

-----------------------------------------------------------------------------
\* Running.  The emitted code of block b begins with the claims at its start.
Running(ops) == phase = "run" /\ code[pc].op \in ops

static == <<code, cursor, is_boundary, block_num, try_block_num, handler_num, blocks,
            exception_block_index, signature, analysis, flowVars>>

EnterBlock(b) == pc' = BlockStart(b) /\ defined' = locals_input[b]

\* The next unit of the block, or the block after it.
Advance(nowDefined) ==
  /\ pc' = pc + 1
  /\ defined' = IF pc + 1 = blocks[BlockOf(pc)].end_index
                  THEN locals_input[BlockOf(pc) + 1] ELSE nowDefined

\* gotoUnwind: handlers being run are left; the innermost try block's handler
\* takes the exception, or the function returns with it.
Unwind ==
  LET tries == {i \in DOMAIN blockstack : blockstack[i][1] = "SETUP_FINALLY"}
      top   == Max(tries)
  IN  IF tries = {}
        THEN phase' = "returned" /\ blockstack' = <<>> /\ UNCHANGED <<pc, defined>>
        ELSE /\ EnterBlock(blockstack[top][2])
             /\ blockstack' = Append(SubSeq(blockstack, 1, top - 1), <<"EXCEPT_HANDLER", Nil>>)
             /\ UNCHANGED phase

\* Units whose emitted code neither calls what may raise nor tests anything.
Silent ==
  {"EXTENDED_ARG", "NOP", "ROT_TWO", "ROT_THREE", "ROT_FOUR", "ROT_N", "DUP_TOP", "DUP_TOP_TWO",
   "POP_TOP", "LOAD_CONST", "STORE_FAST", "STORE_DEREF", "IS_OP", "LOAD_CLOSURE",
   "LOAD_ASSERTION_ERROR", "MATCH_MAPPING", "MATCH_SEQUENCE", "JUMP_FORWARD", "JUMP_ABSOLUTE",
   "SETUP_FINALLY", "SETUP_ASYNC_WITH", "POP_BLOCK", "POP_EXCEPT", "RETURN_VALUE"}

\* The instruction raises instead of completing: a call, or the test for an
\* unassigned local where it was not dropped.
Raise ==
  /\ phase = "run"
  /\ IF code[pc].op \in {"LOAD_FAST", "DELETE_FAST"}
       THEN oparg(code, pc) \notin defined /\ oparg(code, pc) \notin bound
       ELSE code[pc].op \notin Silent
  /\ Unwind
  /\ UNCHANGED <<static, bound>>

\* Units that end by going on to the next and concern neither a local nor the
\* block stack.
Ordinary(op) ==
  /\ ~Jumps(op) /\ ~isTerminator(op)
  /\ op \notin {"LOAD_FAST", "STORE_FAST", "DELETE_FAST", "POP_BLOCK", "POP_EXCEPT",
                "END_ASYNC_FOR"}

Complete ==
  /\ phase = "run" /\ Ordinary(code[pc].op)
  /\ Advance(defined)
  /\ UNCHANGED <<static, phase, bound, blockstack>>

\* A load whose test passed or was dropped.
LoadFast ==
  LET x == oparg(code, pc)
  IN  /\ Running({"LOAD_FAST"})
      /\ x \in defined \cup bound
      /\ Advance(defined \cup {x})
      /\ UNCHANGED <<static, phase, bound, blockstack>>

\* The old value is released without a test when the local is claimed assigned.
StoreFast ==
  LET x == oparg(code, pc)
  IN  /\ Running({"STORE_FAST"})
      /\ bound' = bound \cup {x}
      /\ Advance(defined \cup {x})
      /\ UNCHANGED <<static, phase, blockstack>>

DeleteFast ==
  LET x == oparg(code, pc)
  IN  /\ Running({"DELETE_FAST"})
      /\ x \in defined \cup bound
      /\ bound' = bound \ {x}
      /\ Advance(defined \ {x})
      /\ UNCHANGED <<static, phase, blockstack>>

\* Jumps, the conditional ones either way.
Jump ==
  /\ phase = "run" /\ (isAbsoluteJmp(code[pc].op) \/ isRelativeJump(code[pc].op))
  /\ \/ EnterBlock(blocks[BlockOf(pc)].branch)
     \/ ~isTerminator(code[pc].op) /\ Advance(defined)
  /\ UNCHANGED <<static, phase, bound, blockstack>>

\* The beginning of a try block, or of the body of a with statement.
SetupFinally ==
  /\ phase = "run" /\ isTryBlockSetup(code[pc].op)
  /\ blockstack' = Append(blockstack, <<"SETUP_FINALLY", blocks[BlockOf(pc)].branch>>)
  /\ Advance(defined)
  /\ UNCHANGED <<static, phase, bound>>

\* POP_BLOCK ends a try block's body, POP_EXCEPT a handler, END_ASYNC_FOR the
\* handler of a loop whose iterator is exhausted.
Leaving == {"POP_BLOCK", "POP_EXCEPT", "END_ASYNC_FOR"}

PopBlock ==
  /\ Running(Leaving)
  /\ blockstack' = SubSeq(blockstack, 1, Len(blockstack) - 1)
  /\ Advance(defined)
  /\ UNCHANGED <<static, phase, bound>>

Return ==
  /\ Running({"RETURN_VALUE"})
  /\ phase' = "returned"
  /\ UNCHANGED <<static, pc, bound, defined, blockstack>>

\* What CPython's compiler guarantees of the nesting: wherever a unit is reached
\* from, it is in the bodies of the same try blocks (try is TRUE) and in the same
\* handlers, those set up by the units `setup`, the outermost first.
Nests(nest) ==
  /\ nest \in [DOMAIN code -> Seq([try : BOOLEAN, setup : DOMAIN code])]
  /\ nest[0] = <<>>
  /\ \A v \in DOMAIN code :
       LET op == code[v].op
       IN  /\ Jumps(op) =>
                nest[Destination(code, v)] =
                  IF isTryBlockSetup(op) THEN Append(nest[v], [try |-> FALSE, setup |-> v])
                                         ELSE nest[v]
           /\ ~isTerminator(op) =>
                nest[v + 1] =
                  IF isTryBlockSetup(op) THEN Append(nest[v], [try |-> TRUE, setup |-> v])
                  ELSE IF op \in Leaving THEN SubSeq(nest[v], 1, Len(nest[v]) - 1)
                  ELSE nest[v]
           /\ op \in Leaving =>
                nest[v] # <<>> /\ nest[v][Len(nest[v])].try = (op = "POP_BLOCK")

Parse == ParseNext /\ UNCHANGED <<signature, analysis, flowVars, runVars>>

Compile == Parse \/ StartIntra \/ Intra \/ EndIntra \/ VisitBody \/ analyzeEHBlock
             \/ StartFlow \/ FlowStep \/ StartRun

Execute == Raise \/ Complete \/ LoadFast \/ StoreFast \/ DeleteFast \/ Jump
             \/ SetupFinally \/ PopBlock \/ Return

Next == Compile \/ Execute

-----------------------------------------------------------------------------
\* Every local the running code takes for assigned is assigned: where the test
\* was dropped there is no NULL to load, to delete or to release.
DefinedIsBound == phase = "run" => defined \subseteq bound

\* Whenever a block runs with a handler in place, the analysis of that handler
\* took into account every local the block deletes: the walk over the try
\* block's body follows the nesting the block stack has at run time.
BodyAccounted ==
  phase = "run" =>
    \A i \in DOMAIN blockstack : \A eb \in AllBlocks \ CodeBlocks :
      blockstack[i] = <<"SETUP_FINALLY", blocks[eb].branch>> =>
        locals_kept[eb] \cap locals_ever_deleted[BlockOf(pc)] = {}

\* The last entry of the block stack is never in use when the code raises: the
\* unwinder keeps the place to resume at in it.
ResumeSlotFree == Len(blockstack) <= CO_MAXBLOCKS - 1

\* The worklist begins in the state its proof assumes: a well-formed graph, every
\* block in the list, and claims that are the entry mask's at the first block.
FlowStartsWell == [][phase # "flow" /\ phase' = "flow" => Flow!Init']_vars

\* Compilation ends, in code that runs or in a refusal.
Compiles == <>(phase \in {"run", "rejected"})
=============================================================================
