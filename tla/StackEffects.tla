---------------------------- MODULE StackEffects ----------------------------
(***************************************************************************)
(* What each opcode does to the value stack, told twice: by the backward   *)
(* pass doIntraBlockAnalysis, as the row it assumes, and by emitBlock, as  *)
(* the code it generates.  The two tables were written apart from each     *)
(* other, one family of opcodes after the other; StackValues runs one      *)
(* against the other.                                                      *)
(***************************************************************************)
EXTENDS Integers, Sequences

CONSTANTS Forever,     \* until_forever: still on the stack when the block ends
          Anytime      \* until_anytime: 0

UnaryOps == {"UNARY_NOT", "UNARY_POSITIVE", "UNARY_NEGATIVE", "UNARY_INVERT"}

BinaryOps ==
  {"BINARY_ADD", "INPLACE_ADD", "BINARY_SUBTRACT", "INPLACE_SUBTRACT", "BINARY_MULTIPLY",
   "INPLACE_MULTIPLY", "BINARY_FLOOR_DIVIDE", "INPLACE_FLOOR_DIVIDE", "BINARY_TRUE_DIVIDE",
   "INPLACE_TRUE_DIVIDE", "BINARY_MODULO", "INPLACE_MODULO", "BINARY_POWER", "INPLACE_POWER",
   "BINARY_MATRIX_MULTIPLY", "INPLACE_MATRIX_MULTIPLY", "BINARY_LSHIFT", "INPLACE_LSHIFT",
   "BINARY_RSHIFT", "INPLACE_RSHIFT", "BINARY_AND", "INPLACE_AND", "BINARY_OR", "INPLACE_OR",
   "BINARY_XOR", "INPLACE_XOR"}

Building   == {"BUILD_STRING", "BUILD_TUPLE", "BUILD_LIST", "BUILD_SET"}
AddingTo   == {"LIST_APPEND", "SET_ADD", "LIST_EXTEND", "SET_UPDATE", "DICT_UPDATE",
               "DICT_MERGE"}
PopJumps   == {"POP_JUMP_IF_TRUE", "POP_JUMP_IF_FALSE"}
OrPopJumps == {"JUMP_IF_TRUE_OR_POP", "JUMP_IF_FALSE_OR_POP"}

Times(n, t) == [i \in 1 .. n |-> t]
Bit(n, k)   == (n \div k) % 2

\* Values UNPACK_EX leaves: those before the star, the list, those after it.
Unpacked(n) == 1 + (n % 256) + (n \div 256)

\* ROT_TWO ... ROT_N put the top below n-1 others.
RotArg(op, n) == CASE op = "ROT_TWO" -> 2 [] op = "ROT_THREE" -> 3
                   [] op = "ROT_FOUR" -> 4 [] OTHER -> n

-----------------------------------------------------------------------------
(* The rows of the backward pass.  Going backward over an opcode, `undo`    *)
(* values leave the top of the reversed stack and values last used at the   *)
(* times `marks` come onto it.                                              *)
Row(undo, marks) == [undo |-> undo, marks |-> marks]

\* The top n values of the reversed stack, whose bottom is all Forever, and the
\* stack without them.
TopOf(until, n) ==
  LET len == Len(until)
  IN  [i \in 1 .. n |-> IF len - n + i >= 1 THEN until[len - n + i] ELSE Forever]

Without(until, n) == IF n >= Len(until) THEN <<>> ELSE SubSeq(until, 1, Len(until) - n)

earlier(s, t) == IF s < t THEN s ELSE t

later(s, t) == IF s > t THEN s ELSE t

\* The emitted code of an opcode, in this order:
\*   pop    values do_POP takes off; they are released at the end if the stack
\*          owned them (early: before the call; lost: the top `lost` of them are
\*          not; always: the top `always` of them are, owned or not);
\*   take   values handed to the callee in place, which must be owned;
\*   risky  the callee may raise;
\*   keep   values then given to another holder;
\*   push   values that come onto the stack (borrowed: without a reference;
\*          blind: the abstract stack is left as if none had been taken or pushed).
Plain == [pop |-> 0, early |-> FALSE, lost |-> 0, always |-> 0, take |-> 0, risky |-> TRUE,
          keep |-> 0, push |-> 0, borrowed |-> FALSE, blind |-> FALSE]

Pop(p, q)  == [Plain EXCEPT !.pop = p, !.push = q]
Take(t, q) == [Plain EXCEPT !.take = t, !.push = q]
Safely(e)  == [e EXCEPT !.risky = FALSE]

-----------------------------------------------------------------------------
\* Values moved on the stack, from and to the locals (emitted by actions of
\* their own in StackValues, but POP_TOP and NOP).
MoveOps == {"NOP", "EXTENDED_ARG", "POP_TOP", "LOAD_CONST", "LOAD_FAST", "STORE_FAST",
            "DELETE_FAST", "ROT_TWO", "ROT_THREE", "ROT_FOUR", "ROT_N", "DUP_TOP",
            "DUP_TOP_TWO"}

AssumesMove(op, n, until, vpc) ==
  CASE op \in {"NOP", "EXTENDED_ARG", "DELETE_FAST"} -> Row(0, <<>>)
    [] op \in {"LOAD_CONST", "LOAD_FAST"} -> Row(1, <<>>)
    [] op = "STORE_FAST" -> Row(0, <<vpc>>)
    [] op = "POP_TOP" -> Row(0, <<Anytime>>)
    [] op \in {"ROT_TWO", "ROT_THREE", "ROT_FOUR", "ROT_N"} ->
         LET k == RotArg(op, n)  t == TopOf(until, k)
         IN  Row(k, SubSeq(t, 2, k) \o <<t[1]>>)
    [] op = "DUP_TOP" ->
         LET t == TopOf(until, 2) IN Row(2, <<later(t[1], t[2])>>)
    [] op = "DUP_TOP_TWO" ->
         LET t == TopOf(until, 4) IN Row(4, <<later(t[1], t[3]), later(t[2], t[4])>>)

EmitsMove(op) == Safely(IF op = "POP_TOP" THEN Pop(1, 0) ELSE Plain)

\* Cells, globals, names and attributes.
NameOps == {"LOAD_DEREF", "LOAD_CLASSDEREF", "STORE_DEREF", "DELETE_DEREF", "LOAD_GLOBAL",
            "STORE_GLOBAL", "DELETE_GLOBAL", "LOAD_NAME", "STORE_NAME", "DELETE_NAME",
            "LOAD_ATTR", "LOAD_METHOD", "STORE_ATTR", "DELETE_ATTR"}

AssumesName(op, vpc) ==
  CASE op \in {"LOAD_DEREF", "LOAD_CLASSDEREF", "LOAD_GLOBAL", "LOAD_NAME"} -> Row(1, <<>>)
    [] op \in {"STORE_DEREF", "STORE_GLOBAL", "STORE_NAME", "DELETE_ATTR"} -> Row(0, <<vpc>>)
    [] op \in {"DELETE_DEREF", "DELETE_GLOBAL", "DELETE_NAME"} -> Row(0, <<>>)
    [] op = "LOAD_ATTR" -> Row(1, <<vpc>>)
    [] op = "LOAD_METHOD" -> Row(2, <<Forever>>)
    [] op = "STORE_ATTR" -> Row(0, <<vpc, vpc>>)

EmitsName(op) ==
  CASE op \in {"LOAD_DEREF", "LOAD_CLASSDEREF", "LOAD_GLOBAL", "LOAD_NAME"} -> Pop(0, 1)
    [] op = "STORE_DEREF" -> Safely([Plain EXCEPT !.keep = 1])
    [] op \in {"STORE_GLOBAL", "STORE_NAME", "DELETE_ATTR"} -> Pop(1, 0)
    [] op \in {"DELETE_DEREF", "DELETE_GLOBAL", "DELETE_NAME"} -> Plain
    [] op = "LOAD_ATTR" -> Pop(1, 1)
    [] op = "LOAD_METHOD" -> Take(1, 2)
    [] op = "STORE_ATTR" -> Pop(2, 0)

OperatorOps == UnaryOps \cup BinaryOps
                 \cup {"COMPARE_OP", "IS_OP", "CONTAINS_OP", "BINARY_SUBSCR",
                       "STORE_SUBSCR", "DELETE_SUBSCR"}

AssumesOperator(op, vpc) ==
  CASE op \in UnaryOps -> Row(1, <<vpc>>)
    [] op = "STORE_SUBSCR" -> Row(0, <<vpc, vpc, vpc>>)
    [] op = "DELETE_SUBSCR" -> Row(0, <<vpc, vpc>>)
    [] OTHER -> Row(1, <<vpc, vpc>>)

EmitsOperator(op) ==
  CASE op \in UnaryOps -> Pop(1, 1)
    [] op = "STORE_SUBSCR" -> Pop(3, 0)
    [] op = "DELETE_SUBSCR" -> Pop(2, 0)
    [] op = "IS_OP" -> Safely([Pop(2, 0) EXCEPT !.lost = 2])
    [] op = "CONTAINS_OP" -> [Pop(2, 1) EXCEPT !.borrowed = TRUE]
    [] OTHER -> Pop(2, 1)

\* Calls and returns, functions made, modules imported.
CallOps == {"RETURN_VALUE", "CALL_FUNCTION", "CALL_METHOD", "CALL_FUNCTION_KW",
            "CALL_FUNCTION_EX", "LOAD_CLOSURE", "MAKE_FUNCTION", "LOAD_BUILD_CLASS",
            "IMPORT_NAME", "IMPORT_FROM", "IMPORT_STAR"}

Extras(n) == Bit(n, 1) + Bit(n, 2) + Bit(n, 4) + Bit(n, 8)

AssumesCall(op, n, vpc) ==
  CASE op \in {"RETURN_VALUE", "IMPORT_STAR"} -> Row(0, <<vpc>>)
    [] op = "CALL_FUNCTION" -> Row(1, Times(n + 1, Forever))
    [] op \in {"CALL_METHOD", "CALL_FUNCTION_KW"} -> Row(1, Times(n + 2, Forever))
    [] op = "CALL_FUNCTION_EX" -> Row(1, Times(2 + Bit(n, 1), vpc))
    [] op = "MAKE_FUNCTION" -> Row(1, Times(2 + Extras(n), Forever))
    [] op \in {"LOAD_CLOSURE", "LOAD_BUILD_CLASS", "IMPORT_FROM"} -> Row(1, <<>>)
    [] op = "IMPORT_NAME" -> Row(1, <<vpc, vpc>>)

EmitsCall(op, n) ==
  CASE op = "RETURN_VALUE" -> Safely([Plain EXCEPT !.keep = 1])
    [] op = "IMPORT_STAR" -> Pop(1, 0)
    [] op = "CALL_FUNCTION" -> Take(n + 1, 1)
    [] op \in {"CALL_METHOD", "CALL_FUNCTION_KW"} -> Take(n + 2, 1)
    [] op = "CALL_FUNCTION_EX" -> [Pop(2 + Bit(n, 1), 1) EXCEPT !.always = Bit(n, 1)]
    [] op = "MAKE_FUNCTION" -> [Pop(2, 1) EXCEPT !.keep = Extras(n)]
    [] op = "LOAD_CLOSURE" -> Safely(Pop(0, 1))
    [] op \in {"LOAD_BUILD_CLASS", "IMPORT_FROM"} -> Pop(0, 1)
    [] op = "IMPORT_NAME" -> Pop(2, 1)

JumpOps == PopJumps \cup OrPopJumps \cup {"JUMP_FORWARD", "JUMP_ABSOLUTE", "GET_ITER", "FOR_ITER"}

AssumesJump(op, vpc) ==
  CASE op \in {"JUMP_FORWARD", "JUMP_ABSOLUTE"} -> Row(0, <<>>)
    [] op \in PopJumps -> Row(0, <<vpc>>)
    [] op \in OrPopJumps -> Row(0, <<Forever>>)
    [] op = "GET_ITER" -> Row(1, <<vpc>>)
    [] op = "FOR_ITER" -> Row(1, <<>>)

EmitsJump(op) ==
  CASE op \in {"JUMP_FORWARD", "JUMP_ABSOLUTE"} -> Safely(Plain)
    [] op \in PopJumps \cup OrPopJumps -> Pop(1, 0)
    [] op = "GET_ITER" -> Pop(1, 1)
    [] op = "FOR_ITER" -> Pop(0, 1)

\* Containers, strings and slices built; exceptions raised by the program.
BuildOps == Building \cup AddingTo
              \cup {"BUILD_MAP", "BUILD_CONST_KEY_MAP", "MAP_ADD", "LIST_TO_TUPLE",
                    "FORMAT_VALUE", "BUILD_SLICE", "LOAD_ASSERTION_ERROR", "RAISE_VARARGS",
                    "SETUP_ANNOTATIONS", "PRINT_EXPR"}

AssumesBuild(op, n, vpc) ==
  CASE op \in Building -> Row(1, Times(n, Forever))
    [] op = "BUILD_MAP" -> Row(1, Times(2 * n, Forever))
    [] op = "BUILD_CONST_KEY_MAP" -> Row(1, Times(n + 1, Forever))
    [] op \in AddingTo \cup {"PRINT_EXPR"} -> Row(0, <<vpc>>)
    [] op = "MAP_ADD" -> Row(0, <<vpc, vpc>>)
    [] op = "LIST_TO_TUPLE" -> Row(1, <<vpc>>)
    [] op = "FORMAT_VALUE" -> Row(1, Times(1 + Bit(n, 4), vpc))
    [] op = "BUILD_SLICE" -> Row(1, Times(n, vpc))
    [] op = "LOAD_ASSERTION_ERROR" -> Row(1, <<>>)
    [] op = "RAISE_VARARGS" -> Row(0, Times(n, vpc))
    [] op = "SETUP_ANNOTATIONS" -> Row(0, <<>>)

EmitsBuild(op, n) ==
  CASE op \in Building -> Take(n, 1)
    [] op = "BUILD_MAP" -> Take(2 * n, 1)
    [] op = "BUILD_CONST_KEY_MAP" -> Take(n + 1, 1)
    [] op \in AddingTo \cup {"PRINT_EXPR"} -> Pop(1, 0)
    [] op = "MAP_ADD" -> Pop(2, 0)
    [] op = "LIST_TO_TUPLE" -> Pop(1, 1)
    [] op = "FORMAT_VALUE" -> [Pop(1 + Bit(n, 4), 1) EXCEPT !.lost = Bit(n, 4)]
    [] op = "BUILD_SLICE" -> Pop(n, 1)
    [] op = "LOAD_ASSERTION_ERROR" -> Safely(Pop(0, 1))
    [] op = "RAISE_VARARGS" -> Pop(n, 0)
    [] op = "SETUP_ANNOTATIONS" -> Plain

\* Sequences unpacked, patterns matched.
PatternOps == {"UNPACK_SEQUENCE", "UNPACK_EX", "GET_LEN", "MATCH_MAPPING", "MATCH_SEQUENCE",
               "MATCH_KEYS", "MATCH_CLASS", "COPY_DICT_WITHOUT_KEYS"}

AssumesPattern(op, n, vpc) ==
  CASE op = "UNPACK_SEQUENCE" -> Row(n, <<vpc>>)
    [] op = "UNPACK_EX" -> Row(Unpacked(n), <<vpc>>)
    [] op \in {"GET_LEN", "MATCH_MAPPING", "MATCH_SEQUENCE"} -> Row(1, <<>>)
    [] op = "MATCH_KEYS" -> Row(2, <<>>)
    [] op = "MATCH_CLASS" -> Row(2, <<Forever, Forever, vpc>>)
    [] op = "COPY_DICT_WITHOUT_KEYS" -> Row(1, <<vpc>>)

EmitsPattern(op, n) ==
  CASE op = "UNPACK_SEQUENCE" -> Pop(1, n)
    [] op = "UNPACK_EX" -> Pop(1, Unpacked(n))
    [] op = "GET_LEN" -> Pop(0, 1)
    [] op \in {"MATCH_MAPPING", "MATCH_SEQUENCE"} -> Safely(Pop(0, 1))
    [] op = "MATCH_KEYS" -> Pop(0, 2)
    [] op = "MATCH_CLASS" ->
         [Plain EXCEPT !.pop = 1, !.lost = 1, !.take = 2, !.push = 2, !.blind = TRUE]
    [] op = "COPY_DICT_WITHOUT_KEYS" -> Pop(1, 1)

\* Exception handlers.
HandlerOps == {"SETUP_FINALLY", "POP_BLOCK", "POP_EXCEPT", "JUMP_IF_NOT_EXC_MATCH", "RERAISE",
               "SETUP_WITH", "WITH_EXCEPT_START"}

AssumesHandler(op, vpc) ==
  CASE op \in {"SETUP_FINALLY", "POP_BLOCK"} -> Row(0, <<>>)
    [] op = "POP_EXCEPT" -> Row(0, <<vpc, vpc, vpc>>)
    [] op = "JUMP_IF_NOT_EXC_MATCH" -> Row(0, <<vpc, vpc>>)
    [] op \in {"RERAISE", "SETUP_WITH"} -> Row(2, <<Forever>>)
    [] op = "WITH_EXCEPT_START" -> Row(1, <<>>)

EmitsHandler(op) ==
  CASE op \in {"SETUP_FINALLY", "POP_BLOCK"} -> Safely(Plain)
    [] op = "POP_EXCEPT" -> Safely(Take(3, 0))
    [] op = "JUMP_IF_NOT_EXC_MATCH" -> Pop(2, 0)
    [] op = "RERAISE" -> Plain
    [] op = "SETUP_WITH" -> [Take(1, 2) EXCEPT !.blind = TRUE]
    [] op = "WITH_EXCEPT_START" -> Pop(0, 1)

\* Generators and coroutines.
GeneratorOps == {"GEN_START", "YIELD_VALUE", "GET_YIELD_FROM_ITER", "YIELD_FROM",
                 "GET_AWAITABLE", "GET_AITER", "GET_ANEXT", "END_ASYNC_FOR",
                 "SETUP_ASYNC_WITH", "BEFORE_ASYNC_WITH"}

AssumesGenerator(op, vpc) ==
  CASE op = "GEN_START" -> Row(0, <<vpc>>)
    [] op \in {"YIELD_VALUE", "GET_YIELD_FROM_ITER", "GET_AWAITABLE", "GET_AITER"} ->
         Row(1, <<vpc>>)
    [] op = "YIELD_FROM" -> Row(1, <<vpc, Forever>>)
    [] op = "GET_ANEXT" -> Row(1, <<>>)
    [] op = "END_ASYNC_FOR" -> Row(0, Times(7, Forever))
    [] op = "SETUP_ASYNC_WITH" -> Row(0, <<>>)
    [] op = "BEFORE_ASYNC_WITH" -> Row(2, <<Forever>>)

\* The argument of YIELD_VALUE stands for the flag CO_ASYNC_GENERATOR.
EmitsGenerator(op, n) ==
  CASE op = "GEN_START" -> [Pop(1, 0) EXCEPT !.early = TRUE]
    [] op = "YIELD_VALUE" -> IF n = 0 THEN Safely([Plain EXCEPT !.keep = 1, !.push = 1])
                                      ELSE Pop(1, 1)
    [] op \in {"GET_YIELD_FROM_ITER", "GET_AWAITABLE", "GET_AITER"} -> Pop(1, 1)
    [] op = "YIELD_FROM" -> Pop(2, 1)
    [] op = "GET_ANEXT" -> Pop(0, 1)
    [] op = "END_ASYNC_FOR" -> Take(7, 0)
    [] op = "SETUP_ASYNC_WITH" -> Safely(Plain)
    [] op = "BEFORE_ASYNC_WITH" -> [Take(1, 2) EXCEPT !.blind = TRUE]

-----------------------------------------------------------------------------
Assumes(op, n, until, vpc) ==
  CASE op \in MoveOps      -> AssumesMove(op, n, until, vpc)
    [] op \in NameOps      -> AssumesName(op, vpc)
    [] op \in OperatorOps  -> AssumesOperator(op, vpc)
    [] op \in CallOps      -> AssumesCall(op, n, vpc)
    [] op \in JumpOps      -> AssumesJump(op, vpc)
    [] op \in BuildOps     -> AssumesBuild(op, n, vpc)
    [] op \in PatternOps   -> AssumesPattern(op, n, vpc)
    [] op \in HandlerOps   -> AssumesHandler(op, vpc)
    [] op \in GeneratorOps -> AssumesGenerator(op, vpc)

Emits(op, n) ==
  CASE op \in MoveOps      -> EmitsMove(op)
    [] op \in NameOps      -> EmitsName(op)
    [] op \in OperatorOps  -> EmitsOperator(op)
    [] op \in CallOps      -> EmitsCall(op, n)
    [] op \in JumpOps      -> EmitsJump(op)
    [] op \in BuildOps     -> EmitsBuild(op, n)
    [] op \in PatternOps   -> EmitsPattern(op, n)
    [] op \in HandlerOps   -> EmitsHandler(op)
    [] op \in GeneratorOps -> EmitsGenerator(op, n)

\* The opcodes both tables tell of whole.  Values moved have actions of their own in
\* StackValues, RERAISE goes nowhere; the emitter pushes no result for IS_OP.
Tabled ==
  ({"NOP", "EXTENDED_ARG", "POP_TOP"} \cup NameOps \cup OperatorOps \cup CallOps \cup JumpOps
     \cup BuildOps \cup PatternOps \cup HandlerOps \cup GeneratorOps) \ {"RERAISE", "IS_OP"}

branch_stack_differenceOffByOne(op) ==
  CASE op \in OrPopJumps -> 1
    [] op = "FOR_ITER" -> -1
    [] op = "SETUP_FINALLY" -> 6
    [] op \in {"SETUP_WITH", "RERAISE", "SETUP_ASYNC_WITH"} -> 5
    [] OTHER -> 0

branch_stack_difference(op) ==
  CASE op \in OrPopJumps -> 1
    [] op = "FOR_ITER" -> -2
    [] op = "SETUP_FINALLY" -> 6
    [] op \in {"SETUP_WITH", "RERAISE", "SETUP_ASYNC_WITH"} -> 5
    [] OTHER -> 0
=============================================================================
