------------------------------ MODULE MCHelpers ------------------------------
EXTENDS Helpers

\* The operands' types do not matter.
Any == [v |-> "none", w |-> "none", w_type |-> "other", v_inplace |-> FALSE, v_seq |-> FALSE,
        v_seq_inplace |-> FALSE, w_seq |-> FALSE]

Of(op, ns) == {[op |-> op, n |-> n, s |-> Any] : n \in ns}

\* Every opcode with a helper, those of variable size with none, one or two
\* values.  Left out, because they fail: the unary operators other than not,
\* CALL_FUNCTION_KW, CALL_FUNCTION_EX, BUILD_STRING and IMPORT_FROM.
ObjectCalls ==
  UNION {Of(op, {0}) : op \in
           Statuses \cup News \cup (NameOps \ {"LOAD_DEREF", "STORE_DEREF", "DELETE_DEREF"})
             \cup {"UNARY_NOT", "LOAD_BUILD_CLASS", "IMPORT_NAME", "IMPORT_STAR", "LIST_EXTEND",
                   "DICT_MERGE", "SETUP_ANNOTATIONS", "PRINT_EXPR", "GET_LEN", "MATCH_KEYS",
                   "MATCH_CLASS", "COPY_DICT_WITHOUT_KEYS", "POP_JUMP_IF_TRUE", "GET_ITER",
                   "FOR_ITER", "JUMP_IF_NOT_EXC_MATCH", "SETUP_WITH", "BEFORE_ASYNC_WITH",
                   "WITH_EXCEPT_START", "GET_YIELD_FROM_ITER", "GET_AWAITABLE", "GET_AITER",
                   "GET_ANEXT"}}
    \cup UNION {Of(op, 0 .. 2) : op \in
                  {"CALL_FUNCTION", "CALL_METHOD", "BUILD_TUPLE", "BUILD_LIST", "BUILD_SET",
                   "BUILD_MAP", "BUILD_CONST_KEY_MAP", "RAISE_VARARGS", "UNPACK_SEQUENCE"}}
    \cup Of("UNPACK_EX", {a + 256 * b : a, b \in 0 .. 2})
    \cup Of("FORMAT_VALUE", {0, 4}) \cup Of("YIELD_VALUE", {1})

\* One operator of each family, on all operands.  BINARY_ADD fails.
OperatorCalls ==
  [op : {"BINARY_SUBTRACT", "INPLACE_SUBTRACT"}, n : {0},
   s : {s \in Situations : ~s.v_seq /\ ~s.v_seq_inplace /\ ~s.w_seq}]
    \cup [op : {"INPLACE_ADD", "BINARY_MULTIPLY", "INPLACE_MULTIPLY"}, n : {0}, s : Situations]
    \cup [op : {"BINARY_MODULO", "COMPARE_OP"}, n : {0},
          s : {s \in Situations : ~s.v_inplace /\ ~s.v_seq /\ ~s.v_seq_inplace /\ ~s.w_seq}]

AllCalls == ObjectCalls \cup OperatorCalls
=============================================================================
