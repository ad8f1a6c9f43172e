------------------------------- MODULE Helpers -------------------------------
(***************************************************************************)
(* One call of a runtime helper of shared_subroutines.cpp, from the emitted *)
(* code that calls it to its return, or to the jump of gotoErrorHandler.   *)
(* The helper is run step by step; the interpreter's functions it calls    *)
(* answer anything, and may run any code in between.  The emitted code     *)
(* expects of it what StackEffects says: how many of its operands it takes *)
(* over, and how many values it leaves.                                    *)
(***************************************************************************)
EXTENDS OperatorHelpers, ObjectHelpers, ModuleHelpers, FiniteSets

CONSTANT Calls   \* the calls: [op, n, s], an opcode, its argument, what its operands offer

VARIABLES
  helper,   \* the call
  todo,     \* the steps left
  refs,     \* for each variable, the references in the helper's hands
  lent,     \* the variables whose object some container keeps alive
  given,    \* how many references it has put into the result or on the stack
  error,    \* whether an exception is set
  slots,    \* the slots of operand types called so far
  outcome   \* "running", "returned" or "raised"

vars == <<helper, todo, refs, lent, given, error, slots, outcome>>

-----------------------------------------------------------------------------
(* Which helper an opcode calls.  Those of one call into the interpreter,   *)
(* tested, need no more than Does or New.                                  *)

Statuses == {"STORE_GLOBAL", "DELETE_GLOBAL", "STORE_ATTR", "DELETE_ATTR", "STORE_SUBSCR",
             "DELETE_SUBSCR", "LIST_APPEND", "SET_ADD", "MAP_ADD", "SET_UPDATE",
             "DICT_UPDATE", "CONTAINS_OP"}

News == {"LOAD_ATTR", "BINARY_SUBSCR", "LIST_TO_TUPLE", "BUILD_SLICE"}

NameHelper(op) ==
  CASE op = "LOAD_CLASSDEREF" -> handle_LOAD_CLASSDEREF
    [] op = "LOAD_GLOBAL" -> handle_LOAD_GLOBAL
    [] op = "LOAD_NAME" -> handle_LOAD_NAME
    [] op = "STORE_NAME" -> handle_STORE_NAME
    [] op = "DELETE_NAME" -> handle_DELETE_NAME
    [] op = "LOAD_METHOD" -> handle_LOAD_METHOD
    [] OTHER -> Does

CallHelper(op, n) ==
  CASE op = "CALL_FUNCTION" -> handle_CALL_FUNCTION(n)
    [] op = "CALL_METHOD" -> handle_CALL_METHOD(n)
    [] op = "CALL_FUNCTION_KW" -> handle_CALL_FUNCTION_KW(n)
    [] op = "CALL_FUNCTION_EX" -> handle_CALL_FUNCTION_EX
    [] op = "LOAD_BUILD_CLASS" -> handle_LOAD_BUILD_CLASS
    [] op = "IMPORT_NAME" -> handle_IMPORT_NAME
    [] op = "IMPORT_FROM" -> handle_IMPORT_FROM
    [] op = "IMPORT_STAR" -> handle_IMPORT_STAR

BuildHelper(op, n) ==
  CASE op = "BUILD_STRING" -> handle_BUILD_STRING(n)
    [] op \in {"BUILD_TUPLE", "BUILD_LIST"} -> handle_BUILD_TUPLE(n)
    [] op = "BUILD_SET" -> handle_BUILD_SET(n)
    [] op = "BUILD_MAP" -> handle_BUILD_MAP(n)
    [] op = "BUILD_CONST_KEY_MAP" -> handle_BUILD_CONST_KEY_MAP(n)
    [] op = "LIST_EXTEND" -> handle_LIST_EXTEND
    [] op = "DICT_MERGE" -> handle_DICT_MERGE
    [] op = "FORMAT_VALUE" -> handle_FORMAT_VALUE(n)
    [] op = "RAISE_VARARGS" -> handle_RAISE_VARARGS(n)
    [] op = "SETUP_ANNOTATIONS" -> handle_SETUP_ANNOTATIONS
    [] op = "PRINT_EXPR" -> handle_PRINT_EXPR

PatternHelper(op, n) ==
  CASE op = "UNPACK_SEQUENCE" -> handle_UNPACK_SEQUENCE(n)
    [] op = "UNPACK_EX" -> handle_UNPACK_EX(n % 256, n \div 256)
    [] op = "GET_LEN" -> hanlde_GET_LEN
    [] op = "MATCH_KEYS" -> hanlde_MATCH_KEYS
    [] op = "MATCH_CLASS" -> hanlde_MATCH_CLASS
    [] op = "COPY_DICT_WITHOUT_KEYS" -> handle_COPY_DICT_WITHOUT_KEYS

ControlHelper(op) ==
  CASE op \in PopJumps \cup OrPopJumps -> castPyObjectToBool
    [] op = "GET_ITER" -> handle_GET_ITER
    [] op = "FOR_ITER" -> handle_FOR_ITER
    [] op = "JUMP_IF_NOT_EXC_MATCH" -> handle_JUMP_IF_NOT_EXC_MATCH
    [] op \in {"SETUP_WITH", "BEFORE_ASYNC_WITH"} -> handle_SETUP_WITH
    [] op = "WITH_EXCEPT_START" -> handle_WITH_EXCEPT_START
    [] op = "YIELD_VALUE" -> handle_YIELD_VALUE
    [] op = "GET_YIELD_FROM_ITER" -> handle_GET_YIELD_FROM_ITER
    [] op = "GET_AWAITABLE" -> handle_GET_AWAITABLE
    [] op = "GET_AITER" -> handle_GET_AITER
    [] op = "GET_ANEXT" -> handle_GET_ANEXT

Helper(h) ==
  CASE h.op \in Statuses -> Does
    [] h.op \in News -> New("value") \o Yields("value")
    [] h.op = "UNARY_NOT" -> Does \o GiveNew("not_value")
    [] h.op \in UnaryOps -> handle_UNARY
    [] h.op \in BinaryOps \cup {"COMPARE_OP"} -> Operator(h.op, h.s)
    [] h.op \in NameOps -> NameHelper(h.op)
    [] h.op \in CallOps -> CallHelper(h.op, h.n)
    [] h.op \in BuildOps -> BuildHelper(h.op, h.n)
    [] h.op \in PatternOps -> PatternHelper(h.op, h.n)
    [] OTHER -> ControlHelper(h.op)

-----------------------------------------------------------------------------
(* What the emitted code expects.                                          *)

\* A truth value is no reference; the value of an iterator comes from the emitted
\* code itself.
Pushes(h) ==
  LET e == Emits(h.op, h.n)
  IN  IF e.borrowed \/ h.op = "FOR_ITER" THEN 0 ELSE e.push

Takes(h)    == Emits(h.op, h.n).take
Operands(h) == Takes(h) + Emits(h.op, h.n).pop

ArgNames  == {Arg(i) : i \in 1 .. 4}
Variables ==
  ArgNames \cup {Item(i) : i \in 1 .. 4}
    \cup {"all", "ann_dict", "attr", "attrs", "awaitable", "bc", "dict", "enter", "errmsg",
          "exc_type", "exit", "false", "fixed_cause", "fmt_value", "fullmodname", "funcstr",
          "get", "hook", "import_func", "iter", "key", "l", "len_o", "map", "mark",
          "match_args", "meth", "mod", "modname", "name", "next_iter", "none", "none_val",
          "not_value", "o", "pkgname", "pkgname_or_unknown", "pkgpath", "res", "rest",
          "result", "ret", "seen", "separator", "set", "spec", "sq_concat", "str", "t",
          "true", "tup", "tuple", "v", "value", "values", "w", "word"}

Init ==
  /\ helper \in Calls
  /\ todo = Helper(helper) \o Return
  /\ refs = [x \in Variables |->
               IF \E i \in 1 .. Operands(helper) : x = Arg(i) THEN 1 ELSE 0]
  /\ lent = {}
  /\ given = 0
  /\ error = FALSE
  /\ slots = <<>>
  /\ outcome = "running"

-----------------------------------------------------------------------------
now == Head(todo)

\* The next step is `op`, and is done.
Goes(op) ==
  /\ outcome = "running" /\ now.op = op
  /\ todo' = Tail(todo)
  /\ UNCHANGED helper

\* A variable comes to hold a reference of its own: a new one, or one more.
Gain ==
  /\ Goes("get") \/ Goes("incref")
  /\ refs' = [refs EXCEPT ![now.x] = @ + 1]
  /\ UNCHANGED <<lent, given, error, slots, outcome>>

Borrow ==
  /\ Goes("see")
  /\ lent' = lent \cup {now.x}
  /\ UNCHANGED <<refs, given, error, slots, outcome>>

\* Releasing an object may run its destructor, and so any code.
Lose(n) ==
  /\ refs' = [refs EXCEPT ![now.x] = @ - n]
  /\ lent' = IF n = 0 THEN lent ELSE {}
  /\ UNCHANGED <<given, error, slots, outcome>>

Release == \/ Goes("decref") /\ Lose(1)
           \/ Goes("xdecref") /\ Lose(IF refs[now.x] > 0 THEN 1 ELSE 0)

HandOver ==
  /\ \/ Goes("give") /\ given' = given + 1
     \/ Goes("pass") /\ UNCHANGED given
  /\ refs' = [refs EXCEPT ![now.x] = @ - 1]
  /\ UNCHANGED <<lent, error, slots, outcome>>

Read ==
  /\ Goes("use")
  /\ UNCHANGED <<refs, lent, given, error, slots, outcome>>

\* Any code may run, which may drop what a container lent.
CallOut ==
  /\ Goes("run")
  /\ lent' = {}
  /\ UNCHANGED <<refs, given, error, slots, outcome>>

\* An exception set or cleared replaces one whose value is released.
SetError ==
  /\ \/ (Goes("error") \/ Goes("unsupported")) /\ error' = TRUE
     \/ Goes("clear") /\ error' = FALSE
  /\ lent' = {}
  /\ UNCHANGED <<refs, given, slots, outcome>>

CallSlot ==
  /\ Goes("slot")
  /\ slots' = Append(slots, now.x)
  /\ UNCHANGED <<refs, lent, given, error, outcome>>

Branch(alternative) ==
  /\ todo' = alternative \o Tail(todo)
  /\ UNCHANGED <<helper, refs, lent, given, error, slots, outcome>>

Choose ==
  /\ outcome = "running" /\ now.op = "either"
  /\ \E i \in DOMAIN now.alts : Branch(now.alts[i])

TestError ==
  /\ outcome = "running" /\ now.op = "occurred"
  /\ Branch(now.alts[IF error THEN 1 ELSE 2])

Leave ==
  /\ \/ Goes("raise") /\ outcome' = "raised"
     \/ Goes("return") /\ outcome' = "returned"
  /\ UNCHANGED <<refs, lent, given, error, slots>>

Next == \/ Gain \/ Borrow \/ Release \/ HandOver \/ Read \/ CallOut
        \/ SetError \/ CallSlot \/ Choose \/ TestError \/ Leave

Spec == Init /\ [][Next]_vars

-----------------------------------------------------------------------------
(* Properties.                                                             *)

IsArg(x, from, to) == \E i \in from .. to : x = Arg(i)

Taken == {i \in 1 .. Operands(helper) : refs[Arg(i)] = 0}

\* However a helper is left, it holds no reference of its own any more, and the
\* frame's stack is what the emitted code and the unwinder take it for: after a
\* return the operands handed over are gone and the results are there, after a
\* raise each place still has a reference of its own; an operand the emitted code
\* releases itself is never released here.
ReferencesExact ==
  outcome # "running" =>
    /\ \A x \in Variables : ~IsArg(x, 1, Operands(helper)) => refs[x] = 0
    /\ \A i \in 1 .. Operands(helper) :
         refs[Arg(i)] \in IF i <= Takes(helper) THEN {0, 1} ELSE {1}
    /\ given - Cardinality(Taken)
         = IF outcome = "raised" THEN 0 ELSE Pushes(helper) - Takes(helper)

\* No object is read or counted after it may have been freed: a variable with
\* no reference of its own is good only until other code runs, and only a
\* reference that is held can be released or given away.
OnlyLiveObjects ==
  outcome = "running" =>
    /\ now.op \in {"use", "incref"} => refs[now.x] > 0 \/ now.x \in lent
    /\ now.op \in {"decref", "give", "pass"} => refs[now.x] > 0

\* gotoErrorHandler is reached with an exception set, as it asserts, and a helper
\* never returns to the emitted code with one set: the code after the call does
\* not look.
RaisesOrReturns ==
  /\ outcome = "raised" => error
  /\ outcome = "returned" => ~error

\* An operator asks the slots the language says, in its order, each at most
\* once, and declares itself unsupported only after all of them declined.
SlotsInOrder ==
  helper.op \in BinaryOps \cup {"COMPARE_OP"} =>
    /\ RightOrder(slots, helper.op, helper.s)
    /\ outcome = "running" /\ now.op = "unsupported" =>
         \A side \in Candidates(helper.op, helper.s) : \E i \in DOMAIN slots : slots[i] = side
=============================================================================
