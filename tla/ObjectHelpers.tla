---------------------------- MODULE ObjectHelpers ----------------------------
(***************************************************************************)
(* The other runtime helpers, step by step: names and attributes, calls,   *)
(* containers, unpacking and matching, exceptions, imports, asynchronous   *)
(* protocols.  arg1, arg2, ... are the operands the emitted code takes off *)
(* the stack, the deepest first; other variables have the source's names.  *)
(***************************************************************************)
EXTENDS HelperSteps, StackEffects

\* Whether a call the code does not test may fail (for want of memory).
CONSTANT UntestedCallsFail

ASSUME UntestedCallsFailIsBoolean == UntestedCallsFail \in BOOLEAN

Untested == Run \o Either(IF UntestedCallsFail THEN <<Skip, Error>> ELSE <<Skip>>)

-----------------------------------------------------------------------------
(* Names and attributes.                                                   *)

LocalsMissing == Either(<<Skip, Fails>>)

\* The hash of a name, worked out when it is not known.
getHash == Either(<<Skip, Does>>)

\* A dictionary, or some other mapping.
LookUpIn(x) == Either(<<LookUp(x), Fetch(x)>>)

loadGlobalOrBuiltin == LookUp("v") \o LookUpIn("v") \o Fails

handle_LOAD_CLASSDEREF ==
  LookUpIn("value") \o Either(<<See("value") \o Incref("value") \o Yields("value"), Fails>>)

handle_LOAD_GLOBAL == getHash \o loadGlobalOrBuiltin
handle_LOAD_NAME   == LocalsMissing \o getHash \o LookUpIn("v") \o loadGlobalOrBuiltin

handle_STORE_NAME  == LocalsMissing \o Does
handle_DELETE_NAME == LocalsMissing \o Does

\* The object stays on the stack as the method's first argument, or a mark takes
\* its place.
handle_LOAD_METHOD ==
  New("meth")
    \o Either(<<Give("meth"),
                Get("mark") \o Give("mark") \o Give("meth") \o Decref("arg1")>>)

handle_LOAD_BUILD_CLASS == Does \o LookUpIn("bc") \o Fails

SetThenDrop(x) == Use(x) \o DoesOr(Decref(x)) \o Decref(x)

handle_SETUP_ANNOTATIONS ==
  LocalsMissing
    \o Either(<<Run \o Either(<<See("ann_dict"), Fails,
                                New("ann_dict") \o SetThenDrop("ann_dict")>>),
                Does \o Run
                  \o Either(<<Get("ann_dict") \o Decref("ann_dict"), Fails,
                              Error \o Clear \o New("ann_dict") \o SetThenDrop("ann_dict")>>)>>)

-----------------------------------------------------------------------------
(* Operators with one operand, tests, iteration.                           *)

\* A slot that fails is returned from all the same.
handle_UNARY ==
  Either(<<Run \o Either(<<Get("res") \o Yields("res"), Error \o Return>>), Fails>>)

castPyObjectToBool == Either(<<Skip, Does>>)

handle_GET_ITER ==
  Either(<<New("res") \o Either(<<Yields("res"), Error \o Decref("res") \o Raise>>),
           New("res") \o Yields("res"),
           Fails>>)

\* Called when the iterator gave nothing: StopIteration only ends the loop.
handle_FOR_ITER == Either(<<Skip, Error \o Either(<<Raise, Clear>>)>>)

-----------------------------------------------------------------------------
(* Calls.  The callee and its arguments are on the stack until it returns.  *)

makeFunctionCall(from, to) ==
  Each(to - from + 1, LAMBDA i : Use(Arg(from + i - 1)))
    \o New("ret") \o DecrefArgs(from, to) \o Yields("ret")

handle_CALL_FUNCTION(n) == makeFunctionCall(1, n + 1)

\* The first slot holds the method, or the mark, which is not an object to call.
handle_CALL_METHOD(n) ==
  Either(<<makeFunctionCall(1, n + 2),
           New("ret") \o DecrefArgs(2, n + 2) \o Decref("arg1") \o Yields("ret")>>)

\* The names of the k last arguments are in a tuple above them; neither they nor
\* it are released.
handle_CALL_FUNCTION_KW(n) == LET k == 1 IN makeFunctionCall(1, n - k + 1)

formatFunctionCallError == Run \o Either(<<Error, Get("funcstr") \o Error \o Decref("funcstr")>>)

\* arg3 is the dictionary of keywords, if there is one.  Where the arguments are a tuple
\* already, the code passes arg3 in its place: its words are taken for the arguments.
\* Where they are not, and cannot be made one, it takes arg3's type.
handle_CALL_FUNCTION_EX ==
  Either(<<Use("arg3") \o Either(<<Skip, Use("word")>>) \o New("ret"),
           Run \o Either(<<Get("t"),
                           Error \o Either(<<Skip, Clear \o Use("arg3") \o formatFunctionCallError>>)
                             \o Raise>>)
             \o Run \o Either(<<Error \o Decref("t") \o Raise, Get("ret") \o Decref("t")>>)>>)
    \o Yields("ret")

-----------------------------------------------------------------------------
(* Containers and strings.                                                 *)

\* The empty separator is never released.
handle_BUILD_STRING(n) == New("separator") \o New("str") \o DecrefArgs(1, n) \o Yields("str")

\* BUILD_TUPLE and BUILD_LIST move the values in.
handle_BUILD_TUPLE(n) == New("tup") \o Each(n, LAMBDA i : Pass(Arg(i))) \o Yields("tup")

\* BUILD_SET and BUILD_MAP (and BUILD_CONST_KEY_MAP, for `times` of them) add
\* values one by one, and release all at the end.
ReleasingAsItGoes(x, times, n) ==
  New(x) \o Each(times, LAMBDA i : DoesOr(Decref(x)) \o Decref(Arg(i)))
    \o DecrefArgs(times + 1, n) \o Yields(x)

AddAll(x, times, n) ==
  New(x) \o Each(times, LAMBDA i : DoesOr(Decref(x))) \o DecrefArgs(1, n) \o Yields(x)

handle_BUILD_SET(n)           == AddAll("set", n, n)
handle_BUILD_MAP(n)           == AddAll("map", n, 2 * n)
handle_BUILD_CONST_KEY_MAP(n) == Either(<<Skip, Fails>>) \o AddAll("map", n, n + 1)

handle_LIST_EXTEND ==
  Run \o Either(<<Get("none_val") \o Decref("none_val"),
                  Error \o Either(<<Skip, Clear \o Error>>) \o Raise>>)

\* The key that appears twice belongs to the exception that is cleared.
handle_DICT_MERGEBorrowingKey ==
  Run \o Either(<<Return,
                  Error \o Either(<<Skip, See("key") \o Clear \o Use("key")
                                            \o formatFunctionCallError>>)>>)
    \o Raise

handle_DICT_MERGE ==
  Run \o Either(<<Return,
                  Error \o Either(<<Skip,
                                    Clear \o formatFunctionCallError,
                                    See("key") \o Incref("key") \o Clear \o Use("key")
                                      \o formatFunctionCallError \o Decref("key")>>)>>)
    \o Raise

\* The value itself, or what str, repr or ascii make of it, is then formatted.
handle_FORMAT_VALUE(n) ==
  Either(<<Get("value"), New("value"), Fails>>)
    \o (IF Bit(n, 4) = 0 THEN Either(<<Yields("value"), Skip>>) ELSE Skip)
    \o Use("value") \o NewOr("fmt_value", Decref("value")) \o Decref("value") \o Yields("fmt_value")

-----------------------------------------------------------------------------
(* Unpacking.  Items are kept below the end of their places, and released    *)
(* with the iterator when the rest fails.                                  *)

clear_and_exit(k) ==
  Decref("iter") \o Each(k, LAMBDA i : Decref(Item(i))) \o Raise

NextItem(i) == Run \o Either(<<Get(Item(i)), Error \o clear_and_exit(i - 1)>>)

GiveItems(k) == Each(k, LAMBDA i : Give(Item(i)))

\* The last items of the list of the others move out of it: it is cut short.
UnpackStar(before, after) ==
  Run \o Either(<<Get("l"), Error \o clear_and_exit(before)>>)
    \o Either(<<Skip, Error \o Decref("l") \o clear_and_exit(before)>>)
    \o Each(after, LAMBDA j : Get(Item(before + j)))
    \o Decref("iter") \o GiveItems(before + after) \o Give("l")

\* Exactly `before` of them: one more is one too many.
UnpackExactly(before) ==
  Run \o Either(<<Skip, Error \o clear_and_exit(before),
                  Get("w") \o Decref("w") \o Error \o clear_and_exit(before)>>)
    \o Decref("iter") \o GiveItems(before)

handle_UNPACK_EX(before, after) ==
  New("iter") \o Each(before, NextItem)
    \o (IF after = -1 THEN UnpackExactly(before) ELSE UnpackStar(before, after))

handle_UNPACK_SEQUENCE(n) ==
  Either(<<Each(n, LAMBDA i : See(Item(i)) \o Incref(Item(i)) \o Give(Item(i))),
           handle_UNPACK_EX(n, -1)>>)

-----------------------------------------------------------------------------
(* Matching.                                                               *)

hanlde_GET_LEN == Does \o New("len_o") \o Yields("len_o")

GiveNew(x) == Get(x) \o Give(x)

\* For two keys; none found at once ends it with None and False.
MatchKey ==
  DoesOr(Decref("get") \o Decref("seen") \o Decref("values"))
    \o NewOr("value", Decref("get") \o Decref("seen") \o Decref("values"))
    \o Either(<<Decref("value") \o Decref("get") \o Decref("seen") \o Decref("values")
                  \o GiveNew("none") \o GiveNew("false") \o Return,
                Untested \o Decref("value")>>)

hanlde_MATCH_KEYS ==
  Either(<<GiveNew("tuple") \o GiveNew("true") \o Return, Skip>>)
    \o New("get") \o NewOr("seen", Decref("get"))
    \o NewOr("values", Decref("get") \o Decref("seen"))
    \o MatchKey \o MatchKey
    \o Get("tuple") \o Untested \o Decref("values") \o Decref("get") \o Decref("seen")
    \o Give("tuple") \o GiveNew("true")

\* No match, unless an exception is set; `held` is what must be released first.
NoMatch(held) ==
  held \o IfOccurred(Raise, GiveNew("false") \o Decref("arg2") \o Return)

match_class_attr(held) ==
  DoesOr(held)
    \o Run \o Either(<<Get("attr") \o Untested \o Decref("attr"),
                       Error \o Either(<<Clear \o NoMatch(held), NoMatch(held)>>)>>)

\* One positional and one keyword pattern; a type may match the subject itself.
hanlde_MATCH_CLASS ==
  LET two   == Decref("seen") \o Decref("attrs")
      three == two \o Decref("match_args")
  IN  Either(<<Skip, Fails>>) \o Run \o Either(<<Skip, NoMatch(Skip), Error \o NoMatch(Skip)>>)
        \o New("seen") \o NewOr("attrs", Decref("seen"))
        \o Either(<<Skip,
                    Run \o Either(<<Get("match_args") \o Either(<<Skip, Error \o NoMatch(three)>>),
                                    Error \o Clear \o Get("match_args"),
                                    Error \o NoMatch(two)>>)
                      \o Either(<<Skip, Error \o NoMatch(three)>>)
                      \o Either(<<Untested,
                                  Either(<<Skip, Error \o NoMatch(three)>>)
                                    \o match_class_attr(three)>>)
                      \o Decref("match_args")>>)
        \o Either(<<Skip, match_class_attr(two)>>)
        \o Get("tuple") \o Untested \o Decref("attrs") \o Decref("seen")
        \o Give("tuple") \o GiveNew("true") \o Decref("arg1") \o Decref("arg2")

handle_COPY_DICT_WITHOUT_KEYS ==
  New("rest") \o DoesOr(Decref("rest")) \o DoesOr(Decref("rest")) \o Yields("rest")
=============================================================================
