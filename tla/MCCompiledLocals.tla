-------------------------- MODULE MCCompiledLocals --------------------------
(***************************************************************************)
(* Functions of the shapes CPython's compiler emits, with statements on    *)
(* locals, or calls, in their holes a, b, c and d.                         *)
(***************************************************************************)
EXTENDS CompiledLocals

CONSTANTS Touched,      \* locals the statements are about
          Signatures,   \* signatures tried: "none", "one", "two", "star", "doublestar"
          Shapes        \* names of the shapes tried

I(op)    == [op |-> op, arg |-> 0]
J(op, n) == [op |-> op, arg |-> n]

Statements ==
  {[op |-> op, arg |-> x] : op \in {"LOAD_FAST", "STORE_FAST", "DELETE_FAST"}, x \in Touched}
    \cup {I("CALL_FUNCTION")}

\* a; while ..: b; c   then d
Loop(a, b, c, d) ==
  <<a, J("POP_JUMP_IF_TRUE", 5), b, c, J("JUMP_ABSOLUTE", 0), d, I("RETURN_VALUE")>>

\* a; try: b   except: c   then d
TryExcept(a, b, c, d) ==
  <<a, J("SETUP_FINALLY", 4), b, I("POP_BLOCK"), d, I("RETURN_VALUE"),
    c, I("POP_EXCEPT"), J("JUMP_ABSOLUTE", 4)>>

\* try: try: a   finally: c (on an exception)   then b   except: d
TryFinally(a, b, c, d) ==
  <<J("SETUP_FINALLY", 9), J("SETUP_FINALLY", 4), a, I("POP_BLOCK"), b,
    J("JUMP_FORWARD", 2), c, I("RERAISE"), I("POP_BLOCK"), J("JUMP_FORWARD", 2),
    d, I("POP_EXCEPT"), J("LOAD_FAST", 0), I("RETURN_VALUE")>>

\* while True: try: a; if ..: break; b   except: c   then d
LoopTry(a, b, c, d) ==
  <<J("SETUP_FINALLY", 5), a, J("POP_JUMP_IF_TRUE", 9), b, I("POP_BLOCK"),
    J("JUMP_ABSOLUTE", 0), c, I("POP_EXCEPT"), J("JUMP_ABSOLUTE", 0),
    I("POP_BLOCK"), d, I("RETURN_VALUE")>>

\* try: a   except: (try: b   except: c)   then d
NestedHandler(a, b, c, d) ==
  <<J("SETUP_FINALLY", 3), a, I("POP_BLOCK"), I("RETURN_VALUE"),
    J("SETUP_FINALLY", 4), b, I("POP_BLOCK"), I("POP_EXCEPT"), J("JUMP_FORWARD", 3),
    c, I("POP_EXCEPT"), J("JUMP_ABSOLUTE", 7), d, I("RETURN_VALUE")>>

\* try: try: try: try: a, each with a clean-up that raises again
NestedTries(a, b, c, d) ==
  <<J("SETUP_FINALLY", 12), J("SETUP_FINALLY", 10), J("SETUP_FINALLY", 8),
    J("SETUP_FINALLY", 6), a, I("POP_BLOCK"), I("POP_BLOCK"), I("POP_BLOCK"),
    I("POP_BLOCK"), I("RETURN_VALUE"),
    I("RERAISE"), I("RERAISE"), I("RERAISE"), I("RERAISE")>>

\* try: a   except: (try: b   except: (try: c   except: (try: d   finally: ..)))
NestedHandlers(a, b, c, d) ==
  <<J("SETUP_FINALLY", 3), a, I("POP_BLOCK"), I("RETURN_VALUE"),
    J("SETUP_FINALLY", 4), b, I("POP_BLOCK"), I("POP_EXCEPT"), I("RETURN_VALUE"),
    J("SETUP_FINALLY", 5), c, I("POP_BLOCK"), I("POP_EXCEPT"), I("POP_EXCEPT"),
    I("RETURN_VALUE"),
    J("SETUP_FINALLY", 6), d, I("POP_BLOCK"), I("POP_EXCEPT"), I("POP_EXCEPT"),
    I("POP_EXCEPT"), I("RETURN_VALUE"), I("RERAISE")>>

\* with a: b   then d, or c where the exception is suppressed
With(a, b, c, d) ==
  <<a, J("SETUP_WITH", 5), I("POP_TOP"), b, I("POP_BLOCK"), I("CALL_FUNCTION"),
    J("JUMP_ABSOLUTE", 13), I("WITH_EXCEPT_START"), J("POP_JUMP_IF_TRUE", 10), I("RERAISE"),
    I("POP_TOP"), I("POP_EXCEPT"), c, d, I("RETURN_VALUE")>>

\* a   async for ..: b   then d, with c after the iterator's answer
AsyncFor(a, b, c, d) ==
  <<a, J("SETUP_FINALLY", 6), I("GET_ANEXT"), I("YIELD_FROM"), I("POP_BLOCK"), c, b,
    J("JUMP_ABSOLUTE", 1), I("END_ASYNC_FOR"), d, I("RETURN_VALUE")>>

ShapeOf(name, a, b, c, d) ==
  CASE name = "loop" -> Loop(a, b, c, d)
    [] name = "except" -> TryExcept(a, b, c, d)
    [] name = "finally" -> TryFinally(a, b, c, d)
    [] name = "looptry" -> LoopTry(a, b, c, d)
    [] name = "handler" -> NestedHandler(a, b, c, d)
    [] name = "with" -> With(a, b, c, d)
    [] name = "asyncfor" -> AsyncFor(a, b, c, d)
    [] name = "tries" -> NestedTries(a, b, c, d)
    [] name = "handlers" -> NestedHandlers(a, b, c, d)

SignatureOf(name) ==
  [argcount |-> CASE name = "one" -> 1 [] name = "two" -> 2 [] OTHER -> 0, kwonly |-> 0,
   varargs  |-> name = "star", varkw |-> name = "doublestar"]

\* The nesting of the code, found by following it from its first unit.
Followed ==
  LET units == DOMAIN code
      from(p) ==
        LET v  == p[1]
            op == code[v].op
        IN  (IF ~Jumps(op) THEN {} ELSE
               {<<Destination(code, v),
                  IF isTryBlockSetup(op) THEN Append(p[2], [try |-> FALSE, setup |-> v])
                                         ELSE p[2]>>})
            \cup
            (IF isTerminator(op) THEN {} ELSE
               {<<v + 1, IF isTryBlockSetup(op) THEN Append(p[2], [try |-> TRUE, setup |-> v])
                         ELSE IF op \in Leaving THEN SubSeq(p[2], 1, Len(p[2]) - 1)
                         ELSE p[2]>>})
      found[k \in 0 .. Cardinality(units)] ==
        IF k = 0 THEN {<<0, <<>>>>}
        ELSE LET known == found[k - 1] IN known \cup UNION {from(p) : p \in known}
      all == found[Cardinality(units)]
  IN  [v \in units |-> (CHOOSE p \in all : p[1] = v)[2]]

MCInit ==
  /\ \E a, b, c, d \in Statements : \E name \in Shapes :
       LET shape == ShapeOf(name, a, b, c, d)
       IN  code = [v \in 0 .. Len(shape) - 1 |-> shape[v + 1]]
  /\ Emitted(code)
  /\ \E nest \in {Followed} : Nests(nest)
  /\ \E name \in Signatures : signature = SignatureOf(name)
  /\ InitCompile

MCSpec == MCInit /\ [][Next]_vars /\ WF_vars(Compile)
=============================================================================
