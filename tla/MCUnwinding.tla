----------------------------- MODULE MCUnwinding -----------------------------
(***************************************************************************)
(* Functions put together from statements the way CPython's compiler does, *)
(* try statements and the like nested once in each other.  Jumps are       *)
(* relative here; code has their destinations.                             *)
(***************************************************************************)
EXTENDS Unwinding

LOCAL INSTANCE SequencesExt

U(op, n)  == [op |-> op, arg |-> n, to |-> 0]
J(op, by) == [op |-> op, arg |-> 0, to |-> by]

Load   == U("LOAD_GLOBAL", 0)
Local  == U("LOAD_FAST", 0)
Store  == U("STORE_FAST", 0)
PopTop == U("POP_TOP", 0)

\* Statements that may raise, with the stack empty or not, or raise again.
Short == {<<U("DELETE_NAME", 0)>>,
           <<Load, Load, U("CALL_FUNCTION", 1), J("POP_JUMP_IF_FALSE", 3),
             Load, U("RAISE_VARARGS", 1)>>,
           <<Load, J("POP_JUMP_IF_FALSE", 2), U("RAISE_VARARGS", 0)>>}

PopException == <<PopTop, PopTop, PopTop>>

\* try: s   except E: t
TryExcept(s, t) ==
  LET handler == PopException \o t \o <<U("POP_EXCEPT", 0), J("JUMP_FORWARD", 2)>>
      test    == <<U("DUP_TOP", 0), Load, J("JUMP_IF_NOT_EXC_MATCH", Len(handler) + 1)>>
      rest    == test \o handler \o <<U("RERAISE", 0)>>
  IN  <<J("SETUP_FINALLY", Len(s) + 3)>> \o s
        \o <<U("POP_BLOCK", 0), J("JUMP_FORWARD", Len(rest) + 1)>> \o rest

\* try: s   except: return value
TryReturn(s) ==
  LET handler == PopException
                   \o <<Load, U("ROT_FOUR", 0), U("POP_EXCEPT", 0), U("RETURN_VALUE", 0)>>
  IN  <<J("SETUP_FINALLY", Len(s) + 3)>> \o s
        \o <<U("POP_BLOCK", 0), J("JUMP_FORWARD", Len(handler) + 1)>> \o handler

\* try: s   finally: t
TryFinally(s, t) ==
  <<J("SETUP_FINALLY", Len(s) + Len(t) + 3)>> \o s \o <<U("POP_BLOCK", 0)>> \o t
    \o <<J("JUMP_FORWARD", Len(t) + 2)>> \o t \o <<U("RERAISE", 0)>>

\* The calls of __exit__, and the way on when it suppresses the exception.
Exit     == <<Load, Load, Load, U("CALL_FUNCTION", 3), PopTop>>
Suppress == PopException \o <<U("POP_EXCEPT", 0), PopTop>>

Managed(setup(_), s, handler) ==
  setup(Len(s) + Len(Exit) + 4) \o <<PopTop>> \o s \o <<U("POP_BLOCK", 0)>> \o Exit
    \o <<J("JUMP_FORWARD", Len(handler) + 1)>> \o handler

SetupWithUnits(by)      == <<Load, J("SETUP_WITH", by)>>
SetupAsyncWithUnits(by) == <<Load, Load, J("SETUP_ASYNC_WITH", by)>>

\* with m: s, where m suppresses every exception
With(s)      == Managed(SetupWithUnits, s, <<U("WITH_EXCEPT_START", 0), PopTop>> \o Suppress)
AsyncWith(s) == Managed(SetupAsyncWithUnits, s, <<U("WITH_EXCEPT_START", 0), PopTop>> \o Suppress)

\* with m: s, where m may suppress an exception or not
WithMaybe(s) ==
  Managed(SetupWithUnits, s,
          <<U("WITH_EXCEPT_START", 0), J("POP_JUMP_IF_TRUE", 2), U("RERAISE", 1)>> \o Suppress)

\* async for x in y: s
AsyncFor(s) ==
  <<Load, U("GET_AITER", 0), J("SETUP_FINALLY", Len(s) + 7), U("GET_ANEXT", 0), Load,
    U("YIELD_FROM", 0), U("POP_BLOCK", 0), PopTop>>
    \o s \o <<J("JUMP_ABSOLUTE", 0 - Len(s) - 6), U("END_ASYNC_FOR", 0)>>

\* for x in y: s
For(s) ==
  <<Load, U("GET_ITER", 0), J("FOR_ITER", Len(s) + 3), Store>> \o s
    \o <<J("JUMP_ABSOLUTE", 0 - Len(s) - 2)>>

\* Statements that move values about: l[i] += x.f(c), and x, y = c if x else y, x
Moving ==
  {<<Local, Local, U("DUP_TOP_TWO", 0), U("BINARY_SUBSCR", 0), Local, U("LOAD_METHOD", 0),
     U("LOAD_CONST", 0), U("CALL_METHOD", 1), U("INPLACE_ADD", 0), U("ROT_THREE", 0),
     U("STORE_SUBSCR", 0)>>,
   <<Local, J("POP_JUMP_IF_FALSE", 3), U("LOAD_CONST", 0), J("JUMP_FORWARD", 2), Local, Local,
     U("ROT_TWO", 0), Store, Store>>}

Nestable(s, t) == {With(s), AsyncWith(s), For(s), AsyncFor(s), TryExcept(s, t), TryFinally(s, t)}

Once == UNION {Nestable(s, t) : s, t \in Short}

\* One statement nested in another.  A function returns from the outermost only.
Statements ==
  LET one == <<U("DELETE_NAME", 0)>>
  IN  Once \cup UNION {Nestable(s, t) : s, t \in Moving}
        \cup UNION {Nestable(s, one) \cup Nestable(one, s) \cup {TryReturn(s)} : s \in Once}

Function(s) ==
  LET all == s \o <<Load, U("RETURN_VALUE", 0)>>
  IN  [v \in 0 .. Len(all) - 1 |-> [all[v + 1] EXCEPT !.to = v + @]]

\* The heights the analysis finds, each from an earlier unit.
Heights ==
  LET to(u, v) == code[u].op \in Branching /\ code[u].to = v
      h[v \in DOMAIN code] ==
        IF v = 0 THEN 0
        ELSE LET u == IF code[v - 1].op \notin EndOps THEN v - 1
                      ELSE CHOOSE w \in 0 .. v - 1 : to(w, v)
                 row == Assumes(code[u].op, code[u].arg, <<>>, u)
             IN  h[u] + row.undo - Len(row.marks)
                   + (IF to(u, v) THEN branch_stack_difference(code[u].op) ELSE 0)
  IN  h

\* The blocks around each unit, found from an earlier unit as well.
Followed ==
  LET to(u, v) == code[u].op \in Branching /\ code[u].to = v
      \* The blocks around unit v, given those around the ones before it.
      around(v, before) ==
        LET u    == IF code[v - 1].op \notin EndOps THEN v - 1
                    ELSE CHOOSE w \in 0 .. v - 1 : to(w, v)
            op   == code[u].op
            n    == before[u]
            last == n[Len(n)]
            rest == SubSeq(n, 1, Len(n) - 1)
            way  == IF to(u, v) THEN "jump" ELSE "next"
            gone == CASE op \in Rotations -> RotArg(op, code[u].arg)
                      [] op \in Special   -> 0
                      [] OTHER            -> Gone(Effect(op, code[u].arg, way))
            left == sp_map[u] - gone
        IN  CASE op \in HandlerSetups ->
                   Append(n, IF to(u, v) THEN HandlerAt(LevelAt(u), v)
                                         ELSE TryAt(LevelAt(u), code[u].to))
              [] op \in {"POP_BLOCK", "POP_EXCEPT", "END_ASYNC_FOR"} -> rest
              [] op = "ROT_FOUR" /\ UnderSaved(n, sp_map[u]) ->
                   Append(rest, [last EXCEPT !.saved = @ + 1, !.keeps = sp_map[u]])
              [] n # <<>> /\ last.keeps > left ->
                   Append(rest, [last EXCEPT !.keeps = left])
              [] OTHER -> n
  IN  FoldLeft(LAMBDA before, v : before @@ (v :> around(v, before)), 0 :> <<>>,
               [v \in 1 .. Cardinality(DOMAIN code) - 1 |-> v])

MCInit ==
  /\ code \in {Function(s) : s \in Statements}
  /\ sp_map = Heights
  /\ Assert(\E nest \in {Followed} : Structured(nest), "handlers do not nest")
  /\ Init

MCSpec == MCInit /\ [][Next]_vars

\* A function with a with statement whose manager may let the exception pass.
WithReraise ==
  /\ code = Function(WithMaybe(<<U("DELETE_NAME", 0)>>))
  /\ sp_map = Heights
  /\ Init
  /\ [][Next]_vars
=============================================================================
