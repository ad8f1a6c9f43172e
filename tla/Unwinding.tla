------------------------------ MODULE Unwinding ------------------------------
(***************************************************************************)
(* A function that handles exceptions, run: the emitted code, which knows  *)
(* the height of the stack at every unit (sp_map), and the unwinder, which *)
(* only knows f_lasti and looks the height up.  Handlers are entered with  *)
(* six values on the stack, three of them the exception state to restore.  *)
(*                                                                         *)
(* The code is balanced, as StackHeights and StackValues have it, and      *)
(* every value on the stack is really pushed.  References are counted.     *)
(***************************************************************************)
EXTENDS StackEffects, FiniteSets

CONSTANTS Exc,          \* exceptions
          Temp,         \* other objects: 1 .. n
          NoExc, Null, None,
          Given,        \* what may be pushed and is not new: of a local, a constant ...
          MaxHeight     \* co_stacksize

VARIABLES
  code,                 \* units [op, arg, to], the first at 0
  sp_map,               \* height of the stack at the start of each unit
  outside,              \* the exception the caller handles
  phase,                \* "run", "unwind", "returned", "raised"
  pc,
  f_lasti, f_stackdepth, slot,
  f_blockstack,         \* entries [b_type, b_handler, b_level], the top last
  exc_info,             \* tstate->exc_info: <<type, value, traceback>>
  curexc,               \* the exception set, the same three, or NoExc
  refs                  \* reference counts

static == <<code, sp_map, outside>>
vars   == <<code, sp_map, outside, phase, pc, f_lasti, f_stackdepth, slot, f_blockstack,
            exc_info, curexc, refs>>

Other  == {<<t, "other">> : t \in Temp}
Object == (Exc \X {"type", "value", "traceback"}) \cup Other \cup {None}
State(e) == IF e = NoExc THEN <<Null, Null, Null>>
                         ELSE <<<<e, "type">>, <<e, "value">>, <<e, "traceback">>>>

ASSUME ObjectsDistinct ==
  /\ Exc \subseteq Nat /\ Temp \subseteq Nat /\ MaxHeight \in Nat
  /\ None \notin (Exc \X {"type", "value", "traceback"}) \cup Other
  /\ Null \notin Object /\ Given \subseteq Object \cup {Null}
  /\ NoExc \notin Exc /\ NoExc \notin {State(e) : e \in Exc}

-----------------------------------------------------------------------------
HandlerSetups == {"SETUP_FINALLY", "SETUP_WITH", "SETUP_ASYNC_WITH"}
EndOps        == {"RETURN_VALUE", "RERAISE", "RAISE_VARARGS", "JUMP_FORWARD", "JUMP_ABSOLUTE"}
Jumps         == PopJumps \cup OrPopJumps
                   \cup {"JUMP_FORWARD", "JUMP_ABSOLUTE", "JUMP_IF_NOT_EXC_MATCH", "FOR_ITER"}
Branching     == HandlerSetups \cup Jumps
Rotations     == {"ROT_TWO", "ROT_THREE", "ROT_FOUR", "ROT_N"}
Duplications  == {"DUP_TOP", "DUP_TOP_TWO"}

\* Height after unit v, as the backward pass adds it up.
HeightAfter(v) ==
  LET row == Assumes(code[v].op, code[v].arg, <<>>, v)
  IN  sp_map[v] + row.undo - Len(row.marks)

\* What the analysis leaves: every way to a unit gives it one height.
Balanced ==
  /\ sp_map \in [DOMAIN code -> 0 .. MaxHeight]
  /\ sp_map[0] = 0
  /\ \A v \in DOMAIN code :
       /\ code[v].op \notin EndOps => sp_map[v + 1] = HeightAfter(v)
       /\ code[v].op \in Branching =>
            sp_map[code[v].to] = HeightAfter(v) + branch_stack_difference(code[v].op)

Init ==
  /\ Balanced
  /\ outside \in Exc \cup {NoExc}
  /\ phase = "run" /\ pc = 0
  /\ f_lasti = 0 /\ f_stackdepth = 0 /\ slot = [i \in 1 .. MaxHeight |-> Null]
  /\ f_blockstack = <<>>
  /\ exc_info = State(outside) /\ curexc = NoExc
  /\ refs = [o \in Object |-> IF \E i \in 1 .. 3 : State(outside)[i] = o THEN 1 ELSE 0]

-----------------------------------------------------------------------------
unit   == code[pc]
height == sp_map[pc]

Running(ops) == phase = "run" /\ unit.op \in ops

\* References to o among the slots from lo to hi, and in a triple.
InSlots(lo, hi, o) == Cardinality({i \in lo .. hi : slot[i] = o})
InTriple(t, o)     == Cardinality({i \in 1 .. 3 : t[i] = o})

\* An object no one refers to: the next one allocated.
FreshOther == CHOOSE o \in Other : refs[o] = 0 /\ \A p \in Other : refs[p] = 0 => o[1] <= p[1]
Unused(e) == \A i \in 1 .. 3 : refs[State(e)[i]] = 0
FreshExc  == State(CHOOSE e \in Exc : Unused(e) /\ \A d \in Exc : Unused(d) => e <= d)

\* gotoErrorHandler with the exception t: the height is that of the unit running.
GoToErrorHandler(t) ==
  /\ curexc' = t
  /\ f_lasti' = pc
  /\ f_stackdepth' = height
  /\ phase' = "unwind"
  /\ UNCHANGED <<static, pc, slot, f_blockstack, exc_info>>

\* An exception made on the spot.
RaiseNew ==
  /\ GoToErrorHandler(FreshExc)
  /\ refs' = [o \in Object |-> refs[o] + InTriple(FreshExc, o)]

GoOn(to) ==
  /\ pc' = to
  /\ UNCHANGED <<static, phase, f_lasti, curexc>>

-----------------------------------------------------------------------------
\* Instructions that do more than StackEffects tells.
Special == HandlerSetups \cup Rotations \cup Duplications
             \cup {"POP_BLOCK", "POP_EXCEPT", "RERAISE", "RAISE_VARARGS", "END_ASYNC_FOR",
                   "RETURN_VALUE"}

\* A unit leads on to the next one or to where it jumps.
Ways == {"next", "jump"}

\* What the others do to the stack's top, either way.  FOR_ITER jumps when there is
\* nothing more, and the iterator is released.  References that no one holds (LOAD_FAST
\* counts what it pushes once too often) are not in refs.
Effect(op, n, way) ==
  CASE op = "LOAD_CONST"               -> Safely(Pop(0, 1))
    [] op = "LOAD_FAST"                -> Pop(0, 1)
    [] op = "STORE_FAST"               -> Safely(Pop(1, 0))
    [] op = "DELETE_FAST"              -> Plain
    [] op = "FOR_ITER" /\ way = "jump" -> Pop(1, 0)
    [] OTHER                           -> Emits(op, n)

\* Values that are kept have another holder afterwards.
Gone(row) == row.pop + row.take + row.keep

MayGo(v, way) == IF way = "jump" THEN code[v].op \in Jumps ELSE code[v].op \notin EndOps
To(v, way)    == IF way = "jump" THEN code[v].to ELSE v + 1

Ordinary ==
  \E way \in Ways :
    LET row == Effect(unit.op, unit.arg, way)
        d   == height - Gone(row)
        top == d + 1 .. d + row.push
    IN  /\ phase = "run" /\ unit.op \notin Special
        /\ MayGo(pc, way) /\ GoOn(To(pc, way))
        /\ \E put \in [top -> Given \cup {FreshOther}] :
             /\ slot' = [i \in DOMAIN slot |-> IF i \in top THEN put[i] ELSE slot[i]]
             /\ refs' = [o \in Object |-> refs[o] - InSlots(d + 1, height, o)
                                            + Cardinality({i \in top : put[i] = o})]
        /\ UNCHANGED <<f_stackdepth, f_blockstack, exc_info>>

OrdinaryRaises ==
  /\ phase = "run" /\ unit.op \notin Special
  /\ Effect(unit.op, unit.arg, "next").risky
  /\ RaiseNew

Doubled(op) == IF op = "DUP_TOP" THEN 1 ELSE 2

Duplicate ==
  LET k == Doubled(unit.op)
  IN  /\ Running(Duplications)
      /\ slot' = [i \in DOMAIN slot |->
                    IF i \in height + 1 .. height + k THEN slot[i - k] ELSE slot[i]]
      /\ refs' = [o \in Object |-> refs[o] + InSlots(height - k + 1, height, o)]
      /\ GoOn(pc + 1)
      /\ UNCHANGED <<f_stackdepth, f_blockstack, exc_info>>

\* The top goes below k - 1 others.
Rotate ==
  LET k == RotArg(unit.op, unit.arg)
  IN  /\ Running(Rotations)
      /\ slot' = [i \in DOMAIN slot |->
                    IF i = height - k + 1 THEN slot[height]
                    ELSE IF i \in height - k + 2 .. height THEN slot[i - 1] ELSE slot[i]]
      /\ GoOn(pc + 1)
      /\ UNCHANGED <<f_stackdepth, f_blockstack, exc_info, refs>>

Return ==
  /\ Running({"RETURN_VALUE"})
  /\ refs' = [refs EXCEPT ![slot[height]] = @ - 1]      \* it is the caller's now
  /\ f_stackdepth' = 0
  /\ phase' = "returned"
  /\ UNCHANGED <<static, pc, f_lasti, slot, f_blockstack, exc_info, curexc>>

-----------------------------------------------------------------------------
PushBlock(type, handler, level) ==
  Append(f_blockstack, [b_type |-> type, b_handler |-> handler, b_level |-> level])

TopBlock   == f_blockstack[Len(f_blockstack)]
BlocksLeft == SubSeq(f_blockstack, 1, Len(f_blockstack) - 1)

LevelOfHeight(op) == height

\* The level an emitted set-up gives its block; the second is set up after the
\* value __aenter__ gave is on the stack.
LevelOf(op) == IF op = "SETUP_ASYNC_WITH" THEN height - 1 ELSE height

SetupTry ==
  /\ Running({"SETUP_FINALLY", "SETUP_ASYNC_WITH"})
  /\ f_blockstack' = PushBlock("SETUP_FINALLY", unit.to, LevelOf(unit.op))
  /\ GoOn(pc + 1)
  /\ UNCHANGED <<f_stackdepth, slot, exc_info, refs>>

\* handle_SETUP_WITH: __exit__ takes the place of the manager, then __enter__ is
\* called; the block's level is above __exit__.
SetupWith ==
  LET exit == FreshOther
      with == [refs EXCEPT ![slot[height]] = @ - 1, ![exit] = 1]
      res  == CHOOSE o \in Other : with[o] = 0
  IN  /\ Running({"SETUP_WITH"})
      /\ \/ /\ slot' = [slot EXCEPT ![height] = exit, ![height + 1] = res]
            /\ refs' = [with EXCEPT ![res] = 1]
            /\ f_blockstack' = PushBlock("SETUP_FINALLY", unit.to, height)
            /\ GoOn(pc + 1)
            /\ UNCHANGED <<f_stackdepth, exc_info>>
         \/ RaiseNew
         \/ /\ slot' = [slot EXCEPT ![height] = exit]      \* __enter__ raises
            /\ refs' = [o \in Object |-> with[o] + InTriple(FreshExc, o)]
            /\ curexc' = FreshExc
            /\ f_lasti' = pc /\ f_stackdepth' = height /\ phase' = "unwind"
            /\ UNCHANGED <<static, pc, f_blockstack, exc_info>>

PopBlock ==
  /\ Running({"POP_BLOCK"})
  /\ f_blockstack # <<>>
  /\ f_blockstack' = BlocksLeft
  /\ GoOn(pc + 1)
  /\ UNCHANGED <<f_stackdepth, slot, exc_info, refs>>

RestoreBackwards(d, depth) ==
  /\ exc_info' = <<slot[d - 2], slot[d - 1], slot[d]>>
  /\ refs' = [o \in Object |-> refs[o] - InTriple(exc_info, o) - InSlots(d + 1, depth, o)]

\* exc_info gets back the three values under slot d; the slots above are released
\* with what it held.
Restore(d, depth) ==
  /\ exc_info' = <<slot[d], slot[d - 1], slot[d - 2]>>
  /\ refs' = [o \in Object |-> refs[o] - InTriple(exc_info, o) - InSlots(d + 1, depth, o)]

\* handle_POP_EXCEPT
PopExcept ==
  /\ Running({"POP_EXCEPT"})
  /\ f_blockstack # <<>> /\ TopBlock.b_type = "EXCEPT_HANDLER"
  /\ f_blockstack' = BlocksLeft
  /\ Restore(height, height)
  /\ f_stackdepth' = height - 3
  /\ GoOn(pc + 1)
  /\ UNCHANGED slot

ReraiseLastiAlways == TopBlock.b_handler

\* The unit whose height handle_RERAISE looks up: f_lasti is set back to the unit
\* that raised before the height is asked for.
ReraiseLasti == IF unit.arg = 1 THEN TopBlock.b_handler ELSE pc

\* handle_RERAISE: the exception on top of the stack is set again.
Reraise ==
  LET depth == sp_map[ReraiseLasti]
  IN  /\ Running({"RERAISE"})
      /\ f_blockstack # <<>>
      /\ curexc' = <<slot[depth], slot[depth - 1], slot[depth - 2]>>
      /\ f_lasti' = ReraiseLasti
      /\ f_stackdepth' = depth - 3
      /\ phase' = "unwind"
      /\ UNCHANGED <<static, pc, slot, f_blockstack, exc_info, refs>>

\* handle_RAISE_VARARGS: `raise` alone raises what is being handled, if anything.
RaiseVarargs ==
  LET nothing == exc_info[1] \in {Null, None}
  IN  /\ Running({"RAISE_VARARGS"})
      /\ \/ /\ unit.arg > 0 \/ nothing
            /\ RaiseNew
         \/ /\ unit.arg = 0 /\ ~nothing
            /\ GoToErrorHandler(exc_info)
            /\ refs' = [o \in Object |-> refs[o] + InTriple(exc_info, o)]

EndAsyncForKeepingBlock ==
  LET d == TopBlock.b_level + 3
  IN  /\ Running({"END_ASYNC_FOR"})
      /\ f_blockstack # <<>>
      /\ exc_info' = <<slot[d], slot[d - 1], slot[d - 2]>>
      /\ refs' = [o \in Object |-> refs[o] - InTriple(exc_info, o)
                                     - InSlots(d + 1, f_stackdepth, o)
                                     - InSlots(d - 3, d - 3, o)]
      /\ f_stackdepth' = d - 4
      /\ GoOn(pc + 1)
      /\ UNCHANGED <<slot, f_blockstack>>

\* handle_END_ASYNC_FOR works from f_stackdepth.  StopAsyncIteration ends the
\* loop and its handler, and the iterator is released.
EndAsyncFor ==
  LET d == TopBlock.b_level + 3
  IN  /\ Running({"END_ASYNC_FOR"})
      /\ \/ /\ f_blockstack # <<>> /\ TopBlock.b_type = "EXCEPT_HANDLER"
            /\ f_blockstack' = BlocksLeft
            /\ exc_info' = <<slot[d], slot[d - 1], slot[d - 2]>>
            /\ refs' = [o \in Object |-> refs[o] - InTriple(exc_info, o)
                                           - InSlots(d + 1, f_stackdepth, o)
                                           - InSlots(d - 3, d - 3, o)]
            /\ f_stackdepth' = d - 4
            /\ GoOn(pc + 1)
            /\ UNCHANGED slot
         \/ /\ curexc' = <<slot[f_stackdepth], slot[f_stackdepth - 1], slot[f_stackdepth - 2]>>
            /\ f_stackdepth' = f_stackdepth - 3
            /\ f_lasti' = pc
            /\ phase' = "unwind"
            /\ UNCHANGED <<static, pc, slot, f_blockstack, exc_info, refs>>

-----------------------------------------------------------------------------
Unwinding(type) ==
  phase = "unwind" /\ f_blockstack # <<>> /\ TopBlock.b_type = type

lower(m, n) == IF m < n THEN m ELSE n

LeaveHandlerUnrestored ==
  /\ Unwinding("EXCEPT_HANDLER")
  /\ refs' = [o \in Object |-> refs[o] - InSlots(TopBlock.b_level + 1, f_stackdepth, o)]
  /\ f_blockstack' = BlocksLeft
  /\ f_stackdepth' = lower(TopBlock.b_level, f_stackdepth)
  /\ UNCHANGED <<static, phase, pc, f_lasti, slot, curexc, exc_info>>

\* gotoUnwind, a handler that is left: what it saved is restored.
LeaveHandler ==
  LET d == lower(TopBlock.b_level + 3, f_stackdepth)
  IN  /\ Unwinding("EXCEPT_HANDLER")
      /\ Restore(d, f_stackdepth)
      /\ f_blockstack' = BlocksLeft
      /\ f_stackdepth' = d - 3
      /\ UNCHANGED <<static, phase, pc, f_lasti, slot, curexc>>

CatchWithoutSaving ==
  LET d   == lower(TopBlock.b_level, f_stackdepth)
      top == <<None, Null, Null, curexc[3], curexc[2], curexc[1]>>
  IN  /\ Unwinding("SETUP_FINALLY")
      /\ slot' = [i \in DOMAIN slot |-> IF i \in d + 1 .. d + 6 THEN top[i - d] ELSE slot[i]]
      /\ refs' = [o \in Object |-> refs[o] - InSlots(d + 1, f_stackdepth, o)
                                     + InTriple(curexc, o)]
      /\ exc_info' = curexc /\ curexc' = NoExc
      /\ f_blockstack' = Append(BlocksLeft, [b_type |-> "EXCEPT_HANDLER", b_handler |-> f_lasti,
                                             b_level |-> d])
      /\ f_stackdepth' = d + 6
      /\ phase' = "run" /\ pc' = TopBlock.b_handler
      /\ UNCHANGED <<static, f_lasti>>

\* gotoUnwind, a try block: its handler is entered, with the exception state
\* outside it and the exception on the stack.
Catch ==
  LET d     == lower(TopBlock.b_level, f_stackdepth)
      type  == IF exc_info[1] = Null THEN None ELSE exc_info[1]
      top   == <<exc_info[3], exc_info[2], type, curexc[3], curexc[2], curexc[1]>>
  IN  /\ Unwinding("SETUP_FINALLY")
      /\ slot' = [i \in DOMAIN slot |-> IF i \in d + 1 .. d + 6 THEN top[i - d] ELSE slot[i]]
      /\ refs' = [o \in Object |-> refs[o] - InSlots(d + 1, f_stackdepth, o)
                                     + InTriple(curexc, o)
                                     + (IF o = None /\ exc_info[1] = Null THEN 1 ELSE 0)]
      /\ exc_info' = curexc /\ curexc' = NoExc
      /\ f_blockstack' = Append(BlocksLeft, [b_type |-> "EXCEPT_HANDLER", b_handler |-> f_lasti,
                                             b_level |-> d])
      /\ f_stackdepth' = d + 6
      /\ phase' = "run" /\ pc' = TopBlock.b_handler
      /\ UNCHANGED <<static, f_lasti>>

\* gotoUnwind, no block left: the frame is emptied and the exception goes on.
LeaveFrame ==
  /\ phase = "unwind" /\ f_blockstack = <<>>
  /\ refs' = [o \in Object |-> refs[o] - InSlots(1, f_stackdepth, o)]
  /\ f_stackdepth' = 0
  /\ phase' = "raised"
  /\ UNCHANGED <<static, pc, f_lasti, slot, f_blockstack, exc_info, curexc>>

Unwind == LeaveHandler \/ Catch \/ LeaveFrame

Next == Ordinary \/ OrdinaryRaises \/ Duplicate \/ Rotate \/ Return \/ SetupTry \/ SetupWith
          \/ PopBlock \/ PopExcept \/ Reraise \/ RaiseVarargs \/ EndAsyncFor \/ Unwind

Spec == Init /\ [][Next]_vars

-----------------------------------------------------------------------------
\* What CPython's compiler guarantees of handlers: wherever a unit is reached from,
\* it is in the bodies of the same try blocks and in the same handlers, the
\* outermost first.  Each has the level of its block, where its handler begins, and
\* how much of the stack (keeps) has stayed as it was when it was entered; saved is
\* where a handler has the exception state to restore.
TryAt(l, h)     == [try |-> TRUE, level |-> l, saved |-> l, keeps |-> l, to |-> h]
HandlerAt(l, h) == [try |-> FALSE, level |-> l, saved |-> l, keeps |-> l + 6, to |-> h]
Entries == [try : BOOLEAN, level : Nat, saved : Nat, keeps : Nat, to : DOMAIN code]

LevelAt(v) == IF code[v].op = "SETUP_ASYNC_WITH" THEN sp_map[v] - 1 ELSE sp_map[v]
After(v) == (IF code[v].op \in EndOps THEN {} ELSE {v + 1})
              \cup (IF code[v].op \in Branching THEN {code[v].to} ELSE {})

\* Blocks n around a unit where the stack has height h.
InOrder(n, h) ==
  \A i \in 1 .. Len(n) :
    LET e == n[i]
    IN  /\ e.keeps <= h /\ e.saved \in {e.level, e.level + 1}
        /\ IF e.try THEN e.saved = e.level /\ e.keeps = e.level
                    ELSE e.keeps \in e.saved + 3 .. e.level + 6
        /\ \A j \in i + 1 .. Len(n) : e.saved = e.level /\ e.keeps <= n[j].level

\* The blocks around the next unit, when the stack above height h has changed.
Passes(n, m, h) ==
  /\ Len(m) = Len(n) /\ \A i \in 1 .. Len(n) - 1 : m[i] = n[i]
  /\ n # <<>> => LET e == n[Len(n)]  f == m[Len(n)]
                 IN  f = [e EXCEPT !.keeps = f.keeps] /\ f.keeps <= e.keeps /\ f.keeps <= h

\* The value to be returned was put under the three that a handler saved.
UnderSaved(n, h) ==
  n # <<>> /\ LET e == n[Len(n)] IN ~e.try /\ e.saved = e.level /\ h = e.level + 4

\* Instructions for which the code does what its analysis expects; the others
\* refute StackValues.
AsExpected ==
  (Tabled \ (OrPopJumps \cup {"GEN_START", "CONTAINS_OP", "BEFORE_ASYNC_WITH", "MATCH_CLASS",
                              "UNPACK_SEQUENCE"}))
    \cup {"LOAD_CONST", "LOAD_FAST", "STORE_FAST", "DELETE_FAST"}

\* What unit v does to the blocks around it.
Nested(nest, v) ==
  LET op   == code[v].op
      h    == sp_map[v]
      n    == nest[v]
      top  == n[Len(n)]
      rest == SubSeq(n, 1, Len(n) - 1)
  IN  /\ code[v].arg \in Nat /\ InOrder(n, h)
      /\ After(v) \subseteq DOMAIN code
      /\ op \notin Special =>
           /\ op \in AsExpected
           /\ \A way \in Ways :
                LET gone == Gone(Effect(op, code[v].arg, way))
                IN  MayGo(v, way) => gone <= h /\ Passes(n, nest[To(v, way)], h - gone)
      /\ op \in Duplications => Doubled(op) <= h /\ nest[v + 1] = n
      /\ op \in Rotations =>
           /\ RotArg(op, code[v].arg) \in 1 .. h
           /\ IF op = "ROT_FOUR" /\ UnderSaved(n, h)
                THEN nest[v + 1] = Append(rest, [top EXCEPT !.saved = @ + 1, !.keeps = h])
                ELSE Passes(n, nest[v + 1], h - RotArg(op, code[v].arg))
      /\ op \in HandlerSetups =>
           /\ op # "SETUP_FINALLY" => Passes(n, n, h - 1) /\ h > 0
           /\ nest[v + 1]      = Append(n, TryAt(LevelAt(v), code[v].to))
           /\ nest[code[v].to] = Append(n, HandlerAt(LevelAt(v), code[v].to))
      /\ op \in {"POP_BLOCK", "POP_EXCEPT", "END_ASYNC_FOR"} =>
           n # <<>> /\ top.try = (op = "POP_BLOCK") /\ nest[v + 1] = rest
      /\ IF op = "POP_EXCEPT" THEN h = top.saved + 3
                              ELSE \A i \in 1 .. Len(n) : n[i].saved = n[i].level
      /\ op \in {"RERAISE", "END_ASYNC_FOR"} =>
           n # <<>> /\ ~top.try /\ h = top.level + 6 /\ top.keeps = h
      /\ op = "RERAISE" => code[v].arg = 0
      /\ op = "END_ASYNC_FOR" =>
           \A u \in DOMAIN code : v \in After(u) => code[u].op \in HandlerSetups /\ v # u + 1
      /\ op = "RETURN_VALUE" => n = <<>> /\ h = 1

Structured(nest) ==
  /\ 0 \in DOMAIN code /\ DOMAIN code \subseteq Nat
  /\ nest \in [DOMAIN code -> Seq(Entries)] /\ nest[0] = <<>>
  /\ \A v \in DOMAIN code : Nested(nest, v)

-----------------------------------------------------------------------------
States == {State(e) : e \in Exc \cup {NoExc}} \cup {<<None, Null, Null>>}

\* exc_info, and the exception set, are always three that belong together.
TypeOK ==
  /\ phase \in {"run", "unwind", "returned", "raised"}
  /\ pc \in DOMAIN code /\ f_lasti \in DOMAIN code
  /\ f_stackdepth \in 0 .. MaxHeight
  /\ slot \in [1 .. MaxHeight -> Object \cup {Null}]
  /\ exc_info \in States
  /\ curexc \in {State(e) : e \in Exc} \cup {NoExc}
  /\ refs \in [Object -> Nat]

owned == CASE phase = "run" -> height [] phase = "unwind" -> f_stackdepth [] OTHER -> 0

\* Every object is counted once for each slot in use, for its place in exc_info
\* and in the exception set, and for nothing else: whatever is raised, caught,
\* raised again or suppressed, nothing is released twice and nothing leaks.
CountsExact ==
  \A o \in Object :
    refs[o] = InSlots(1, owned, o) + InTriple(exc_info, o)
                + (IF curexc = NoExc THEN 0 ELSE InTriple(curexc, o))

\* A handler is entered with the stack as high as the analysis said: the level of
\* its block and the six values are what branch_stack_difference stands for.
HandlerHeight ==
  [][phase = "unwind" /\ phase' = "run" => f_stackdepth' = sp_map[pc']]_vars

\* The assertions of PyFrame_BlockPop, handle_POP_EXCEPT and handle_RERAISE, and
\* that of eval_func when the frame is done; POP_EXCEPT never finds another block.
AssertionsHold ==
  /\ Running({"POP_BLOCK", "POP_EXCEPT", "RERAISE"}) => f_blockstack # <<>>
  /\ Running({"POP_EXCEPT"}) => /\ TopBlock.b_type = "EXCEPT_HANDLER"
                                /\ height \in TopBlock.b_level + 3 .. TopBlock.b_level + 4
  /\ Running({"RERAISE"})    => sp_map[ReraiseLasti] = TopBlock.b_level + 6
  /\ phase \in {"returned", "raised"} => f_stackdepth = 0

-----------------------------------------------------------------------------
ExceptionOf(type, value) == IF type \in {Null, None} THEN NoExc ELSE value[1]

\* Where handler i has what it saved: above a value to be returned, if there is one.
SavedAt(i) ==
  LET level == f_blockstack[i].b_level
  IN  IF i = Len(f_blockstack) /\ Running({"POP_EXCEPT"}) /\ height = level + 4
        THEN level + 1 ELSE level

Blocks ==
  [i \in 1 .. Len(f_blockstack) |->
     IF f_blockstack[i].b_type = "EXCEPT_HANDLER"
       THEN [handler |-> TRUE,
             saved |-> ExceptionOf(slot[SavedAt(i) + 3], slot[SavedAt(i) + 2])]
       ELSE [handler |-> FALSE, saved |-> NoExc]]

Abstract == INSTANCE ExceptionState WITH
  blocks  <- Blocks,
  handled <- ExceptionOf(exc_info[1], exc_info[2]),
  raising <- IF curexc = NoExc THEN NoExc ELSE curexc[2][1]

\* The block stack, the values handlers save and exc_info nest the exceptions
\* being handled as the program's handlers nest.
Implements == Abstract!Spec

\* While no handler is entered, and so however the function is left,
\* sys.exc_info() is the caller's; when it is left no block is.
OutsideRestored ==
  /\ Abstract!OutsideRestored
  /\ phase \in {"returned", "raised"} => f_blockstack = <<>>
=============================================================================
