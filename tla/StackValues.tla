----------------------------- MODULE StackValues -----------------------------
(***************************************************************************)
(* A basic block compiled and run.  doIntraBlockAnalysis goes over it      *)
(* backward, working out when each value on the stack is last used, and    *)
(* decides which loads of constants and locals need not be stored on the   *)
(* frame's value stack nor counted (redundant_loads).  emitBlock goes over *)
(* it forward with an abstract stack in which such values are not "really  *)
(* pushed".  The emitted code is run as it is emitted: an instruction      *)
(* takes its operands off, calls out, and then either completes or raises, *)
(* when the unwinder releases the stack slots sp_map tells it to.          *)
(*                                                                         *)
(* Objects are numbers with a reference count each; object 1 is a constant *)
(* of the code object.                                                     *)
(***************************************************************************)
EXTENDS StackEffects, FiniteSets

CONSTANTS Local,          \* 1 .. co_nlocals
          MaxHeight       \* co_stacksize

ASSUME LocalAssumption == IsFiniteSet(Local) /\ Local = 1 .. Cardinality(Local)

ASSUME NumbersAssumption == Forever \in Nat /\ Anytime \in Nat /\ MaxHeight \in Nat

VARIABLES
  code,                   \* the block's units, 0 .. n-1
  initial_stack_height,
  phase,                  \* "analyse", "emit", "call", then how the block was left
  vpc,                    \* units still to analyse; the unit emitted and run next
  until, locals, redundant_loads, stack_effect,  \* the analysis
  abstract_stack,         \* records [value, really_pushed, local], the top last
  stack_height,           \* slots in use
  sp,                     \* vpc_to_stack_height[vpc]
  slot, fast,             \* the frame's value stack and its local variables
  refs,                   \* reference counts
  operands, taken         \* what the instruction being run popped and took

analysis == <<until, locals, redundant_loads, stack_effect>>
vars == <<code, initial_stack_height, phase, vpc, until, locals, redundant_loads, stack_effect,
          abstract_stack, stack_height, sp, slot, fast, refs, operands, taken>>

code_instr_num == Cardinality(DOMAIN code)
unit           == code[vpc]
None           == 0                 \* no object
Const          == 1

Pushed(o)       == [value |-> o, really_pushed |-> TRUE, local |-> None]
Redundant(o, x) == [value |-> o, really_pushed |-> FALSE, local |-> x]

\* Where the values are that the stack owns.
Owned(s)    == {i \in DOMAIN s : s[i].really_pushed}
TopN(s, n)  == SubSeq(s, Len(s) - n + 1, Len(s))
Below(s, n) == SubSeq(s, 1, Len(s) - n)

\* How many members of S there are up to k, and which is the k-th.
UpTo(S, k) == Cardinality({i \in S : i <= k})
Nth(S, k)  == CHOOSE i \in S : UpTo(S, i) = k

\* How many values at the places S of s are o.
Count(s, S, o) == Cardinality({i \in S : s[i].value = o})

-----------------------------------------------------------------------------
\* Opcodes the code gets wrong.
Wrong == {"GEN_START", "IS_OP", "BEFORE_ASYNC_WITH", "CONTAINS_OP", "MATCH_CLASS"} \cup OrPopJumps

Supported == (MoveOps \cup NameOps \cup OperatorOps \cup CallOps \cup JumpOps \cup BuildOps
                \cup PatternOps \cup HandlerOps \cup GeneratorOps) \ Wrong

Ending == PopJumps \cup {"JUMP_FORWARD", "JUMP_ABSOLUTE", "FOR_ITER", "JUMP_IF_NOT_EXC_MATCH",
                        "SETUP_FINALLY", "SETUP_WITH", "RETURN_VALUE", "RERAISE",
                        "RAISE_VARARGS"}

\* The blocks the properties below are about.  Unpacking an object of unknown type
\* that the stack owns is left out, for it is wrong; here it is a local.
Compiled(c) ==
  LET n == Cardinality(DOMAIN c)
  IN  /\ n \in 1 .. Forever - 1 /\ DOMAIN c = 0 .. n - 1
      /\ \A v \in DOMAIN c :
           /\ c[v].op \in Supported /\ c[v].arg \in Nat
           /\ c[v].op \in {"LOAD_FAST", "STORE_FAST", "DELETE_FAST"} => c[v].arg \in Local
           /\ c[v].op = "ROT_N" => c[v].arg > 0
           /\ c[v].op = "UNPACK_SEQUENCE" => v > 0 /\ c[v - 1].op = "LOAD_FAST"
           /\ c[v].op \in Ending => v = n - 1

\* A frame whose locals and whose initial stack hold an object each, the objects
\* of the stack on it since earlier blocks (declareStackGrowth).
InitBlock ==
  LET nlocals == Cardinality(Local)
      onStack == [i \in 1 .. initial_stack_height |-> 1 + nlocals + i]
  IN  /\ phase = "analyse" /\ vpc = code_instr_num
      /\ until = <<>> /\ redundant_loads = {} /\ stack_effect = 0
      /\ locals = [x \in Local |-> code_instr_num]
      /\ abstract_stack = [i \in 1 .. initial_stack_height |-> Pushed(onStack[i])]
      /\ stack_height = initial_stack_height /\ sp = initial_stack_height
      /\ slot = [i \in 1 .. MaxHeight |-> IF i <= initial_stack_height THEN onStack[i] ELSE None]
      /\ fast = [x \in Local |-> 1 + x]
      /\ refs = [o \in 1 .. 1 + nlocals + initial_stack_height |-> 1]
      /\ operands = <<>> /\ taken = <<>>

-----------------------------------------------------------------------------
AnalyseForgettingStores ==
  LET v       == vpc - 1
      op      == code[v].op
      n       == code[v].arg
      row     == Assumes(op, n, until, v)
      lastUse == TopOf(until, 1)[1]
  IN  /\ phase = "analyse" /\ vpc > 0
      /\ until' = Without(until, row.undo) \o row.marks
      /\ stack_effect' = stack_effect + row.undo - Len(row.marks)
      /\ redundant_loads' =
           IF op \in {"LOAD_CONST", "LOAD_FAST"} /\ code_instr_num > lastUse
             THEN redundant_loads \cup {v} ELSE redundant_loads
      /\ vpc' = v
      /\ phase' = IF v = 0 THEN "emit" ELSE "analyse"
      /\ UNCHANGED <<code, initial_stack_height, locals, abstract_stack, stack_height, sp, slot,
                     fast, refs, operands, taken>>

\* One unit of the backward pass.  `locals` holds the next unit that stores a
\* local; a load is redundant when its value is last used before that.
Analyse ==
  LET v       == vpc - 1
      op      == code[v].op
      n       == code[v].arg
      row     == Assumes(op, n, until, v)
      lastUse == TopOf(until, 1)[1]
  IN  /\ phase = "analyse" /\ vpc > 0
      /\ until' = Without(until, row.undo) \o row.marks
      /\ stack_effect' = stack_effect + row.undo - Len(row.marks)
      /\ locals' = IF op = "STORE_FAST" THEN [locals EXCEPT ![n] = v] ELSE locals
      /\ redundant_loads' =
           IF \/ op = "LOAD_CONST" /\ code_instr_num > lastUse
              \/ op = "LOAD_FAST" /\ locals[n] > lastUse
             THEN redundant_loads \cup {v} ELSE redundant_loads
      /\ vpc' = v
      /\ phase' = IF v = 0 THEN "emit" ELSE "analyse"
      /\ UNCHANGED <<code, initial_stack_height, abstract_stack, stack_height, sp, slot, fast,
                     refs, operands, taken>>

-----------------------------------------------------------------------------
Emitting(ops) == phase = "emit" /\ vpc < code_instr_num /\ unit.op \in ops

\* The next unit; sp_map is told the height at its start.  The code never needs
\* more than co_stacksize.
NextUnit ==
  /\ Len(abstract_stack') <= MaxHeight
  /\ vpc' = vpc + 1
  /\ sp' = stack_height'
  /\ phase' = IF vpc' = code_instr_num THEN "fell" ELSE "emit"

Kept == <<code, initial_stack_height, analysis>>

\* do_PUSH and do_RedundantPUSH of the value o.
Push(o) ==
  /\ abstract_stack' = Append(abstract_stack, Pushed(o))
  /\ stack_height' = stack_height + 1
  /\ slot' = [slot EXCEPT ![stack_height + 1] = o]

PushRedundant(o, x) ==
  /\ abstract_stack' = Append(abstract_stack, Redundant(o, x))
  /\ UNCHANGED <<stack_height, slot>>

LoadConst ==
  /\ Emitting({"LOAD_CONST"})
  /\ IF vpc \in redundant_loads
       THEN PushRedundant(Const, None) /\ UNCHANGED refs
       ELSE Push(Const) /\ refs' = [refs EXCEPT ![Const] = @ + 1]
  /\ NextUnit
  /\ UNCHANGED <<Kept, fast, operands, taken>>

\* A load that is not redundant counts its value twice.
LoadFast ==
  LET value == fast[unit.arg]
  IN  /\ Emitting({"LOAD_FAST"})
      /\ value # None
      /\ IF vpc \in redundant_loads
           THEN PushRedundant(value, unit.arg) /\ UNCHANGED refs
           ELSE Push(value) /\ refs' = [refs EXCEPT ![value] = @ + 2]
      /\ NextUnit
      /\ UNCHANGED <<Kept, fast, operands, taken>>

\* The old value is read before the new one is stored and released after.
StoreFast ==
  LET top == abstract_stack[Len(abstract_stack)]
      x   == unit.arg
      gain(o) == IF top.value = o /\ ~top.really_pushed THEN 1 ELSE 0
      loss(o) == IF fast[x] = o THEN 1 ELSE 0
  IN  /\ Emitting({"STORE_FAST"})
      /\ Len(abstract_stack) >= 1
      /\ fast' = [fast EXCEPT ![x] = top.value]
      /\ refs' = [o \in DOMAIN refs |-> refs[o] + gain(o) - loss(o)]
      /\ abstract_stack' = Below(abstract_stack, 1)
      /\ stack_height' = IF top.really_pushed THEN stack_height - 1 ELSE stack_height
      /\ NextUnit
      /\ UNCHANGED <<Kept, slot, operands, taken>>

\* CPython's compiler deletes a local in a `del` statement and at the end of a handler,
\* between expressions, where no copy of it that was not counted is on the stack.  The
\* code relies on it without a test: what makes a load count its value is a later store
\* of the local, not a deletion.
DeletesBetweenStatements(x) == \A i \in DOMAIN abstract_stack : abstract_stack[i].local # x

DeleteFast ==
  LET x == unit.arg
  IN  /\ Emitting({"DELETE_FAST"})
      /\ fast[x] # None
      /\ DeletesBetweenStatements(x)
      /\ fast' = [fast EXCEPT ![x] = None]
      /\ refs' = [refs EXCEPT ![fast[x]] = @ - 1]
      /\ UNCHANGED <<abstract_stack, stack_height, slot>>
      /\ NextUnit
      /\ UNCHANGED <<Kept, operands, taken>>

\* The test of a local that is not assigned fails.
RaiseUnbound ==
  /\ Emitting({"LOAD_FAST", "DELETE_FAST"})
  /\ fast[unit.arg] = None
  /\ phase' = "raised"
  /\ UNCHANGED <<Kept, vpc, abstract_stack, stack_height, sp, slot, fast, refs, operands, taken>>

\* f with what is at `last` put at `first` and the others moved up.
Rotated(f, first, last) ==
  [i \in DOMAIN f |-> IF i = first THEN f[last]
                      ELSE IF i \in first + 1 .. last THEN f[i - 1] ELSE f[i]]

RotateAlwaysMoving ==
  LET n    == RotArg(unit.op, unit.arg)
      lift == Cardinality(Owned(Below(TopN(abstract_stack, n), 1)))
  IN  /\ Emitting({"ROT_TWO", "ROT_THREE", "ROT_FOUR", "ROT_N"})
      /\ Len(abstract_stack) >= n
      /\ abstract_stack' = Rotated(abstract_stack, Len(abstract_stack) - n + 1,
                                   Len(abstract_stack))
      /\ slot' = IF lift < stack_height
                   THEN Rotated(slot, stack_height - lift, stack_height) ELSE slot
      /\ UNCHANGED <<stack_height, refs>>
      /\ NextUnit
      /\ UNCHANGED <<Kept, fast, operands, taken>>

\* emitRotN: of the n top values those that are really pushed move in the frame,
\* if the top is one of them.
Rotate ==
  LET n    == RotArg(unit.op, unit.arg)
      lift == Cardinality(Owned(Below(TopN(abstract_stack, n), 1)))
  IN  /\ Emitting({"ROT_TWO", "ROT_THREE", "ROT_FOUR", "ROT_N"})
      /\ Len(abstract_stack) >= n
      /\ abstract_stack' = Rotated(abstract_stack, Len(abstract_stack) - n + 1,
                                   Len(abstract_stack))
      /\ slot' = IF abstract_stack[Len(abstract_stack)].really_pushed
                   THEN Rotated(slot, stack_height - lift, stack_height) ELSE slot
      /\ UNCHANGED <<stack_height, refs>>
      /\ NextUnit
      /\ UNCHANGED <<Kept, fast, operands, taken>>

\* DUP_TOP and DUP_TOP_TWO: a copy is pushed as its original was.
Duplicate ==
  LET n      == IF unit.op = "DUP_TOP" THEN 1 ELSE 2
      copies == TopN(abstract_stack, n)
      pushed == Owned(copies)
      height == stack_height + Cardinality(pushed)
  IN  /\ Emitting({"DUP_TOP", "DUP_TOP_TWO"})
      /\ Len(abstract_stack) >= n
      /\ abstract_stack' = abstract_stack \o copies
      /\ stack_height' = height
      /\ slot' = [i \in DOMAIN slot |-> IF i \in stack_height + 1 .. height
                                          THEN copies[Nth(pushed, i - stack_height)].value
                                          ELSE slot[i]]
      /\ refs' = [o \in DOMAIN refs |-> refs[o] + Count(copies, pushed, o)]
      /\ NextUnit
      /\ UNCHANGED <<Kept, fast, operands, taken>>

-----------------------------------------------------------------------------
Moves == {"LOAD_CONST", "LOAD_FAST", "STORE_FAST", "DELETE_FAST", "ROT_TWO", "ROT_THREE",
          "ROT_FOUR", "ROT_N", "DUP_TOP", "DUP_TOP_TWO"}

\* What CPython's compiler keeps to: a dictionary of keyword arguments was just
\* built, an iterator or the other side of `yield from` was the result of an
\* instruction, the exception state a handler restores was put on the stack when
\* the handler was entered, nothing is on the stack below a value returned, and
\* no more than co_stacksize is ever on it.
Legal(op, n) ==
  LET depth    == Len(abstract_stack)
      row      == Emits(op, n)
      owned(i) == depth >= i /\ abstract_stack[depth - i + 1].really_pushed
  IN  /\ depth - (row.pop + row.take + row.keep) + row.push <= MaxHeight
      /\ op = "CALL_FUNCTION_EX" /\ Bit(n, 1) = 1 => owned(1)
      /\ op = "FOR_ITER" => owned(1)
      /\ op = "YIELD_FROM" => owned(2)
      /\ op = "POP_EXCEPT" => \A i \in 1 .. 3 : owned(i)
      /\ op = "END_ASYNC_FOR" => \A i \in 1 .. 7 : owned(i)
      /\ op = "RETURN_VALUE" => depth = 1

\* The instruction takes its operands.  Slots are given up, not cleared, until it
\* completes: if it raises, sp_map makes the unwinder release them.
Begin ==
  LET row  == Emits(unit.op, unit.arg)
      rest == Below(abstract_stack, row.pop)
      popped == TopN(abstract_stack, row.pop)
  IN  /\ phase = "emit" /\ vpc < code_instr_num /\ unit.op \notin Moves
      /\ Len(abstract_stack) >= row.pop + row.take + row.keep
      /\ Legal(unit.op, unit.arg)
      /\ operands' = popped
      /\ taken' = TopN(rest, row.take)
      /\ abstract_stack' = IF row.blind THEN rest ELSE Below(rest, row.take)
      /\ stack_height' = stack_height - Cardinality(Owned(popped)) - row.take
      /\ refs' = IF row.early
                   THEN [o \in DOMAIN refs |-> refs[o] - Count(popped, Owned(popped), o)]
                   ELSE refs
      /\ phase' = "call"
      /\ UNCHANGED <<Kept, vpc, sp, slot, fast>>

ReleasedAll == DOMAIN operands

\* The operands emitted code releases when the call is done.
Released ==
  LET row == Emits(unit.op, unit.arg)
      releasing(i) == \/ i > Len(operands) - row.always
                      \/ /\ operands[i].really_pushed /\ ~row.early
                         /\ i <= Len(operands) - row.lost
  IN  {i \in DOMAIN operands : releasing(i)}

Releases(o) == Count(operands, Released, o) + Count(taken, DOMAIN taken, o)

Results(row) ==
  IF row.borrowed THEN <<Const>> ELSE [i \in 1 .. row.push |-> Cardinality(DOMAIN refs) + i]

NoReturn == {"RERAISE", "RAISE_VARARGS"}

\* Where control goes when the instruction completes.
Leaving ==
  CASE unit.op \in {"JUMP_FORWARD", "JUMP_ABSOLUTE"} -> {"branched"}
    [] unit.op \in PopJumps \cup OrPopJumps \cup {"JUMP_IF_NOT_EXC_MATCH"} -> {"branched", "fell"}
    [] unit.op = "RETURN_VALUE" -> {"returned"}
    [] OTHER -> {IF vpc + 1 = code_instr_num THEN "fell" ELSE "emit"}

\* It completes: operands are released, values moved to other holders (counted
\* then if the stack did not own them), and results stored.
Complete ==
  LET row     == Emits(unit.op, unit.arg)
      moved   == TopN(abstract_stack, row.keep)
      left    == IF row.blind THEN abstract_stack ELSE Below(abstract_stack, row.keep)
      height  == stack_height - Cardinality(Owned(moved))
      results == Results(row)
      old(o)  == IF o \in DOMAIN refs
                   THEN refs[o] - Releases(o) + Count(moved, DOMAIN moved \ Owned(moved), o)
                   ELSE 1
  IN  /\ phase = "call" /\ unit.op \notin NoReturn
      /\ refs' = [o \in DOMAIN refs \cup {results[i] : i \in DOMAIN results} |-> old(o)]
      /\ abstract_stack' = IF row.blind THEN left
                           ELSE left \o [i \in DOMAIN results |-> Pushed(results[i])]
      /\ stack_height' = height + Len(results)
      /\ slot' = [i \in DOMAIN slot |-> IF i \in height + 1 .. height + Len(results)
                                          THEN results[i - height] ELSE slot[i]]
      /\ phase' \in Leaving
      /\ vpc' = vpc + 1
      /\ sp' = stack_height'
      /\ operands' = <<>> /\ taken' = <<>>
      /\ UNCHANGED <<Kept, fast>>

\* FOR_ITER finds its iterator exhausted and releases it.
Exhaust ==
  LET iter == abstract_stack[Len(abstract_stack)].value
  IN  /\ phase = "call" /\ unit.op = "FOR_ITER"
      /\ refs' = [refs EXCEPT ![iter] = @ - 1]
      /\ abstract_stack' = Below(abstract_stack, 1)
      /\ stack_height' = stack_height - 1
      /\ phase' = "branched"
      /\ UNCHANGED <<Kept, vpc, sp, slot, fast, operands, taken>>

\* YIELD_FROM: the receiver yields.  The value sent to it is released, the frame
\* is left with the receiver on its stack, and resumed with None above it.
Suspend ==
  LET sent == operands[2]
  IN  /\ phase = "call" /\ unit.op = "YIELD_FROM"
      /\ refs' = [o \in DOMAIN refs |-> refs[o]
                    - (IF sent.really_pushed /\ sent.value = o THEN 1 ELSE 0)
                    + (IF o = Const THEN 1 ELSE 0)]
      /\ slot' = [slot EXCEPT ![stack_height + 2] = Const]
      /\ operands' = <<operands[1], Pushed(Const)>>
      /\ UNCHANGED <<Kept, phase, vpc, abstract_stack, stack_height, sp, fast, taken>>

\* It raises.  UNPACK_SEQUENCE may have stored every item already, the last one
\* where the sequence was, and released them all.
Raise ==
  /\ phase = "call"
  /\ Emits(unit.op, unit.arg).risky
  /\ phase' = "raised"
  /\ \/ UNCHANGED <<slot, refs>>
     \/ /\ unit.op = "UNPACK_SEQUENCE" /\ unit.arg > 0
        /\ LET item == Cardinality(DOMAIN refs) + 1
           IN  /\ refs' = [o \in DOMAIN refs \cup {item} |-> IF o = item THEN 0 ELSE refs[o]]
               /\ slot' = [slot EXCEPT ![stack_height + 1] = item]
  /\ UNCHANGED <<Kept, vpc, abstract_stack, stack_height, sp, fast, operands, taken>>

Next == Analyse \/ LoadConst \/ LoadFast \/ StoreFast \/ DeleteFast \/ RaiseUnbound \/ Rotate
          \/ Duplicate \/ Begin \/ Complete \/ Exhaust \/ Suspend \/ Raise

\* A block of code, begun at any height.
Init == Compiled(code) /\ initial_stack_height \in 0 .. MaxHeight /\ InitBlock

Spec == Init /\ [][Next]_vars

-----------------------------------------------------------------------------
\* Slots the frame owns: what the unwinder would release if a call were to raise.
depth == IF phase \in {"call", "raised"} THEN sp ELSE stack_height

Holders(o) == Cardinality({i \in 1 .. depth : slot[i] = o})
                + Cardinality({x \in Local : fast[x] = o})
                + (IF o = Const THEN 1 ELSE 0)

\* Every slot the frame owns, and every local, is counted: whenever a call may
\* raise, the unwinder releases no reference that was already released (the rule
\* stated where emitBlock records the height of the stack).
NothingReleasedTwice == \A o \in DOMAIN refs : refs[o] >= Holders(o)

\* An instruction works on objects that are alive: a value whose load was not
\* counted is kept alive by its local for as long as it is used.
OperandsAlive ==
  phase = "call" /\ unit.op # "POP_TOP" =>
    \A i \in DOMAIN operands : refs[operands[i].value] > 0

\* What is handed over in place is in its slots (the assertion of do_POP_N).
TakenAreOwned == \A i \in DOMAIN taken : taken[i].really_pushed

\* The values the emitter believes really pushed are those of the frame's slots,
\* in their order.
MirrorsFrame ==
  phase = "emit" =>
    LET owned == Owned(abstract_stack)
    IN  /\ Cardinality(owned) = stack_height
        /\ \A i \in owned : slot[UpTo(owned, i)] = abstract_stack[i].value

\* The block is left at the height the analysis gives its successors, with every
\* value in its slot (the assertion at the end of emitBlock).
HeightsAgree ==
  LET height == initial_stack_height + stack_effect
  IN  /\ phase = "fell" => stack_height = height
      /\ phase = "branched" =>
           stack_height = height + branch_stack_difference(code[code_instr_num - 1].op)
=============================================================================
