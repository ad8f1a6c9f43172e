---------------------------- MODULE MCStackValues ----------------------------
(***************************************************************************)
(* Blocks compiled and run: every block of MoveLength units that move      *)
(* values between the stack and the locals around a few operations, and    *)
(* every opcode after up to two loads.                                     *)
(***************************************************************************)
EXTENDS StackValues

CONSTANT MoveLength       \* bound on the length of the blocks of moves

U(op, n) == [op |-> op, arg |-> n]

Loads == {U("LOAD_FAST", 1), U("LOAD_CONST", 0), U("DUP_TOP", 0)}

MoveUnits ==
  {U("LOAD_FAST", 1), U("LOAD_FAST", 2), U("STORE_FAST", 1), U("DELETE_FAST", 1),
   U("LOAD_CONST", 0), U("ROT_TWO", 0), U("ROT_THREE", 0), U("DUP_TOP", 0),
   U("DUP_TOP_TWO", 0), U("POP_TOP", 0), U("BINARY_ADD", 0), U("CALL_FUNCTION", 1),
   U("BUILD_TUPLE", 2)}

\* Opcodes of which the argument changes what they do to the stack.
WithArgument ==
  Building \cup {"CALL_FUNCTION", "CALL_METHOD", "CALL_FUNCTION_KW", "BUILD_MAP",
                 "BUILD_CONST_KEY_MAP", "CALL_FUNCTION_EX", "YIELD_VALUE", "MAKE_FUNCTION",
                 "FORMAT_VALUE", "BUILD_SLICE", "RAISE_VARARGS", "UNPACK_EX",
                 "UNPACK_SEQUENCE", "ROT_N", "LOAD_FAST", "STORE_FAST", "DELETE_FAST"}

NoArgument == Supported \ WithArgument

AllUnits ==
  {U(op, 0) : op \in NoArgument}
    \cup {U(op, n) : op \in {"CALL_FUNCTION", "CALL_METHOD", "CALL_FUNCTION_KW", "BUILD_MAP",
                             "BUILD_CONST_KEY_MAP"} \cup Building, n \in {0, 2}}
    \cup {U(op, n) : op \in {"CALL_FUNCTION_EX", "YIELD_VALUE"}, n \in {0, 1}}
    \cup {U("MAKE_FUNCTION", n) : n \in {0, 1, 9}}
    \cup {U("FORMAT_VALUE", n) : n \in {0, 4}}
    \cup {U("BUILD_SLICE", n) : n \in {2, 3}}
    \cup {U("RAISE_VARARGS", n) : n \in 0 .. 2}
    \cup {U("UNPACK_EX", n) : n \in {1, 257}}
    \cup {U("UNPACK_SEQUENCE", 2), U("ROT_N", 5)}

FromZero(s) == [i \in 0 .. Len(s) - 1 |-> s[i + 1]]

\* The code never takes more than there is.
Balanced(c, height) ==
  LET row(i) == Assumes(c[i].op, c[i].arg, <<>>, 0)
      heightAt[i \in 0 .. Cardinality(DOMAIN c)] ==
        IF i = 0 THEN height
        ELSE heightAt[i - 1] + row(i - 1).undo - Len(row(i - 1).marks)
  IN  \A i \in DOMAIN c : heightAt[i] >= Len(row(i).marks)

MoveBlocks == {FromZero(s) : s \in [1 .. MoveLength -> MoveUnits]}

OpcodeBlocks == {FromZero(p \o <<u>>) : p \in UNION {[1 .. n -> Loads] : n \in 0 .. 2},
                                        u \in AllUnits}

MCInit ==
  /\ \/ code \in MoveBlocks /\ initial_stack_height \in {0, 2}
     \/ code \in OpcodeBlocks /\ initial_stack_height \in {0, 7}
  /\ Balanced(code, initial_stack_height)
  /\ Compiled(code)
  /\ InitBlock

MCSpec == MCInit /\ [][Next]_vars

\* The block for the run that finds a reference released twice.
OneBlock(s) ==
  /\ code = FromZero(s) /\ initial_stack_height = 2
  /\ InitBlock

UnpackOwned ==
  OneBlock(<<U("CALL_FUNCTION", 0), U("UNPACK_SEQUENCE", 2)>>) /\ [][Next]_vars
=============================================================================
