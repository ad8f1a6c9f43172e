------------------------------ MODULE Bytecode ------------------------------
(***************************************************************************)
(* CPython 3.10 wordcode as the compiler reads it: code units of an opcode *)
(* and a one-byte argument, EXTENDED_ARG prefixes, and the classes of      *)
(* opcodes analyze_code.cpp lines 8-54 tells apart.  A code object is a    *)
(* function from 0 .. n-1 to units [op, arg].                              *)
(***************************************************************************)
EXTENDS Integers, FiniteSets, FiniteSetsExt

CONSTANT ArgBase    \* values of one argument byte: 256 in CPython

ASSUME ArgBaseAssumption == ArgBase \in Nat \ {0, 1}

isTerminator(op) ==
  op \in {"RETURN_VALUE", "RERAISE", "RAISE_VARARGS", "JUMP_ABSOLUTE", "JUMP_FORWARD"}

isAbsoluteJmp(op) ==
  op \in {"POP_JUMP_IF_TRUE", "POP_JUMP_IF_FALSE", "JUMP_IF_TRUE_OR_POP",
          "JUMP_IF_FALSE_OR_POP", "JUMP_IF_NOT_EXC_MATCH", "JUMP_ABSOLUTE"}

isRelativeJump(op) == op \in {"FOR_ITER", "JUMP_FORWARD"}

isTryBlockSetup(op) == op \in {"SETUP_FINALLY", "SETUP_WITH", "SETUP_ASYNC_WITH"}

\* Opcodes whose argument is a place in the code.
Jumps(op) == isTryBlockSetup(op) \/ isRelativeJump(op) \/ isAbsoluteJmp(op)

\* Reading one prefix only.
opargOnePrefix(code, vpc) ==
  code[vpc].arg + (IF vpc > 0 /\ code[vpc - 1].op = "EXTENDED_ARG"
                     THEN code[vpc - 1].arg * ArgBase ELSE 0)

\* PyInstrPointer::oparg: the argument of the unit at vpc, found by walking back
\* over the EXTENDED_ARG units in front of it.
oparg(code, vpc) ==
  LET prefixes == Max({n \in 0 .. vpc :
                         \A j \in vpc - n .. vpc - 1 : code[j].op = "EXTENDED_ARG"})
      shift[n \in 0 .. prefixes] == IF n = 0 THEN 1 ELSE shift[n - 1] * ArgBase
      arg[n \in 0 .. prefixes] ==
        IF n = 0 THEN code[vpc].arg
                 ELSE arg[n - 1] + code[vpc - n].arg * shift[n]
  IN  arg[prefixes]

\* Where the jump at vpc goes (analyze_code.cpp lines 96 and 130): relative to
\* the next unit unless the opcode is an absolute jump.
Destination(code, vpc) ==
  oparg(code, vpc) + (IF isAbsoluteJmp(code[vpc].op) THEN 0 ELSE vpc + 1)

\* The argument emitBlock computes for the unit at vpc of a block that begins at
\* start: it walks forward and begins each block with no prefix pending.
emittedOparg(code, start, vpc) ==
  LET arg[v \in start .. vpc] ==
        IF v > start /\ code[v - 1].op = "EXTENDED_ARG"
          THEN arg[v - 1] * ArgBase + code[v].arg
          ELSE code[v].arg
  IN  arg[vpc]

\* What CPython's compiler guarantees of the code it emits: control never runs
\* off the end, jumps land on units of the code and not between a unit and its
\* prefixes, the first prefix is not zero, and no code is unreachable by
\* construction (what follows a terminator is a jump's destination).
Emitted(code) ==
  LET units == DOMAIN code
      last  == Cardinality(units) - 1
      jumps == {v \in units : Jumps(code[v].op)}
  IN  /\ isTerminator(code[last].op)
      /\ \A v \in jumps : /\ Destination(code, v) \in units
                          /\ Destination(code, v) > 0 =>
                               code[Destination(code, v) - 1].op # "EXTENDED_ARG"
      /\ \A v \in units : code[v].op = "EXTENDED_ARG" =>
                            code[v].arg # 0 \/ (v > 0 /\ code[v - 1].op = "EXTENDED_ARG")
      /\ \A v \in units \ {last} : isTerminator(code[v].op) =>
                                     \E j \in jumps : Destination(code, j) = v + 1
=============================================================================
