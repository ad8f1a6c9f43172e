--------------------------- MODULE OperatorHelpers ---------------------------
(***************************************************************************)
(* The helpers of binary operators and comparisons: which slots of the two *)
(* operands' types they call, and in which order.                          *)
(***************************************************************************)
EXTENDS HelperSteps, StackEffects

\* What the operands' types v and w offer: the functions in their slots of the
\* operator, whether w's type is the same as v's or a subtype of it, and which
\* slots for in-place and sequence operations there are.
Functions  == {"none", "f", "g"}
Situations ==
  {s \in [v : Functions, w : Functions, w_type : {"same", "subtype", "other"},
          v_inplace : BOOLEAN, v_seq : BOOLEAN, v_seq_inplace : BOOLEAN, w_seq : BOOLEAN] :
     s.w_type = "same" => s.v = s.w /\ s.v_seq = s.w_seq}

InPlace(op) ==
  op \in {"INPLACE_ADD", "INPLACE_SUBTRACT", "INPLACE_MULTIPLY", "INPLACE_FLOOR_DIVIDE",
          "INPLACE_TRUE_DIVIDE", "INPLACE_MODULO", "INPLACE_POWER", "INPLACE_MATRIX_MULTIPLY",
          "INPLACE_LSHIFT", "INPLACE_RSHIFT", "INPLACE_AND", "INPLACE_OR", "INPLACE_XOR"}

\* A slot's answer is the result unless it is NotImplemented, which is released.
callSlotOfBinOp(side) ==
  Slot(side) \o New("result") \o Either(<<Yields("result"), Decref("result")>>)

\* One of the sequence slots is called, whose answer is final.
callSequenceSlot(side) == Slot(side) \o New("result") \o Yields("result")

CallsIf(present, side) == IF present THEN callSlotOfBinOp(side) ELSE Skip

handleBinaryTryingTwice(op, s) ==
  LET slot_v == s.v # "none"
      slot_w == s.w # "none" /\ s.w # s.v
      w_first == slot_v /\ slot_w /\ s.w_type # "other"
  IN  CallsIf(InPlace(op) /\ s.v_inplace, "v inplace")
        \o CallsIf(w_first, "w") \o CallsIf(slot_v, "v") \o CallsIf(slot_w, "w")

handleBinary(op, s) ==
  LET slot_v == s.v # "none"
      slot_w == s.w # "none" /\ s.w # s.v
      w_first == slot_v /\ slot_w /\ s.w_type # "other"
  IN  CallsIf(InPlace(op) /\ s.v_inplace, "v inplace")
        \o CallsIf(w_first, "w") \o CallsIf(slot_v, "v") \o CallsIf(slot_w /\ ~w_first, "w")

raiseBinOpTypeError == Unsupported \o Raise

\* The test for sq_concat is inverted: it is called where there is none.
handle_BINARY_ADD(s) ==
  handleBinary("BINARY_ADD", s)
    \o (IF s.v_seq THEN raiseBinOpTypeError ELSE Use("sq_concat") \o callSequenceSlot("v seq"))

handle_INPLACE_ADD(s) ==
  handleBinary("INPLACE_ADD", s)
    \o (IF s.v_seq_inplace THEN callSequenceSlot("v seq inplace")
        ELSE IF s.v_seq THEN callSequenceSlot("v seq")
        ELSE raiseBinOpTypeError)

\* The count must be an index, and fit.
repeatSequence(op, s) ==
  LET repeat(side) == Either(<<Fails, Does \o callSequenceSlot(side)>>)
  IN  IF op = "INPLACE_MULTIPLY" /\ s.v_seq_inplace THEN repeat("v seq inplace")
      ELSE IF s.v_seq THEN repeat("v seq")
      ELSE IF s.w_seq THEN repeat("w seq")
      ELSE raiseBinOpTypeError

handle_BINARY_MULTIPLY(op, s) == handleBinary(op, s) \o repeatSequence(op, s)

\* Two strings, or a string and no string: formatted at once.
handle_BINARY_MODULO(s) ==
  Either(<<New("res") \o Yields("res"), handleBinary("BINARY_MODULO", s) \o raiseBinOpTypeError>>)

\* The two operands may share the function, which is then called for each with
\* the comparison swapped.  Equality always has an answer.
handle_COMPARE_OP(s) ==
  LET w_first == s.w # "none" /\ s.w_type = "subtype"
  IN  CallsIf(w_first, "w") \o CallsIf(s.v # "none", "v") \o CallsIf(s.w # "none" /\ ~w_first, "w")
        \o Either(<<Get("res") \o Yields("res"), Unsupported \o Raise>>)

\* The others of BinaryOps only call handleBinary.
Operator(op, s) ==
  CASE op = "BINARY_ADD"       -> handle_BINARY_ADD(s)
    [] op = "INPLACE_ADD"      -> handle_INPLACE_ADD(s)
    [] op \in {"BINARY_MULTIPLY", "INPLACE_MULTIPLY"} -> handle_BINARY_MULTIPLY(op, s)
    [] op = "BINARY_MODULO"    -> handle_BINARY_MODULO(s)
    [] op = "COMPARE_OP"       -> handle_COMPARE_OP(s)
    [] OTHER                   -> handleBinary(op, s) \o raiseBinOpTypeError

-----------------------------------------------------------------------------
(* What the language promises of an operator's calls, in the order made.    *)

\* Every slot that takes part; w's own one only if it is not v's too, for a
\* comparison if it is there at all.  Sequence slots come last, w's only if v
\* has none.
Candidates(op, s) ==
  (IF InPlace(op) /\ s.v_inplace THEN {"v inplace"} ELSE {})
    \cup (IF s.v # "none" THEN {"v"} ELSE {})
    \cup (IF s.w # "none" /\ (s.w # s.v \/ op = "COMPARE_OP") THEN {"w"} ELSE {})
    \cup (IF /\ op \in {"BINARY_ADD", "INPLACE_ADD", "BINARY_MULTIPLY", "INPLACE_MULTIPLY"}
             /\ s.v_seq
          THEN {"v seq"} ELSE {})
    \cup (IF op \in {"INPLACE_ADD", "INPLACE_MULTIPLY"} /\ s.v_seq_inplace
          THEN {"v seq inplace"} ELSE {})
    \cup (IF op \in {"BINARY_MULTIPLY", "INPLACE_MULTIPLY"} /\ s.w_seq THEN {"w seq"} ELSE {})

\* A subtype's own slot comes before its supertype's, else left before right.
Rank(side, s) ==
  CASE side = "v inplace" -> 0
    [] side = "v" -> 2
    [] side = "w" -> IF s.w_type = "subtype" THEN 1 ELSE 3
    [] side = "v seq inplace" -> 4
    [] side = "v seq" -> 5
    [] side = "w seq" -> 6

RightOrder(calls, op, s) ==
  /\ \A i \in DOMAIN calls : calls[i] \in Candidates(op, s)
  /\ \A i, j \in DOMAIN calls : i < j => Rank(calls[i], s) < Rank(calls[j], s)
=============================================================================
