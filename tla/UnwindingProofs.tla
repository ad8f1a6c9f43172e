--------------------------- MODULE UnwindingProofs ---------------------------
(***************************************************************************)
(* Proofs about Unwinding, for every function whose blocks nest as the     *)
(* compiler makes them, however deep: handlers restore what they saved, no *)
(* reference is lost, and the exceptions handled nest as the handlers do.  *)
(***************************************************************************)
EXTENDS Unwinding, SequenceTheorems, FiniteSetTheorems, TLAPS

-----------------------------------------------------------------------------
(* The two tables.                                                         *)

\* What an opcode leaves on the stack and what it takes, in the emitter's table,
\* make up the difference the backward pass assumes.
Agree(assumed, emitted) ==
  /\ emitted.pop \in Nat /\ emitted.take \in Nat /\ emitted.keep \in Nat /\ emitted.push \in Nat
  /\ assumed.undo - Len(assumed.marks)
       = emitted.push - emitted.pop - emitted.take - emitted.keep

LEMMA LenTimes ==
  ASSUME NEW n \in Nat, NEW t
  PROVE  Len(Times(n, t)) = n
BY DEF Times

LEMMA NamesAgree ==
  ASSUME NEW op \in NameOps, NEW v
  PROVE  Agree(AssumesName(op, v), EmitsName(op))
BY DEF Agree, NameOps, AssumesName, EmitsName, Row, Plain, Pop, Take, Safely

LEMMA OperatorsAgree ==
  ASSUME NEW op \in OperatorOps, op # "IS_OP", NEW v
  PROVE  Agree(AssumesOperator(op, v), EmitsOperator(op))
<1>1. CASE op \in UnaryOps
  BY <1>1 DEF Agree, AssumesOperator, EmitsOperator, Row, Plain, Pop, UnaryOps
<1>2. CASE op \notin UnaryOps
  BY <1>2 DEF Agree, AssumesOperator, EmitsOperator, Row, Plain, Pop
<1> QED BY <1>1, <1>2

LEMMA CallsAgree ==
  ASSUME NEW op \in CallOps, NEW n \in Nat, NEW v
  PROVE  Agree(AssumesCall(op, n, v), EmitsCall(op, n))
<1>1. Bit(n, 1) \in Nat /\ Extras(n) \in Nat
  BY DEF Bit, Extras
<1>2. CASE op = "RETURN_VALUE"
  <2>1. AssumesCall(op, n, v) = Row(0, <<v>>)
    BY <1>2 DEF AssumesCall
  <2>2. EmitsCall(op, n) = Safely([Plain EXCEPT !.keep = 1])
    BY <1>2 DEF EmitsCall
  <2> QED BY <2>1, <2>2 DEF Agree, Row, Plain, Pop, Take, Safely
<1>3. CASE op = "IMPORT_STAR"
  <2>1. AssumesCall(op, n, v) = Row(0, <<v>>)
    BY <1>3 DEF AssumesCall
  <2>2. EmitsCall(op, n) = Pop(1, 0)
    BY <1>3 DEF EmitsCall
  <2> QED BY <2>1, <2>2 DEF Agree, Row, Plain, Pop, Take, Safely
<1>4. CASE op = "CALL_FUNCTION"
  <2>1. AssumesCall(op, n, v) = Row(1, Times(n + 1, Forever))
    BY <1>4 DEF AssumesCall
  <2>2. EmitsCall(op, n) = Take(n + 1, 1)
    BY <1>4 DEF EmitsCall
  <2>3. PICK m \in Nat : m = n + 1
    BY <1>1
  <2> QED BY <1>1, <2>1, <2>2, <2>3, LenTimes DEF Agree, Row, Plain, Pop, Take
<1>5. CASE op \in {"CALL_METHOD", "CALL_FUNCTION_KW"}
  <2>1. AssumesCall(op, n, v) = Row(1, Times(n + 2, Forever))
    BY <1>5 DEF AssumesCall
  <2>2. EmitsCall(op, n) = Take(n + 2, 1)
    BY <1>5 DEF EmitsCall
  <2>3. PICK m \in Nat : m = n + 2
    BY <1>1
  <2> QED BY <1>1, <2>1, <2>2, <2>3, LenTimes DEF Agree, Row, Plain, Pop, Take
<1>6. CASE op = "CALL_FUNCTION_EX"
  <2>1. AssumesCall(op, n, v) = Row(1, Times(2 + Bit(n, 1), v))
    BY <1>6 DEF AssumesCall
  <2>2. EmitsCall(op, n) = [Pop(2 + Bit(n, 1), 1) EXCEPT !.always = Bit(n, 1)]
    BY <1>6 DEF EmitsCall
  <2>3. PICK m \in Nat : m = 2 + Bit(n, 1)
    BY <1>1
  <2> QED BY <1>1, <2>1, <2>2, <2>3, LenTimes DEF Agree, Row, Plain, Pop, Take
<1>7. CASE op = "MAKE_FUNCTION"
  <2>1. AssumesCall(op, n, v) = Row(1, Times(2 + Extras(n), Forever))
    BY <1>7 DEF AssumesCall
  <2>2. EmitsCall(op, n) = [Pop(2, 1) EXCEPT !.keep = Extras(n)]
    BY <1>7 DEF EmitsCall
  <2>3. PICK m \in Nat : m = 2 + Extras(n)
    BY <1>1
  <2> QED BY <1>1, <2>1, <2>2, <2>3, LenTimes DEF Agree, Row, Plain, Pop, Take
<1>8. CASE op = "LOAD_CLOSURE"
  <2>1. AssumesCall(op, n, v) = Row(1, <<>>)
    BY <1>8 DEF AssumesCall
  <2>2. EmitsCall(op, n) = Safely(Pop(0, 1))
    BY <1>8 DEF EmitsCall
  <2> QED BY <2>1, <2>2 DEF Agree, Row, Plain, Pop, Take, Safely
<1>9. CASE op \in {"LOAD_BUILD_CLASS", "IMPORT_FROM"}
  <2>1. AssumesCall(op, n, v) = Row(1, <<>>)
    BY <1>9 DEF AssumesCall
  <2>2. EmitsCall(op, n) = Pop(0, 1)
    BY <1>9 DEF EmitsCall
  <2> QED BY <2>1, <2>2 DEF Agree, Row, Plain, Pop, Take, Safely
<1>10. CASE op = "IMPORT_NAME"
  <2>1. AssumesCall(op, n, v) = Row(1, <<v, v>>)
    BY <1>10 DEF AssumesCall
  <2>2. EmitsCall(op, n) = Pop(2, 1)
    BY <1>10 DEF EmitsCall
  <2> QED BY <2>1, <2>2 DEF Agree, Row, Plain, Pop, Take, Safely
<1> QED BY <1>2, <1>3, <1>4, <1>5, <1>6, <1>7, <1>8, <1>9, <1>10 DEF CallOps

LEMMA JumpsAgree ==
  ASSUME NEW op \in JumpOps, NEW v
  PROVE  Agree(AssumesJump(op, v), EmitsJump(op))
BY DEF Agree, JumpOps, PopJumps, OrPopJumps, AssumesJump, EmitsJump, Row, Plain, Pop, Safely

LEMMA BuildsAgree ==
  ASSUME NEW op \in BuildOps, NEW n \in Nat, NEW v
  PROVE  Agree(AssumesBuild(op, n, v), EmitsBuild(op, n))
<1>1. Bit(n, 4) \in Nat
  BY DEF Bit
<1>2. CASE op \in Building
  <2>1. AssumesBuild(op, n, v) = Row(1, Times(n, Forever))
    BY <1>2 DEF AssumesBuild, Building, AddingTo
  <2>2. EmitsBuild(op, n) = Take(n, 1)
    BY <1>2 DEF EmitsBuild, Building, AddingTo
  <2>3. PICK m \in Nat : m = n
    BY <1>1
  <2> QED BY <1>1, <2>1, <2>2, <2>3, LenTimes DEF Agree, Row, Plain, Pop, Take
<1>3. CASE op = "BUILD_MAP"
  <2>1. AssumesBuild(op, n, v) = Row(1, Times(2 * n, Forever))
    BY <1>3 DEF AssumesBuild, Building, AddingTo
  <2>2. EmitsBuild(op, n) = Take(2 * n, 1)
    BY <1>3 DEF EmitsBuild, Building, AddingTo
  <2>3. PICK m \in Nat : m = 2 * n
    BY <1>1
  <2> QED BY <1>1, <2>1, <2>2, <2>3, LenTimes DEF Agree, Row, Plain, Pop, Take
<1>4. CASE op = "BUILD_CONST_KEY_MAP"
  <2>1. AssumesBuild(op, n, v) = Row(1, Times(n + 1, Forever))
    BY <1>4 DEF AssumesBuild, Building, AddingTo
  <2>2. EmitsBuild(op, n) = Take(n + 1, 1)
    BY <1>4 DEF EmitsBuild, Building, AddingTo
  <2>3. PICK m \in Nat : m = n + 1
    BY <1>1
  <2> QED BY <1>1, <2>1, <2>2, <2>3, LenTimes DEF Agree, Row, Plain, Pop, Take
<1>5. CASE op \in AddingTo \cup {"PRINT_EXPR"}
  <2>1. AssumesBuild(op, n, v) = Row(0, <<v>>)
    BY <1>5 DEF AssumesBuild, Building, AddingTo
  <2>2. EmitsBuild(op, n) = Pop(1, 0)
    BY <1>5 DEF EmitsBuild, Building, AddingTo
  <2> QED BY <2>1, <2>2 DEF Agree, Row, Plain, Pop, Take, Safely
<1>6. CASE op = "MAP_ADD"
  <2>1. AssumesBuild(op, n, v) = Row(0, <<v, v>>)
    BY <1>6 DEF AssumesBuild, Building, AddingTo
  <2>2. EmitsBuild(op, n) = Pop(2, 0)
    BY <1>6 DEF EmitsBuild, Building, AddingTo
  <2> QED BY <2>1, <2>2 DEF Agree, Row, Plain, Pop, Take, Safely
<1>7. CASE op = "LIST_TO_TUPLE"
  <2>1. AssumesBuild(op, n, v) = Row(1, <<v>>)
    BY <1>7 DEF AssumesBuild, Building, AddingTo
  <2>2. EmitsBuild(op, n) = Pop(1, 1)
    BY <1>7 DEF EmitsBuild, Building, AddingTo
  <2> QED BY <2>1, <2>2 DEF Agree, Row, Plain, Pop, Take, Safely
<1>8. CASE op = "FORMAT_VALUE"
  <2>1. AssumesBuild(op, n, v) = Row(1, Times(1 + Bit(n, 4), v))
    BY <1>8 DEF AssumesBuild, Building, AddingTo
  <2>2. EmitsBuild(op, n) = [Pop(1 + Bit(n, 4), 1) EXCEPT !.lost = Bit(n, 4)]
    BY <1>8 DEF EmitsBuild, Building, AddingTo
  <2>3. PICK m \in Nat : m = 1 + Bit(n, 4)
    BY <1>1
  <2> QED BY <1>1, <2>1, <2>2, <2>3, LenTimes DEF Agree, Row, Plain, Pop, Take
<1>9. CASE op = "BUILD_SLICE"
  <2>1. AssumesBuild(op, n, v) = Row(1, Times(n, v))
    BY <1>9 DEF AssumesBuild, Building, AddingTo
  <2>2. EmitsBuild(op, n) = Pop(n, 1)
    BY <1>9 DEF EmitsBuild, Building, AddingTo
  <2>3. PICK m \in Nat : m = n
    BY <1>1
  <2> QED BY <1>1, <2>1, <2>2, <2>3, LenTimes DEF Agree, Row, Plain, Pop, Take
<1>10. CASE op = "LOAD_ASSERTION_ERROR"
  <2>1. AssumesBuild(op, n, v) = Row(1, <<>>)
    BY <1>10 DEF AssumesBuild, Building, AddingTo
  <2>2. EmitsBuild(op, n) = Safely(Pop(0, 1))
    BY <1>10 DEF EmitsBuild, Building, AddingTo
  <2> QED BY <2>1, <2>2 DEF Agree, Row, Plain, Pop, Take, Safely
<1>11. CASE op = "RAISE_VARARGS"
  <2>1. AssumesBuild(op, n, v) = Row(0, Times(n, v))
    BY <1>11 DEF AssumesBuild, Building, AddingTo
  <2>2. EmitsBuild(op, n) = Pop(n, 0)
    BY <1>11 DEF EmitsBuild, Building, AddingTo
  <2>3. PICK m \in Nat : m = n
    BY <1>1
  <2> QED BY <1>1, <2>1, <2>2, <2>3, LenTimes DEF Agree, Row, Plain, Pop, Take
<1>12. CASE op = "SETUP_ANNOTATIONS"
  <2>1. AssumesBuild(op, n, v) = Row(0, <<>>)
    BY <1>12 DEF AssumesBuild, Building, AddingTo
  <2>2. EmitsBuild(op, n) = Plain
    BY <1>12 DEF EmitsBuild, Building, AddingTo
  <2> QED BY <2>1, <2>2 DEF Agree, Row, Plain, Pop, Take, Safely
<1> QED BY <1>2, <1>3, <1>4, <1>5, <1>6, <1>7, <1>8, <1>9, <1>10, <1>11, <1>12
       DEF BuildOps, Building, AddingTo

LEMMA PatternsAgree ==
  ASSUME NEW op \in PatternOps, NEW n \in Nat, NEW v
  PROVE  Agree(AssumesPattern(op, n, v), EmitsPattern(op, n))
<1>1. Unpacked(n) \in Nat
  BY DEF Unpacked
<1> QED BY <1>1 DEF Agree, PatternOps, AssumesPattern, EmitsPattern, Row, Plain, Pop, Safely

LEMMA HandlersAgree ==
  ASSUME NEW op \in HandlerOps, op # "RERAISE", NEW v
  PROVE  Agree(AssumesHandler(op, v), EmitsHandler(op))
BY DEF Agree, HandlerOps, AssumesHandler, EmitsHandler, Row, Plain, Pop, Take, Safely

LEMMA GeneratorsAgree ==
  ASSUME NEW op \in GeneratorOps, NEW n \in Nat, NEW v
  PROVE  Agree(AssumesGenerator(op, v), EmitsGenerator(op, n))
<1>1. \A m \in Nat : \A t : Len(Times(m, t)) = m
  BY LenTimes
<1> QED BY <1>1 DEF Agree, GeneratorOps, AssumesGenerator, EmitsGenerator, Row, Plain, Pop, Take,
                    Safely

Families == <<MoveOps, NameOps, OperatorOps, CallOps, JumpOps, BuildOps, PatternOps, HandlerOps,
              GeneratorOps>>

\* An opcode is in one family only.
LEMMA OneFamily ==
  ASSUME NEW op
  PROVE  \A i, j \in 1 .. 9 : op \in Families[i] /\ op \in Families[j] => i = j
BY DEF Families, MoveOps, NameOps, OperatorOps, UnaryOps, BinaryOps, CallOps, JumpOps, PopJumps,
       OrPopJumps, BuildOps, Building, AddingTo, PatternOps, HandlerOps, GeneratorOps

\* doIntraBlockAnalysis and emitBlock, written apart from each other, give every
\* opcode the same effect on the height of the stack, whatever its argument.
THEOREM TablesAgree ==
  ASSUME NEW op \in Tabled, NEW n \in Nat, NEW until, NEW v
  PROVE  Agree(Assumes(op, n, until, v), Emits(op, n))
<1>1. op # "RERAISE" /\ op # "IS_OP"
  BY DEF Tabled
<1>2. \/ op \in {"NOP", "EXTENDED_ARG", "POP_TOP"}
      \/ \E i \in 2 .. 9 : op \in Families[i]
  BY DEF Tabled, Families
<1>3. \A i, j \in 1 .. 9 : op \in Families[i] /\ op \in Families[j] => i = j
  BY OneFamily
<1>4. CASE op \in {"NOP", "EXTENDED_ARG", "POP_TOP"}
  <2>1. op \in MoveOps
    BY <1>4 DEF MoveOps
  <2>2. \A i \in 2 .. 9 : op \notin Families[i]
    BY <1>3, <2>1 DEF Families
  <2>3. Assumes(op, n, until, v) = AssumesMove(op, n, until, v)
    BY <2>1, <2>2 DEF Assumes, Families
  <2>4. Emits(op, n) = EmitsMove(op)
    BY <2>1, <2>2 DEF Emits, Families
  <2> QED BY <1>4, <2>3, <2>4 DEF Agree, AssumesMove, EmitsMove, Row, Plain, Pop, Safely
<1>5. CASE op \in NameOps
  <2>1. Assumes(op, n, until, v) = AssumesName(op, v) /\ Emits(op, n) = EmitsName(op)
    BY <1>3, <1>5 DEF Assumes, Emits, Families
  <2> QED BY <1>1, <1>5, <2>1, NamesAgree
<1>6. CASE op \in OperatorOps
  <2>1. Assumes(op, n, until, v) = AssumesOperator(op, v) /\ Emits(op, n) = EmitsOperator(op)
    BY <1>3, <1>6 DEF Assumes, Emits, Families
  <2> QED BY <1>1, <1>6, <2>1, OperatorsAgree
<1>7. CASE op \in CallOps
  <2>1. Assumes(op, n, until, v) = AssumesCall(op, n, v) /\ Emits(op, n) = EmitsCall(op, n)
    BY <1>3, <1>7 DEF Assumes, Emits, Families
  <2> QED BY <1>1, <1>7, <2>1, CallsAgree
<1>8. CASE op \in JumpOps
  <2>1. Assumes(op, n, until, v) = AssumesJump(op, v) /\ Emits(op, n) = EmitsJump(op)
    BY <1>3, <1>8 DEF Assumes, Emits, Families
  <2> QED BY <1>1, <1>8, <2>1, JumpsAgree
<1>9. CASE op \in BuildOps
  <2>1. Assumes(op, n, until, v) = AssumesBuild(op, n, v) /\ Emits(op, n) = EmitsBuild(op, n)
    BY <1>3, <1>9 DEF Assumes, Emits, Families
  <2> QED BY <1>1, <1>9, <2>1, BuildsAgree
<1>10. CASE op \in PatternOps
  <2>1. Assumes(op, n, until, v) = AssumesPattern(op, n, v) /\ Emits(op, n) = EmitsPattern(op, n)
    BY <1>3, <1>10 DEF Assumes, Emits, Families
  <2> QED BY <1>1, <1>10, <2>1, PatternsAgree
<1>11. CASE op \in HandlerOps
  <2>1. Assumes(op, n, until, v) = AssumesHandler(op, v) /\ Emits(op, n) = EmitsHandler(op)
    BY <1>3, <1>11 DEF Assumes, Emits, Families
  <2> QED BY <1>1, <1>11, <2>1, HandlersAgree
<1>12. CASE op \in GeneratorOps
  <2>1. Assumes(op, n, until, v) = AssumesGenerator(op, v) /\ Emits(op, n) = EmitsGenerator(op, n)
    BY <1>3, <1>12 DEF Assumes, Emits, Families
  <2> QED BY <1>1, <1>12, <2>1, GeneratorsAgree
<1> QED BY <1>2, <1>4, <1>5, <1>6, <1>7, <1>8, <1>9, <1>10, <1>11, <1>12 DEF Families

-----------------------------------------------------------------------------
(* Counting.                                                               *)

\* Where s has o between lo and hi, how often, and whether x is one.
Where(s, lo, hi, o) == {i \in lo .. hi : s[i] = o}
Holds(s, lo, hi, o) == Cardinality(Where(s, lo, hi, o))
Is(x, o) == IF x = o THEN 1 ELSE 0

LEMMA HoldsFinite ==
  ASSUME NEW s, NEW lo \in Int, NEW hi \in Int, NEW o
  PROVE  IsFiniteSet(Where(s, lo, hi, o)) /\ Holds(s, lo, hi, o) \in Nat
<1>1. IsFiniteSet(lo .. hi) /\ Where(s, lo, hi, o) \in SUBSET (lo .. hi)
  BY FS_Interval DEF Where
<1> QED BY <1>1, FS_Subset, FS_CardinalityType DEF Holds

LEMMA HoldsNone ==
  ASSUME NEW s, NEW lo \in Int, NEW hi \in Int, hi < lo, NEW o
  PROVE  Holds(s, lo, hi, o) = 0
<1>1. Where(s, lo, hi, o) = {}
  BY DEF Where
<1> QED BY <1>1, FS_EmptySet DEF Holds

LEMMA HoldsOne ==
  ASSUME NEW s, NEW k \in Int, NEW o
  PROVE  Holds(s, k, k, o) = Is(s[k], o)
<1>1. Where(s, k, k, o) = IF s[k] = o THEN {k} ELSE {}
  BY DEF Where
<1> QED BY <1>1, FS_EmptySet, FS_Singleton DEF Holds, Is

LEMMA HoldsSplit ==
  ASSUME NEW s, NEW lo \in Int, NEW hi \in Int, NEW m \in Int, lo <= m + 1, m <= hi, NEW o
  PROVE  Holds(s, lo, hi, o) = Holds(s, lo, m, o) + Holds(s, m + 1, hi, o)
<1> DEFINE all  == Where(s, lo, hi, o)
           low  == Where(s, lo, m, o)
           high == Where(s, m + 1, hi, o)
<1>1. all = low \cup high /\ low \cap high = {}
  BY DEF Where
<1>2. IsFiniteSet(low) /\ IsFiniteSet(high)
  BY HoldsFinite
<1>3. Cardinality(low) \in Nat /\ Cardinality(high) \in Nat
  BY <1>2, FS_CardinalityType
<1> HIDE DEF all, low, high
<1>4. Cardinality(all) = Cardinality(low) + Cardinality(high)
  BY <1>1, <1>2, <1>3, FS_Union, FS_EmptySet
<1> QED BY <1>4 DEF Holds, all, low, high

LEMMA HoldsSame ==
  ASSUME NEW s, NEW t, NEW lo \in Int, NEW hi \in Int, \A i \in lo .. hi : s[i] = t[i], NEW o
  PROVE  Holds(s, lo, hi, o) = Holds(t, lo, hi, o)
<1>1. Where(s, lo, hi, o) = Where(t, lo, hi, o)
  BY DEF Where
<1> QED BY <1>1 DEF Holds

\* Slots lo .. hi of s are found k slots further up in t.
Shifted(s, t, lo, hi, k) == \A i \in lo .. hi : t[i + k] = s[i]

\* What is moved is referred to as often where it went.
LEMMA HoldsMoved ==
  ASSUME NEW s, NEW t, NEW lo \in Int, NEW hi \in Int, NEW k \in Int, Shifted(s, t, lo, hi, k),
         NEW a, a = lo + k, NEW b, b = hi + k, NEW o
  PROVE  Holds(t, a, b, o) = Holds(s, lo, hi, o)
<1> DEFINE S == Where(s, lo, hi, o)
           T == Where(t, lo + k, hi + k, o)
           f == [i \in S |-> i + k]
<1>1. \A i \in S : i \in lo .. hi /\ i \in Int /\ f[i] = i + k /\ f[i] \in T
  BY DEF Where, Shifted
<1>2. \A j \in T : j \in Int /\ j - k \in S /\ f[j - k] = j
  <2>1. ASSUME NEW j \in T PROVE j \in Int /\ j - k \in S
    <3>1. j \in lo + k .. hi + k /\ t[j] = o
      BY DEF Where
    <3>2. PICK i \in lo .. hi : i = j - k
      BY <3>1
    <3>3. i + k = j
      BY <3>1, <3>2
    <3> QED BY <3>1, <3>2, <3>3 DEF Where, Shifted
  <2> QED BY <2>1
<1>3. f \in [S -> T]
  BY <1>1
<1>4. f \in Bijection(S, T)
  BY <1>1, <1>2, <1>3 DEF Bijection, Injection, Surjection, IsInjective
<1>5. IsFiniteSet(S) /\ ExistsBijection(S, T)
  BY <1>4, HoldsFinite DEF ExistsBijection
<1> HIDE DEF S, T, f
<1>6. Cardinality(T) = Cardinality(S)
  BY <1>5, FS_Bijection
<1> QED BY <1>6 DEF S, T, Holds

\* A reference more on top, and three more.
LEMMA HoldsNext ==
  ASSUME NEW s, NEW lo \in Int, NEW h \in Int, lo <= h + 1, NEW o
  PROVE  Holds(s, lo, h + 1, o) = Holds(s, lo, h, o) + Is(s[h + 1], o)
<1>1. Holds(s, lo, h + 1, o) = Holds(s, lo, h, o) + Holds(s, h + 1, h + 1, o)
  BY HoldsSplit
<1> QED BY <1>1, HoldsOne

LEMMA HoldsThree ==
  ASSUME NEW s, NEW lo \in Int, NEW h \in Int, lo <= h + 1, NEW o
  PROVE  Holds(s, lo, h + 3, o) =
           Holds(s, lo, h, o) + Is(s[h + 1], o) + Is(s[h + 2], o) + Is(s[h + 3], o)
<1>1. Holds(s, lo, h + 1, o) = Holds(s, lo, h, o) + Is(s[h + 1], o)
  BY HoldsNext
<1>2. PICK k \in Int : k = h + 1
  OBVIOUS
<1>3. Holds(s, lo, k + 1, o) = Holds(s, lo, k, o) + Is(s[k + 1], o)
  BY <1>2, HoldsNext
<1>4. PICK l \in Int : l = h + 2
  OBVIOUS
<1>5. Holds(s, lo, l + 1, o) = Holds(s, lo, l, o) + Is(s[l + 1], o)
  BY <1>4, HoldsNext
<1>6. k + 1 = l /\ l + 1 = h + 3 /\ l = h + 2
  BY <1>2, <1>4
<1> QED BY <1>1, <1>2, <1>3, <1>5, <1>6, HoldsFinite

LEMMA ThreeIn ==
  ASSUME NEW t, NEW o
  PROVE  InTriple(t, o) = Is(t[1], o) + Is(t[2], o) + Is(t[3], o)
<1>1. InTriple(t, o) = Holds(t, 1, 0 + 3, o)
  BY DEF InTriple, Holds, Where
<1>2. Holds(t, 1, 0 + 3, o) =
        Holds(t, 1, 0, o) + Is(t[0 + 1], o) + Is(t[0 + 2], o) + Is(t[0 + 3], o)
  BY HoldsThree
<1>3. Holds(t, 1, 0, o) = 0
  BY HoldsNone
<1> QED BY <1>1, <1>2, <1>3 DEF Is

-----------------------------------------------------------------------------
(* Exceptions as three objects that belong together.                       *)

Raised == {State(e) : e \in Exc}
Exception(t) == ExceptionOf(t[1], t[2])

LEMMA Triples ==
  ASSUME NEW e \in Exc
  PROVE  /\ State(e) = <<<<e, "type">>, <<e, "value">>, <<e, "traceback">>>>
         /\ \A i \in 1 .. 3 : State(e)[i] \in Object /\ State(e)[i][1] = e
         /\ State(e)[1] \notin {Null, None}
         /\ Exception(State(e)) = e /\ State(e)[2][1] = e
         /\ State(e) # NoExc /\ State(e) \in States
<1>1. e # NoExc /\ State(e) # NoExc
  BY ObjectsDistinct
<1>2. State(e) = <<<<e, "type">>, <<e, "value">>, <<e, "traceback">>>>
  BY <1>1 DEF State
<1>3. /\ <<e, "type">> \in Exc \X {"type", "value", "traceback"}
      /\ <<e, "value">> \in Exc \X {"type", "value", "traceback"}
      /\ <<e, "traceback">> \in Exc \X {"type", "value", "traceback"}
  OBVIOUS
<1>4. <<e, "type">> # Null /\ <<e, "type">> # None
  BY <1>3, ObjectsDistinct DEF Object
<1>5. Exception(State(e)) = e
  BY <1>2, <1>4 DEF Exception, ExceptionOf
<1>6. State(e) \in States
  BY DEF States
<1>7. \A i \in 1 .. 3 : State(e)[i] \in Object /\ State(e)[i][1] = e
  BY <1>2, <1>3 DEF Object
<1> QED BY <1>1, <1>2, <1>4, <1>5, <1>6, <1>7

\* What exc_info may be when nothing is handled.
LEMMA NoTriples ==
  /\ State(NoExc) = <<Null, Null, Null>>
  /\ Exception(<<Null, Null, Null>>) = NoExc /\ Exception(<<None, Null, Null>>) = NoExc
  /\ <<Null, Null, Null>> \in States /\ <<None, Null, Null>> \in States
<1>1. State(NoExc) = <<Null, Null, Null>>
  BY DEF State
<1>2. State(NoExc) \in States
  BY DEF States
<1> QED BY <1>1, <1>2 DEF Exception, ExceptionOf, States

LEMMA StatesAre ==
  ASSUME NEW t \in States
  PROVE  /\ t = <<t[1], t[2], t[3]>>
         /\ t \in Raised \/ t = <<Null, Null, Null>> \/ t = <<None, Null, Null>>
         /\ \A i \in 1 .. 3 : t[i] \in Object \cup {Null}
         /\ t[1] \notin {Null, None} => t \in Raised
<1>1. t \in Raised \/ t = <<Null, Null, Null>> \/ t = <<None, Null, Null>>
  BY NoTriples DEF States, Raised
<1>2. CASE t \in Raised
  <2>1. PICK e \in Exc : t = State(e)
    BY <1>2 DEF Raised
  <2>2. /\ t = <<<<e, "type">>, <<e, "value">>, <<e, "traceback">>>>
        /\ \A i \in 1 .. 3 : t[i] \in Object
    BY <2>1, Triples
  <2> QED BY <1>2, <2>2
<1>3. CASE t = <<Null, Null, Null>>
  BY <1>3
<1>4. CASE t = <<None, Null, Null>>
  BY <1>4 DEF Object
<1> QED BY <1>1, <1>2, <1>3, <1>4

-----------------------------------------------------------------------------
(* An object is always left to allocate.                                   *)

\* Objects of each kind for every slot of the frame, for exc_info, the exception
\* set, and two more.
Enough ==
  \A A \in {Temp, Exc} :
    \E D \in SUBSET A : IsFiniteSet(D) /\ Cardinality(D) = MaxHeight + 8

LEMMA OneLeft ==
  ASSUME Enough, NEW A \in {Temp, Exc}, NEW S, IsFiniteSet(S), Cardinality(S) <= MaxHeight + 7
  PROVE  \E x \in A : x \notin S
<1>1. PICK D \in SUBSET A : IsFiniteSet(D) /\ Cardinality(D) = MaxHeight + 8
  BY DEF Enough
<1>2. SUFFICES ASSUME D \in SUBSET S PROVE FALSE
  BY <1>1
<1>3. Cardinality(D) <= Cardinality(S) /\ Cardinality(S) \in Nat
  BY <1>2, FS_Subset, FS_CardinalityType
<1> QED BY <1>1, <1>3, ObjectsDistinct

\* The least number in a set.
LEMMA Least ==
  ASSUME NEW T \in SUBSET Nat, T # {}
  PROVE  \E x \in T : \A y \in T : x <= y
<1> DEFINE R == OpToRel(<, Nat)
<1>1. IsWellFoundedOn(R, Nat)
  BY NatLessThanWellFounded
<1> HIDE DEF R
<1>2. PICK x \in T : \A y \in T : ~(<<y, x>> \in R)
  BY <1>1, WFMin
<1>3. \A y \in T : ~(y < x)
  BY <1>2 DEF R, OpToRel
<1> QED BY <1>3

\* The first parts of the first k of the objects in f.
LEMMA FirstParts ==
  ASSUME NEW f, NEW k \in Nat
  PROVE  \E S : /\ IsFiniteSet(S) /\ Cardinality(S) <= k
                /\ \A i \in 1 .. k : f[i][1] \in S
<1> DEFINE g == [i \in 1 .. k |-> f[i][1]]
           S == {g[i] : i \in 1 .. k}
<1>1. g \in Surjection(1 .. k, S)
  BY DEF Surjection
<1>2. IsFiniteSet(1 .. k) /\ Cardinality(1 .. k) = k
  BY FS_Interval
<1>3. \A i \in 1 .. k : f[i][1] \in S
  OBVIOUS
<1> HIDE DEF g, S
<1> QED BY <1>1, <1>2, <1>3, FS_Surjection

\* References of an exception set, and what the counts r stand for when the stack s
\* has height h, exc_info is t and the exception set is c.
InSet(c, o) == IF c = NoExc THEN 0 ELSE InTriple(c, o)
Counted(r, s, h, t, c) ==
  \A o \in Object : r[o] = Holds(s, 1, h, o) + InTriple(t, o) + InSet(c, o)

LEMMA CountsAre == CountsExact <=> Counted(refs, slot, owned, exc_info, curexc)
BY DEF CountsExact, Counted, InSet, InSlots, Holds, Where

\* Few objects are referred to at any time.
LEMMA FewUsed ==
  ASSUME NEW r, NEW s, NEW h \in 0 .. MaxHeight, NEW t, NEW c, Counted(r, s, h, t, c)
  PROVE  \E S : /\ IsFiniteSet(S) /\ Cardinality(S) <= MaxHeight + 6
                /\ \A o \in Object : o[1] \notin S => r[o] = 0
<1> DEFINE n == MaxHeight + 6
           f == [i \in 1 .. n |-> IF i <= MaxHeight THEN s[i]
                                  ELSE IF i <= MaxHeight + 3 THEN t[i - MaxHeight]
                                  ELSE c[i - MaxHeight - 3]]
<1>1. n \in Nat /\ MaxHeight \in Nat
  BY ObjectsDistinct
<1>2. /\ \A i \in 1 .. h : i \in 1 .. n /\ f[i] = s[i]
      /\ \A i \in 1 .. 3 : MaxHeight + i \in 1 .. n /\ f[MaxHeight + i] = t[i]
      /\ \A i \in 1 .. 3 : MaxHeight + 3 + i \in 1 .. n /\ f[MaxHeight + 3 + i] = c[i]
  BY <1>1
<1> HIDE DEF n, f
<1>3. PICK S : IsFiniteSet(S) /\ Cardinality(S) <= n /\ \A i \in 1 .. n : f[i][1] \in S
  BY <1>1, FirstParts
<1>4. ASSUME NEW o \in Object, o[1] \notin S PROVE r[o] = 0
  <2>1. \A i \in 1 .. n : f[i] # o
    BY <1>3, <1>4
  <2>2. /\ \A i \in 1 .. h : s[i] # o
        /\ \A i \in 1 .. 3 : t[i] # o /\ c[i] # o
    BY <1>2, <2>1
  <2>3. Where(s, 1, h, o) = {}
    BY <2>2 DEF Where
  <2>4. Holds(s, 1, h, o) = 0
    BY <2>3, FS_EmptySet DEF Holds
  <2>5. InTriple(t, o) = 0 /\ InTriple(c, o) = 0
    BY <2>2, ThreeIn DEF Is
  <2> QED BY <2>4, <2>5 DEF Counted, InSet
<1> QED BY <1>3, <1>4 DEF n

\* What is allocated exists, and no one refers to it.
LEMMA Fresh ==
  ASSUME Enough, NEW h \in 0 .. MaxHeight, Counted(refs, slot, h, exc_info, curexc)
  PROVE  /\ FreshOther \in Other /\ refs[FreshOther] = 0
         /\ \A x : \E o \in Other : o # x /\ refs[o] = 0
         /\ \E e \in Exc : FreshExc = State(e) /\ Unused(e)
<1>1. PICK S : /\ IsFiniteSet(S) /\ Cardinality(S) <= MaxHeight + 6
               /\ \A o \in Object : o[1] \notin S => refs[o] = 0
  BY FewUsed
<1>2. MaxHeight \in Nat /\ Cardinality(S) \in Nat
  BY <1>1, FS_CardinalityType, ObjectsDistinct
<1>3. \A o \in Other : o \in Object /\ o[1] \in Temp /\ o = <<o[1], "other">>
  BY DEF Other, Object
<1>4. FreshOther \in Other /\ refs[FreshOther] = 0
  <2> DEFINE T == {x \in Temp : refs[<<x, "other">>] = 0}
  <2>1. PICK x \in Temp : x \notin S
    BY <1>1, <1>2, OneLeft
  <2>2. <<x, "other">> \in Other /\ <<x, "other">>[1] = x
    BY DEF Other
  <2>3. x \in T
    BY <1>1, <1>3, <2>1, <2>2
  <2>4. T \in SUBSET Nat /\ T # {}
    BY <2>3, ObjectsDistinct
  <2>5. PICK m \in T : \A y \in T : m <= y
    BY <2>4, Least
  <2>6. <<m, "other">> \in Other /\ refs[<<m, "other">>] = 0
    BY <2>5 DEF Other
  <2>7. \A p \in Other : refs[p] = 0 => <<m, "other">>[1] <= p[1]
    BY <1>3, <2>5
  <2> QED BY <2>6, <2>7 DEF FreshOther
<1>5. ASSUME NEW x PROVE \E o \in Other : o # x /\ refs[o] = 0
  <2>1. /\ IsFiniteSet(S \cup {x[1]})
        /\ Cardinality(S \cup {x[1]}) <= MaxHeight + 7
    <3>1. PICK y : y = x[1]
      OBVIOUS
    <3>2. /\ IsFiniteSet(S \cup {y})
          /\ Cardinality(S \cup {y}) = IF y \in S THEN Cardinality(S) ELSE Cardinality(S) + 1
      BY <1>1, FS_AddElement
    <3> QED BY <1>1, <1>2, <3>1, <3>2
  <2>2. PICK y \in Temp : y \notin S \cup {x[1]}
    BY <2>1, OneLeft
  <2>3. <<y, "other">> \in Other /\ <<y, "other">>[1] = y
    BY DEF Other
  <2> QED BY <1>1, <1>3, <2>2, <2>3
<1>6. \E e \in Exc : FreshExc = State(e) /\ Unused(e)
  <2> DEFINE T == {e \in Exc : Unused(e)}
  <2>1. PICK e \in Exc : e \notin S
    BY <1>1, <1>2, OneLeft
  <2>2. e \in T
    BY <1>1, <2>1, Triples DEF Unused
  <2>3. T \in SUBSET Nat /\ T # {}
    BY <2>2, ObjectsDistinct
  <2> HIDE DEF T
  <2>4. PICK m \in T : \A y \in T : m <= y
    BY <2>3, Least
  <2>5. m \in Exc /\ Unused(m) /\ \A d \in Exc : Unused(d) => m <= d
    BY <2>4 DEF T
  <2> QED BY <2>5 DEF FreshExc
<1> QED BY <1>4, <1>5, <1>6

-----------------------------------------------------------------------------
(* The stack of blocks, against the blocks around a unit.                  *)

Block == [b_type : {"SETUP_FINALLY", "EXCEPT_HANDLER"}, b_handler : Nat, b_level : Nat]
Entry == [try : BOOLEAN, level : Nat, saved : Nat, keeps : Nat, to : Nat]

\* The three values put at level l, as exc_info has them.
Saved(s, l) == <<s[l + 3], s[l + 2], s[l + 1]>>

\* Stacks s and t are the same up to k, and blocks n and m below i.
SameTo(k, s, t) == \A x \in 1 .. k : t[x] = s[x]
Below(i, n, m)  == \A j \in 1 .. i - 1 : m[j] = n[j]

\* The handler of the try block n[i] is in the blocks around that, and in itself.
Enters(m, n, i) ==
  /\ Len(m) = i /\ m[i] = HandlerAt(n[i].level, n[i].to)
  /\ Below(i, n, m)

\* Block b is the i-th of n, where heights are H and the stack is s.
Fits(H, nest, n, i, s, b) ==
  LET e == n[i]
  IN  /\ b.b_level = e.level
      /\ e.try => /\ b.b_type = "SETUP_FINALLY" /\ b.b_handler = e.to
                  /\ H[e.to] = e.level + 6 /\ Enters(nest[e.to], n, i)
      /\ ~e.try => /\ b.b_type = "EXCEPT_HANDLER"
                   /\ Saved(s, e.saved) \in Raised \cup {<<None, Null, Null>>}
                   /\ e.keeps = e.level + 6 => Saved(s, e.level + 3) \in Raised

StackFits(H, nest, n, s, K) ==
  /\ K \in Seq(Block) /\ Len(K) <= Len(n)
  /\ \A i \in 1 .. Len(K) : Fits(H, nest, n, i, s, K[i])

\* What a block and the values saved for it stand for.
ATry        == [handler |-> FALSE, saved |-> NoExc]
AHandler(x) == [handler |-> TRUE, saved |-> x]
Meant(e, s) == IF e.try THEN ATry ELSE AHandler(Exception(Saved(s, e.saved)))

\* The first k blocks, then as now.
MeansSame(k, n, s, m, t) == \A i \in 1 .. k : Meant(m[i], t) = Meant(n[i], s)

\* An entry that is as before, or needs less of the stack.
Shrunk(e, f) == f = [e EXCEPT !.keeps = f.keeps] /\ f.keeps <= e.keeps

\* Blocks as the compiler has them around a unit.
Ordered(n) == n \in Seq(Entry) /\ \E h \in Nat : InOrder(n, h)

LEMMA InOrderAt ==
  ASSUME NEW n, Ordered(n), NEW i \in 1 .. Len(n)
  PROVE  /\ n[i] \in Entry /\ n[i].saved \in {n[i].level, n[i].level + 1}
         /\ n[i].try => n[i].saved = n[i].level /\ n[i].keeps = n[i].level
         /\ ~n[i].try => n[i].saved + 3 <= n[i].keeps /\ n[i].keeps <= n[i].level + 6
         /\ \A j \in 1 .. i - 1 : n[j].saved = n[j].level /\ n[j].keeps <= n[i].level
<1>1. PICK h \in Nat : InOrder(n, h)
  BY DEF Ordered
<1>2. n \in Seq(Entry)
  BY DEF Ordered
<1>3. n[i] \in Entry /\ Len(n) \in Nat
  BY <1>2, ElementOfSeq
<1>4. n[i].saved \in Nat /\ n[i].level \in Nat /\ n[i].keeps \in Nat
  BY <1>3 DEF Entry
<1>5. \A j \in 1 .. i - 1 : n[j].saved = n[j].level /\ n[j].keeps <= n[i].level
  BY <1>1, <1>3 DEF InOrder
<1> QED BY <1>1, <1>3, <1>4, <1>5 DEF InOrder

LEMMA LevelBelow ==
  ASSUME NEW n, Ordered(n), NEW i \in 1 .. Len(n)
  PROVE  n[i].level <= n[i].keeps
<1>1. PICK e \in Entry : e = n[i]
  BY InOrderAt
<1>2. e.saved \in {e.level, e.level + 1} /\ (e.try => e.keeps = e.level)
        /\ (~e.try => e.saved + 3 <= e.keeps)
  BY <1>1, InOrderAt
<1>3. e.level \in Nat /\ e.saved \in Nat /\ e.keeps \in Nat /\ e.try \in BOOLEAN
  BY DEF Entry
<1> QED BY <1>1, <1>2, <1>3

LEMMA ShrunkSelf ==
  ASSUME NEW e \in Entry
  PROVE  Shrunk(e, e)
BY DEF Shrunk, Entry

LEMMA SavedSame ==
  ASSUME NEW l \in Nat, NEW k \in Nat, l + 3 <= k, NEW s, NEW t, SameTo(k, s, t)
  PROVE  Saved(t, l) = Saved(s, l)
<1>1. l + 1 \in 1 .. k /\ l + 2 \in 1 .. k /\ l + 3 \in 1 .. k
  OBVIOUS
<1> QED BY <1>1 DEF Saved, SameTo

\* The same block fits where it needs no more, and the stack is as high as that.
LEMMA FitsAgain ==
  ASSUME NEW H, NEW nest, NEW n, Ordered(n), NEW m, Ordered(m),
         NEW i \in 1 .. Len(n), i \in 1 .. Len(m), Shrunk(n[i], m[i]),
         Below(i, n, m),
         NEW s, NEW t, SameTo(m[i].keeps, s, t),
         NEW b, Fits(H, nest, n, i, s, b)
  PROVE  Fits(H, nest, m, i, t, b) /\ Meant(m[i], t) = Meant(n[i], s)
<1>1. PICK e \in Entry : e = n[i]
  BY InOrderAt
<1>2. PICK f \in Entry : f = m[i]
  BY InOrderAt
<1>3. /\ f.try = e.try /\ f.level = e.level /\ f.saved = e.saved /\ f.to = e.to
      /\ f.keeps <= e.keeps
      /\ e.level \in Nat /\ e.saved \in Nat /\ e.keeps \in Nat /\ f.keeps \in Nat
      /\ e.try \in BOOLEAN
  BY <1>1, <1>2 DEF Shrunk, Entry
<1>4. ~e.try => e.keeps <= e.level + 6 /\ f.saved + 3 <= f.keeps
  BY <1>1, <1>2, <1>3, InOrderAt
<1>5. b.b_level = f.level
  BY <1>1, <1>3 DEF Fits
<1>6. CASE e.try
  <2>1. \A k : Enters(k, n, i) => Enters(k, m, i)
    BY <1>1, <1>2, <1>3 DEF Enters, Below
  <2>2. /\ b.b_type = "SETUP_FINALLY" /\ b.b_handler = f.to
        /\ H[f.to] = f.level + 6 /\ Enters(nest[f.to], m, i)
    BY <1>1, <1>3, <1>6, <2>1 DEF Fits
  <2> QED BY <1>1, <1>2, <1>3, <1>5, <1>6, <2>2 DEF Fits, Meant
<1>7. CASE ~e.try
  <2>1. Saved(t, f.saved) = Saved(s, e.saved)
    <3>1. /\ f.saved \in Nat /\ f.keeps \in Nat /\ f.saved + 3 <= f.keeps
          /\ SameTo(f.keeps, s, t)
      BY <1>2, <1>3, <1>4, <1>7
    <3>2. Saved(t, f.saved) = Saved(s, f.saved)
      BY <3>1, SavedSame
    <3> QED BY <1>3, <3>2
  <2>2. f.keeps = f.level + 6 => e.keeps = e.level + 6
    BY <1>3, <1>4, <1>7
  <2>3. f.keeps = f.level + 6 => Saved(t, f.level + 3) = Saved(s, e.level + 3)
    <3>1. SUFFICES ASSUME f.keeps = f.level + 6
                   PROVE  Saved(t, f.level + 3) = Saved(s, f.level + 3)
      BY <1>3
    <3>2. PICK l \in Nat : l = f.level + 3
      BY <1>3
    <3>3. f.keeps \in Nat /\ l + 3 <= f.keeps /\ SameTo(f.keeps, s, t)
      BY <1>2, <1>3, <3>1, <3>2
    <3>4. Saved(t, l) = Saved(s, l)
      BY <3>3, SavedSame
    <3> QED BY <3>2, <3>4
  <2>4. /\ b.b_type = "EXCEPT_HANDLER"
        /\ Saved(s, e.saved) \in Raised \cup {<<None, Null, Null>>}
        /\ e.keeps = e.level + 6 => Saved(s, e.level + 3) \in Raised
    BY <1>1, <1>7 DEF Fits
  <2> QED BY <1>1, <1>2, <1>3, <1>5, <1>7, <2>1, <2>2, <2>3, <2>4 DEF Fits, Meant
<1> QED BY <1>6, <1>7

\* An instruction that leaves the blocks alone.
LEMMA Passed ==
  ASSUME NEW H, NEW nest, NEW n, Ordered(n), NEW m, Ordered(m),
         NEW k \in Nat, Passes(n, m, k),
         NEW s, NEW t, SameTo(k, s, t),
         NEW K, StackFits(H, nest, n, s, K)
  PROVE  /\ StackFits(H, nest, m, t, K)
         /\ MeansSame(Len(K), n, s, m, t)
<1>1. Len(n) \in Nat /\ Len(m) = Len(n) /\ K \in Seq(Block) /\ Len(K) \in Nat /\ Len(K) <= Len(n)
  BY DEF Passes, StackFits
<1>2. ASSUME NEW i \in 1 .. Len(K)
      PROVE  Fits(H, nest, m, i, t, K[i]) /\ Meant(m[i], t) = Meant(n[i], s)
  <2>1. i \in 1 .. Len(n) /\ i \in 1 .. Len(m) /\ n # <<>>
    BY <1>1
  <2>2. n[i] \in Entry /\ m[i] \in Entry /\ m[Len(m)] \in Entry /\ Len(m) \in 1 .. Len(m)
    BY <1>1, <2>1, ElementOfSeq DEF Ordered
  <2>3. Below(i, n, m)
    BY <1>1, <2>1 DEF Passes, Below
  <2>4. /\ m[Len(m)].keeps <= k /\ Shrunk(n[Len(n)], m[Len(m)])
    BY <1>1, <2>1 DEF Passes, Shrunk
  <2>5. Shrunk(n[i], m[i]) /\ m[i].keeps <= k
    <3>1. CASE i = Len(n)
      BY <1>1, <2>4, <3>1
    <3>2. CASE i < Len(n)
      <4>1. m[i] = n[i]
        BY <1>1, <3>2 DEF Passes
      <4>2. m[i].keeps <= m[Len(m)].level
        BY <1>1, <2>1, <2>2, <3>2, InOrderAt
      <4>3. m[Len(m)].level <= m[Len(m)].keeps
        BY <2>2, LevelBelow
      <4>4. Shrunk(n[i], m[i]) /\ m[i].keeps \in Nat
        BY <2>2, <4>1, ShrunkSelf DEF Entry
      <4>5. m[Len(m)].level \in Nat /\ m[Len(m)].keeps \in Nat
        BY <2>2 DEF Entry
      <4>6. \A a, b, c, d \in Nat : a <= b /\ b <= c /\ c <= d => a <= d
        OBVIOUS
      <4>7. m[i].keeps <= k
        BY <2>4, <4>2, <4>3, <4>4, <4>5, <4>6
      <4> QED BY <4>4, <4>7
    <3> QED BY <1>1, <2>1, <3>1, <3>2
  <2>6. SameTo(m[i].keeps, s, t)
    <3>1. PICK l \in Nat : l = m[i].keeps
      BY <2>2 DEF Entry
    <3>2. \A x \in 1 .. l : x \in 1 .. k
      BY <2>5, <3>1
    <3> QED BY <3>1, <3>2 DEF SameTo
  <2>7. Fits(H, nest, n, i, s, K[i])
    BY DEF StackFits
  <2> QED BY <2>1, <2>3, <2>5, <2>6, <2>7, FitsAgain
<1> QED BY <1>1, <1>2 DEF StackFits, MeansSame

\* The blocks around one that is changed, when the stack above its level is.
LEMMA FitsBelow ==
  ASSUME NEW H, NEW nest, NEW n, Ordered(n), NEW m, Ordered(m),
         NEW k \in 1 .. Len(n), k <= Len(m), Below(k, n, m), NEW i \in 1 .. k - 1,
         NEW s, NEW t, SameTo(n[k].level, s, t), NEW b, Fits(H, nest, n, i, s, b)
  PROVE  Fits(H, nest, m, i, t, b) /\ Meant(m[i], t) = Meant(n[i], s)
<1>1. Len(n) \in Nat /\ Len(m) \in Nat
  OBVIOUS
<1>2. i \in 1 .. Len(n) /\ i \in 1 .. Len(m) /\ m[i] = n[i] /\ Below(i, n, m)
  BY <1>1 DEF Below
<1>3. n[i] \in Entry /\ n[k] \in Entry
  BY <1>2, ElementOfSeq DEF Ordered
<1>4. PICK l \in Nat : l = n[k].level
  BY <1>3 DEF Entry
<1>5. PICK j \in Nat : j = n[i].keeps
  BY <1>3 DEF Entry
<1>6. j <= l
  BY <1>4, <1>5, InOrderAt
<1>7. SameTo(j, s, t)
  BY <1>4, <1>6 DEF SameTo
<1>8. SameTo(m[i].keeps, s, t) /\ Shrunk(n[i], m[i])
  BY <1>2, <1>3, <1>5, <1>7, ShrunkSelf
<1> QED BY <1>2, <1>8, FitsAgain

\* All but the last of a sequence, and one more.
LEMMA RestIs ==
  ASSUME NEW S, NEW q \in Seq(S), q # <<>>, NEW r, r = SubSeq(q, 1, Len(q) - 1)
  PROVE  /\ Len(q) \in Nat \ {0} /\ r \in Seq(S) /\ Len(r) = Len(q) - 1
         /\ \A i \in 1 .. Len(q) - 1 : r[i] = q[i]
<1>1. Len(q) \in Nat \ {0} /\ \A i \in 1 .. Len(q) : q[i] \in S
  BY EmptySeq, ElementOfSeq
<1>2. PICK k \in Nat : k = Len(q) - 1
  BY <1>1
<1>3. \A i \in 1 .. k : q[i] \in S
  BY <1>1, <1>2
<1>4. /\ SubSeq(q, 1, k) \in Seq(S)
      /\ Len(SubSeq(q, 1, k)) = IF 1 <= k THEN k - 1 + 1 ELSE 0
      /\ \A i \in 1 .. k - 1 + 1 : SubSeq(q, 1, k)[i] = q[1 + i - 1]
  BY <1>3, SubSeqProperties
<1>5. Len(SubSeq(q, 1, k)) = k /\ \A i \in 1 .. k : SubSeq(q, 1, k)[i] = q[i]
  BY <1>4
<1> QED BY <1>1, <1>2, <1>4, <1>5

LEMMA PushIs ==
  ASSUME NEW S, NEW q \in Seq(S), NEW x \in S, NEW r, r = Append(q, x)
  PROVE  /\ Len(q) \in Nat /\ r \in Seq(S) /\ Len(r) = Len(q) + 1 /\ r[Len(q) + 1] = x
         /\ \A i \in 1 .. Len(q) : r[i] = q[i]
BY AppendProperties

TryBlock(l, to)       == [b_type |-> "SETUP_FINALLY", b_handler |-> to, b_level |-> l]
HandlerBlock(from, l) == [b_type |-> "EXCEPT_HANDLER", b_handler |-> from, b_level |-> l]

\* In blocks n, one is set up at level l with its handler at to, which gives m.
Opens(H, nest, n, l, to, m) ==
  /\ m = Append(n, TryAt(l, to)) /\ nest[to] = Append(n, HandlerAt(l, to)) /\ H[to] = l + 6

\* The blocks K in n are now L in m, with a try block more.
OneMore(H, nest, n, m, s, K, L) ==
  /\ StackFits(H, nest, m, s, L) /\ Len(L) = Len(K) + 1 /\ Len(L) = Len(m)
  /\ MeansSame(Len(K), n, s, m, s)
  /\ Meant(m[Len(L)], s) = ATry

\* A try block is entered.
LEMMA Pushed ==
  ASSUME NEW H, NEW nest, NEW n, Ordered(n), NEW l \in Nat, NEW to \in Nat,
         NEW m, Opens(H, nest, n, l, to, m),
         NEW s, NEW K, StackFits(H, nest, n, s, K), Len(K) = Len(n),
         NEW L, L = Append(K, TryBlock(l, to))
  PROVE  OneMore(H, nest, n, m, s, K, L)
<1>1. TryAt(l, to) \in Entry /\ HandlerAt(l, to) \in Entry /\ n \in Seq(Entry)
  BY DEF TryAt, HandlerAt, Entry, Ordered
<1>2. /\ Len(n) \in Nat /\ m \in Seq(Entry) /\ Len(m) = Len(n) + 1 /\ m[Len(n) + 1] = TryAt(l, to)
      /\ \A i \in 1 .. Len(n) : m[i] = n[i]
  <2>1. m = Append(n, TryAt(l, to))
    BY DEF Opens
  <2> QED BY ONLY <1>1, <2>1, PushIs
<1>3. /\ Len(nest[to]) = Len(n) + 1 /\ nest[to][Len(n) + 1] = HandlerAt(l, to)
      /\ \A i \in 1 .. Len(n) : nest[to][i] = n[i]
  <2>1. nest[to] = Append(n, HandlerAt(l, to))
    BY DEF Opens
  <2> QED BY ONLY <1>1, <2>1, PushIs
<1>4. PICK b \in Block : b = TryBlock(l, to)
  BY DEF Block, TryBlock
<1>5. /\ K \in Seq(Block) /\ Len(K) \in Nat /\ L \in Seq(Block) /\ Len(L) = Len(K) + 1
      /\ L[Len(K) + 1] = b /\ \A i \in 1 .. Len(K) : L[i] = K[i]
  <2>1. K \in Seq(Block) /\ L = Append(K, b)
    BY <1>4 DEF StackFits
  <2> QED BY ONLY b \in Block, <2>1, PushIs
<1>6. PICK k \in Nat : k = Len(n) /\ k = Len(K)
  BY <1>2
<1>7. ASSUME NEW i \in 1 .. k
      PROVE  Fits(H, nest, m, i, s, L[i]) /\ Meant(m[i], s) = Meant(n[i], s)
  <2>1. m[i] = n[i] /\ \A j \in 1 .. i - 1 : m[j] = n[j]
    BY ONLY <1>2, <1>6, i \in 1 .. k, k \in Nat
  <2>2. Fits(H, nest, n, i, s, L[i])
    BY <1>5, <1>6 DEF StackFits
  <2>3. \A k2 : Enters(k2, n, i) => Enters(k2, m, i)
    BY <2>1 DEF Enters, Below
  <2> QED BY <2>1, <2>2, <2>3 DEF Fits
<1>8. Fits(H, nest, m, Len(L), s, b) /\ Meant(m[Len(L)], s) = ATry
  <2>1. PICK i \in Nat : i = Len(L)
    BY <1>5
  <2>2. m[i] = TryAt(l, to) /\ i = Len(n) + 1
    BY <1>2, <1>5, <2>1
  <2>3. m[i].try /\ m[i].level = l /\ m[i].to = to
    BY <2>2 DEF TryAt
  <2>4. Enters(nest[to], m, i)
    BY <1>2, <1>3, <2>2, <2>3 DEF Enters, Below
  <2>5. H[to] = l + 6
    BY DEF Opens
  <2> QED BY <1>4, <2>1, <2>3, <2>4, <2>5 DEF Fits, Meant, TryBlock
<1> QED BY <1>2, <1>5, <1>6, <1>7, <1>8 DEF OneMore, StackFits, MeansSame

\* The blocks K in n are now L in m, without the last.
OneLess(H, nest, n, m, s, K, L) ==
  /\ StackFits(H, nest, m, s, L) /\ Len(L) = Len(K) - 1 /\ Len(L) = Len(m)
  /\ MeansSame(Len(L), n, s, m, s)

\* A block is left.
LEMMA Popped ==
  ASSUME NEW H, NEW nest, NEW n \in Seq(Entry), n # <<>>, NEW m, m = SubSeq(n, 1, Len(n) - 1),
         NEW s, NEW K, StackFits(H, nest, n, s, K), Len(K) = Len(n),
         NEW L, L = SubSeq(K, 1, Len(K) - 1)
  PROVE  OneLess(H, nest, n, m, s, K, L)
<1>1. /\ Len(n) \in Nat \ {0} /\ Len(m) = Len(n) - 1
      /\ \A i \in 1 .. Len(n) - 1 : m[i] = n[i]
  BY RestIs
<1>2. K \in Seq(Block) /\ K # <<>>
  BY <1>1 DEF StackFits
<1>3. L \in Seq(Block) /\ Len(L) = Len(K) - 1 /\ \A i \in 1 .. Len(K) - 1 : L[i] = K[i]
  BY <1>2, RestIs
<1>4. ASSUME NEW i \in 1 .. Len(L)
      PROVE  Fits(H, nest, m, i, s, L[i]) /\ Meant(m[i], s) = Meant(n[i], s)
  <2>1. m[i] = n[i] /\ \A j \in 1 .. i - 1 : m[j] = n[j]
    BY <1>1, <1>3
  <2>2. Fits(H, nest, n, i, s, L[i])
    BY <1>1, <1>3 DEF StackFits
  <2>3. \A k2 : Enters(k2, n, i) => Enters(k2, m, i)
    BY <2>1 DEF Enters, Below
  <2> QED BY <2>1, <2>2, <2>3 DEF Fits
<1> QED BY <1>1, <1>3, <1>4 DEF OneLess, StackFits, MeansSame

\* The blocks n once a value is under what the innermost handler saved, which is
\* one higher.
Under(n, h) ==
  Append(SubSeq(n, 1, Len(n) - 1), [n[Len(n)] EXCEPT !.saved = @ + 1, !.keeps = h])
MovedUp(h, s, t) == \A i \in h - 2 .. h : t[i] = s[i - 1]

\* ROT_FOUR puts a value to be returned under what the innermost handler saved.
LEMMA Turned ==
  ASSUME NEW H, NEW nest, NEW n, Ordered(n), NEW h \in Nat, UnderSaved(n, h),
         NEW m, m = Under(n, h), Ordered(m),
         NEW s, NEW t, SameTo(h - 4, s, t), MovedUp(h, s, t),
         NEW K, StackFits(H, nest, n, s, K), Len(K) = Len(n)
  PROVE  /\ StackFits(H, nest, m, t, K) /\ Len(K) = Len(m)
         /\ MeansSame(Len(K), n, s, m, t)
<1>1. n # <<>> /\ Len(n) \in Nat \ {0} /\ n[Len(n)] \in Entry
  BY EmptySeq, ElementOfSeq DEF UnderSaved, Ordered
<1>2. PICK k \in Nat \ {0} : k = Len(n)
  BY <1>1
<1>3. PICK e \in Entry : e = n[k]
  BY <1>1, <1>2
<1>4. ~e.try /\ e.saved = e.level /\ h = e.level + 4 /\ e.level \in Nat
  BY <1>1, <1>2, <1>3 DEF UnderSaved, Entry
<1>5. PICK f \in Entry : f = [e EXCEPT !.saved = @ + 1, !.keeps = h]
  <2>1. e.saved + 1 \in Nat /\ h \in Nat
    BY <1>4
  <2> QED BY <2>1 DEF Entry
<1>6. /\ ~f.try /\ f.level = e.level /\ f.saved = e.level + 1 /\ f.keeps = e.level + 4
  BY <1>4, <1>5 DEF Entry
<1>7. PICK r : r = SubSeq(n, 1, Len(n) - 1)
  OBVIOUS
<1>8. r \in Seq(Entry) /\ Len(r) = k - 1 /\ \A i \in 1 .. k - 1 : r[i] = n[i]
  BY <1>1, <1>2, <1>7, RestIs DEF Ordered
<1>9. m = Append(r, f)
  BY <1>2, <1>3, <1>5, <1>7 DEF Under
<1>10. /\ m \in Seq(Entry) /\ Len(m) = k /\ m[k] = f /\ \A i \in 1 .. k - 1 : m[i] = n[i]
  <2>1. /\ m \in Seq(Entry) /\ Len(m) = Len(r) + 1 /\ m[Len(r) + 1] = f
        /\ \A i \in 1 .. Len(r) : m[i] = r[i]
    BY ONLY f \in Entry, <1>8, <1>9, PushIs
  <2> QED BY <1>8, <2>1
<1>11. K \in Seq(Block) /\ Len(K) = k
  BY <1>2 DEF StackFits
<1>12. ASSUME NEW i \in 1 .. k - 1
       PROVE  Fits(H, nest, m, i, t, K[i]) /\ Meant(m[i], t) = Meant(n[i], s)
  <2>1. Fits(H, nest, n, i, s, K[i])
    BY <1>2, <1>11 DEF StackFits
  <2>2. k \in 1 .. Len(n) /\ k <= Len(m) /\ Below(k, n, m)
    BY <1>2, <1>10 DEF Below
  <2>3. SameTo(n[k].level, s, t)
    <3>1. n[k].level = h - 4
      BY <1>3, <1>4
    <3> QED BY <3>1
  <2> QED BY ONLY Ordered(n), Ordered(m), <1>12, <2>1, <2>2, <2>3, FitsBelow
<1>13. Fits(H, nest, m, k, t, K[k]) /\ Meant(m[k], t) = Meant(n[k], s)
  <2>1. Fits(H, nest, n, k, s, K[k])
    BY <1>2, <1>11 DEF StackFits
  <2>2. Saved(t, f.saved) = Saved(s, e.saved)
    <3>1. PICK l \in Nat : l = e.level
      BY <1>4
    <3>2. h - 2 = l + 2 /\ h = l + 4
      BY <1>4, <3>1
    <3>3. t[l + 2] = s[l + 1] /\ t[l + 3] = s[l + 2] /\ t[l + 4] = s[l + 3]
      BY <3>2 DEF MovedUp
    <3>4. f.saved + 1 = l + 2 /\ f.saved + 2 = l + 3 /\ f.saved + 3 = l + 4 /\ e.saved = l
      BY <1>4, <1>6, <3>1
    <3> QED BY <3>3, <3>4 DEF Saved
  <2>3. f.keeps # f.level + 6
    BY <1>4, <1>6
  <2> QED BY <1>3, <1>4, <1>6, <1>10, <2>1, <2>2, <2>3 DEF Fits, Meant
<1>14. \A i \in 1 .. k : i \in 1 .. k - 1 \/ i = k
  OBVIOUS
<1>15. \A i \in 1 .. Len(K) : Fits(H, nest, m, i, t, K[i]) /\ Meant(m[i], t) = Meant(n[i], s)
  BY <1>11, <1>12, <1>13, <1>14
<1> QED BY <1>10, <1>11, <1>15 DEF StackFits, MeansSame

\* The blocks K in n are now L in m, where the last is the handler of what was e.
InHandler(H, nest, n, s, m, t, K, L, e) ==
  /\ StackFits(H, nest, m, t, L) /\ Len(L) = Len(K) /\ Len(L) = Len(m)
  /\ MeansSame(Len(L) - 1, n, s, m, t)
  /\ Meant(m[Len(L)], t) = AHandler(Exception(Saved(t, e.level)))

\* A handler is entered: its try block is the innermost one left.
LEMMA Entered ==
  ASSUME NEW H, NEW nest, NEW n, Ordered(n),
         NEW s, NEW K, StackFits(H, nest, n, s, K), K # <<>>,
         NEW e, e = n[Len(K)], e.try, NEW m, m = nest[e.to], Ordered(m),
         NEW t, SameTo(e.level, s, t),
         Saved(t, e.level) \in Raised \cup {<<None, Null, Null>>}, Saved(t, e.level + 3) \in Raised,
         NEW from \in Nat,
         NEW L, L = Append(SubSeq(K, 1, Len(K) - 1), HandlerBlock(from, e.level))
  PROVE  InHandler(H, nest, n, s, m, t, K, L, e)
<1>1. K \in Seq(Block) /\ Len(K) \in Nat \ {0} /\ Len(n) \in Nat /\ Len(K) <= Len(n)
  BY EmptySeq DEF StackFits
<1>2. PICK k \in Nat \ {0} : k = Len(K)
  BY <1>1
<1>3. k \in 1 .. Len(n) /\ e \in Entry /\ e.level \in Nat /\ e.to \in Nat
  <2>1. k \in 1 .. Len(n)
    BY <1>1, <1>2
  <2>2. n[k] \in Entry
    BY <2>1, ElementOfSeq DEF Ordered
  <2> QED BY <1>2, <2>1, <2>2 DEF Entry
<1>4. Enters(m, n, k)
  BY <1>2, <1>3 DEF StackFits, Fits
<1>5. Len(m) = k /\ m[k] = HandlerAt(e.level, e.to) /\ \A i \in 1 .. k - 1 : m[i] = n[i]
  BY <1>2, <1>4 DEF Enters, Below
<1>6. PICK b \in Block : b = HandlerBlock(from, e.level)
  BY <1>3 DEF Block, HandlerBlock
<1>7. PICK r : r = SubSeq(K, 1, Len(K) - 1)
  OBVIOUS
<1>8. r \in Seq(Block) /\ Len(r) = k - 1 /\ \A i \in 1 .. k - 1 : r[i] = K[i]
  BY <1>1, <1>2, <1>7, RestIs
<1>9. L = Append(r, b)
  BY <1>6, <1>7
<1>10. L \in Seq(Block) /\ Len(L) = k /\ L[k] = b /\ \A i \in 1 .. k - 1 : L[i] = K[i]
  <2>1. /\ L \in Seq(Block) /\ Len(L) = Len(r) + 1 /\ L[Len(r) + 1] = b
        /\ \A i \in 1 .. Len(r) : L[i] = r[i]
    BY ONLY b \in Block, <1>8, <1>9, PushIs
  <2> QED BY <1>8, <2>1
<1>11. ASSUME NEW i \in 1 .. k - 1
       PROVE  Fits(H, nest, m, i, t, L[i]) /\ Meant(m[i], t) = Meant(n[i], s)
  <2>1. Fits(H, nest, n, i, s, L[i])
    BY <1>2, <1>10 DEF StackFits
  <2>2. k <= Len(m) /\ Below(k, n, m)
    BY <1>5 DEF Below
  <2>3. SameTo(n[k].level, s, t)
    BY <1>2
  <2> QED BY ONLY Ordered(n), Ordered(m), <1>3, <1>11, <2>1, <2>2, <2>3, FitsBelow
<1>12. /\ ~m[k].try /\ m[k].level = e.level /\ m[k].saved = e.level /\ m[k].keeps = e.level + 6
  BY <1>5 DEF HandlerAt
<1>13. Fits(H, nest, m, k, t, L[k])
  BY <1>6, <1>10, <1>12 DEF Fits, HandlerBlock
<1>14. Meant(m[k], t) = AHandler(Exception(Saved(t, e.level)))
  BY <1>12 DEF Meant
<1>15. \A i \in 1 .. k : i \in 1 .. k - 1 \/ i = k
  OBVIOUS
<1>16. \A i \in 1 .. Len(L) : Fits(H, nest, m, i, t, L[i])
  BY <1>10, <1>11, <1>13, <1>15
<1> QED BY <1>2, <1>5, <1>10, <1>11, <1>14, <1>16 DEF InHandler, StackFits, MeansSame

-----------------------------------------------------------------------------
(* What is known of every unit.                                            *)

LEMMA Around ==
  ASSUME NEW nest, Balanced, Structured(nest), NEW v \in DOMAIN code
  PROVE  /\ v \in Nat /\ Nested(nest, v) /\ sp_map[v] \in 0 .. MaxHeight /\ sp_map[v] \in Nat
         /\ nest[v] \in Seq(Entry) /\ Ordered(nest[v]) /\ InOrder(nest[v], sp_map[v])
         /\ \A i \in 1 .. Len(nest[v]) : nest[v][i].to \in DOMAIN code
<1>1. v \in Nat /\ Nested(nest, v) /\ nest[v] \in Seq(Entries)
  BY DEF Structured
<1>2. sp_map[v] \in 0 .. MaxHeight /\ sp_map[v] \in Nat
  BY ObjectsDistinct DEF Balanced
<1>3. nest[v] \in Seq(Entry)
  <2>1. Entries \subseteq Entry
    BY DEF Entries, Entry, Structured
  <2> QED BY <1>1, <2>1, SeqMonotonic
<1>4. InOrder(nest[v], sp_map[v])
  BY <1>1 DEF Nested
<1>5. \A i \in 1 .. Len(nest[v]) : nest[v][i].to \in DOMAIN code
  <2>1. ASSUME NEW i \in 1 .. Len(nest[v]) PROVE nest[v][i] \in Entries
    BY <1>1, ElementOfSeq
  <2> QED BY <2>1 DEF Entries
<1> QED BY <1>1, <1>2, <1>3, <1>4, <1>5 DEF Ordered

LEMMA AfterRow ==
  ASSUME NEW v, NEW r, r = Assumes(code[v].op, code[v].arg, <<>>, v)
  PROVE  HeightAfter(v) = sp_map[v] + r.undo - Len(r.marks)
BY DEF HeightAfter

LEMMA PassesSelf ==
  ASSUME NEW n \in Seq(Entry), NEW h \in Nat, InOrder(n, h)
  PROVE  Passes(n, n, h)
<1>1. ASSUME n # <<>>, NEW e, e = n[Len(n)]
      PROVE  e = [e EXCEPT !.keeps = e.keeps] /\ e.keeps <= e.keeps /\ e.keeps <= h
  <2>1. Len(n) \in 1 .. Len(n)
    BY <1>1, EmptySeq
  <2>2. e \in Entry
    BY <1>1, <2>1, ElementOfSeq
  <2>3. e.keeps <= h
    BY <1>1, <2>1 DEF InOrder
  <2>4. e.keeps \in Nat /\ e = [e EXCEPT !.keeps = e.keeps]
    BY ONLY <2>2 DEF Entry
  <2> QED BY ONLY <2>3, <2>4
<1> QED BY <1>1 DEF Passes

\* The parts of Nested, by what the unit is.
LEMMA UnitIs ==
  ASSUME NEW nest, NEW v, Nested(nest, v)
  PROVE  /\ code[v].arg \in Nat /\ After(v) \subseteq DOMAIN code
         /\ code[v].op \notin Special => code[v].op \in AsExpected
BY DEF Nested

LEMMA LoopEnd ==
  ASSUME NEW nest, NEW w, Nested(nest, w), code[w].op = "END_ASYNC_FOR",
         NEW u \in DOMAIN code, w \in After(u)
  PROVE  code[u].op \in HandlerSetups /\ w # u + 1
BY DEF Nested

LEMMA HandlerTop ==
  ASSUME NEW nest, NEW v, Nested(nest, v), code[v].op \in {"RERAISE", "END_ASYNC_FOR"},
         NEW e, e = nest[v][Len(nest[v])]
  PROVE  /\ nest[v] # <<>> /\ ~e.try /\ sp_map[v] = e.level + 6 /\ e.keeps = sp_map[v]
         /\ code[v].op = "RERAISE" => code[v].arg = 0
BY DEF Nested

LEMMA BlockLeft ==
  ASSUME NEW nest, NEW v, Nested(nest, v),
         code[v].op \in {"POP_BLOCK", "POP_EXCEPT", "END_ASYNC_FOR"}
  PROVE  /\ nest[v] # <<>> /\ nest[v + 1] = SubSeq(nest[v], 1, Len(nest[v]) - 1)
         /\ code[v].op = "POP_BLOCK" => nest[v][Len(nest[v])].try
         /\ code[v].op # "POP_BLOCK" => ~nest[v][Len(nest[v])].try
         /\ code[v].op = "POP_EXCEPT" => sp_map[v] = nest[v][Len(nest[v])].saved + 3
BY DEF Nested

LEMMA SavedAtLevel ==
  ASSUME NEW nest, NEW v, Nested(nest, v), code[v].op # "POP_EXCEPT", NEW i \in 1 .. Len(nest[v])
  PROVE  nest[v][i].saved = nest[v][i].level
BY DEF Nested

LEMMA BlockSetUp ==
  ASSUME NEW nest, NEW v, Nested(nest, v), code[v].op \in HandlerSetups
  PROVE  /\ code[v].op # "SETUP_FINALLY" => Passes(nest[v], nest[v], sp_map[v] - 1) /\ sp_map[v] > 0
         /\ nest[v + 1]      = Append(nest[v], TryAt(LevelAt(v), code[v].to))
         /\ nest[code[v].to] = Append(nest[v], HandlerAt(LevelAt(v), code[v].to))
BY DEF Nested

LEMMA OrdinaryUnit ==
  ASSUME NEW nest, NEW v, Nested(nest, v), code[v].op \notin Special,
         NEW way \in Ways, MayGo(v, way),
         NEW gone, gone = Gone(Effect(code[v].op, code[v].arg, way))
  PROVE  gone <= sp_map[v] /\ Passes(nest[v], nest[To(v, way)], sp_map[v] - gone)
BY DEF Nested

LEMMA MovingUnit ==
  ASSUME NEW nest, NEW v, Nested(nest, v)
  PROVE  /\ code[v].op \in Duplications =>
              Doubled(code[v].op) <= sp_map[v] /\ nest[v + 1] = nest[v]
         /\ code[v].op \in Rotations =>
              LET k == RotArg(code[v].op, code[v].arg)
                  moves == code[v].op = "ROT_FOUR" /\ UnderSaved(nest[v], sp_map[v])
              IN  /\ k \in 1 .. sp_map[v]
                  /\ ~moves => Passes(nest[v], nest[v + 1], sp_map[v] - k)
                  /\ moves => nest[v + 1] = Under(nest[v], sp_map[v])
BY DEF Nested, Under

\* Moves from and to the locals agree as the tables do.
LEMMA LocalsAgree ==
  ASSUME NEW op \in {"LOAD_CONST", "LOAD_FAST", "STORE_FAST", "DELETE_FAST"}, NEW n \in Nat, NEW v
  PROVE  Agree(Assumes(op, n, <<>>, v), Effect(op, n, "next"))
<1>1. op \in MoveOps
  BY DEF MoveOps
<1>2. \A i \in 2 .. 9 : op \notin Families[i]
  BY <1>1, OneFamily DEF Families
<1>3. Assumes(op, n, <<>>, v) = AssumesMove(op, n, <<>>, v)
  BY <1>1, <1>2 DEF Assumes, Families
<1>4. PICK assumed, effect : assumed = Assumes(op, n, <<>>, v) /\ effect = Effect(op, n, "next")
  OBVIOUS
<1>5. CASE op \in {"LOAD_CONST", "LOAD_FAST"}
  <2>1. assumed = Row(1, <<>>)
    BY <1>3, <1>4, <1>5 DEF AssumesMove
  <2>2. effect = Pop(0, 1) \/ effect = Safely(Pop(0, 1))
    BY <1>4, <1>5 DEF Effect
  <2>3. effect.pop = 0 /\ effect.take = 0 /\ effect.keep = 0 /\ effect.push = 1
    BY <2>2 DEF Plain, Pop, Safely
  <2>4. assumed.undo = 1 /\ Len(assumed.marks) = 0
    BY <2>1 DEF Row
  <2> QED BY <1>4, <2>3, <2>4 DEF Agree
<1>6. CASE op = "STORE_FAST"
  <2>1. assumed = Row(0, <<v>>)
    BY <1>3, <1>4, <1>6 DEF AssumesMove
  <2>2. effect = Safely(Pop(1, 0))
    BY <1>4, <1>6 DEF Effect
  <2>3. effect.pop = 1 /\ effect.take = 0 /\ effect.keep = 0 /\ effect.push = 0
    BY <2>2 DEF Plain, Pop, Safely
  <2>4. assumed.undo = 0 /\ Len(assumed.marks) = 1
    BY <2>1 DEF Row
  <2>5. /\ assumed.undo - Len(assumed.marks) = -1
        /\ effect.push - effect.pop - effect.take - effect.keep = -1
    BY <2>3, <2>4
  <2> QED BY <1>4, <2>3, <2>5 DEF Agree
<1>7. CASE op = "DELETE_FAST"
  <2>1. assumed = Row(0, <<>>)
    BY <1>3, <1>4, <1>7 DEF AssumesMove
  <2>2. effect = Plain
    BY <1>4, <1>7 DEF Effect
  <2>3. effect.pop = 0 /\ effect.take = 0 /\ effect.keep = 0 /\ effect.push = 0
    BY <2>2 DEF Plain
  <2>4. assumed.undo = 0 /\ Len(assumed.marks) = 0
    BY <2>1 DEF Row
  <2> QED BY <1>4, <2>3, <2>4 DEF Agree
<1> QED BY <1>5, <1>6, <1>7

\* What the backward pass assumes of every unit is what happens when it does not jump.
LEMMA FallsThrough ==
  ASSUME NEW nest, Balanced, Structured(nest), NEW v \in DOMAIN code, code[v].op \notin Special,
         NEW row, row = Effect(code[v].op, code[v].arg, "next")
  PROVE  /\ Gone(row) \in Nat /\ row.push \in Nat
         /\ HeightAfter(v) = sp_map[v] + row.push - Gone(row)
<1>1. /\ code[v].arg \in Nat /\ sp_map[v] \in Nat
      /\ code[v].op \in AsExpected
  BY Around, UnitIs
<1>2. PICK r : r = Assumes(code[v].op, code[v].arg, <<>>, v)
  OBVIOUS
<1>3. Agree(r, row)
  <2>1. CASE code[v].op \in {"LOAD_CONST", "LOAD_FAST", "STORE_FAST", "DELETE_FAST"}
    BY <1>1, <1>2, <2>1, LocalsAgree
  <2>2. CASE code[v].op \notin {"LOAD_CONST", "LOAD_FAST", "STORE_FAST", "DELETE_FAST"}
    <3>1. row = Emits(code[v].op, code[v].arg)
      BY <2>2 DEF Effect
    <3> QED BY <1>1, <1>2, <2>2, <3>1, TablesAgree DEF AsExpected
  <2> QED BY <2>1, <2>2
<1>4. /\ row.pop \in Nat /\ row.take \in Nat /\ row.keep \in Nat /\ row.push \in Nat
      /\ r.undo - Len(r.marks) = row.push - row.pop - row.take - row.keep
  BY <1>3 DEF Agree
<1>5. PICK pop, take, keep, push \in Nat :
        pop = row.pop /\ take = row.take /\ keep = row.keep /\ push = row.push
  BY <1>4
<1>6. PICK gone \in Nat : gone = pop + take + keep /\ gone = Gone(row)
  BY <1>5 DEF Gone
<1>7. r.undo - Len(r.marks) = push - gone
  <2>1. r.undo - Len(r.marks) = push - pop - take - keep
    BY <1>4, <1>5
  <2>2. push - pop - take - keep = push - gone
    BY <1>5, <1>6
  <2> QED BY ONLY <2>1, <2>2
<1>8. HeightAfter(v) = sp_map[v] + (r.undo - Len(r.marks))
  BY <1>2, AfterRow
<1> QED BY <1>1, <1>4, <1>5, <1>6, <1>7, <1>8

LEMMA OrdinaryHeight ==
  ASSUME NEW nest, Balanced, Structured(nest), NEW v \in DOMAIN code, code[v].op \notin Special,
         NEW way \in Ways, MayGo(v, way),
         NEW row, row = Effect(code[v].op, code[v].arg, way)
  PROVE  /\ To(v, way) \in After(v) /\ Gone(row) \in Nat /\ row.push \in Nat
         /\ sp_map[To(v, way)] = sp_map[v] + row.push - Gone(row)
<1>1. sp_map[v] \in Nat
  BY Around
<1>2. PICK op, n : op = code[v].op /\ n = code[v].arg
  OBVIOUS
<1>3. To(v, way) \in After(v)
  BY DEF To, After, MayGo, Branching
<1>4. PICK straight : straight = Effect(op, n, "next")
  OBVIOUS
<1>5. /\ Gone(straight) \in Nat /\ straight.push \in Nat
      /\ HeightAfter(v) = sp_map[v] + straight.push - Gone(straight)
  BY <1>2, <1>4, FallsThrough
<1>6. ASSUME op \in JumpOps PROVE Emits(op, n) = EmitsJump(op)
  BY <1>6, OneFamily DEF Emits, Families
<1>7. CASE way = "next"
  <2>1. sp_map[v + 1] = HeightAfter(v)
    BY <1>7 DEF Balanced, MayGo
  <2> QED BY <1>2, <1>3, <1>4, <1>5, <1>7, <2>1 DEF To
<1>8. CASE way = "jump"
  <2>1. op \in Jumps /\ sp_map[To(v, way)] = HeightAfter(v) + branch_stack_difference(op)
    BY <1>2, <1>8 DEF Balanced, MayGo, Branching, To
  <2>2. CASE op = "FOR_ITER"
    <3>1. straight = Pop(0, 1)
      BY <1>4, <1>6, <2>2 DEF Effect, JumpOps, EmitsJump, PopJumps, OrPopJumps
    <3>2. row = Pop(1, 0)
      BY <1>2, <1>8, <2>2 DEF Effect
    <3>3. branch_stack_difference(op) = -2
      BY <2>2 DEF branch_stack_difference, OrPopJumps
    <3>4. Gone(straight) = 0 /\ straight.push = 1
      BY <3>1 DEF Gone, Pop, Plain
    <3>5. Gone(row) = 1 /\ row.push = 0
      BY <3>2 DEF Gone, Pop, Plain
    <3> QED BY <1>1, <1>3, <1>5, <2>1, <3>3, <3>4, <3>5
  <2>3. CASE op # "FOR_ITER"
    <3>1. row = straight
      BY <1>2, <1>4, <2>3 DEF Effect
    <3>2. op \notin OrPopJumps
      BY <1>2, Around, UnitIs DEF AsExpected, Tabled, NameOps, OrPopJumps
    <3>3. branch_stack_difference(op) = 0
      BY <2>1, <2>3, <3>2 DEF Jumps, PopJumps, branch_stack_difference
    <3> QED BY <1>1, <1>3, <1>5, <2>1, <3>1, <3>3
  <2> QED BY <2>2, <2>3
<1> QED BY <1>7, <1>8 DEF Ways

LEMMA MoveHeight ==
  ASSUME NEW nest, Balanced, Structured(nest), NEW v \in DOMAIN code
  PROVE  /\ code[v].op \in Duplications => sp_map[v + 1] = sp_map[v] + Doubled(code[v].op)
         /\ code[v].op \in Rotations => sp_map[v + 1] = sp_map[v]
<1>1. sp_map[v] \in Nat /\ code[v].arg \in Nat /\ Nested(nest, v)
  BY Around, UnitIs
<1>2. PICK op, n : op = code[v].op /\ n = code[v].arg
  OBVIOUS
<1>3. ASSUME op \in Duplications \cup Rotations
      PROVE  /\ Assumes(op, n, <<>>, v) = AssumesMove(op, n, <<>>, v)
             /\ sp_map[v + 1] = HeightAfter(v)
  <2>1. op \in MoveOps
    BY <1>3 DEF MoveOps, Duplications, Rotations
  <2>2. \A i \in 2 .. 9 : op \notin Families[i]
    BY <2>1, OneFamily DEF Families
  <2>3. op \notin EndOps
    BY <1>3 DEF EndOps, Duplications, Rotations
  <2> QED BY <1>2, <2>1, <2>2, <2>3 DEF Assumes, Families, Balanced
<1>4. PICK r : r = Assumes(op, n, <<>>, v)
  OBVIOUS
<1>5. HeightAfter(v) = sp_map[v] + r.undo - Len(r.marks)
  BY <1>2, <1>4, AfterRow
<1>6. ASSUME op \in Duplications PROVE sp_map[v + 1] = sp_map[v] + Doubled(op)
  <2>1. CASE op = "DUP_TOP"
    <3>1. PICK m : AssumesMove(op, n, <<>>, v) = Row(2, <<m>>)
      BY <2>1 DEF AssumesMove
    <3>2. r.undo = 2 /\ Len(r.marks) = 1 /\ Doubled(op) = 1
      BY <1>3, <1>4, <1>6, <2>1, <3>1 DEF Row, Doubled
    <3> QED BY <1>1, <1>3, <1>5, <1>6, <3>2
  <2>2. CASE op = "DUP_TOP_TWO"
    <3>1. PICK m, l : AssumesMove(op, n, <<>>, v) = Row(4, <<m, l>>)
      BY <2>2 DEF AssumesMove
    <3>2. r.undo = 4 /\ Len(r.marks) = 2 /\ Doubled(op) = 2
      BY <1>3, <1>4, <1>6, <2>2, <3>1 DEF Row, Doubled
    <3> QED BY <1>1, <1>3, <1>5, <1>6, <3>2
  <2> QED BY <1>6, <2>1, <2>2 DEF Duplications
<1>7. ASSUME op \in Rotations PROVE sp_map[v + 1] = sp_map[v]
  <2>1. PICK k \in Nat \ {0} : k = RotArg(op, n)
    <3>1. RotArg(op, n) \in 1 .. sp_map[v]
      BY <1>1, <1>2, <1>7, MovingUnit
    <3> QED BY <1>1, <3>1
  <2>2. PICK t : t = TopOf(<<>>, k)
    OBVIOUS
  <2>3. AssumesMove(op, n, <<>>, v) = Row(k, SubSeq(t, 2, k) \o <<t[1]>>)
    BY <1>7, <2>1, <2>2 DEF AssumesMove, Rotations
  <2>4. PICK S : S = {t[i] : i \in 1 .. k}
    OBVIOUS
  <2>5. SubSeq(t, 2, k) \in Seq(S) /\ Len(SubSeq(t, 2, k)) = k - 1
    <3>1. \A i \in 2 .. k : t[i] \in S
      BY <2>4
    <3>2. /\ SubSeq(t, 2, k) \in Seq(S)
          /\ Len(SubSeq(t, 2, k)) = IF 2 <= k THEN k - 2 + 1 ELSE 0
      BY <3>1, SubSeqProperties
    <3> QED BY <3>2
  <2>6. <<t[1]>> \in Seq(S) /\ Len(<<t[1]>>) = 1
    <3>1. t[1] \in S
      BY <2>4
    <3> QED BY <3>1
  <2>7. PICK marks : marks = SubSeq(t, 2, k) \o <<t[1]>>
    OBVIOUS
  <2>8. Len(marks) = k
    <3>1. Len(marks) = Len(SubSeq(t, 2, k)) + Len(<<t[1]>>)
      BY <2>5, <2>6, <2>7, ConcatProperties
    <3> QED BY <2>5, <2>6, <3>1
  <2>9. r.undo = k /\ Len(r.marks) = k
    BY <1>3, <1>4, <1>7, <2>3, <2>7, <2>8 DEF Row
  <2> QED BY <1>1, <1>3, <1>5, <1>7, <2>9
<1> QED BY <1>2, <1>6, <1>7

LEMMA BlockHeight ==
  ASSUME NEW nest, Balanced, Structured(nest), NEW v \in DOMAIN code
  PROVE  /\ code[v].op \in {"SETUP_FINALLY", "SETUP_ASYNC_WITH", "POP_BLOCK"} =>
              sp_map[v + 1] = sp_map[v]
         /\ code[v].op = "SETUP_WITH" => sp_map[v + 1] = sp_map[v] + 1
         /\ code[v].op = "POP_EXCEPT" => sp_map[v + 1] = sp_map[v] - 3
         /\ code[v].op = "END_ASYNC_FOR" => sp_map[v + 1] = sp_map[v] - 7
         /\ code[v].op \in HandlerSetups => sp_map[code[v].to] = LevelAt(v) + 6
<1>1. sp_map[v] \in Nat /\ code[v].arg \in Nat
  BY Around, UnitIs
<1>2. ASSUME NEW op \in HandlerOps
      PROVE  Assumes(op, code[v].arg, <<>>, v) = AssumesHandler(op, v)
  BY OneFamily DEF Assumes, Families
<1>3. ASSUME NEW op \in GeneratorOps
      PROVE  Assumes(op, code[v].arg, <<>>, v) = AssumesGenerator(op, v)
  BY OneFamily DEF Assumes, Families
<1>4. ASSUME code[v].op \in {"SETUP_FINALLY", "POP_BLOCK"} PROVE HeightAfter(v) = sp_map[v]
  <2>1. Assumes(code[v].op, code[v].arg, <<>>, v) = Row(0, <<>>)
    BY <1>2, <1>4 DEF HandlerOps, AssumesHandler
  <2> QED BY <1>1, <2>1 DEF HeightAfter, Row
<1>5. ASSUME code[v].op = "SETUP_WITH" PROVE HeightAfter(v) = sp_map[v] + 1
  <2>1. Assumes(code[v].op, code[v].arg, <<>>, v) = Row(2, <<Forever>>)
    BY <1>2, <1>5 DEF HandlerOps, AssumesHandler
  <2>2. Len(<<Forever>>) = 1
    OBVIOUS
  <2>3. HeightAfter(v) = sp_map[v] + 2 - Len(<<Forever>>)
    <3>1. PICK r : r = Assumes(code[v].op, code[v].arg, <<>>, v)
      OBVIOUS
    <3>2. r.undo = 2 /\ r.marks = <<Forever>>
      BY <2>1, <3>1 DEF Row
    <3> QED BY <3>1, <3>2, AfterRow
  <2> QED BY <1>1, <2>2, <2>3
<1>6. ASSUME code[v].op = "POP_EXCEPT" PROVE HeightAfter(v) = sp_map[v] - 3
  <2>1. Assumes(code[v].op, code[v].arg, <<>>, v) = Row(0, <<v, v, v>>)
    BY <1>2, <1>6 DEF HandlerOps, AssumesHandler
  <2>2. Len(<<v, v, v>>) = 3
    OBVIOUS
  <2>3. HeightAfter(v) = sp_map[v] + 0 - Len(<<v, v, v>>)
    <3>1. PICK r : r = Assumes(code[v].op, code[v].arg, <<>>, v)
      OBVIOUS
    <3>2. r.undo = 0 /\ r.marks = <<v, v, v>>
      BY <2>1, <3>1 DEF Row
    <3> QED BY <3>1, <3>2, AfterRow
  <2> QED BY <1>1, <2>2, <2>3
<1>7. ASSUME code[v].op = "SETUP_ASYNC_WITH" PROVE HeightAfter(v) = sp_map[v]
  <2>1. Assumes(code[v].op, code[v].arg, <<>>, v) = Row(0, <<>>)
    BY <1>3, <1>7 DEF GeneratorOps, AssumesGenerator
  <2> QED BY <1>1, <2>1 DEF HeightAfter, Row
<1>8. ASSUME code[v].op = "END_ASYNC_FOR" PROVE HeightAfter(v) = sp_map[v] - 7
  <2>1. Assumes(code[v].op, code[v].arg, <<>>, v) = Row(0, Times(7, Forever))
    BY <1>3, <1>8 DEF GeneratorOps, AssumesGenerator
  <2>2. PICK t : t = Times(7, Forever)
    OBVIOUS
  <2>3. Len(t) = 7
    BY <2>2, LenTimes
  <2>4. PICK r : r = Assumes(code[v].op, code[v].arg, <<>>, v)
    OBVIOUS
  <2>5. r.undo = 0 /\ r.marks = t
    BY <2>1, <2>2, <2>4 DEF Row
  <2>6. HeightAfter(v) = sp_map[v] + r.undo - Len(r.marks)
    BY <2>4, AfterRow
  <2> QED BY <1>1, <2>3, <2>5, <2>6
<1>9. code[v].op \in HandlerSetups \cup {"POP_BLOCK", "POP_EXCEPT", "END_ASYNC_FOR"} =>
        sp_map[v + 1] = HeightAfter(v)
  BY DEF Balanced, EndOps, HandlerSetups
<1>10. ASSUME code[v].op \in HandlerSetups PROVE sp_map[code[v].to] = LevelAt(v) + 6
  <2>1. sp_map[code[v].to] = HeightAfter(v) + branch_stack_difference(code[v].op)
    BY <1>10 DEF Balanced, Branching
  <2>2. CASE code[v].op = "SETUP_FINALLY"
    BY <1>1, <1>4, <2>1, <2>2 DEF branch_stack_difference, LevelAt, OrPopJumps
  <2>3. CASE code[v].op = "SETUP_WITH"
    BY <1>1, <1>5, <2>1, <2>3 DEF branch_stack_difference, LevelAt, OrPopJumps
  <2>4. CASE code[v].op = "SETUP_ASYNC_WITH"
    BY <1>1, <1>7, <2>1, <2>4 DEF branch_stack_difference, LevelAt, OrPopJumps
  <2> QED BY <1>10, <2>2, <2>3, <2>4 DEF HandlerSetups
<1> QED BY <1>4, <1>5, <1>6, <1>7, <1>8, <1>9, <1>10 DEF HandlerSetups

-----------------------------------------------------------------------------
(* The inductive invariant.                                                *)

\* How much of the stack must be there for block e to be unwound.
Floor(e) == IF e.try THEN e.level ELSE e.level + 3

Phases(nest) ==
  /\ phase = "run" => /\ Len(f_blockstack) = Len(nest[pc]) /\ curexc = NoExc
                      /\ unit.op = "END_ASYNC_FOR" => f_stackdepth = height
  /\ phase = "unwind" =>
       /\ curexc \in Raised /\ unit.op # "POP_EXCEPT"
       /\ f_blockstack # <<>> => Floor(nest[pc][Len(f_blockstack)]) <= f_stackdepth
  /\ phase \in {"returned", "raised"} => f_stackdepth = 0 /\ f_blockstack = <<>>
  /\ phase = "returned" => curexc = NoExc
  /\ phase = "raised" => curexc \in Raised

Inv(nest) ==
  /\ Balanced /\ Structured(nest)
  /\ TypeOK /\ CountsExact
  /\ StackFits(sp_map, nest, nest[pc], slot, f_blockstack)
  /\ Phases(nest)

IInv == \E nest : Inv(nest)

LEMMA StaticKept ==
  ASSUME NEW nest, Balanced, Structured(nest), UNCHANGED static
  PROVE  Balanced' /\ Structured(nest)'
<1>1. code' = code /\ sp_map' = sp_map
  BY DEF static
<1>2. Balanced'
  <2>1. \A v : HeightAfter(v)' = HeightAfter(v)
    BY <1>1 DEF HeightAfter
  <2> QED BY <1>1, <2>1 DEF Balanced
<1>3. Structured(nest)'
  <2>1. \A v : Nested(nest, v)' <=> Nested(nest, v)
    BY <1>1 DEF Nested, After, LevelAt, TryAt, HandlerAt, To, MayGo
  <2>2. Entries' = Entries
    BY <1>1 DEF Entries
  <2> QED BY <1>1, <2>1, <2>2 DEF Structured
<1> QED BY <1>2, <1>3

\* Counts that are exact are natural numbers.
LEMMA CountsNatural ==
  ASSUME NEW r, r \in [Object -> Int], NEW s, NEW h \in Int, NEW t, NEW c, Counted(r, s, h, t, c)
  PROVE  r \in [Object -> Nat]
<1>1. ASSUME NEW o \in Object PROVE r[o] \in Nat
  <2>1. Holds(s, 1, h, o) \in Nat /\ InTriple(t, o) \in Nat /\ InTriple(c, o) \in Nat
    BY HoldsFinite, ThreeIn DEF Is
  <2>2. InSet(c, o) \in Nat
    BY <2>1 DEF InSet
  <2> QED BY <2>1, <2>2 DEF Counted
<1> QED BY <1>1

\* A step to the next unit, or to where a jump goes.
LEMMA RunsOn ==
  ASSUME NEW nest, Inv(nest), phase = "run", NEW w, GoOn(w),
         w \in After(pc), unit.op \in HandlerSetups => w = pc + 1,
         slot' \in [1 .. MaxHeight -> Object \cup {Null}], f_stackdepth' \in 0 .. MaxHeight,
         exc_info' \in States, refs' \in [Object -> Int],
         Counted(refs', slot', sp_map[w], exc_info', NoExc),
         StackFits(sp_map, nest, nest[w], slot', f_blockstack'), Len(f_blockstack') = Len(nest[w])
  PROVE  Inv(nest)'
<1>1. /\ pc' = w /\ phase' = "run" /\ f_lasti' = f_lasti /\ curexc' = NoExc
      /\ code' = code /\ sp_map' = sp_map /\ UNCHANGED static
  BY DEF GoOn, Inv, Phases, static
<1>2. Balanced' /\ Structured(nest)'
  BY <1>1, StaticKept DEF Inv
<1>3. pc \in DOMAIN code /\ f_lasti \in DOMAIN code
  BY DEF Inv, TypeOK
<1>4. w \in DOMAIN code /\ sp_map[w] \in Nat
  <2>1. w \in DOMAIN code
    BY <1>3, Around DEF Inv, Nested
  <2> QED BY <2>1, Around DEF Inv
<1>5. refs' \in [Object -> Nat]
  BY <1>4, CountsNatural
<1>6. TypeOK'
  BY <1>1, <1>3, <1>4, <1>5 DEF TypeOK, Raised, States
<1>7. CountsExact'
  <2>1. owned' = sp_map[w]
    BY <1>1 DEF owned, height
  <2>2. Counted(refs, slot, owned, exc_info, curexc)'
    BY <1>1, <2>1 DEF Counted
  <2>3. (CountsExact <=> Counted(refs, slot, owned, exc_info, curexc))'
    BY CountsAre, PTL
  <2> QED BY <2>2, <2>3
<1>8. unit'.op # "END_ASYNC_FOR"
  <2>1. code[w].op = "END_ASYNC_FOR" => unit.op \in HandlerSetups /\ w # pc + 1
    BY <1>3, <1>4, Around, LoopEnd DEF Inv, unit
  <2> QED BY <1>1, <2>1 DEF unit
<1>9. Phases(nest)'
  BY <1>1, <1>8 DEF Phases
<1> QED BY <1>1, <1>2, <1>6, <1>7, <1>9 DEF Inv

\* A step by which an exception is set.
LEMMA Raises ==
  ASSUME NEW nest, Inv(nest), phase = "run", unit.op # "POP_EXCEPT",
         phase' = "unwind", f_lasti' \in DOMAIN code, curexc' \in Raised,
         UNCHANGED <<static, pc, f_blockstack, exc_info>>,
         slot' \in [1 .. MaxHeight -> Object \cup {Null}], f_stackdepth' \in 0 .. MaxHeight,
         refs' \in [Object -> Int], Counted(refs', slot', f_stackdepth', exc_info, curexc'),
         StackFits(sp_map, nest, nest[pc], slot', f_blockstack),
         f_blockstack # <<>> => Floor(nest[pc][Len(nest[pc])]) <= f_stackdepth'
  PROVE  Inv(nest)'
<1>1. /\ pc' = pc /\ f_blockstack' = f_blockstack /\ exc_info' = exc_info
      /\ code' = code /\ sp_map' = sp_map /\ UNCHANGED static
  BY DEF static
<1>2. Balanced' /\ Structured(nest)'
  BY <1>1, StaticKept DEF Inv
<1>3. pc \in DOMAIN code /\ exc_info \in States /\ f_stackdepth' \in Int
  BY ObjectsDistinct DEF Inv, TypeOK
<1>4. refs' \in [Object -> Nat]
  BY <1>3, CountsNatural
<1>5. TypeOK'
  BY <1>1, <1>3, <1>4 DEF TypeOK, Raised, States
<1>6. CountsExact'
  <2>1. owned' = f_stackdepth'
    BY DEF owned
  <2>2. Counted(refs, slot, owned, exc_info, curexc)'
    BY <1>1, <2>1 DEF Counted
  <2>3. (CountsExact <=> Counted(refs, slot, owned, exc_info, curexc))'
    BY CountsAre, PTL
  <2> QED BY <2>2, <2>3
<1>7. Phases(nest)'
  <2>1. unit' = unit /\ Len(f_blockstack) = Len(nest[pc])
    BY <1>1 DEF unit, Inv, Phases
  <2> QED BY <1>1, <2>1 DEF Phases
<1> QED BY <1>1, <1>2, <1>5, <1>6, <1>7 DEF Inv

-----------------------------------------------------------------------------
(* Counts, step by step.                                                   *)

LEMMA SlotsHold == \A lo, hi, o : InSlots(lo, hi, o) = Holds(slot, lo, hi, o)
BY DEF InSlots, Holds, Where

LEMMA HoldsTo ==
  ASSUME NEW s, NEW z, NEW d \in Int, SameTo(d, s, z), NEW o
  PROVE  Holds(z, 1, d, o) = Holds(s, 1, d, o)
<1>1. Where(z, 1, d, o) = Where(s, 1, d, o)
  BY DEF Where, SameTo
<1> QED BY <1>1 DEF Holds

\* The references of the slots above d are released, those of z up to e made.
Replaced(q, r, s, d, h, z, e) ==
  \A o \in Object : q[o] = r[o] - Holds(s, d + 1, h, o) + Holds(z, d + 1, e, o)

LEMMA CountReplaced ==
  ASSUME NEW r, NEW s, NEW t, NEW c, NEW h \in Nat, NEW d \in Nat, d <= h, Counted(r, s, h, t, c),
         NEW e \in Nat, d <= e, NEW z, SameTo(d, s, z),
         NEW q, Replaced(q, r, s, d, h, z, e)
  PROVE  Counted(q, z, e, t, c)
<1>1. ASSUME NEW o \in Object PROVE q[o] = Holds(z, 1, e, o) + InTriple(t, o) + InSet(c, o)
  <2>1. Holds(s, 1, h, o) = Holds(s, 1, d, o) + Holds(s, d + 1, h, o)
    BY HoldsSplit
  <2>2. Holds(z, 1, e, o) = Holds(s, 1, d, o) + Holds(z, d + 1, e, o)
    <3>1. Holds(z, 1, e, o) = Holds(z, 1, d, o) + Holds(z, d + 1, e, o)
      BY HoldsSplit
    <3> QED BY <3>1, HoldsTo
  <2>3. /\ Holds(s, 1, d, o) \in Nat /\ Holds(s, d + 1, h, o) \in Nat
        /\ Holds(z, d + 1, e, o) \in Nat /\ InTriple(t, o) \in Nat /\ InTriple(c, o) \in Nat
    BY HoldsFinite, ThreeIn DEF Is
  <2>4. InSet(c, o) \in Nat
    BY <2>3 DEF InSet
  <2>5. /\ r[o] = Holds(s, 1, h, o) + InTriple(t, o) + InSet(c, o)
        /\ q[o] = r[o] - Holds(s, d + 1, h, o) + Holds(z, d + 1, e, o)
    BY DEF Counted, Replaced
  <2> QED BY <2>1, <2>2, <2>3, <2>4, <2>5
<1> QED BY <1>1 DEF Counted

\* The same, and x gets one.
Changed(q, r, s, d, h, x) ==
  \A o \in Object : q[o] = r[o] - Holds(s, d + 1, h, o) + Is(x, o)

\* Nothing takes the place of what is released, or x.
LEMMA CountDrop ==
  ASSUME NEW r, NEW s, NEW t, NEW c, NEW h \in Nat, NEW d \in Nat, d <= h, Counted(r, s, h, t, c),
         NEW z, SameTo(d, s, z),
         NEW q, Changed(q, r, s, d, h, Null)
  PROVE  Counted(q, z, d, t, c)
<1>1. ASSUME NEW o \in Object PROVE Is(Null, o) = Holds(z, d + 1, d, o)
  BY HoldsNone, ObjectsDistinct DEF Is
<1>2. Replaced(q, r, s, d, h, z, d)
  BY <1>1 DEF Changed, Replaced
<1> QED BY <1>2, CountReplaced

LEMMA CountPut ==
  ASSUME NEW r, NEW s, NEW t, NEW c, NEW h \in Nat, NEW d \in Nat, d <= h, Counted(r, s, h, t, c),
         NEW x, NEW z, SameTo(d, s, z), z[d + 1] = x,
         NEW q, Changed(q, r, s, d, h, x)
  PROVE  Counted(q, z, d + 1, t, c)
<1>1. ASSUME NEW o \in Object PROVE Is(x, o) = Holds(z, d + 1, d + 1, o)
  BY HoldsOne
<1>2. Replaced(q, r, s, d, h, z, d + 1)
  BY <1>1 DEF Changed, Replaced
<1> QED BY <1>2, CountReplaced

-----------------------------------------------------------------------------
(* The actions that run.                                                   *)

\* What every running action starts from.
LEMMA AtRun ==
  ASSUME NEW nest, Inv(nest), phase = "run"
  PROVE  /\ pc \in DOMAIN code /\ pc \in Nat /\ Nested(nest, pc) /\ Balanced /\ Structured(nest)
         /\ sp_map[pc] \in 0 .. MaxHeight /\ sp_map[pc] \in Nat /\ MaxHeight \in Nat
         /\ nest[pc] \in Seq(Entry) /\ Ordered(nest[pc]) /\ InOrder(nest[pc], sp_map[pc])
         /\ Counted(refs, slot, sp_map[pc], exc_info, NoExc) /\ curexc = NoExc
         /\ refs \in [Object -> Nat] /\ slot \in [1 .. MaxHeight -> Object \cup {Null}]
         /\ exc_info \in States /\ f_stackdepth \in 0 .. MaxHeight
         /\ StackFits(sp_map, nest, nest[pc], slot, f_blockstack)
         /\ f_blockstack \in Seq(Block) /\ Len(f_blockstack) = Len(nest[pc])
         /\ After(pc) \subseteq DOMAIN code
<1>1. pc \in DOMAIN code /\ Balanced /\ Structured(nest)
  BY DEF Inv, TypeOK
<1>2. owned = sp_map[pc] /\ curexc = NoExc
  BY DEF owned, height, Inv, Phases
<1>3. Counted(refs, slot, sp_map[pc], exc_info, NoExc)
  BY <1>2, CountsAre DEF Inv
<1>4. After(pc) \subseteq DOMAIN code
  BY <1>1, Around DEF Nested
<1> QED BY <1>1, <1>2, <1>3, <1>4, Around, ObjectsDistinct DEF Inv, TypeOK, Phases, StackFits

\* The blocks, what they saved and the exceptions are as before.
Quiet(nest) ==
  /\ UNCHANGED <<outside, exc_info, curexc>>
  /\ Len(f_blockstack') = Len(f_blockstack)
  /\ MeansSame(Len(f_blockstack), nest[pc], slot, nest[pc'], slot')

\* What Ordinary does to the slots above d: those up to e are new.
OrdinaryPuts(d, e) ==
  \E put \in [d + 1 .. e -> Given \cup {FreshOther}] :
    /\ slot' = [i \in DOMAIN slot |-> IF i \in d + 1 .. e THEN put[i] ELSE slot[i]]
    /\ refs' = [o \in Object |-> refs[o] - InSlots(d + 1, height, o)
                                   + Cardinality({i \in d + 1 .. e : put[i] = o})]

LEMMA OrdinaryStep ==
  ASSUME Enough, NEW nest, Inv(nest), Ordinary
  PROVE  Inv(nest)' /\ Quiet(nest)
<1>1. phase = "run" /\ code[pc].op \notin Special
  BY DEF Ordinary, unit
<1>2. PICK way \in Ways :
        /\ MayGo(pc, way) /\ GoOn(To(pc, way))
        /\ LET row == Effect(unit.op, unit.arg, way)
               d   == height - Gone(row)
           IN  OrdinaryPuts(d, d + row.push)
        /\ UNCHANGED <<f_stackdepth, f_blockstack, exc_info>>
  BY DEF Ordinary, OrdinaryPuts
<1>3. PICK row : row = Effect(code[pc].op, code[pc].arg, way)
  OBVIOUS
<1>4. PICK w : w = To(pc, way)
  OBVIOUS
<1>5. PICK h \in Nat : h = sp_map[pc] /\ h <= MaxHeight
  BY <1>1, AtRun
<1>6. /\ w \in After(pc) /\ Gone(row) \in Nat /\ row.push \in Nat
      /\ sp_map[w] = h + row.push - Gone(row)
  BY <1>1, <1>2, <1>3, <1>4, <1>5, AtRun, OrdinaryHeight
<1>7. w \in DOMAIN code /\ sp_map[w] \in 0 .. MaxHeight /\ Ordered(nest[w])
  BY <1>1, <1>6, AtRun, Around
<1>8. Gone(row) <= h /\ Passes(nest[pc], nest[w], h - Gone(row))
  BY <1>1, <1>2, <1>3, <1>4, <1>5, AtRun, OrdinaryUnit
<1>9. PICK gone, push \in Nat : gone = Gone(row) /\ push = row.push
  BY <1>6
<1>10. PICK d, e \in Nat : d = h - gone /\ e = d + push /\ d <= h /\ d <= e /\ e = sp_map[w]
  <2>1. gone <= h /\ sp_map[w] = h + push - gone
    BY <1>6, <1>8, <1>9
  <2> QED BY <2>1
<1>11. OrdinaryPuts(d, e) /\ height = h
  BY <1>2, <1>3, <1>5, <1>9, <1>10 DEF unit, height
<1>12. PICK put \in [d + 1 .. e -> Given \cup {FreshOther}] :
         /\ slot' = [i \in DOMAIN slot |-> IF i \in d + 1 .. e THEN put[i] ELSE slot[i]]
         /\ refs' = [o \in Object |-> refs[o] - InSlots(d + 1, h, o)
                                        + Cardinality({i \in d + 1 .. e : put[i] = o})]
  BY <1>11 DEF OrdinaryPuts
<1>13. Given \cup {FreshOther} \subseteq Object \cup {Null}
  <2>1. FreshOther \in Other
    BY <1>1, AtRun, Fresh
  <2> QED BY <2>1, ObjectsDistinct DEF Object
<1>14. MaxHeight \in Nat /\ slot \in [1 .. MaxHeight -> Object \cup {Null}] /\ e <= MaxHeight
  BY <1>1, <1>7, <1>10, AtRun
<1>15. /\ slot' \in [1 .. MaxHeight -> Object \cup {Null}] /\ SameTo(d, slot, slot')
       /\ \A i \in d + 1 .. e : slot'[i] = put[i]
  <2>1. \A i \in d + 1 .. e : put[i] \in Object \cup {Null}
    BY <1>12, <1>13
  <2>2. \A x \in 1 .. d : x \in 1 .. MaxHeight /\ x \notin d + 1 .. e
    BY <1>10, <1>12, <1>14
  <2>3. \A i \in d + 1 .. e : i \in 1 .. MaxHeight
    BY <1>10, <1>12, <1>14
  <2>4. slot' \in [1 .. MaxHeight -> Object \cup {Null}]
    BY <1>12, <1>14, <2>1
  <2>5. SameTo(d, slot, slot')
    BY <1>12, <1>14, <2>2 DEF SameTo
  <2>6. \A i \in d + 1 .. e : slot'[i] = put[i]
    BY <1>12, <1>14, <2>3
  <2> QED BY <2>4, <2>5, <2>6
<1>16. /\ refs \in [Object -> Nat] /\ refs' = [o \in Object |-> refs'[o]]
       /\ \A o \in Object :
            refs'[o] = refs[o] - Holds(slot, d + 1, h, o) + Holds(slot', d + 1, e, o)
  <2>1. ASSUME NEW o \in Object
        PROVE  Cardinality({i \in d + 1 .. e : put[i] = o}) = Holds(slot', d + 1, e, o)
    <3>1. {i \in d + 1 .. e : put[i] = o} = Where(slot', d + 1, e, o)
      BY <1>12, <1>15 DEF Where
    <3> QED BY <3>1 DEF Holds
  <2>2. refs \in [Object -> Nat]
    BY <1>1, AtRun
  <2> QED BY <1>12, <2>1, <2>2, SlotsHold
<1>17. Counted(refs', slot', sp_map[w], exc_info, NoExc)
  <2>1. Counted(refs, slot, h, exc_info, NoExc)
    BY <1>1, <1>5, AtRun
  <2>2. Replaced(refs', refs, slot, d, h, slot', e)
    BY <1>16 DEF Replaced
  <2>3. d \in Nat /\ h \in Nat /\ e \in Nat /\ d <= h /\ d <= e /\ SameTo(d, slot, slot')
    BY <1>10, <1>15
  <2>4. Counted(refs', slot', e, exc_info, NoExc)
    BY ONLY <2>1, <2>2, <2>3, CountReplaced, ObjectsDistinct
  <2> QED BY <1>10, <2>4
<1>18. refs' \in [Object -> Int]
  <2>1. \A o : Holds(slot, d + 1, h, o) \in Nat /\ Holds(slot', d + 1, e, o) \in Nat
    BY HoldsFinite
  <2>2. \A o \in Object : refs'[o] \in Int
    BY <1>16, <2>1
  <2> QED BY <1>16, <2>2
<1>19. /\ StackFits(sp_map, nest, nest[w], slot', f_blockstack)
       /\ MeansSame(Len(f_blockstack), nest[pc], slot, nest[w], slot')
  <2>1. Ordered(nest[pc]) /\ StackFits(sp_map, nest, nest[pc], slot, f_blockstack)
    BY <1>1, AtRun
  <2>2. Passes(nest[pc], nest[w], d)
    BY <1>8, <1>9, <1>10
  <2> QED BY <1>7, <1>15, <2>1, <2>2, Passed
<1>20. Len(f_blockstack) = Len(nest[w])
  BY <1>1, <1>8, AtRun DEF Passes
<1>21. unit.op \notin HandlerSetups
  BY <1>1 DEF unit, Special
<1>22. /\ f_blockstack' = f_blockstack /\ f_stackdepth' \in 0 .. MaxHeight /\ exc_info' \in States
       /\ exc_info' = exc_info
  BY <1>1, <1>2, AtRun
<1>23. Inv(nest)'
  BY <1>1, <1>2, <1>4, <1>6, <1>15, <1>17, <1>18, <1>19, <1>20, <1>21, <1>22, RunsOn
<1>24. pc' = w /\ curexc' = curexc /\ outside' = outside
  BY <1>2, <1>4 DEF GoOn, static
<1> QED BY <1>19, <1>22, <1>23, <1>24 DEF Quiet

\* An exception is set; the blocks, what they saved and exc_info are as before.
Throws(nest) ==
  /\ curexc' \in Raised /\ UNCHANGED <<outside, exc_info>>
  /\ Len(f_blockstack') = Len(f_blockstack)
  /\ MeansSame(Len(f_blockstack), nest[pc], slot, nest[pc'], slot')

LEMMA FloorBelow ==
  ASSUME NEW nest, Inv(nest), phase = "run", f_blockstack # <<>>,
         NEW e, e = nest[pc][Len(nest[pc])]
  PROVE  /\ e \in Entry /\ Floor(e) \in Nat /\ Floor(e) <= sp_map[pc] /\ e.keeps <= sp_map[pc]
         /\ Len(nest[pc]) \in 1 .. Len(nest[pc]) /\ nest[pc] # <<>>
<1>1. Len(f_blockstack) \in Nat \ {0} /\ Len(nest[pc]) = Len(f_blockstack)
  BY AtRun, EmptySeq
<1>2. Len(nest[pc]) \in 1 .. Len(nest[pc]) /\ nest[pc] # <<>>
  BY <1>1
<1>3. PICK n : n = nest[pc]
  OBVIOUS
<1>4. Ordered(n) /\ InOrder(n, sp_map[pc]) /\ sp_map[pc] \in Nat
  BY <1>3, AtRun
<1>5. PICK i \in 1 .. Len(n) : i = Len(n)
  BY <1>2, <1>3
<1>6. e = n[i]
  BY <1>3, <1>5
<1>7. /\ e \in Entry /\ e.saved \in {e.level, e.level + 1} /\ (e.try => e.keeps = e.level)
      /\ (~e.try => e.saved + 3 <= e.keeps)
  BY <1>4, <1>6, InOrderAt
<1>8. e.level \in Nat /\ e.saved \in Nat /\ e.keeps \in Nat /\ e.try \in BOOLEAN
  BY <1>7 DEF Entry
<1>9. e.keeps <= sp_map[pc]
  BY <1>4, <1>6 DEF InOrder
<1>10. Floor(e) \in Nat /\ Floor(e) <= e.keeps
  <2>1. CASE e.try
    BY <1>7, <1>8, <2>1 DEF Floor
  <2>2. CASE ~e.try
    <3>1. PICK a, l, k \in Nat : a = e.saved /\ l = e.level /\ k = e.keeps
      BY <1>8
    <3>2. Floor(e) = l + 3 /\ a + 3 <= k /\ (a = l \/ a = l + 1)
      BY <1>7, <2>2, <3>1 DEF Floor
    <3>3. l + 3 \in Nat /\ l + 3 <= k
      BY ONLY <3>1, <3>2
    <3> QED BY <3>1, <3>2, <3>3
  <2> QED BY <2>1, <2>2
<1> QED BY <1>2, <1>4, <1>7, <1>8, <1>9, <1>10

LEMMA CountSet ==
  ASSUME NEW r \in [Object -> Nat], NEW s, NEW h \in Nat, NEW t,
         Counted(r, s, h, t, NoExc), NEW c \in Raised,
         NEW q, q = [o \in Object |-> r[o] + InTriple(c, o)]
  PROVE  Counted(q, s, h, t, c) /\ q \in [Object -> Int]
<1>1. \A o : InTriple(c, o) \in Nat /\ InTriple(t, o) \in Nat /\ Holds(s, 1, h, o) \in Nat
  BY HoldsFinite, ThreeIn DEF Is
<1>2. \A o : InSet(c, o) = InTriple(c, o) /\ InSet(NoExc, o) = 0
  BY Triples DEF InSet, Raised
<1> QED BY <1>1, <1>2 DEF Counted

LEMMA ErrorStep ==
  ASSUME NEW nest, Inv(nest), phase = "run", unit.op # "POP_EXCEPT",
         NEW t \in Raised, GoToErrorHandler(t),
         refs' = [o \in Object |-> refs[o] + InTriple(t, o)]
  PROVE  Inv(nest)' /\ Throws(nest)
<1>1. /\ curexc' = t /\ f_lasti' = pc /\ f_stackdepth' = sp_map[pc] /\ phase' = "unwind"
      /\ UNCHANGED <<static, pc, slot, f_blockstack, exc_info>>
  BY DEF GoToErrorHandler, height
<1>2. Counted(refs', slot, sp_map[pc], exc_info, t) /\ refs' \in [Object -> Int]
  BY AtRun, CountSet
<1>3. StackFits(sp_map, nest, nest[pc], slot, f_blockstack)
  BY AtRun
<1>4. f_blockstack # <<>> => Floor(nest[pc][Len(nest[pc])]) <= sp_map[pc]
  BY FloorBelow
<1>5. /\ slot' \in [1 .. MaxHeight -> Object \cup {Null}] /\ f_stackdepth' \in 0 .. MaxHeight
      /\ f_lasti' \in DOMAIN code
  BY <1>1, AtRun
<1>6. Inv(nest)'
  BY <1>1, <1>2, <1>3, <1>4, <1>5, Raises
<1>7. MeansSame(Len(f_blockstack), nest[pc], slot, nest[pc'], slot')
  BY <1>1 DEF MeansSame
<1> QED BY <1>1, <1>6, <1>7 DEF Throws, static

LEMMA RaiseNewStep ==
  ASSUME Enough, NEW nest, Inv(nest), phase = "run", unit.op # "POP_EXCEPT", RaiseNew
  PROVE  Inv(nest)' /\ Throws(nest)
<1>1. FreshExc \in Raised
  BY AtRun, Fresh DEF Raised
<1>2. PICK t \in Raised : t = FreshExc
  BY <1>1
<1> QED BY <1>2, ErrorStep DEF RaiseNew

LEMMA OrdinaryRaisesStep ==
  ASSUME Enough, NEW nest, Inv(nest), OrdinaryRaises
  PROVE  Inv(nest)' /\ Throws(nest)
BY RaiseNewStep DEF OrdinaryRaises, Special

LEMMA RaiseVarargsStep ==
  ASSUME Enough, NEW nest, Inv(nest), RaiseVarargs
  PROVE  Inv(nest)' /\ Throws(nest)
<1>1. phase = "run" /\ unit.op = "RAISE_VARARGS"
  BY DEF RaiseVarargs, Running
<1>2. CASE RaiseNew
  BY <1>1, <1>2, RaiseNewStep
<1>3. CASE /\ exc_info[1] \notin {Null, None} /\ GoToErrorHandler(exc_info)
           /\ refs' = [o \in Object |-> refs[o] + InTriple(exc_info, o)]
  <2>1. exc_info \in Raised
    BY <1>1, <1>3, AtRun, StatesAre
  <2>2. PICK t \in Raised : t = exc_info
    BY <2>1
  <2> QED BY <1>1, <1>3, <2>2, ErrorStep
<1> QED BY <1>2, <1>3 DEF RaiseVarargs

LEMMA DuplicateStep ==
  ASSUME Enough, NEW nest, Inv(nest), Duplicate
  PROVE  Inv(nest)' /\ Quiet(nest)
<1>1. phase = "run" /\ code[pc].op \in Duplications
  BY DEF Duplicate, Running, unit
<1>2. PICK h \in Nat : h = sp_map[pc]
  BY <1>1, AtRun
<1>3. PICK k \in Nat \ {0} : k = Doubled(code[pc].op)
  BY DEF Doubled
<1>4. k <= h
  BY <1>1, <1>2, <1>3, AtRun, MovingUnit
<1>5. pc + 1 \in After(pc)
  BY <1>1 DEF After, EndOps, Duplications
<1>6. PICK w \in After(pc) : w = pc + 1
  BY <1>5
<1>7. w \in DOMAIN code /\ sp_map[w] = h + k /\ sp_map[w] \in 0 .. MaxHeight /\ nest[w] = nest[pc]
  BY <1>1, <1>2, <1>3, <1>6, AtRun, Around, MoveHeight, MovingUnit
<1>8. PICK s, z : s = slot /\ z = slot'
  OBVIOUS
<1>9. /\ z = [i \in DOMAIN s |-> IF i \in h + 1 .. h + k THEN s[i - k] ELSE s[i]]
      /\ refs' = [o \in Object |-> refs[o] + InSlots(h - k + 1, h, o)]
      /\ UNCHANGED <<f_stackdepth, f_blockstack, exc_info>> /\ GoOn(w)
  BY <1>2, <1>3, <1>6, <1>8 DEF Duplicate, height, unit
<1>10. /\ MaxHeight \in Nat /\ h + k <= MaxHeight
       /\ s \in [1 .. MaxHeight -> Object \cup {Null}] /\ refs \in [Object -> Nat]
  BY <1>1, <1>7, <1>8, AtRun
<1>11. \A i \in h - k + 1 .. h : z[i + k] = s[i]
  <2>1. \A i \in h - k + 1 .. h :
          i + k \in 1 .. MaxHeight /\ i + k \in h + 1 .. h + k /\ i + k - k = i
    BY <1>4, <1>10
  <2> QED BY <1>9, <1>10, <2>1
<1>12. z \in [1 .. MaxHeight -> Object \cup {Null}] /\ SameTo(h, s, z)
  <2>1. \A i \in 1 .. MaxHeight : i \in h + 1 .. h + k => i - k \in 1 .. MaxHeight
    BY <1>4, <1>10
  <2>2. \A x \in 1 .. h : x \in 1 .. MaxHeight /\ x \notin h + 1 .. h + k
    BY <1>10
  <2>3. z \in [1 .. MaxHeight -> Object \cup {Null}]
    BY <1>9, <1>10, <2>1
  <2> QED BY <1>9, <1>10, <2>2, <2>3 DEF SameTo
<1>13. Replaced(refs', refs, s, h, h, z, h + k) /\ refs' \in [Object -> Int]
  <2>1. ASSUME NEW o PROVE Holds(s, h + 1, h, o) = 0
    <3>1. h + 1 \in Int /\ h \in Int /\ h < h + 1
      OBVIOUS
    <3> QED BY <3>1, HoldsNone
  <2>2. ASSUME NEW o PROVE Holds(z, h + 1, h + k, o) = Holds(s, h - k + 1, h, o)
    <3>1. PICK lo \in Int : lo = h - k + 1 /\ lo + k = h + 1
      OBVIOUS
    <3>2. h \in Int /\ k \in Int /\ Shifted(s, z, lo, h, k)
      BY <1>11, <3>1 DEF Shifted
    <3>3. PICK a, b : a = h + 1 /\ b = h + k /\ a = lo + k
      BY <3>1
    <3>4. Holds(z, a, b, o) = Holds(s, lo, h, o)
      BY ONLY <3>2, <3>3, HoldsMoved
    <3> QED BY <3>1, <3>3, <3>4
  <2>3. \A o : Holds(s, h - k + 1, h, o) \in Nat
    BY HoldsFinite
  <2>4. ASSUME NEW o \in Object
        PROVE  refs'[o] = refs[o] - 0 + Holds(s, h - k + 1, h, o) /\ refs'[o] \in Int
    BY <1>8, <1>9, <1>10, <2>3, SlotsHold
  <2>5. refs' = [o \in Object |-> refs'[o]]
    BY <1>9
  <2>6. refs' \in [Object -> Int]
    BY <2>4, <2>5
  <2> QED BY <2>1, <2>2, <2>4, <2>6 DEF Replaced
<1>14. Counted(refs', z, sp_map[w], exc_info, NoExc)
  <2>1. Counted(refs, s, h, exc_info, NoExc)
    BY <1>1, <1>2, <1>8, AtRun
  <2>2. h \in Nat /\ h <= h /\ h + k \in Nat /\ h <= h + k
    OBVIOUS
  <2>3. Counted(refs', z, h + k, exc_info, NoExc)
    BY ONLY <1>12, <1>13, <2>1, <2>2, CountReplaced, ObjectsDistinct
  <2> QED BY <1>7, <2>3
<1>15. /\ StackFits(sp_map, nest, nest[w], z, f_blockstack)
       /\ MeansSame(Len(f_blockstack), nest[pc], s, nest[w], z)
  <2>1. /\ Ordered(nest[pc]) /\ StackFits(sp_map, nest, nest[pc], s, f_blockstack)
        /\ nest[pc] \in Seq(Entry) /\ InOrder(nest[pc], h)
    BY <1>1, <1>2, <1>8, AtRun
  <2>2. Passes(nest[pc], nest[pc], h)
    BY <2>1, PassesSelf
  <2> QED BY <1>7, <1>12, <2>1, <2>2, Passed
<1>16. Len(f_blockstack) = Len(nest[w])
  BY <1>1, <1>7, AtRun
<1>17. unit.op \notin HandlerSetups
  BY <1>1 DEF unit, HandlerSetups, Duplications
<1>18. /\ f_blockstack' = f_blockstack /\ f_stackdepth' \in 0 .. MaxHeight /\ exc_info' \in States
       /\ exc_info' = exc_info
  BY <1>1, <1>9, AtRun
<1>19. Inv(nest)'
  BY <1>1, <1>8, <1>9, <1>12, <1>13, <1>14, <1>15, <1>16, <1>17, <1>18, RunsOn
<1>20. pc' = w /\ curexc' = curexc /\ outside' = outside
  BY <1>9 DEF GoOn, static
<1> QED BY <1>8, <1>15, <1>18, <1>19, <1>20 DEF Quiet

LEMMA NextUnit ==
  ASSUME NEW nest, Inv(nest), phase = "run", code[pc].op \notin EndOps, NEW w, w = pc + 1
  PROVE  /\ w \in After(pc) /\ w \in DOMAIN code
         /\ sp_map[w] \in 0 .. MaxHeight /\ sp_map[w] \in Nat
         /\ Ordered(nest[w]) /\ nest[w] \in Seq(Entry)
<1>1. w \in After(pc)
  BY DEF After
<1>2. w \in DOMAIN code /\ Balanced /\ Structured(nest)
  BY <1>1, AtRun
<1> QED BY <1>1, <1>2, Around

\* A rotation refers to what it did: the top of k values goes under the others.
LEMMA CountTurn ==
  ASSUME NEW r, NEW s, NEW t, NEW c, NEW z, NEW d \in Nat, NEW k \in Nat \ {0},
         Counted(r, s, d + k, t, c),
         SameTo(d, s, z), z[d + 1] = s[d + k], \A i \in d + 1 .. d + k - 1 : z[i + 1] = s[i]
  PROVE  Counted(r, z, d + k, t, c)
<1>1. PICK a, e, h \in Nat :
        a = d + 1 /\ e = d + k - 1 /\ h = e + 1 /\ h = d + k /\ d <= e /\ a <= h
  OBVIOUS
<1>2. 1 \in Int /\ a \in Int /\ e \in Int /\ h \in Int /\ d \in Int
  OBVIOUS
<1>3. 1 <= d + 1 /\ 1 <= e + 1 /\ d <= e /\ 1 <= a + 1 /\ a <= h /\ h = e + 1 /\ a = d + 1
  BY ONLY <1>1
<1>4. Shifted(s, z, a, e, 1)
  BY <1>1 DEF Shifted
<1>5. ASSUME NEW o \in Object PROVE Holds(z, 1, h, o) = Holds(s, 1, h, o)
  <2>1. Holds(z, 1, d, o) = Holds(s, 1, d, o)
    BY HoldsTo
  <2>2. Holds(s, 1, h, o) = Holds(s, 1, d, o) + Holds(s, a, e, o) + Is(s[h], o)
    <3>1. Holds(s, 1, e + 1, o) = Holds(s, 1, e, o) + Is(s[e + 1], o)
      BY ONLY <1>2, <1>3, HoldsNext
    <3>2. Holds(s, 1, e, o) = Holds(s, 1, d, o) + Holds(s, d + 1, e, o)
      BY ONLY <1>2, <1>3, HoldsSplit
    <3> QED BY ONLY <1>3, <3>1, <3>2
  <2>3. Holds(z, 1, h, o) = Holds(z, 1, d, o) + Is(z[a], o) + Holds(z, a + 1, h, o)
    <3>1. Holds(z, 1, h, o) = Holds(z, 1, a, o) + Holds(z, a + 1, h, o)
      BY ONLY <1>2, <1>3, HoldsSplit
    <3>2. Holds(z, 1, d + 1, o) = Holds(z, 1, d, o) + Is(z[d + 1], o)
      BY ONLY <1>2, <1>3, HoldsNext
    <3> QED BY ONLY <1>3, <3>1, <3>2
  <2>4. Holds(z, a + 1, h, o) = Holds(s, a, e, o)
    <3>1. PICK b : b = a + 1
      OBVIOUS
    <3>2. Holds(z, b, h, o) = Holds(s, a, e, o)
      BY ONLY <1>2, <1>3, <1>4, <3>1, HoldsMoved
    <3> QED BY ONLY <3>1, <3>2
  <2>5. z[a] = s[h]
    BY <1>1
  <2>6. \A x : Is(x, o) \in Nat
    BY DEF Is
  <2>7. Holds(s, 1, d, o) \in Nat /\ Holds(s, a, e, o) \in Nat
    BY HoldsFinite
  <2> QED BY ONLY <2>1, <2>2, <2>3, <2>4, <2>5, <2>6, <2>7
<1> QED BY <1>1, <1>5 DEF Counted

LEMMA RotateStep ==
  ASSUME Enough, NEW nest, Inv(nest), Rotate
  PROVE  Inv(nest)' /\ Quiet(nest)
<1>1. phase = "run" /\ code[pc].op \in Rotations
  BY DEF Rotate, Running, unit
<1>2. PICK w : w = pc + 1
  OBVIOUS
<1>3. /\ w \in After(pc) /\ w \in DOMAIN code /\ sp_map[w] \in 0 .. MaxHeight /\ Ordered(nest[w])
      /\ nest[w] \in Seq(Entry)
  BY <1>1, <1>2, NextUnit DEF EndOps, Rotations
<1>4. PICK h \in Nat : h = sp_map[pc] /\ h <= MaxHeight
  <2>1. sp_map[pc] \in 0 .. MaxHeight /\ sp_map[pc] \in Nat /\ MaxHeight \in Nat
    BY <1>1, AtRun
  <2> QED BY ONLY <2>1
<1>5. sp_map[w] = h
  BY <1>1, <1>2, <1>4, AtRun, MoveHeight
<1>6. PICK k \in Nat \ {0} : k = RotArg(code[pc].op, code[pc].arg) /\ k <= h
  <2>1. RotArg(code[pc].op, code[pc].arg) \in 1 .. h
    BY <1>1, <1>4, AtRun, MovingUnit
  <2> QED BY <2>1
<1>7. PICK d \in Nat : h = d + k /\ d = h - k
  <2>1. h - k \in Nat
    BY <1>6
  <2> QED BY <2>1
<1>8. PICK s, z : s = slot /\ z = slot'
  OBVIOUS
<1>9. /\ z = [i \in DOMAIN s |-> IF i = h - k + 1 THEN s[h]
                                 ELSE IF i \in h - k + 2 .. h THEN s[i - 1] ELSE s[i]]
      /\ UNCHANGED <<f_stackdepth, f_blockstack, exc_info, refs>> /\ GoOn(w)
  BY <1>2, <1>4, <1>6, <1>8 DEF Rotate, height, unit
<1>10. s \in [1 .. MaxHeight -> Object \cup {Null}] /\ MaxHeight \in Nat
  BY <1>1, <1>8, AtRun
<1>11. \A i \in 1 .. h : i \in 1 .. MaxHeight
  BY <1>4, <1>10
<1>12. \A i \in h - k + 2 .. h : z[i] = s[i - 1]
  <2>1. \A i \in h - k + 2 .. h : i \in 1 .. h /\ i # h - k + 1
    BY <1>6
  <2> QED BY <1>9, <1>10, <1>11, <2>1
<1>13. z[d + 1] = s[d + k]
  <2>1. d + 1 \in 1 .. h /\ d + 1 = h - k + 1 /\ h = d + k
    BY <1>7
  <2> QED BY <1>9, <1>10, <1>11, <2>1
<1>14. \A i \in d + 1 .. d + k - 1 : z[i + 1] = s[i]
  <2>1. \A i \in d + 1 .. d + k - 1 : i + 1 \in h - k + 2 .. h /\ i + 1 - 1 = i
    BY <1>7
  <2> QED BY <1>12, <2>1
<1>15. SameTo(d, s, z)
  <2>1. \A i \in 1 .. d : i \in 1 .. h /\ i # h - k + 1 /\ i \notin h - k + 2 .. h
    BY <1>7
  <2> QED BY <1>9, <1>10, <1>11, <2>1 DEF SameTo
<1>16. z \in [1 .. MaxHeight -> Object \cup {Null}]
  <2>1. \A i \in 1 .. MaxHeight : i \in h - k + 2 .. h => i - 1 \in 1 .. MaxHeight
    BY <1>6, <1>10
  <2>2. h \in 1 .. MaxHeight
    BY <1>6, <1>11
  <2> QED BY <1>9, <1>10, <2>1, <2>2
<1>17. Counted(refs, s, d + k, exc_info, NoExc)
  BY <1>1, <1>4, <1>7, <1>8, AtRun
<1>18. Counted(refs', z, sp_map[w], exc_info', NoExc)
  <2>1. Counted(refs, z, d + k, exc_info, NoExc)
    BY ONLY d \in Nat, k \in Nat \ {0}, <1>13, <1>14, <1>15, <1>17, CountTurn
  <2> QED BY <1>5, <1>7, <1>9, <2>1
<1>19. /\ StackFits(sp_map, nest, nest[w], z, f_blockstack)
       /\ MeansSame(Len(f_blockstack), nest[pc], s, nest[w], z) /\ Len(f_blockstack) = Len(nest[w])
  <2>1. PICK n, m, K : n = nest[pc] /\ m = nest[w] /\ K = f_blockstack
    OBVIOUS
  <2>2. Ordered(n) /\ Ordered(m) /\ StackFits(sp_map, nest, n, s, K) /\ Len(K) = Len(n)
    BY <1>1, <1>3, <1>8, <2>1, AtRun
  <2>3. PICK moves : moves = (code[pc].op = "ROT_FOUR" /\ UnderSaved(n, h))
    OBVIOUS
  <2>4. (~moves => Passes(n, m, d)) /\ (moves => m = Under(n, h))
    BY <1>1, <1>2, <1>4, <1>6, <1>7, <2>1, <2>3, AtRun, MovingUnit
  <2>5. CASE moves
    <3>1. k = 4 /\ UnderSaved(n, h)
      BY <1>6, <2>3, <2>5 DEF RotArg
    <3>2. m = Under(n, h) /\ MovedUp(h, s, z)
      <4>1. \A i \in h - 2 .. h : i \in h - k + 2 .. h
        BY <3>1
      <4> QED BY <1>12, <2>4, <2>5, <4>1 DEF MovedUp
    <3>3. SameTo(h - 4, s, z)
      BY <1>7, <1>15, <3>1
    <3>4. PICK H : H = sp_map
      OBVIOUS
    <3>5. StackFits(H, nest, n, s, K)
      BY <2>2, <3>4
    <3>6. Ordered(n) /\ Ordered(m) /\ Len(K) = Len(n) /\ h \in Nat
      BY <2>2
    <3>7. /\ StackFits(H, nest, m, z, K) /\ Len(K) = Len(m)
          /\ MeansSame(Len(K), n, s, m, z)
      BY ONLY <3>1, <3>2, <3>3, <3>5, <3>6, Turned
    <3> QED BY <2>1, <3>4, <3>7
  <2>6. CASE ~moves
    <3>1. Passes(n, m, d)
      BY <2>4, <2>6
    <3>2. StackFits(sp_map, nest, m, z, K) /\ MeansSame(Len(K), n, s, m, z)
      BY ONLY d \in Nat, <1>15, <2>2, <3>1, Passed
    <3>3. Len(K) = Len(m)
      BY <2>2, <3>1 DEF Passes
    <3> QED BY <2>1, <3>2, <3>3
  <2> QED BY <2>5, <2>6
<1>20. /\ f_blockstack' = f_blockstack /\ f_stackdepth' \in 0 .. MaxHeight /\ exc_info' = exc_info
       /\ exc_info' \in States /\ refs' \in [Object -> Int]
  <2>1. refs \in [Object -> Nat] /\ exc_info \in States /\ f_stackdepth \in 0 .. MaxHeight
    BY <1>1, AtRun
  <2>2. refs \in [Object -> Int]
    BY <2>1
  <2> QED BY <1>9, <2>1, <2>2
<1>21. unit.op \notin HandlerSetups
  BY <1>1 DEF unit, HandlerSetups, Rotations
<1>22. Inv(nest)'
  BY <1>1, <1>3, <1>8, <1>9, <1>16, <1>18, <1>19, <1>20, <1>21, RunsOn
<1>23. pc' = w /\ curexc' = curexc /\ outside' = outside
  BY <1>9 DEF GoOn, static
<1> QED BY <1>8, <1>19, <1>20, <1>22, <1>23 DEF Quiet

\* A block is set up; the rest and the exceptions are as before.
Encloses(nest) ==
  /\ UNCHANGED <<outside, exc_info, curexc>>
  /\ Len(f_blockstack') = Len(f_blockstack) + 1
  /\ MeansSame(Len(f_blockstack), nest[pc], slot, nest[pc'], slot')
  /\ Meant(nest[pc'][Len(f_blockstack')], slot') = ATry

LEMMA SetUpAt ==
  ASSUME NEW nest, Inv(nest), phase = "run", code[pc].op \in HandlerSetups, NEW w, w = pc + 1,
         NEW k \in Nat, Passes(nest[pc], nest[pc], k), NEW z, SameTo(k, slot, z),
         NEW L, L = PushBlock("SETUP_FINALLY", code[pc].to, LevelAt(pc)), LevelAt(pc) \in Nat
  PROVE  /\ StackFits(sp_map, nest, nest[w], z, L) /\ Len(L) = Len(f_blockstack) + 1
         /\ Len(L) = Len(nest[w])
         /\ MeansSame(Len(f_blockstack), nest[pc], slot, nest[w], z)
         /\ Meant(nest[w][Len(L)], z) = ATry
<1>1. PICK l, to : l = LevelAt(pc) /\ to = code[pc].to
  OBVIOUS
<1>2. PICK n, m, K, s, H : n = nest[pc] /\ m = nest[w] /\ K = f_blockstack /\ s = slot /\ H = sp_map
  OBVIOUS
<1>3. l \in Nat /\ to \in Nat
  <2>1. to \in After(pc)
    BY <1>1 DEF After, Branching
  <2>2. to \in DOMAIN code /\ Balanced /\ Structured(nest)
    BY <2>1, AtRun
  <2>3. to \in Nat
    BY <2>2, Around
  <2> QED BY <1>1, <2>3
<1>4. m = Append(n, TryAt(l, to)) /\ nest[to] = Append(n, HandlerAt(l, to))
  BY <1>1, <1>2, AtRun, BlockSetUp
<1>5. Opens(H, nest, n, l, to, m)
  <2>1. H[to] = l + 6
    BY <1>1, <1>2, AtRun, BlockHeight
  <2> QED BY <1>4, <2>1 DEF Opens
<1>6. Ordered(m)
  BY <1>2, NextUnit DEF HandlerSetups, EndOps
<1>7. Ordered(n) /\ StackFits(H, nest, n, s, K) /\ Len(K) = Len(n)
  BY <1>2, AtRun
<1>8. L = Append(K, TryBlock(l, to))
  BY <1>1, <1>2 DEF PushBlock, TryBlock
<1>9. StackFits(H, nest, n, z, K) /\ MeansSame(Len(K), n, s, n, z)
  <2>1. Passes(n, n, k) /\ SameTo(k, s, z) /\ k \in Nat
    BY <1>2
  <2> QED BY ONLY <1>7, <2>1, Passed
<1>10. OneMore(H, nest, n, m, z, K, L)
  BY ONLY <1>3, <1>5, <1>7, <1>8, <1>9, Pushed
<1>11. MeansSame(Len(K), n, s, m, z)
  BY <1>9, <1>10 DEF OneMore, MeansSame
<1> QED BY <1>2, <1>10, <1>11 DEF OneMore

LEMMA SetupTryStep ==
  ASSUME Enough, NEW nest, Inv(nest), SetupTry
  PROVE  Inv(nest)' /\ Encloses(nest)
<1>1. /\ phase = "run" /\ code[pc].op \in {"SETUP_FINALLY", "SETUP_ASYNC_WITH"}
      /\ code[pc].op \in HandlerSetups /\ code[pc].op \notin EndOps
  BY DEF SetupTry, Running, unit, HandlerSetups, EndOps
<1>2. PICK w : w = pc + 1
  OBVIOUS
<1>3. w \in After(pc) /\ w \in DOMAIN code /\ sp_map[w] \in 0 .. MaxHeight
  BY <1>1, <1>2, NextUnit
<1>4. PICK h \in Nat : h = sp_map[pc]
  BY <1>1, AtRun
<1>5. sp_map[w] = h
  BY <1>1, <1>2, <1>4, AtRun, BlockHeight
<1>6. PICK L : L = f_blockstack'
  OBVIOUS
<1>7. /\ L = PushBlock("SETUP_FINALLY", code[pc].to, LevelAt(pc)) /\ GoOn(w)
      /\ UNCHANGED <<f_stackdepth, slot, exc_info, refs>>
  BY <1>2, <1>6 DEF SetupTry, unit, LevelOf, LevelAt, height
<1>8. \E k \in Nat : Passes(nest[pc], nest[pc], k) /\ LevelAt(pc) \in Nat
  <2>1. CASE code[pc].op = "SETUP_FINALLY"
    <3>1. Passes(nest[pc], nest[pc], h)
      BY <1>1, <1>4, AtRun, PassesSelf
    <3> QED BY <1>4, <2>1, <3>1 DEF LevelAt
  <2>2. CASE code[pc].op = "SETUP_ASYNC_WITH"
    <3>1. Passes(nest[pc], nest[pc], h - 1) /\ h > 0
      BY <1>1, <1>4, <2>2, AtRun, BlockSetUp
    <3>2. h - 1 \in Nat
      BY <3>1
    <3> QED BY <1>4, <2>2, <3>1, <3>2 DEF LevelAt
  <2> QED BY <1>1, <2>1, <2>2
<1>9. PICK k \in Nat : Passes(nest[pc], nest[pc], k) /\ LevelAt(pc) \in Nat
  BY <1>8
<1>10. SameTo(k, slot, slot)
  BY DEF SameTo
<1>11. /\ StackFits(sp_map, nest, nest[w], slot, L) /\ Len(L) = Len(f_blockstack) + 1
       /\ Len(L) = Len(nest[w])
       /\ MeansSame(Len(f_blockstack), nest[pc], slot, nest[w], slot)
       /\ Meant(nest[w][Len(L)], slot) = ATry
  BY <1>1, <1>2, <1>7, <1>9, <1>10, SetUpAt
<1>12. /\ Counted(refs', slot', sp_map[w], exc_info', NoExc) /\ refs' \in [Object -> Int]
       /\ slot' \in [1 .. MaxHeight -> Object \cup {Null}]
       /\ exc_info' \in States /\ f_stackdepth' \in 0 .. MaxHeight
  <2>1. refs \in [Object -> Nat] /\ Counted(refs, slot, h, exc_info, NoExc)
    BY <1>1, <1>4, AtRun
  <2>2. refs \in [Object -> Int]
    BY <2>1
  <2> QED BY <1>1, <1>5, <1>7, <2>1, <2>2, AtRun
<1>13. Inv(nest)'
  BY <1>1, <1>2, <1>3, <1>6, <1>7, <1>11, <1>12, RunsOn
<1>14. pc' = w /\ curexc' = curexc /\ outside' = outside /\ exc_info' = exc_info /\ slot' = slot
  BY <1>7 DEF GoOn, static
<1> QED BY <1>6, <1>11, <1>13, <1>14 DEF Encloses

\* There is one more object to allocate, whatever the counts are.
LEMMA OneMoreOther ==
  ASSUME Enough, NEW r, NEW s, NEW h \in 0 .. MaxHeight, NEW t, NEW c, Counted(r, s, h, t, c)
  PROVE  \E o \in Other : r[o] = 0
<1>1. PICK S : /\ IsFiniteSet(S) /\ Cardinality(S) <= MaxHeight + 6
               /\ \A o \in Object : o[1] \notin S => r[o] = 0
  BY FewUsed
<1>2. Cardinality(S) <= MaxHeight + 7
  BY <1>1, FS_CardinalityType, ObjectsDistinct
<1>3. PICK x \in Temp : x \notin S
  BY <1>1, <1>2, OneLeft
<1>4. <<x, "other">> \in Other /\ <<x, "other">>[1] = x /\ Other \subseteq Object
  BY DEF Other, Object
<1> QED BY <1>1, <1>3, <1>4

\* One reference to a less, and the first to x.
Swapped(q, r, a, x) == q = [r EXCEPT ![a] = @ - 1, ![x] = 1]

\* A new object takes the place of the value on top.
LEMMA CountReplace ==
  ASSUME NEW r \in [Object -> Int], NEW s, NEW h \in Nat \ {0}, NEW t, NEW c,
         Counted(r, s, h, t, c), NEW x \in Object, r[x] = 0,
         NEW z, SameTo(h - 1, s, z), z[h] = x,
         NEW q, Swapped(q, r, s[h], x)
  PROVE  Counted(q, z, h, t, c) /\ q \in [Object -> Int]
<1>1. PICK d \in Nat : h = d + 1 /\ d = h - 1
  OBVIOUS
<1>2. PICK a : a = s[h]
  OBVIOUS
<1>3. a # x
  <2>1. Holds(s, 1, h, x) = Holds(s, 1, d, x) + Is(a, x)
    BY <1>1, <1>2, HoldsNext
  <2>2. r[x] = Holds(s, 1, h, x) + InTriple(t, x) + InSet(c, x)
    BY DEF Counted
  <2>3. Holds(s, 1, d, x) \in Nat /\ InTriple(t, x) \in Nat /\ InTriple(c, x) \in Nat
    BY HoldsFinite, ThreeIn DEF Is
  <2>4. InSet(c, x) \in Nat
    BY <2>3 DEF InSet
  <2> QED BY <2>1, <2>2, <2>3, <2>4 DEF Is
<1>4. ASSUME NEW o \in Object PROVE q[o] = r[o] - Is(a, o) + Is(x, o) /\ q[o] \in Int
  BY <1>2, <1>3 DEF Is, Swapped
<1>5. q = [o \in Object |-> q[o]]
  BY DEF Swapped
<1>6. q \in [Object -> Int]
  BY <1>4, <1>5
<1>7. ASSUME NEW o PROVE Holds(s, d + 1, h, o) = Is(a, o)
  <2>1. h \in Int /\ d + 1 = h
    BY <1>1
  <2> QED BY <1>2, <2>1, HoldsOne
<1>8. Changed(q, r, s, d, h, x)
  BY <1>4, <1>7 DEF Changed
<1>9. SameTo(d, s, z) /\ z[d + 1] = x /\ h \in Nat /\ d <= h
  BY <1>1
<1>10. Counted(q, z, d + 1, t, c)
  BY ONLY <1>1, <1>8, <1>9, Counted(r, s, h, t, c), CountPut
<1> QED BY <1>1, <1>6, <1>10

\* One is put on top of the stack.
LEMMA CountNew ==
  ASSUME NEW r \in [Object -> Int], NEW s, NEW h \in Nat, NEW t, NEW c,
         Counted(r, s, h, t, c), NEW x \in Object, r[x] = 0, NEW z, SameTo(h, s, z), z[h + 1] = x,
         NEW q, q = [r EXCEPT ![x] = 1]
  PROVE  Counted(q, z, h + 1, t, c) /\ q \in [Object -> Int]
<1>1. ASSUME NEW o PROVE Holds(s, h + 1, h, o) = 0
  <2>1. h + 1 \in Int /\ h \in Int /\ h < h + 1
    OBVIOUS
  <2> QED BY <2>1, HoldsNone
<1>2. ASSUME NEW o \in Object PROVE q[o] = r[o] - 0 + Is(x, o)
  BY DEF Is
<1>3. Changed(q, r, s, h, h, x)
  BY <1>1, <1>2 DEF Changed
<1>4. h <= h
  OBVIOUS
<1> QED BY <1>3, <1>4, CountPut

LEMMA SetupWithStep ==
  ASSUME Enough, NEW nest, Inv(nest), SetupWith
  PROVE  Inv(nest)' /\ (Encloses(nest) \/ Throws(nest))
<1> DEFINE exit == FreshOther
           with == [refs EXCEPT ![slot[height]] = @ - 1, ![exit] = 1]
           res  == CHOOSE o \in Other : with[o] = 0
<1>0. \/ /\ slot' = [slot EXCEPT ![height] = exit, ![height + 1] = res]
         /\ refs' = [with EXCEPT ![res] = 1]
         /\ f_blockstack' = PushBlock("SETUP_FINALLY", unit.to, height)
         /\ GoOn(pc + 1)
         /\ UNCHANGED <<f_stackdepth, exc_info>>
      \/ RaiseNew
      \/ /\ slot' = [slot EXCEPT ![height] = exit]
         /\ refs' = [o \in Object |-> with[o] + InTriple(FreshExc, o)]
         /\ curexc' = FreshExc
         /\ f_lasti' = pc /\ f_stackdepth' = height /\ phase' = "unwind"
         /\ UNCHANGED <<static, pc, f_blockstack, exc_info>>
  BY DEF SetupWith
<1>1. /\ phase = "run" /\ code[pc].op = "SETUP_WITH"
      /\ code[pc].op \in HandlerSetups /\ code[pc].op \notin EndOps
  BY DEF SetupWith, Running, unit, HandlerSetups, EndOps
<1> HIDE DEF exit, with, res
<1>2. PICK h \in Nat \ {0} : /\ h = sp_map[pc] /\ h \in 1 .. MaxHeight
                             /\ Passes(nest[pc], nest[pc], h - 1)
  <2>1. sp_map[pc] \in 0 .. MaxHeight /\ Nested(nest, pc)
    BY <1>1, AtRun
  <2>2. sp_map[pc] > 0 /\ Passes(nest[pc], nest[pc], sp_map[pc] - 1)
    BY <1>1, <2>1, BlockSetUp
  <2> QED BY <1>1, <2>1, <2>2, AtRun
<1>3. exit \in Other /\ exit \in Object /\ refs[exit] = 0
  BY <1>1, AtRun, Fresh DEF exit, Object
<1>4. with = [refs EXCEPT ![slot[h]] = @ - 1, ![exit] = 1]
  BY <1>2 DEF with, height
<1>5. PICK s1 : s1 = [slot EXCEPT ![h] = exit]
  OBVIOUS
<1>6. /\ slot \in [1 .. MaxHeight -> Object \cup {Null}] /\ refs \in [Object -> Int]
      /\ Counted(refs, slot, h, exc_info, NoExc) /\ MaxHeight \in Nat
  <2>1. refs \in [Object -> Nat]
    BY <1>1, AtRun
  <2>2. refs \in [Object -> Int]
    BY <2>1
  <2> QED BY <1>1, <1>2, <2>2, AtRun
<1>7. s1 \in [1 .. MaxHeight -> Object \cup {Null}] /\ SameTo(h - 1, slot, s1) /\ s1[h] = exit
  <2>1. \A i \in 1 .. h - 1 : i \in 1 .. MaxHeight /\ i # h
    BY <1>2, <1>6
  <2> QED BY <1>2, <1>3, <1>5, <1>6, <2>1 DEF SameTo
<1>8. Counted(with, s1, h, exc_info, NoExc) /\ with \in [Object -> Int]
  <2>1. PICK x, q, r, s : x = exit /\ q = with /\ r = refs /\ s = slot
    OBVIOUS
  <2>2. /\ Swapped(q, r, s[h], x) /\ x \in Object /\ r[x] = 0 /\ s1[h] = x
        /\ r \in [Object -> Int] /\ Counted(r, s, h, exc_info, NoExc) /\ SameTo(h - 1, s, s1)
        /\ h \in Nat \ {0}
    BY <1>3, <1>4, <1>6, <1>7, <2>1 DEF Swapped
  <2>3. Counted(q, s1, h, exc_info, NoExc) /\ q \in [Object -> Int]
    BY ONLY <2>2, CountReplace
  <2> QED BY <2>1, <2>3
<1>9. h - 1 \in Nat /\ LevelAt(pc) = h /\ LevelAt(pc) \in Nat
  BY <1>1, <1>2 DEF LevelAt
<1>10. CASE RaiseNew
  BY <1>1, <1>10, RaiseNewStep DEF unit
<1>11. CASE /\ slot' = s1 /\ refs' = [o \in Object |-> with[o] + InTriple(FreshExc, o)]
            /\ curexc' = FreshExc
            /\ f_lasti' = pc /\ f_stackdepth' = h /\ phase' = "unwind"
            /\ UNCHANGED <<static, pc, f_blockstack, exc_info>>
  <2>1. FreshExc \in Raised
    BY <1>1, AtRun, Fresh DEF Raised
  <2>2. PICK t \in Raised : t = FreshExc
    BY <2>1
  <2>3. Counted(refs', s1, h, exc_info, t) /\ refs' \in [Object -> Int]
    <3>1. \A o \in Object : with[o] \in Int
      BY <1>8
    <3>2. with \in [Object -> Nat]
      <4>1. h \in Int
        OBVIOUS
      <4> QED BY <1>8, <4>1, CountsNatural
    <3> QED BY <1>8, <1>11, <2>2, <3>2, CountSet
  <2>4. /\ StackFits(sp_map, nest, nest[pc], s1, f_blockstack)
        /\ MeansSame(Len(f_blockstack), nest[pc], slot, nest[pc], s1)
    <3>1. Ordered(nest[pc]) /\ StackFits(sp_map, nest, nest[pc], slot, f_blockstack)
      BY <1>1, AtRun
    <3>2. Passes(nest[pc], nest[pc], h - 1) /\ SameTo(h - 1, slot, s1) /\ h - 1 \in Nat
      BY <1>2, <1>7, <1>9
    <3> QED BY ONLY <3>1, <3>2, Passed
  <2>5. f_blockstack # <<>> => Floor(nest[pc][Len(nest[pc])]) <= h
    BY <1>1, <1>2, FloorBelow
  <2>6. f_stackdepth' \in 0 .. MaxHeight /\ f_lasti' \in DOMAIN code /\ unit.op # "POP_EXCEPT"
    BY <1>1, <1>2, <1>11, AtRun DEF unit
  <2>7. Inv(nest)'
    BY <1>1, <1>7, <1>11, <2>2, <2>3, <2>4, <2>5, <2>6, Raises
  <2>8. Throws(nest)
    BY <1>11, <2>2, <2>4 DEF Throws, static
  <2> QED BY <2>7, <2>8
<1>12. CASE /\ slot' = [slot EXCEPT ![h] = exit, ![h + 1] = res]
            /\ refs' = [with EXCEPT ![res] = 1]
            /\ f_blockstack' = PushBlock("SETUP_FINALLY", unit.to, h) /\ GoOn(pc + 1)
            /\ UNCHANGED <<f_stackdepth, exc_info>>
  <2>1. PICK w, L : w = pc + 1 /\ L = f_blockstack'
    OBVIOUS
  <2>2. w \in After(pc) /\ w \in DOMAIN code /\ sp_map[w] \in 0 .. MaxHeight
    BY <1>1, <2>1, NextUnit
  <2>3. sp_map[w] = h + 1
    BY <1>1, <1>2, <2>1, AtRun, BlockHeight
  <2>4. res \in Other /\ with[res] = 0 /\ res \in Object
    <3>1. \E o \in Other : with[o] = 0
      <4>1. h \in 0 .. MaxHeight
        BY <1>2
      <4> QED BY <1>8, <4>1, OneMoreOther
    <3> QED BY <3>1 DEF Object, res
  <2>5. /\ slot' \in [1 .. MaxHeight -> Object \cup {Null}] /\ SameTo(h, s1, slot')
        /\ slot'[h + 1] = res /\ SameTo(h - 1, slot, slot')
    <3>1. slot' = [s1 EXCEPT ![h + 1] = res]
      BY <1>5, <1>6, <1>12
    <3>2. h + 1 \in 1 .. MaxHeight
      BY <2>2, <2>3
    <3>3. \A i \in 1 .. h : i \in 1 .. MaxHeight /\ i # h + 1
      BY <1>2, <1>6
    <3>4. slot' \in [1 .. MaxHeight -> Object \cup {Null}] /\ slot'[h + 1] = res
      BY <1>7, <2>4, <3>1, <3>2
    <3>5. SameTo(h, s1, slot')
      BY <1>7, <3>1, <3>3 DEF SameTo
    <3>6. SameTo(h - 1, slot, slot')
      BY <1>7, <3>5 DEF SameTo
    <3> QED BY <3>4, <3>5, <3>6
  <2>6. Counted(refs', slot', h + 1, exc_info, NoExc) /\ refs' \in [Object -> Int]
    <3>1. PICK x, q, z : x = res /\ q = refs' /\ z = slot'
      OBVIOUS
    <3>2. PICK p, n : p = with /\ n = h
      OBVIOUS
    <3>3. /\ p \in [Object -> Int] /\ n \in Nat /\ Counted(p, s1, n, exc_info, NoExc)
          /\ x \in Object
          /\ p[x] = 0 /\ SameTo(n, s1, z) /\ z[n + 1] = x /\ q = [p EXCEPT ![x] = 1]
      BY <1>8, <1>12, <2>4, <2>5, <3>1, <3>2
    <3>4. Counted(q, z, n + 1, exc_info, NoExc) /\ q \in [Object -> Int]
      BY ONLY <3>3, CountNew
    <3> QED BY <3>1, <3>2, <3>4
  <2>7. L = PushBlock("SETUP_FINALLY", code[pc].to, LevelAt(pc))
    BY <1>9, <1>12, <2>1 DEF unit
  <2>8. /\ StackFits(sp_map, nest, nest[w], slot', L) /\ Len(L) = Len(f_blockstack) + 1
        /\ Len(L) = Len(nest[w])
        /\ MeansSame(Len(f_blockstack), nest[pc], slot, nest[w], slot')
        /\ Meant(nest[w][Len(L)], slot') = ATry
    BY <1>1, <1>2, <1>9, <2>1, <2>5, <2>7, SetUpAt
  <2>9. exc_info' \in States /\ f_stackdepth' \in 0 .. MaxHeight /\ exc_info' = exc_info
    BY <1>1, <1>12, AtRun
  <2>10. Inv(nest)'
    BY <1>1, <1>12, <2>1, <2>2, <2>3, <2>5, <2>6, <2>8, <2>9, RunsOn
  <2>11. pc' = w /\ curexc' = curexc /\ outside' = outside
    BY <1>12, <2>1 DEF GoOn, static
  <2> QED BY <2>1, <2>8, <2>9, <2>10, <2>11 DEF Encloses
<1> QED BY <1>0, <1>2, <1>5, <1>10, <1>11, <1>12 DEF height

\* A block is left, and the exceptions are as before.
Leaves(nest) ==
  /\ UNCHANGED <<outside, exc_info, curexc>> /\ f_blockstack # <<>>
  /\ Len(f_blockstack') = Len(f_blockstack) - 1
  /\ MeansSame(Len(f_blockstack'), nest[pc], slot, nest[pc'], slot')
  /\ nest[pc][Len(f_blockstack)].try

LEMMA PopAt ==
  ASSUME NEW nest, Inv(nest), phase = "run",
         code[pc].op \in {"POP_BLOCK", "POP_EXCEPT", "END_ASYNC_FOR"}, NEW w, w = pc + 1,
         NEW L, L = BlocksLeft
  PROVE  /\ StackFits(sp_map, nest, nest[w], slot, L) /\ Len(L) = Len(f_blockstack) - 1
         /\ Len(L) = Len(nest[w]) /\ f_blockstack # <<>>
         /\ MeansSame(Len(L), nest[pc], slot, nest[w], slot)
         /\ code[pc].op = "POP_BLOCK" => nest[pc][Len(f_blockstack)].try
         /\ code[pc].op # "POP_BLOCK" => ~nest[pc][Len(f_blockstack)].try
<1>1. PICK n, m, K, s : n = nest[pc] /\ m = nest[w] /\ K = f_blockstack /\ s = slot
  OBVIOUS
<1>2. /\ n # <<>> /\ m = SubSeq(n, 1, Len(n) - 1)
      /\ code[pc].op = "POP_BLOCK" => n[Len(n)].try
      /\ code[pc].op # "POP_BLOCK" => ~n[Len(n)].try
  BY <1>1, AtRun, BlockLeft
<1>3. n \in Seq(Entry) /\ StackFits(sp_map, nest, n, s, K) /\ Len(K) = Len(n)
  BY <1>1, AtRun
<1>4. L = SubSeq(K, 1, Len(K) - 1)
  BY <1>1 DEF BlocksLeft
<1>5. OneLess(sp_map, nest, n, m, s, K, L)
  BY ONLY <1>2, <1>3, <1>4, Popped
<1>6. K # <<>>
  BY <1>2, <1>3, EmptySeq
<1> QED BY <1>1, <1>2, <1>3, <1>5, <1>6 DEF OneLess

LEMMA PopBlockStep ==
  ASSUME Enough, NEW nest, Inv(nest), PopBlock
  PROVE  Inv(nest)' /\ Leaves(nest)
<1>1. phase = "run" /\ code[pc].op = "POP_BLOCK" /\ code[pc].op \notin EndOps
  BY DEF PopBlock, Running, unit, EndOps
<1>2. PICK w, L : w = pc + 1 /\ L = f_blockstack'
  OBVIOUS
<1>3. w \in After(pc) /\ w \in DOMAIN code /\ sp_map[w] \in 0 .. MaxHeight
  BY <1>1, <1>2, NextUnit
<1>4. sp_map[w] = sp_map[pc]
  BY <1>1, <1>2, AtRun, BlockHeight
<1>5. L = BlocksLeft /\ GoOn(w) /\ UNCHANGED <<f_stackdepth, slot, exc_info, refs>>
  BY <1>2 DEF PopBlock
<1>6. /\ StackFits(sp_map, nest, nest[w], slot, L) /\ Len(L) = Len(f_blockstack) - 1
      /\ Len(L) = Len(nest[w]) /\ f_blockstack # <<>>
      /\ MeansSame(Len(L), nest[pc], slot, nest[w], slot)
      /\ nest[pc][Len(f_blockstack)].try
  BY <1>1, <1>2, <1>5, PopAt
<1>7. /\ Counted(refs', slot', sp_map[w], exc_info', NoExc) /\ refs' \in [Object -> Int]
      /\ slot' \in [1 .. MaxHeight -> Object \cup {Null}]
      /\ exc_info' \in States /\ f_stackdepth' \in 0 .. MaxHeight
  <2>1. refs \in [Object -> Nat]
    BY <1>1, AtRun
  <2>2. refs \in [Object -> Int]
    BY <2>1
  <2> QED BY <1>1, <1>4, <1>5, <2>2, AtRun
<1>8. unit.op \notin HandlerSetups
  BY <1>1 DEF unit, HandlerSetups
<1>9. Inv(nest)'
  BY <1>1, <1>2, <1>3, <1>5, <1>6, <1>7, <1>8, RunsOn
<1>10. pc' = w /\ curexc' = curexc /\ outside' = outside /\ exc_info' = exc_info /\ slot' = slot
  BY <1>5 DEF GoOn, static
<1> QED BY <1>2, <1>6, <1>9, <1>10 DEF Leaves

\* The exception on top of the stack is set.
LEMMA CountTake ==
  ASSUME NEW r, NEW s, NEW t, NEW d \in Nat, Counted(r, s, d + 3, t, NoExc),
         NEW c \in Raised, c = Saved(s, d)
  PROVE  Counted(r, s, d, t, c)
<1>1. c # NoExc
  BY Triples DEF Raised
<1>2. ASSUME NEW o \in Object PROVE r[o] = Holds(s, 1, d, o) + InTriple(t, o) + InSet(c, o)
  <2>1. Holds(s, 1, d + 3, o) =
          Holds(s, 1, d, o) + Is(s[d + 1], o) + Is(s[d + 2], o) + Is(s[d + 3], o)
    BY HoldsThree
  <2>2. InSet(c, o) = Is(c[1], o) + Is(c[2], o) + Is(c[3], o) /\ InSet(NoExc, o) = 0
    BY <1>1, ThreeIn DEF InSet
  <2>3. c[1] = s[d + 3] /\ c[2] = s[d + 2] /\ c[3] = s[d + 1]
    BY DEF Saved
  <2>4. r[o] = Holds(s, 1, d + 3, o) + InTriple(t, o) + InSet(NoExc, o)
    BY DEF Counted
  <2>5. Holds(s, 1, d, o) \in Nat /\ InTriple(t, o) \in Nat /\ \A x : Is(x, o) \in Nat
    BY HoldsFinite, ThreeIn DEF Is
  <2> QED BY <2>1, <2>2, <2>3, <2>4, <2>5
<1> QED BY <1>2 DEF Counted

\* What is held is released, with the slots above those that restore it.
Released(q, r, t, s, d, h) ==
  \A o \in Object : q[o] = r[o] - InTriple(t, o) - Holds(s, d + 4, h, o)

LEMMA CountRestore ==
  ASSUME NEW r, NEW s, NEW h \in Nat, NEW t, NEW c, Counted(r, s, h, t, c),
         NEW d \in Nat, d + 3 <= h, NEW q, Released(q, r, t, s, d, h)
  PROVE  Counted(q, s, d, Saved(s, d), c)
<1>1. PICK u : u = Saved(s, d)
  OBVIOUS
<1>2. ASSUME NEW o \in Object PROVE q[o] = Holds(s, 1, d, o) + InTriple(u, o) + InSet(c, o)
  <2>1. Holds(s, 1, d + 3, o) =
          Holds(s, 1, d, o) + Is(s[d + 1], o) + Is(s[d + 2], o) + Is(s[d + 3], o)
    BY HoldsThree
  <2>2. Holds(s, 1, h, o) = Holds(s, 1, d + 3, o) + Holds(s, d + 4, h, o)
    <3>1. PICK m \in Nat : m = d + 3
      OBVIOUS
    <3>2. m <= h /\ 1 <= m + 1 /\ m \in Int /\ h \in Int /\ 1 \in Int
      BY <3>1
    <3>3. Holds(s, 1, h, o) = Holds(s, 1, m, o) + Holds(s, m + 1, h, o)
      BY ONLY <3>2, HoldsSplit
    <3>4. m + 1 = d + 4
      BY <3>1
    <3> QED BY <3>1, <3>3, <3>4
  <2>3. InTriple(u, o) = Is(s[d + 3], o) + Is(s[d + 2], o) + Is(s[d + 1], o)
    <3>1. u[1] = s[d + 3] /\ u[2] = s[d + 2] /\ u[3] = s[d + 1]
      BY <1>1 DEF Saved
    <3> QED BY <3>1, ThreeIn
  <2>4. /\ r[o] = Holds(s, 1, h, o) + InTriple(t, o) + InSet(c, o)
        /\ q[o] = r[o] - InTriple(t, o) - Holds(s, d + 4, h, o)
    BY DEF Counted, Released
  <2>5. /\ Holds(s, 1, d, o) \in Nat /\ Holds(s, d + 4, h, o) \in Nat
        /\ InTriple(t, o) \in Nat /\ InTriple(c, o) \in Nat /\ \A x : Is(x, o) \in Nat
    BY HoldsFinite, ThreeIn DEF Is
  <2>6. InSet(c, o) \in Nat
    BY <2>5 DEF InSet
  <2>7. \A x : Is(x, o) \in Int
    BY DEF Is
  <2> QED BY <2>1, <2>2, <2>3, <2>4, <2>5, <2>6, <2>7
<1> QED BY <1>1, <1>2 DEF Counted

\* A handler is left: the exception it saved is handled again.
Restores(nest) ==
  /\ UNCHANGED <<outside, curexc>> /\ f_blockstack # <<>>
  /\ Len(f_blockstack') = Len(f_blockstack) - 1
  /\ MeansSame(Len(f_blockstack'), nest[pc], slot, nest[pc'], slot')
  /\ ~nest[pc][Len(f_blockstack)].try
  /\ exc_info' = Saved(slot, nest[pc][Len(f_blockstack)].saved)

\* What a handler saved is an exception or nothing.
LEMMA SavedIs ==
  ASSUME NEW H, NEW nest, NEW n, NEW s, NEW K, StackFits(H, nest, n, s, K),
         NEW k \in 1 .. Len(K), ~n[k].try
  PROVE  /\ Saved(s, n[k].saved) \in States
         /\ Saved(s, n[k].saved) \in Raised \cup {<<None, Null, Null>>}
         /\ K[k].b_level = n[k].level /\ K[k].b_type = "EXCEPT_HANDLER"
         /\ n[k].keeps = n[k].level + 6 => Saved(s, n[k].level + 3) \in Raised
<1>1. Fits(H, nest, n, k, s, K[k])
  BY DEF StackFits
<1>2. /\ Saved(s, n[k].saved) \in Raised \cup {<<None, Null, Null>>}
      /\ K[k].b_level = n[k].level /\ K[k].b_type = "EXCEPT_HANDLER"
      /\ n[k].keeps = n[k].level + 6 => Saved(s, n[k].level + 3) \in Raised
  BY <1>1 DEF Fits
<1>3. Raised \subseteq States
  BY DEF Raised, States
<1> QED BY <1>2, <1>3, NoTriples

LEMMA PopExceptStep ==
  ASSUME Enough, NEW nest, Inv(nest), PopExcept
  PROVE  Inv(nest)' /\ Restores(nest)
<1>1. phase = "run" /\ code[pc].op = "POP_EXCEPT" /\ code[pc].op \notin EndOps
  BY DEF PopExcept, Running, unit, EndOps
<1>2. PICK w, L : w = pc + 1 /\ L = f_blockstack'
  OBVIOUS
<1>3. w \in After(pc) /\ w \in DOMAIN code /\ sp_map[w] \in 0 .. MaxHeight
  BY <1>1, <1>2, NextUnit
<1>4. PICK h \in Nat : h = sp_map[pc] /\ h <= MaxHeight
  BY <1>1, AtRun
<1>5. /\ L = BlocksLeft /\ exc_info' = <<slot[h], slot[h - 1], slot[h - 2]>>
      /\ refs' = [o \in Object |-> refs[o] - InTriple(exc_info, o) - InSlots(h + 1, h, o)]
      /\ f_stackdepth' = h - 3 /\ GoOn(w) /\ UNCHANGED slot
  BY <1>2, <1>4 DEF PopExcept, Restore, height
<1>6. /\ StackFits(sp_map, nest, nest[w], slot, L) /\ Len(L) = Len(f_blockstack) - 1
      /\ Len(L) = Len(nest[w]) /\ f_blockstack # <<>>
      /\ MeansSame(Len(L), nest[pc], slot, nest[w], slot)
      /\ ~nest[pc][Len(f_blockstack)].try
  BY <1>1, <1>2, <1>5, PopAt
<1>7. PICK k, e : k = Len(f_blockstack) /\ e = nest[pc][k]
  OBVIOUS
<1>8. k \in 1 .. Len(f_blockstack) /\ k = Len(nest[pc])
  BY <1>1, <1>6, <1>7, AtRun, EmptySeq
<1>9. h = e.saved + 3
  BY <1>1, <1>4, <1>7, <1>8, AtRun, BlockLeft
<1>10. e \in Entry /\ e.saved \in Nat
  <2>1. Ordered(nest[pc])
    BY <1>1, AtRun
  <2> QED BY <1>7, <1>8, <2>1, InOrderAt DEF Entry
<1>11. PICK d \in Nat : d = e.saved /\ h = d + 3
  BY <1>9, <1>10
<1>12. exc_info' = Saved(slot, d)
  <2>1. h - 1 = d + 2 /\ h - 2 = d + 1 /\ h = d + 3
    BY <1>11
  <2> QED BY <1>5, <2>1 DEF Saved
<1>13. exc_info' \in States
  <2>1. StackFits(sp_map, nest, nest[pc], slot, f_blockstack)
    BY <1>1, AtRun
  <2>2. Saved(slot, nest[pc][k].saved) \in States
    BY <1>6, <1>7, <1>8, <2>1, SavedIs
  <2> QED BY <1>7, <1>11, <1>12, <2>2
<1>14. Counted(refs', slot, d, exc_info', NoExc)
  <2>1. Counted(refs, slot, h, exc_info, NoExc)
    BY <1>1, <1>4, AtRun
  <2>2. Released(refs', refs, exc_info, slot, d, h)
    <3>1. h + 1 = d + 4
      BY <1>11
    <3> QED BY <1>5, <3>1, SlotsHold DEF Released
  <2> QED BY <1>11, <1>12, <2>1, <2>2, CountRestore
<1>15. refs' \in [Object -> Int]
  <2>1. refs \in [Object -> Nat]
    BY <1>1, AtRun
  <2>2. ASSUME NEW o PROVE Holds(slot, h + 1, h, o) \in Nat /\ InTriple(exc_info, o) \in Nat
    BY HoldsFinite, ThreeIn DEF Is
  <2> QED BY <1>5, <2>1, <2>2, SlotsHold
<1>16. sp_map[w] = d
  <2>1. sp_map[w] = h - 3
    BY <1>1, <1>2, <1>4, AtRun, BlockHeight
  <2> QED BY <1>11, <2>1
<1>17. unit.op \notin HandlerSetups
  BY <1>1 DEF unit, HandlerSetups
<1>18. slot' \in [1 .. MaxHeight -> Object \cup {Null}] /\ f_stackdepth' \in 0 .. MaxHeight
  <2>1. h - 3 \in 0 .. MaxHeight
    BY <1>3, <1>11, <1>16
  <2> QED BY <1>1, <1>5, <2>1, AtRun
<1>19. Inv(nest)'
  BY <1>1, <1>2, <1>3, <1>5, <1>6, <1>13, <1>14, <1>15, <1>16, <1>17, <1>18, RunsOn
<1>20. pc' = w /\ curexc' = curexc /\ outside' = outside /\ slot' = slot
  BY <1>5 DEF GoOn, static
<1> QED BY <1>2, <1>6, <1>7, <1>11, <1>12, <1>19, <1>20 DEF Restores

\* RERAISE and END_ASYNC_FOR run in a handler, with only its six values above.
LEMMA InHandlerTop ==
  ASSUME NEW nest, Inv(nest), phase = "run", code[pc].op \in {"RERAISE", "END_ASYNC_FOR"},
         NEW l, l = TopBlock.b_level
  PROVE  /\ l \in Nat /\ sp_map[pc] = l + 6 /\ f_blockstack # <<>>
         /\ Saved(slot, l) \in States /\ Saved(slot, l + 3) \in Raised
         /\ Floor(nest[pc][Len(nest[pc])]) = l + 3
         /\ ~nest[pc][Len(f_blockstack)].try /\ nest[pc][Len(f_blockstack)].saved = l
<1>1. PICK k, e : k = Len(f_blockstack) /\ e = nest[pc][k]
  OBVIOUS
<1>2. k = Len(nest[pc]) /\ f_blockstack \in Seq(Block)
  BY <1>1, AtRun
<1>3. nest[pc] # <<>> /\ ~e.try /\ sp_map[pc] = e.level + 6 /\ e.keeps = sp_map[pc]
  BY <1>1, <1>2, AtRun, HandlerTop
<1>4. k \in 1 .. Len(nest[pc]) /\ k \in 1 .. Len(f_blockstack)
  BY <1>1, <1>2, <1>3, AtRun, EmptySeq
<1>5. f_blockstack # <<>>
  BY <1>1, <1>4
<1>6. e \in Entry /\ e.level \in Nat
  <2>1. Ordered(nest[pc])
    BY AtRun
  <2> QED BY <1>1, <1>4, <2>1, InOrderAt DEF Entry
<1>7. e.saved = e.level
  <2>1. Nested(nest, pc) /\ code[pc].op # "POP_EXCEPT"
    BY AtRun
  <2> QED BY <1>1, <1>4, <2>1, SavedAtLevel
<1>8. /\ Saved(slot, e.saved) \in States /\ f_blockstack[k].b_level = e.level
      /\ e.keeps = e.level + 6 => Saved(slot, e.level + 3) \in Raised
  <2>1. StackFits(sp_map, nest, nest[pc], slot, f_blockstack)
    BY AtRun
  <2> QED BY <1>1, <1>3, <1>4, <2>1, SavedIs
<1>9. l = e.level
  BY <1>1, <1>8 DEF TopBlock
<1>10. Floor(e) = l + 3
  BY <1>3, <1>9 DEF Floor
<1> QED BY <1>1, <1>2, <1>3, <1>5, <1>6, <1>7, <1>8, <1>9, <1>10

\* The exception on top of the stack is set again, and the handler is unwound.
LEMMA TakeStep ==
  ASSUME NEW nest, Inv(nest), phase = "run", code[pc].op \in {"RERAISE", "END_ASYNC_FOR"},
         NEW h, h = sp_map[pc],
         curexc' = <<slot[h], slot[h - 1], slot[h - 2]>>, f_stackdepth' = h - 3, f_lasti' = pc,
         phase' = "unwind", UNCHANGED <<static, pc, slot, f_blockstack, exc_info, refs>>
  PROVE  Inv(nest)' /\ Throws(nest)
<1>1. PICK l : l = TopBlock.b_level
  OBVIOUS
<1>2. /\ l \in Nat /\ h = l + 6 /\ f_blockstack # <<>> /\ Saved(slot, l + 3) \in Raised
      /\ Floor(nest[pc][Len(nest[pc])]) = l + 3
  BY <1>1, InHandlerTop
<1>3. PICK d \in Nat : d = l + 3 /\ h = d + 3 /\ h - 3 = d
  BY <1>2
<1>4. PICK c \in Raised : c = Saved(slot, d)
  BY <1>2, <1>3
<1>5. curexc' = c
  <2>1. h = d + 3 /\ h - 1 = d + 2 /\ h - 2 = d + 1
    BY <1>3
  <2> QED BY <1>4, <2>1 DEF Saved
<1>6. Counted(refs', slot', f_stackdepth', exc_info, curexc')
  <2>1. Counted(refs, slot, d + 3, exc_info, NoExc)
    BY <1>3, AtRun
  <2>2. Counted(refs, slot, d, exc_info, c)
    BY <1>4, <2>1, CountTake
  <2> QED BY <1>3, <1>5, <2>2
<1>7. refs' \in [Object -> Int]
  <2>1. refs \in [Object -> Nat]
    BY AtRun
  <2> QED BY <2>1
<1>8. f_stackdepth' \in 0 .. MaxHeight
  <2>1. h \in 0 .. MaxHeight /\ MaxHeight \in Nat
    BY AtRun
  <2> QED BY <1>3, <2>1
<1>9. f_lasti' \in DOMAIN code /\ slot' \in [1 .. MaxHeight -> Object \cup {Null}]
  BY AtRun
<1>10. StackFits(sp_map, nest, nest[pc], slot', f_blockstack)
  BY AtRun
<1>11. Floor(nest[pc][Len(nest[pc])]) <= f_stackdepth'
  BY <1>2, <1>3
<1>12. unit.op # "POP_EXCEPT"
  BY DEF unit
<1>13. Inv(nest)'
  BY <1>4, <1>5, <1>6, <1>7, <1>8, <1>9, <1>10, <1>11, <1>12, Raises
<1>14. MeansSame(Len(f_blockstack), nest[pc], slot, nest[pc'], slot')
  BY DEF MeansSame
<1> QED BY <1>4, <1>5, <1>13, <1>14 DEF Throws, static

LEMMA ReraiseStep ==
  ASSUME Enough, NEW nest, Inv(nest), Reraise
  PROVE  Inv(nest)' /\ Throws(nest)
<1>1. phase = "run" /\ code[pc].op = "RERAISE"
  BY DEF Reraise, Running, unit
<1>2. code[pc].arg = 0
  BY <1>1, AtRun, HandlerTop
<1>3. ReraiseLasti = pc
  BY <1>2 DEF ReraiseLasti, unit
<1>4. PICK h : h = sp_map[pc]
  OBVIOUS
<1>5. /\ curexc' = <<slot[h], slot[h - 1], slot[h - 2]>> /\ f_stackdepth' = h - 3 /\ f_lasti' = pc
      /\ phase' = "unwind" /\ UNCHANGED <<static, pc, slot, f_blockstack, exc_info, refs>>
  BY <1>3, <1>4 DEF Reraise
<1> QED BY <1>1, <1>4, <1>5, TakeStep

\* The iterator under the handler is released too.
LEMMA CountLoopEnd ==
  ASSUME NEW r \in [Object -> Nat], NEW s, NEW l \in Nat \ {0}, NEW t, NEW c,
         Counted(r, s, l + 6, t, c),
         NEW q, q = [o \in Object |-> r[o] - InTriple(t, o) - Holds(s, l + 4, l + 6, o)
                                        - Holds(s, l, l, o)]
  PROVE  Counted(q, s, l - 1, Saved(s, l), c) /\ q \in [Object -> Int]
<1>1. ASSUME NEW o
      PROVE  /\ Holds(s, l + 4, l + 6, o) \in Nat /\ Holds(s, l, l, o) \in Nat
             /\ InTriple(t, o) \in Nat
  BY HoldsFinite, ThreeIn DEF Is
<1>2. PICK p : p = [o \in Object |-> r[o] - InTriple(t, o) - Holds(s, l + 4, l + 6, o)]
  OBVIOUS
<1>3. Released(p, r, t, s, l, l + 6)
  BY <1>2 DEF Released
<1>4. PICK h \in Nat : h = l + 6 /\ l + 3 <= h
  OBVIOUS
<1>5. Counted(p, s, l, Saved(s, l), c)
  BY <1>3, <1>4, CountRestore
<1>6. PICK d \in Nat : d = l - 1 /\ d <= l /\ d + 1 = l
  OBVIOUS
<1>7. ASSUME NEW o \in Object PROVE q[o] = p[o] - Holds(s, d + 1, l, o) + Is(Null, o)
  <2>1. Is(Null, o) = 0
    BY ObjectsDistinct DEF Is
  <2>2. q[o] = p[o] - Holds(s, l, l, o) /\ p[o] \in Int
    BY <1>1, <1>2
  <2> QED BY <1>1, <1>6, <2>1, <2>2
<1>8. Changed(q, p, s, d, l, Null)
  BY <1>7 DEF Changed
<1>9. SameTo(d, s, s)
  BY DEF SameTo
<1>10. Counted(q, s, d, Saved(s, l), c)
  <2>1. PICK u : u = Saved(s, l)
    OBVIOUS
  <2>2. Counted(p, s, l, u, c) /\ l \in Nat
    BY <1>5, <2>1
  <2>3. Counted(q, s, d, u, c)
    BY ONLY <1>6, <1>8, <1>9, <2>2, d \in Nat, CountDrop, ObjectsDistinct
  <2> QED BY <2>1, <2>3
<1>11. q \in [Object -> Int]
  BY <1>1
<1> QED BY <1>6, <1>10, <1>11

LEMMA EndAsyncForStep ==
  ASSUME Enough, NEW nest, Inv(nest), EndAsyncFor
  PROVE  Inv(nest)' /\ (Restores(nest) \/ Throws(nest))
<1> DEFINE d == TopBlock.b_level + 3
<1>0. \/ /\ f_blockstack' = BlocksLeft
         /\ exc_info' = <<slot[d], slot[d - 1], slot[d - 2]>>
         /\ refs' = [o \in Object |-> refs[o] - InTriple(exc_info, o)
                                        - InSlots(d + 1, f_stackdepth, o)
                                        - InSlots(d - 3, d - 3, o)]
         /\ f_stackdepth' = d - 4
         /\ GoOn(pc + 1)
         /\ UNCHANGED slot
      \/ /\ curexc' = <<slot[f_stackdepth], slot[f_stackdepth - 1], slot[f_stackdepth - 2]>>
         /\ f_stackdepth' = f_stackdepth - 3 /\ f_lasti' = pc /\ phase' = "unwind"
         /\ UNCHANGED <<static, pc, slot, f_blockstack, exc_info, refs>>
  BY DEF EndAsyncFor
<1> HIDE DEF d
<1>1. phase = "run" /\ code[pc].op = "END_ASYNC_FOR" /\ code[pc].op \notin EndOps
  BY DEF EndAsyncFor, Running, unit, EndOps
<1>2. PICK l : l = TopBlock.b_level
  OBVIOUS
<1>3. /\ l \in Nat /\ sp_map[pc] = l + 6 /\ f_blockstack # <<>> /\ Saved(slot, l) \in States
      /\ ~nest[pc][Len(f_blockstack)].try /\ nest[pc][Len(f_blockstack)].saved = l
  BY <1>1, <1>2, InHandlerTop
<1>4. f_stackdepth = l + 6 /\ d = l + 3
  BY <1>1, <1>2, <1>3 DEF Inv, Phases, unit, height, d
<1>5. CASE /\ f_blockstack' = BlocksLeft
           /\ exc_info' = <<slot[d], slot[d - 1], slot[d - 2]>>
           /\ refs' = [o \in Object |-> refs[o] - InTriple(exc_info, o)
                                          - InSlots(d + 1, f_stackdepth, o)
                                          - InSlots(d - 3, d - 3, o)]
           /\ f_stackdepth' = d - 4
           /\ GoOn(pc + 1)
           /\ UNCHANGED slot
  <2>1. PICK w, L : w = pc + 1 /\ L = f_blockstack'
    OBVIOUS
  <2>2. w \in After(pc) /\ w \in DOMAIN code /\ sp_map[w] \in 0 .. MaxHeight
    BY <1>1, <2>1, NextUnit
  <2>3. sp_map[w] = l - 1 /\ l \in Nat \ {0}
    <3>1. sp_map[w] = l + 6 - 7
      BY <1>1, <1>3, <2>1, AtRun, BlockHeight
    <3> QED BY <1>3, <2>2, <3>1
  <2>4. exc_info' = Saved(slot, l)
    <3>1. d = l + 3 /\ d - 1 = l + 2 /\ d - 2 = l + 1
      BY <1>3, <1>4
    <3> QED BY <1>5, <3>1 DEF Saved
  <2>5. refs' = [o \in Object |-> refs[o] - InTriple(exc_info, o) - Holds(slot, l + 4, l + 6, o)
                                    - Holds(slot, l, l, o)]
    <3>1. d + 1 = l + 4 /\ d - 3 = l
      BY <1>3, <1>4
    <3> QED BY <1>4, <1>5, <3>1, SlotsHold
  <2>6. Counted(refs', slot, l - 1, exc_info', NoExc) /\ refs' \in [Object -> Int]
    <3>1. PICK q, r, s, t : q = refs' /\ r = refs /\ s = slot /\ t = exc_info
      OBVIOUS
    <3>2. Counted(r, s, l + 6, t, NoExc) /\ r \in [Object -> Nat]
      BY <1>1, <1>3, <3>1, AtRun
    <3>3. q = [o \in Object |-> r[o] - InTriple(t, o) - Holds(s, l + 4, l + 6, o)
                                    - Holds(s, l, l, o)]
      BY <2>5, <3>1
    <3>4. Counted(q, s, l - 1, Saved(s, l), NoExc) /\ q \in [Object -> Int]
      BY <2>3, <3>2, <3>3, CountLoopEnd
    <3> QED BY <2>4, <3>1, <3>4
  <2>7. /\ StackFits(sp_map, nest, nest[w], slot, L) /\ Len(L) = Len(f_blockstack) - 1
        /\ Len(L) = Len(nest[w])
        /\ MeansSame(Len(L), nest[pc], slot, nest[w], slot)
    BY <1>1, <1>5, <2>1, PopAt
  <2>8. f_stackdepth' \in 0 .. MaxHeight
    <3>1. d - 4 = l - 1
      BY <1>3, <1>4
    <3> QED BY <1>5, <2>2, <2>3, <3>1
  <2>9. unit.op \notin HandlerSetups
    BY <1>1 DEF unit, HandlerSetups
  <2>10. slot' \in [1 .. MaxHeight -> Object \cup {Null}] /\ slot' = slot
    BY <1>1, <1>5, AtRun
  <2>11. GoOn(w) /\ exc_info' \in States
    BY <1>3, <1>5, <2>1, <2>4
  <2>12. Inv(nest)'
    BY <1>1, <2>1, <2>2, <2>3, <2>6, <2>7, <2>8, <2>9, <2>10, <2>11, RunsOn
  <2>13. pc' = w /\ curexc' = curexc /\ outside' = outside
    BY <2>11 DEF GoOn, static
  <2> QED BY <1>3, <2>1, <2>4, <2>7, <2>10, <2>12, <2>13 DEF Restores
<1>6. CASE /\ curexc' = <<slot[f_stackdepth], slot[f_stackdepth - 1], slot[f_stackdepth - 2]>>
           /\ f_stackdepth' = f_stackdepth - 3 /\ f_lasti' = pc /\ phase' = "unwind"
           /\ UNCHANGED <<static, pc, slot, f_blockstack, exc_info, refs>>
  <2>1. PICK h : h = sp_map[pc] /\ h = f_stackdepth
    BY <1>3, <1>4
  <2> QED BY <1>1, <1>6, <2>1, TakeStep
<1> QED BY <1>0, <1>5, <1>6

-----------------------------------------------------------------------------
(* Unwinding, and the ways out.                                            *)

LEMMA AtUnwind ==
  ASSUME NEW nest, Inv(nest), phase = "unwind"
  PROVE  /\ pc \in DOMAIN code /\ Balanced /\ Structured(nest) /\ Ordered(nest[pc])
         /\ Counted(refs, slot, f_stackdepth, exc_info, curexc) /\ curexc \in Raised
         /\ refs \in [Object -> Nat] /\ slot \in [1 .. MaxHeight -> Object \cup {Null}]
         /\ exc_info \in States /\ f_stackdepth \in 0 .. MaxHeight /\ f_stackdepth \in Nat
         /\ StackFits(sp_map, nest, nest[pc], slot, f_blockstack)
         /\ f_blockstack \in Seq(Block) /\ f_lasti \in DOMAIN code /\ f_lasti \in Nat
         /\ nest[pc] \in Seq(Entry) /\ code[pc].op # "POP_EXCEPT" /\ MaxHeight \in Nat
<1>1. pc \in DOMAIN code /\ f_lasti \in DOMAIN code /\ Balanced /\ Structured(nest)
  BY DEF Inv, TypeOK
<1>2. owned = f_stackdepth
  BY DEF owned
<1>3. Counted(refs, slot, f_stackdepth, exc_info, curexc)
  BY <1>2, CountsAre DEF Inv
<1>4. MaxHeight \in Nat /\ f_stackdepth \in 0 .. MaxHeight
  BY ObjectsDistinct DEF Inv, TypeOK
<1>5. code[pc].op # "POP_EXCEPT" /\ curexc \in Raised
  BY DEF Inv, Phases, unit
<1> QED BY <1>1, <1>3, <1>4, <1>5, Around DEF Inv, TypeOK, StackFits

\* The innermost block left, of those around the unit that raised.
LEMMA UnwindTop ==
  ASSUME NEW nest, Inv(nest), phase = "unwind", f_blockstack # <<>>,
         NEW k, k = Len(f_blockstack), NEW e, e = nest[pc][k]
  PROVE  /\ k \in Nat \ {0} /\ k \in 1 .. Len(nest[pc]) /\ k \in 1 .. Len(f_blockstack)
         /\ e \in Entry /\ e.level \in Nat /\ e.saved = e.level
         /\ TopBlock.b_level = e.level /\ Floor(e) <= f_stackdepth /\ e.to \in DOMAIN code
         /\ e.try => TopBlock.b_type = "SETUP_FINALLY" /\ TopBlock.b_handler = e.to
                       /\ sp_map[e.to] = e.level + 6
         /\ ~e.try => TopBlock.b_type = "EXCEPT_HANDLER" /\ Saved(slot, e.level) \in States
<1>1. k \in Nat \ {0} /\ k \in 1 .. Len(nest[pc]) /\ k \in 1 .. Len(f_blockstack)
  <2>1. k \in Nat \ {0}
    BY AtUnwind, EmptySeq
  <2>2. Len(f_blockstack) <= Len(nest[pc]) /\ Len(nest[pc]) \in Nat
    BY AtUnwind DEF StackFits
  <2> QED BY <2>1, <2>2
<1>2. e \in Entry /\ e.level \in Nat
  <2>1. Ordered(nest[pc])
    BY AtUnwind
  <2> QED BY <1>1, <2>1, InOrderAt DEF Entry
<1>3. e.saved = e.level /\ e.to \in DOMAIN code
  <2>1. pc \in DOMAIN code /\ Balanced /\ Structured(nest) /\ code[pc].op # "POP_EXCEPT"
    BY AtUnwind
  <2>2. Nested(nest, pc) /\ \A i \in 1 .. Len(nest[pc]) : nest[pc][i].to \in DOMAIN code
    BY <2>1, Around
  <2> QED BY <1>1, <2>1, <2>2, SavedAtLevel
<1>4. Fits(sp_map, nest, nest[pc], k, slot, f_blockstack[k])
  BY <1>1, AtUnwind DEF StackFits
<1>5. /\ TopBlock.b_level = e.level
      /\ e.try => TopBlock.b_type = "SETUP_FINALLY" /\ TopBlock.b_handler = e.to
                    /\ sp_map[e.to] = e.level + 6
      /\ ~e.try => TopBlock.b_type = "EXCEPT_HANDLER"
  BY <1>4 DEF Fits, TopBlock
<1>6. Floor(e) <= f_stackdepth
  BY DEF Inv, Phases
<1>7. ~e.try => Saved(slot, e.level) \in States
  BY <1>1, <1>3, AtUnwind, SavedIs
<1> QED BY <1>1, <1>2, <1>3, <1>5, <1>6, <1>7

\* The block under the innermost one can be unwound from its level.
LEMMA FloorUnder ==
  ASSUME NEW n, Ordered(n), NEW k \in 1 .. Len(n), NEW j \in Nat, j = k - 1, j > 0
  PROVE  Floor(n[j]) <= n[k].level
<1>1. j \in 1 .. Len(n) /\ j \in 1 .. k - 1
  OBVIOUS
<1>2. PICK f \in Entry : f = n[j]
  BY <1>1, InOrderAt
<1>3. PICK l \in Nat : l = n[k].level
  BY InOrderAt DEF Entry
<1>4. /\ f.saved = f.level /\ f.keeps <= l /\ (f.try => f.keeps = f.level)
      /\ (~f.try => f.saved + 3 <= f.keeps)
  BY <1>1, <1>2, <1>3, InOrderAt
<1>5. PICK a, b \in Nat : a = f.level /\ b = f.keeps
  BY <1>2 DEF Entry
<1>6. Floor(f) <= l
  <2>1. CASE f.try
    <3>1. Floor(f) = b
      BY <1>4, <1>5, <2>1 DEF Floor
    <3> QED BY <1>4, <1>5, <3>1
  <2>2. CASE ~f.try
    <3>1. Floor(f) = a + 3 /\ a + 3 <= b /\ b <= l
      BY <1>4, <1>5, <2>2 DEF Floor
    <3> QED BY <1>3, <1>5, <3>1
  <2> QED BY <2>1, <2>2
<1> QED BY <1>2, <1>3, <1>6

LEMMA LeaveHandlerStep ==
  ASSUME Enough, NEW nest, Inv(nest), LeaveHandler
  PROVE  Inv(nest)' /\ Restores(nest)
<1> DEFINE d == lower(TopBlock.b_level + 3, f_stackdepth)
<1>0. /\ exc_info' = <<slot[d], slot[d - 1], slot[d - 2]>>
      /\ refs' = [o \in Object |-> refs[o] - InTriple(exc_info, o)
                                     - InSlots(d + 1, f_stackdepth, o)]
      /\ f_stackdepth' = d - 3
  BY DEF LeaveHandler, Restore
<1> HIDE DEF d
<1>1. /\ phase = "unwind" /\ f_blockstack # <<>> /\ TopBlock.b_type = "EXCEPT_HANDLER"
      /\ f_blockstack' = BlocksLeft
      /\ UNCHANGED <<static, phase, pc, f_lasti, slot, curexc>>
  BY DEF LeaveHandler, Unwinding
<1>2. PICK n, K, L, k : n = nest[pc] /\ K = f_blockstack /\ L = f_blockstack' /\ k = Len(K)
  OBVIOUS
<1>3. PICK e : e = n[k]
  OBVIOUS
<1>4. /\ k \in Nat \ {0} /\ k \in 1 .. Len(n) /\ k \in 1 .. Len(K)
      /\ e \in Entry /\ e.level \in Nat /\ e.saved = e.level
      /\ TopBlock.b_level = e.level /\ Floor(e) <= f_stackdepth
      /\ e.try => TopBlock.b_type = "SETUP_FINALLY"
      /\ ~e.try => Saved(slot, e.level) \in States
  BY <1>1, <1>2, <1>3, UnwindTop
<1>5. ~e.try
  BY <1>1, <1>4
<1>6. PICK l \in Nat : l = e.level
  BY <1>4
<1>7. f_stackdepth \in Nat /\ f_stackdepth \in 0 .. MaxHeight /\ MaxHeight \in Nat
  BY <1>1, AtUnwind
<1>8. d = l + 3 /\ l + 3 <= f_stackdepth
  <2>1. Floor(e) = l + 3
    BY <1>5, <1>6 DEF Floor
  <2>2. l + 3 <= f_stackdepth /\ TopBlock.b_level = l
    BY <1>4, <1>6, <2>1
  <2> QED BY <1>6, <1>7, <2>2 DEF d, lower
<1>9. f_stackdepth' = l /\ l \in 0 .. MaxHeight
  BY <1>0, <1>6, <1>7, <1>8
<1>10. exc_info' = Saved(slot, l) /\ exc_info' \in States
  <2>1. d = l + 3 /\ d - 1 = l + 2 /\ d - 2 = l + 1
    BY <1>6, <1>8
  <2>2. exc_info' = Saved(slot, l)
    BY <1>0, <2>1 DEF Saved
  <2> QED BY <1>4, <1>5, <1>6, <2>2
<1>11. Counted(refs', slot, l, exc_info', curexc)
  <2>1. Released(refs', refs, exc_info, slot, l, f_stackdepth)
    <3>1. d + 1 = l + 4
      BY <1>6, <1>8
    <3> QED BY <1>0, <3>1, SlotsHold DEF Released
  <2>2. Counted(refs, slot, f_stackdepth, exc_info, curexc)
    BY <1>1, AtUnwind
  <2> QED BY <1>7, <1>8, <1>10, <2>1, <2>2, CountRestore
<1>12. refs' \in [Object -> Nat]
  <2>1. refs \in [Object -> Nat]
    BY <1>1, AtUnwind
  <2>2. ASSUME NEW o PROVE InSlots(d + 1, f_stackdepth, o) \in Nat /\ InTriple(exc_info, o) \in Nat
    BY <1>7, <1>8, SlotsHold, HoldsFinite, ThreeIn DEF Is
  <2>3. refs' \in [Object -> Int]
    BY <1>0, <2>1, <2>2
  <2> QED BY <1>11, <2>3, CountsNatural
<1>13. L \in Seq(Block) /\ Len(L) = k - 1 /\ \A i \in 1 .. k - 1 : L[i] = K[i]
  <2>1. K \in Seq(Block) /\ K # <<>> /\ L = SubSeq(K, 1, Len(K) - 1)
    BY <1>1, <1>2, AtUnwind DEF BlocksLeft
  <2>2. L \in Seq(Block) /\ Len(L) = Len(K) - 1 /\ \A i \in 1 .. Len(K) - 1 : L[i] = K[i]
    BY ONLY <2>1, RestIs
  <2> QED BY <1>2, <2>2
<1>14. StackFits(sp_map, nest, n, slot, L)
  <2>1. StackFits(sp_map, nest, n, slot, K)
    BY <1>1, <1>2, AtUnwind
  <2>2. ASSUME NEW i \in 1 .. Len(L) PROVE Fits(sp_map, nest, n, i, slot, L[i])
    <3>1. i \in 1 .. Len(K) /\ L[i] = K[i]
      BY <1>2, <1>4, <1>13
    <3> QED BY <2>1, <3>1 DEF StackFits
  <2>3. Len(L) <= Len(n)
    BY <1>4, <1>13
  <2> QED BY <1>13, <2>2, <2>3 DEF StackFits
<1>15. MeansSame(Len(L), n, slot, n, slot)
  BY DEF MeansSame
<1>16. L # <<>> => Floor(n[Len(L)]) <= l
  <2>1. SUFFICES ASSUME L # <<>> PROVE Floor(n[Len(L)]) <= l
    OBVIOUS
  <2>2. PICK j \in Nat : j = Len(L) /\ j = k - 1 /\ j > 0
    BY <1>13, <2>1, EmptySeq
  <2>3. Ordered(n)
    BY <1>1, <1>2, AtUnwind
  <2> QED BY <1>3, <1>4, <1>6, <2>2, <2>3, FloorUnder
<1>17. code' = code /\ sp_map' = sp_map /\ outside' = outside
  BY <1>1 DEF static
<1>18. Balanced' /\ Structured(nest)'
  <2>1. Balanced /\ Structured(nest) /\ UNCHANGED static
    BY <1>1, AtUnwind
  <2> QED BY <2>1, StaticKept
<1>19. TypeOK'
  BY <1>1, <1>9, <1>10, <1>12, <1>17 DEF Inv, TypeOK
<1>20. CountsExact'
  <2>1. owned' = l
    BY <1>1, <1>9 DEF owned
  <2>2. Counted(refs, slot, owned, exc_info, curexc)'
    BY <1>1, <1>11, <2>1 DEF Counted
  <2>3. (CountsExact <=> Counted(refs, slot, owned, exc_info, curexc))'
    BY CountsAre, PTL
  <2> QED BY <2>2, <2>3
<1>21. Phases(nest)'
  <2>1. code[pc].op # "POP_EXCEPT" /\ curexc \in Raised
    BY <1>1, AtUnwind
  <2>2. unit' = unit /\ pc' = pc
    BY <1>1, <1>17 DEF unit
  <2> QED BY <1>1, <1>2, <1>9, <1>16, <2>1, <2>2 DEF Phases, unit
<1>22. Inv(nest)'
  BY <1>1, <1>2, <1>14, <1>17, <1>18, <1>19, <1>20, <1>21 DEF Inv
<1> QED BY <1>1, <1>2, <1>3, <1>4, <1>5, <1>6, <1>10, <1>13, <1>15, <1>17, <1>22 DEF Restores

\* What a handler has on the stack above level l: what was handled, and the exception.
SixAt(z, l, t, c) ==
  /\ z[l + 1] = t[3] /\ z[l + 2] = t[2] /\ z[l + 3] = IF t[1] = Null THEN None ELSE t[1]
  /\ z[l + 4] = c[3] /\ z[l + 5] = c[2] /\ z[l + 6] = c[1]

Caught(q, r, s, t, c, l, h) ==
  \A o \in Object : q[o] = r[o] - Holds(s, l + 1, h, o) + InTriple(c, o)
                             + (IF o = None /\ t[1] = Null THEN 1 ELSE 0)

LEMMA CountCatch ==
  ASSUME NEW r, NEW s, NEW h \in Nat, NEW t, NEW c \in Raised, Counted(r, s, h, t, c),
         NEW l \in Nat, l <= h, NEW z, SameTo(l, s, z), SixAt(z, l, t, c),
         NEW q, Caught(q, r, s, t, c, l, h)
  PROVE  Counted(q, z, l + 6, c, NoExc)
<1>1. ASSUME NEW o \in Object
      PROVE  q[o] = Holds(z, 1, l + 6, o) + InTriple(c, o) + InSet(NoExc, o)
  <2>1. Holds(z, 1, l + 3, o) =
          Holds(z, 1, l, o) + Is(z[l + 1], o) + Is(z[l + 2], o) + Is(z[l + 3], o)
    BY HoldsThree
  <2>2. PICK m \in Nat : m = l + 3
    OBVIOUS
  <2>3. Holds(z, 1, m + 3, o) =
          Holds(z, 1, m, o) + Is(z[m + 1], o) + Is(z[m + 2], o) + Is(z[m + 3], o)
    BY HoldsThree
  <2>4. m + 1 = l + 4 /\ m + 2 = l + 5 /\ m + 3 = l + 6
    BY <2>2
  <2>5. Holds(z, 1, l, o) = Holds(s, 1, l, o)
    BY HoldsTo
  <2>6. Holds(s, 1, h, o) = Holds(s, 1, l, o) + Holds(s, l + 1, h, o)
    BY HoldsSplit
  <2>7. Is(z[l + 3], o) = Is(t[1], o) + (IF o = None /\ t[1] = Null THEN 1 ELSE 0)
    BY ObjectsDistinct DEF SixAt, Is
  <2>8. /\ InTriple(t, o) = Is(t[1], o) + Is(t[2], o) + Is(t[3], o)
        /\ InTriple(c, o) = Is(c[1], o) + Is(c[2], o) + Is(c[3], o)
    BY ThreeIn
  <2>9. InSet(c, o) = InTriple(c, o) /\ InSet(NoExc, o) = 0
    BY Triples DEF InSet, Raised
  <2>10. \A x : Is(x, o) \in Nat
    BY DEF Is
  <2>11. Holds(s, 1, l, o) \in Nat /\ Holds(s, l + 1, h, o) \in Nat
    BY HoldsFinite
  <2>12. r[o] = Holds(s, 1, h, o) + InTriple(t, o) + InSet(c, o)
    BY DEF Counted
  <2>13. q[o] = r[o] - Holds(s, l + 1, h, o) + InTriple(c, o)
                 + (IF o = None /\ t[1] = Null THEN 1 ELSE 0)
    BY DEF Caught
  <2>14. /\ Is(z[l + 1], o) = Is(t[3], o) /\ Is(z[l + 2], o) = Is(t[2], o)
         /\ Is(z[l + 4], o) = Is(c[3], o) /\ Is(z[l + 5], o) = Is(c[2], o)
         /\ Is(z[l + 6], o) = Is(c[1], o)
    BY DEF SixAt
  <2>15. Holds(z, 1, l + 6, o) =
           Holds(s, 1, l, o) + Is(t[3], o) + Is(t[2], o) + Is(z[l + 3], o)
             + Is(c[3], o) + Is(c[2], o) + Is(c[1], o)
    BY <2>1, <2>2, <2>3, <2>4, <2>5, <2>14
  <2>16. PICK x1, x2, x3, y1, y2, y3, a, b \in Nat :
           /\ x1 = Is(t[1], o) /\ x2 = Is(t[2], o) /\ x3 = Is(t[3], o)
           /\ y1 = Is(c[1], o) /\ y2 = Is(c[2], o) /\ y3 = Is(c[3], o)
           /\ a = Holds(s, 1, l, o) /\ b = Holds(s, l + 1, h, o)
    BY <2>10, <2>11
  <2>17. PICK v \in Nat : v = IF o = None /\ t[1] = Null THEN 1 ELSE 0
    OBVIOUS
  <2>18. /\ Holds(z, 1, l + 6, o) = a + x3 + x2 + (x1 + v) + y3 + y2 + y1
         /\ InTriple(c, o) = y1 + y2 + y3
    BY <2>7, <2>8, <2>15, <2>16, <2>17
  <2>19. q[o] = (a + b) + (x1 + x2 + x3) + (y1 + y2 + y3) - b + (y1 + y2 + y3) + v
    BY <2>6, <2>8, <2>9, <2>12, <2>13, <2>16, <2>17
  <2> QED BY <2>9, <2>18, <2>19
<1> QED BY <1>1 DEF Counted

\* A handler takes the exception; it has saved what was handled until then.
Catches(nest) ==
  /\ UNCHANGED outside /\ curexc # NoExc /\ curexc' = NoExc /\ exc_info' = curexc
  /\ f_blockstack # <<>> /\ nest[pc][Len(f_blockstack)].try
  /\ Len(f_blockstack') = Len(f_blockstack)
  /\ MeansSame(Len(f_blockstack) - 1, nest[pc], slot, nest[pc'], slot')
  /\ Meant(nest[pc'][Len(f_blockstack)], slot') = AHandler(Exception(exc_info))

LEMMA SavedBy ==
  ASSUME NEW z, NEW l \in Nat, NEW t \in States, NEW c \in Raised, SixAt(z, l, t, c)
  PROVE  /\ Saved(z, l) \in Raised \cup {<<None, Null, Null>>}
         /\ Exception(Saved(z, l)) = Exception(t)
         /\ Saved(z, l + 3) = c /\ \A i \in 1 .. 6 : z[l + i] \in Object \cup {Null}
<1>1. PICK y : y = IF t[1] = Null THEN None ELSE t[1]
  OBVIOUS
<1>2. Saved(z, l) = <<y, t[2], t[3]>>
  BY <1>1 DEF Saved, SixAt
<1>3. t = <<t[1], t[2], t[3]>> /\ \A i \in 1 .. 3 : t[i] \in Object \cup {Null}
  BY StatesAre
<1>4. c \in States /\ c[1] \notin {Null, None}
  <2>1. PICK e \in Exc : c = State(e)
    BY DEF Raised
  <2> QED BY <2>1, Triples
<1>5. c = <<c[1], c[2], c[3]>> /\ \A i \in 1 .. 3 : c[i] \in Object \cup {Null}
  BY <1>4, StatesAre
<1>6. Saved(z, l) \in Raised \cup {<<None, Null, Null>>} /\ Exception(Saved(z, l)) = Exception(t)
  <2>1. CASE t \in Raised
    <3>1. t[1] # Null
      BY <2>1, Triples DEF Raised
    <3> QED BY <1>1, <1>2, <1>3, <2>1, <3>1
  <2>2. CASE t = <<Null, Null, Null>>
    BY <1>1, <1>2, <2>2, NoTriples
  <2>3. CASE t = <<None, Null, Null>>
    <3>1. None # Null
      BY ObjectsDistinct DEF Object
    <3> QED BY <1>1, <1>2, <2>3, <3>1, NoTriples
  <2> QED BY <2>1, <2>2, <2>3, StatesAre
<1>7. Saved(z, l + 3) = <<z[l + 6], z[l + 5], z[l + 4]>>
  <2>1. l + 3 + 3 = l + 6 /\ l + 3 + 2 = l + 5 /\ l + 3 + 1 = l + 4
    OBVIOUS
  <2> QED BY <2>1 DEF Saved
<1>8. Saved(z, l + 3) = c
  BY <1>5, <1>7 DEF SixAt
<1>9. \A i \in 1 .. 6 : z[l + i] \in Object \cup {Null}
  <2>1. ASSUME NEW i \in 1 .. 6 PROVE z[l + i] \in Object \cup {Null}
    <3>1. i = 1 \/ i = 2 \/ i = 3 \/ i = 4 \/ i = 5 \/ i = 6
      OBVIOUS
    <3>2. y \in Object \cup {Null}
      BY <1>1, <1>3 DEF Object
    <3> QED BY <1>1, <1>3, <1>5, <3>1, <3>2 DEF SixAt
  <2> QED BY <2>1
<1> QED BY <1>6, <1>8, <1>9

LEMMA CatchStep ==
  ASSUME Enough, NEW nest, Inv(nest), Catch
  PROVE  Inv(nest)' /\ Catches(nest) /\ f_stackdepth' = sp_map[pc']
<1> DEFINE d     == lower(TopBlock.b_level, f_stackdepth)
           type  == IF exc_info[1] = Null THEN None ELSE exc_info[1]
           top   == <<exc_info[3], exc_info[2], type, curexc[3], curexc[2], curexc[1]>>
<1>0. /\ slot' = [i \in DOMAIN slot |-> IF i \in d + 1 .. d + 6 THEN top[i - d] ELSE slot[i]]
      /\ refs' = [o \in Object |-> refs[o] - InSlots(d + 1, f_stackdepth, o)
                                     + InTriple(curexc, o)
                                     + (IF o = None /\ exc_info[1] = Null THEN 1 ELSE 0)]
      /\ f_blockstack' = Append(BlocksLeft, [b_type |-> "EXCEPT_HANDLER", b_handler |-> f_lasti,
                                             b_level |-> d])
      /\ f_stackdepth' = d + 6
  BY DEF Catch
<1>1. /\ phase = "unwind" /\ f_blockstack # <<>> /\ TopBlock.b_type = "SETUP_FINALLY"
      /\ exc_info' = curexc /\ curexc' = NoExc /\ phase' = "run" /\ pc' = TopBlock.b_handler
      /\ UNCHANGED <<static, f_lasti>>
  BY DEF Catch, Unwinding
<1>t. /\ top[1] = exc_info[3] /\ top[2] = exc_info[2] /\ top[3] = type
      /\ top[4] = curexc[3] /\ top[5] = curexc[2] /\ top[6] = curexc[1]
  OBVIOUS
<1> HIDE DEF d, top
<1>2. PICK n, K, L, k : n = nest[pc] /\ K = f_blockstack /\ L = f_blockstack' /\ k = Len(K)
  OBVIOUS
<1>3. PICK e : e = n[k]
  OBVIOUS
<1>4. /\ k \in Nat \ {0} /\ k \in 1 .. Len(n) /\ k \in 1 .. Len(K)
      /\ e \in Entry /\ e.level \in Nat /\ e.saved = e.level /\ e.to \in DOMAIN code
      /\ TopBlock.b_level = e.level /\ Floor(e) <= f_stackdepth
      /\ e.try => TopBlock.b_handler = e.to /\ sp_map[e.to] = e.level + 6
      /\ ~e.try => TopBlock.b_type = "EXCEPT_HANDLER"
  BY <1>1, <1>2, <1>3, UnwindTop
<1>5. e.try /\ pc' = e.to /\ sp_map[e.to] = e.level + 6
  BY <1>1, <1>4
<1>6. PICK l \in Nat : l = e.level
  BY <1>4
<1>7. f_stackdepth \in Nat /\ f_stackdepth \in 0 .. MaxHeight /\ MaxHeight \in Nat
  BY <1>1, AtUnwind
<1>8. d = l /\ l <= f_stackdepth
  <2>1. Floor(e) = l
    BY <1>5, <1>6 DEF Floor
  <2>2. l <= f_stackdepth /\ TopBlock.b_level = l
    BY <1>4, <1>6, <2>1
  <2> QED BY <1>6, <1>7, <2>2 DEF d, lower
<1>9. f_stackdepth' = l + 6 /\ l + 6 \in 0 .. MaxHeight /\ f_stackdepth' = sp_map[pc']
  <2>1. sp_map[e.to] \in 0 .. MaxHeight
    <3>1. Balanced
      BY <1>1, AtUnwind
    <3> QED BY <1>4, <3>1 DEF Balanced
  <2> QED BY <1>0, <1>5, <1>6, <1>8, <2>1
<1>10. PICK t \in States, c \in Raised : t = exc_info /\ c = curexc
  BY <1>1, AtUnwind
<1>11. PICK z : z = slot'
  OBVIOUS
<1>12. /\ DOMAIN slot = 1 .. MaxHeight /\ slot \in [1 .. MaxHeight -> Object \cup {Null}]
       /\ \A i \in 1 .. MaxHeight : z[i] = IF i \in l + 1 .. l + 6 THEN top[i - l] ELSE slot[i]
       /\ DOMAIN z = 1 .. MaxHeight /\ z = [i \in 1 .. MaxHeight |-> z[i]]
  <2>1. slot \in [1 .. MaxHeight -> Object \cup {Null}]
    BY <1>1, AtUnwind
  <2>2. DOMAIN slot = 1 .. MaxHeight
    BY <2>1
  <2> QED BY <1>0, <1>8, <1>11, <2>1, <2>2
<1>13. SameTo(l, slot, z)
  BY <1>6, <1>9, <1>12, <1>7 DEF SameTo
<1>14. SixAt(z, l, t, c)
  <2>1. ASSUME NEW j \in 1 .. 6 PROVE z[l + j] = top[j]
    <3>1. l + j \in 1 .. MaxHeight /\ l + j \in l + 1 .. l + 6 /\ l + j - l = j
      BY <1>6, <1>7, <1>9
    <3> QED BY <1>12, <3>1
  <2>2. /\ z[l + 1] = top[1] /\ z[l + 2] = top[2] /\ z[l + 3] = top[3]
        /\ z[l + 4] = top[4] /\ z[l + 5] = top[5] /\ z[l + 6] = top[6]
    BY <2>1
  <2> QED BY <1>t, <1>10, <2>2 DEF SixAt
<1>15. /\ Saved(z, l) \in Raised \cup {<<None, Null, Null>>}
       /\ Exception(Saved(z, l)) = Exception(t)
       /\ Saved(z, l + 3) = c /\ \A i \in 1 .. 6 : z[l + i] \in Object \cup {Null}
  BY <1>14, SavedBy
<1>16. z \in [1 .. MaxHeight -> Object \cup {Null}]
  <2>1. ASSUME NEW i \in 1 .. MaxHeight PROVE z[i] \in Object \cup {Null}
    <3>1. CASE i \in l + 1 .. l + 6
      <4>1. PICK j \in 1 .. 6 : i = l + j
        <5>1. i - l \in 1 .. 6 /\ i = l + (i - l)
          BY <1>6, <1>7, <3>1
        <5> QED BY <5>1
      <4> QED BY <1>15, <4>1
    <3>2. CASE i \notin l + 1 .. l + 6
      BY <1>12, <3>2
    <3> QED BY <3>1, <3>2
  <2> QED BY <1>12, <2>1
<1>17. Counted(refs', z, l + 6, c, NoExc)
  <2>1. Caught(refs', refs, slot, t, c, l, f_stackdepth)
    BY <1>0, <1>8, <1>10, SlotsHold DEF Caught
  <2>2. Counted(refs, slot, f_stackdepth, t, c)
    BY <1>1, <1>10, AtUnwind
  <2> QED BY ONLY ObjectsDistinct, <1>7, <1>8, <1>13, <1>14, <2>1, <2>2, CountCatch
<1>18. refs' \in [Object -> Nat]
  <2>1. refs \in [Object -> Nat]
    BY <1>1, AtUnwind
  <2>2. ASSUME NEW o PROVE InSlots(d + 1, f_stackdepth, o) \in Nat /\ InTriple(curexc, o) \in Nat
    BY <1>7, <1>8, SlotsHold, HoldsFinite, ThreeIn DEF Is
  <2>3. refs' \in [Object -> Int]
    BY <1>0, <2>1, <2>2
  <2>4. l + 6 \in Int
    OBVIOUS
  <2> QED BY <1>17, <2>3, <2>4, CountsNatural
<1>19. Ordered(n) /\ StackFits(sp_map, nest, n, slot, K) /\ K # <<>>
  BY <1>1, <1>2, AtUnwind
<1>20. PICK m : m = nest[e.to]
  OBVIOUS
<1>21. Ordered(m)
  <2>1. Balanced /\ Structured(nest)
    BY <1>1, AtUnwind
  <2> QED BY <1>4, <1>20, <2>1, Around
<1>22. PICK from \in Nat : from = f_lasti
  BY <1>1, AtUnwind
<1>23. L = Append(SubSeq(K, 1, Len(K) - 1), HandlerBlock(from, e.level))
  BY <1>0, <1>2, <1>6, <1>8, <1>22 DEF BlocksLeft, HandlerBlock
<1>24. InHandler(sp_map, nest, n, slot, m, z, K, L, e)
  <2>1. /\ e = n[Len(K)] /\ SameTo(e.level, slot, z)
        /\ Saved(z, e.level) \in Raised \cup {<<None, Null, Null>>}
        /\ Saved(z, e.level + 3) \in Raised
    BY <1>2, <1>3, <1>6, <1>13, <1>15
  <2> QED BY ONLY <1>5, <1>19, <1>20, <1>21, <1>23, <2>1, Entered
<1>25. /\ StackFits(sp_map, nest, m, z, L) /\ Len(L) = k /\ Len(L) = Len(m)
       /\ MeansSame(k - 1, n, slot, m, z)
       /\ Meant(m[k], z) = AHandler(Exception(Saved(z, l)))
  BY <1>2, <1>6, <1>24 DEF InHandler
<1>26. code' = code /\ sp_map' = sp_map /\ outside' = outside /\ f_lasti' = f_lasti
  BY <1>1 DEF static
<1>27. Balanced' /\ Structured(nest)'
  <2>1. Balanced /\ Structured(nest) /\ UNCHANGED static
    BY <1>1, AtUnwind
  <2> QED BY <2>1, StaticKept
<1>28. TypeOK'
  <2>1. exc_info' \in States /\ curexc' \in {State(x) : x \in Exc} \cup {NoExc}
    BY <1>1, <1>10 DEF Raised, States
  <2> QED BY <1>1, <1>4, <1>5, <1>9, <1>11, <1>16, <1>18, <1>26, <2>1, AtUnwind DEF TypeOK
<1>29. CountsExact'
  <2>1. owned' = l + 6
    BY <1>1, <1>9, <1>26 DEF owned, height
  <2>2. Counted(refs, slot, owned, exc_info, curexc)'
    BY <1>1, <1>10, <1>11, <1>17, <2>1 DEF Counted
  <2>3. (CountsExact <=> Counted(refs, slot, owned, exc_info, curexc))'
    BY CountsAre, PTL
  <2> QED BY <2>2, <2>3
<1>30. Phases(nest)'
  BY <1>1, <1>2, <1>5, <1>9, <1>20, <1>25, <1>26 DEF Phases, height
<1>31. Inv(nest)'
  BY <1>2, <1>5, <1>11, <1>20, <1>25, <1>26, <1>27, <1>28, <1>29, <1>30 DEF Inv
<1>32. curexc # NoExc
  <2>1. PICK x \in Exc : c = State(x)
    BY DEF Raised
  <2> QED BY <1>10, <2>1, ObjectsDistinct
<1>33. Catches(nest)
  BY <1>1, <1>2, <1>3, <1>5, <1>10, <1>11, <1>15, <1>20, <1>25, <1>26, <1>32 DEF Catches
<1> QED BY <1>9, <1>31, <1>33

LEMMA ReturnUnit ==
  ASSUME NEW nest, NEW v, Nested(nest, v), code[v].op = "RETURN_VALUE"
  PROVE  nest[v] = <<>> /\ sp_map[v] = 1
BY DEF Nested

\* The function is done: no block is left, and the frame is emptied.
LEMMA Ends ==
  ASSUME NEW nest, Inv(nest), f_blockstack = <<>>,
         (phase' = "returned" /\ curexc = NoExc) \/ (phase' = "raised" /\ curexc \in Raised),
         UNCHANGED <<static, pc, f_lasti, slot, f_blockstack, exc_info, curexc>>, f_stackdepth' = 0,
         refs' \in [Object -> Int], Counted(refs', slot, 0, exc_info, curexc)
  PROVE  Inv(nest)' /\ Quiet(nest)
<1>1. /\ code' = code /\ sp_map' = sp_map /\ outside' = outside /\ pc' = pc /\ slot' = slot
      /\ f_lasti' = f_lasti /\ f_blockstack' = f_blockstack /\ exc_info' = exc_info
      /\ curexc' = curexc /\ UNCHANGED static /\ phase' \in {"returned", "raised"}
  BY DEF static
<1>2. Balanced' /\ Structured(nest)'
  BY <1>1, StaticKept DEF Inv
<1>3. refs' \in [Object -> Nat]
  <2>1. 0 \in Int
    OBVIOUS
  <2> QED BY <2>1, CountsNatural
<1>4. TypeOK'
  <2>1. f_stackdepth' \in 0 .. MaxHeight
    BY ObjectsDistinct
  <2> QED BY <1>1, <1>3, <2>1 DEF Inv, TypeOK
<1>5. CountsExact'
  <2>1. owned' = 0
    BY <1>1 DEF owned
  <2>2. Counted(refs, slot, owned, exc_info, curexc)'
    BY <1>1, <2>1 DEF Counted
  <2>3. (CountsExact <=> Counted(refs, slot, owned, exc_info, curexc))'
    BY CountsAre, PTL
  <2> QED BY <2>2, <2>3
<1>6. Phases(nest)'
  BY <1>1 DEF Phases
<1>7. Inv(nest)'
  BY <1>1, <1>2, <1>4, <1>5, <1>6 DEF Inv
<1>8. Quiet(nest)
  BY <1>1 DEF Quiet, MeansSame
<1> QED BY <1>7, <1>8

LEMMA ReturnStep ==
  ASSUME Enough, NEW nest, Inv(nest), Return
  PROVE  Inv(nest)' /\ Quiet(nest)
<1>1. /\ phase = "run" /\ code[pc].op = "RETURN_VALUE" /\ phase' = "returned" /\ f_stackdepth' = 0
      /\ refs' = [refs EXCEPT ![slot[sp_map[pc]]] = @ - 1]
      /\ UNCHANGED <<static, pc, f_lasti, slot, f_blockstack, exc_info, curexc>>
  BY DEF Return, Running, unit, height
<1>2. nest[pc] = <<>> /\ sp_map[pc] = 1
  BY <1>1, AtRun, ReturnUnit
<1>3. f_blockstack = <<>>
  <2>1. f_blockstack \in Seq(Block) /\ Len(f_blockstack) = Len(nest[pc])
    BY <1>1, AtRun
  <2>2. Len(f_blockstack) = 0
    BY <1>2, <2>1, EmptySeq
  <2> QED BY <2>1, <2>2, EmptySeq
<1>4. PICK x, s : x = slot[1] /\ s = slot
  OBVIOUS
<1>5. refs \in [Object -> Nat] /\ Counted(refs, s, 1, exc_info, NoExc) /\ curexc = NoExc
  BY <1>1, <1>2, <1>4, AtRun
<1>6. refs' = [refs EXCEPT ![x] = @ - 1]
  BY <1>1, <1>2, <1>4
<1>7. Changed(refs', refs, s, 0, 1, Null)
  <2>1. ASSUME NEW o \in Object
        PROVE  refs'[o] = refs[o] - Holds(s, 0 + 1, 1, o) + Is(Null, o)
    <3>1. Holds(s, 1, 1, o) = Is(x, o)
      BY <1>4, HoldsOne
    <3>2. Is(Null, o) = 0
      BY ObjectsDistinct DEF Is
    <3>3. refs[o] \in Nat
      BY <1>5
    <3>4. refs'[o] = refs[o] - Is(x, o)
      BY <1>5, <1>6, <3>3 DEF Is
    <3>5. 0 + 1 = 1 /\ Is(x, o) \in Nat
      BY DEF Is
    <3> QED BY <3>1, <3>2, <3>3, <3>4, <3>5
  <2> QED BY <2>1 DEF Changed
<1>8. Counted(refs', s, 0, exc_info, NoExc)
  <2>1. SameTo(0, s, s) /\ 0 \in Nat /\ 1 \in Nat /\ 0 <= 1
    BY DEF SameTo
  <2> QED BY ONLY ObjectsDistinct, <1>5, <1>7, <2>1, CountDrop
<1>9. refs' \in [Object -> Int]
  <2>1. DOMAIN refs' = Object /\ refs' = [o \in Object |-> refs'[o]]
    BY <1>5, <1>6
  <2>2. ASSUME NEW o \in Object PROVE refs'[o] \in Int
    <3>1. refs[o] \in Nat
      BY <1>5
    <3> QED BY <1>5, <1>6, <3>1
  <2> QED BY <2>1, <2>2
<1>10. Counted(refs', slot, 0, exc_info, curexc)
  BY <1>4, <1>5, <1>8
<1>11. (phase' = "returned" /\ curexc = NoExc) \/ (phase' = "raised" /\ curexc \in Raised)
  BY <1>1, <1>5
<1>12. /\ UNCHANGED <<static, pc, f_lasti, slot, f_blockstack, exc_info, curexc>>
       /\ f_stackdepth' = 0
  BY <1>1
<1> QED BY ONLY Inv(nest), <1>3, <1>9, <1>10, <1>11, <1>12, Ends

LEMMA LeaveFrameStep ==
  ASSUME Enough, NEW nest, Inv(nest), LeaveFrame
  PROVE  Inv(nest)' /\ Quiet(nest)
<1>1. /\ phase = "unwind" /\ f_blockstack = <<>> /\ phase' = "raised" /\ f_stackdepth' = 0
      /\ refs' = [o \in Object |-> refs[o] - InSlots(1, f_stackdepth, o)]
      /\ UNCHANGED <<static, pc, f_lasti, slot, f_blockstack, exc_info, curexc>>
  BY DEF LeaveFrame
<1>2. PICK h \in Nat : h = f_stackdepth
  BY <1>1, AtUnwind
<1>3. refs \in [Object -> Nat] /\ Counted(refs, slot, h, exc_info, curexc) /\ curexc \in Raised
  BY <1>1, <1>2, AtUnwind
<1>4. Changed(refs', refs, slot, 0, h, Null)
  <2>1. ASSUME NEW o \in Object
        PROVE  refs'[o] = refs[o] - Holds(slot, 0 + 1, h, o) + Is(Null, o)
    <3>1. Is(Null, o) = 0
      BY ObjectsDistinct DEF Is
    <3>2. refs[o] \in Nat /\ Holds(slot, 1, h, o) \in Nat
      BY <1>3, HoldsFinite
    <3>3. refs'[o] = refs[o] - Holds(slot, 1, h, o)
      BY <1>1, <1>2, SlotsHold
    <3>4. 0 + 1 = 1
      OBVIOUS
    <3> QED BY <3>1, <3>2, <3>3, <3>4
  <2> QED BY <2>1 DEF Changed
<1>5. Counted(refs', slot, 0, exc_info, curexc)
  <2>1. SameTo(0, slot, slot) /\ 0 \in Nat /\ 0 <= h
    BY DEF SameTo
  <2> QED BY ONLY ObjectsDistinct, h \in Nat, <1>3, <1>4, <2>1, CountDrop
<1>6. refs' \in [Object -> Int]
  <2>1. \A o \in Object : refs[o] \in Nat /\ InSlots(1, f_stackdepth, o) \in Nat
    BY <1>2, <1>3, SlotsHold, HoldsFinite
  <2> QED BY <1>1, <2>1
<1> QED BY <1>1, <1>3, <1>5, <1>6, Ends

LEMMA StutterStep ==
  ASSUME NEW nest, Inv(nest), UNCHANGED vars
  PROVE  Inv(nest)' /\ Quiet(nest)
<1>1. /\ UNCHANGED <<phase, pc, f_lasti, f_stackdepth, slot, f_blockstack, exc_info, curexc, refs>>
      /\ UNCHANGED static
  BY DEF vars, static
<1>2. Balanced' /\ Structured(nest)'
  BY <1>1, StaticKept DEF Inv
<1>3. code' = code /\ sp_map' = sp_map /\ outside' = outside
  BY <1>1 DEF static
<1>4. TypeOK'
  BY <1>1, <1>3 DEF Inv, TypeOK
<1>5. CountsExact'
  <2>1. owned' = owned
    BY <1>1, <1>3 DEF owned, height
  <2>2. Counted(refs, slot, owned, exc_info, curexc)
    BY CountsAre DEF Inv
  <2>3. Counted(refs, slot, owned, exc_info, curexc)'
    BY <1>1, <2>1, <2>2 DEF Counted
  <2>4. (CountsExact <=> Counted(refs, slot, owned, exc_info, curexc))'
    BY CountsAre, PTL
  <2> QED BY <2>3, <2>4
<1>6. Phases(nest)'
  <2>1. unit' = unit /\ height' = height
    BY <1>1, <1>3 DEF unit, height
  <2> QED BY <1>1, <2>1 DEF Inv, Phases
<1>7. Inv(nest)'
  BY <1>1, <1>2, <1>3, <1>4, <1>5, <1>6 DEF Inv
<1> QED BY <1>1, <1>3, <1>7 DEF Quiet, MeansSame

-----------------------------------------------------------------------------
(* The specification.                                                      *)

\* What a step does, as ExceptionState sees it.
Does(nest) ==
  \/ Quiet(nest) \/ Restores(nest) \/ Catches(nest)
  \/ curexc = NoExc /\ (Encloses(nest) \/ Leaves(nest) \/ Throws(nest))

LEMMA Step ==
  ASSUME Enough, NEW nest, Inv(nest), [Next]_vars
  PROVE  /\ Inv(nest)' /\ Does(nest)
         /\ phase = "unwind" /\ phase' = "run" => f_stackdepth' = sp_map[pc']
<1>1. phase = "run" => curexc = NoExc
  BY AtRun
<1>2. CASE Ordinary
  BY <1>2, OrdinaryStep DEF Ordinary, Does
<1>3. CASE OrdinaryRaises
  BY <1>1, <1>3, OrdinaryRaisesStep DEF OrdinaryRaises, Does
<1>4. CASE Duplicate
  BY <1>4, DuplicateStep DEF Duplicate, Running, Does
<1>5. CASE Rotate
  BY <1>5, RotateStep DEF Rotate, Running, Does
<1>6. CASE Return
  BY <1>6, ReturnStep DEF Return, Running, Does
<1>7. CASE SetupTry
  BY <1>1, <1>7, SetupTryStep DEF SetupTry, Running, Does
<1>8. CASE SetupWith
  BY <1>1, <1>8, SetupWithStep DEF SetupWith, Running, Does
<1>9. CASE PopBlock
  BY <1>1, <1>9, PopBlockStep DEF PopBlock, Running, Does
<1>10. CASE PopExcept
  BY <1>10, PopExceptStep DEF PopExcept, Running, Does
<1>11. CASE Reraise
  BY <1>1, <1>11, ReraiseStep DEF Reraise, Running, Does
<1>12. CASE RaiseVarargs
  BY <1>1, <1>12, RaiseVarargsStep DEF RaiseVarargs, Running, Does
<1>13. CASE EndAsyncFor
  BY <1>1, <1>13, EndAsyncForStep DEF EndAsyncFor, Running, Does
<1>14. CASE LeaveHandler
  BY <1>14, LeaveHandlerStep DEF LeaveHandler, Does
<1>15. CASE Catch
  BY <1>15, CatchStep DEF Does
<1>16. CASE LeaveFrame
  BY <1>16, LeaveFrameStep DEF LeaveFrame, Does
<1>17. CASE UNCHANGED vars
  <2>1. phase' = phase
    BY <1>17 DEF vars
  <2> QED BY <1>17, <2>1, StutterStep DEF Does
<1> QED BY <1>2, <1>3, <1>4, <1>5, <1>6, <1>7, <1>8, <1>9, <1>10, <1>11, <1>12, <1>13, <1>14,
           <1>15, <1>16, <1>17 DEF Next, Unwind

\* Functions whose handlers nest as the compiler has them.
Compiled == \E nest : Structured(nest)

LEMMA Start ==
  ASSUME NEW nest, Init, Structured(nest)
  PROVE  Inv(nest)
<1>1. /\ Balanced /\ outside \in Exc \cup {NoExc} /\ phase = "run" /\ pc = 0 /\ f_lasti = 0
      /\ f_stackdepth = 0 /\ slot = [i \in 1 .. MaxHeight |-> Null] /\ f_blockstack = <<>>
      /\ exc_info = State(outside) /\ curexc = NoExc
      /\ refs = [o \in Object |-> IF \E i \in 1 .. 3 : State(outside)[i] = o THEN 1 ELSE 0]
  BY DEF Init
<1>2. 0 \in DOMAIN code /\ nest[0] = <<>> /\ sp_map[0] = 0
  BY <1>1 DEF Balanced, Structured
<1>3. TypeOK
  <2>1. exc_info \in States
    BY <1>1 DEF States
  <2>2. refs \in [Object -> Nat] /\ slot \in [1 .. MaxHeight -> Object \cup {Null}]
    BY <1>1
  <2>3. f_stackdepth \in 0 .. MaxHeight
    BY <1>1, ObjectsDistinct
  <2> QED BY <1>1, <1>2, <2>1, <2>2, <2>3 DEF TypeOK
<1>4. CountsExact
  <2>1. owned = 0
    BY <1>1, <1>2 DEF owned, height
  <2>2. ASSUME NEW o \in Object
        PROVE  refs[o] = Holds(slot, 1, 0, o) + InTriple(exc_info, o) + InSet(curexc, o)
    <3>1. Holds(slot, 1, 0, o) = 0 /\ InSet(curexc, o) = 0
      BY <1>1, HoldsNone DEF InSet
    <3>2. InTriple(exc_info, o) =
            Is(exc_info[1], o) + Is(exc_info[2], o) + Is(exc_info[3], o)
      BY ThreeIn
    <3>3. CASE outside = NoExc
      <4>1. exc_info = <<Null, Null, Null>>
        BY <1>1, <3>3, NoTriples
      <4>2. exc_info[1] # o /\ exc_info[2] # o /\ exc_info[3] # o
        BY <4>1, ObjectsDistinct
      <4>3. \A i \in 1 .. 3 : exc_info[i] # o
        BY <4>1, <4>2
      <4>4. refs[o] = 0
        BY <1>1, <4>3
      <4> QED BY <3>1, <3>2, <4>2, <4>4 DEF Is
    <3>4. CASE outside \in Exc
      <4>1. PICK a, b, c : /\ exc_info = <<a, b, c>> /\ a # b /\ b # c /\ a # c
        BY <1>1, <3>4, Triples
      <4>2. Is(a, o) + Is(b, o) + Is(c, o) = IF a = o \/ b = o \/ c = o THEN 1 ELSE 0
        BY <4>1 DEF Is
      <4>3. (\E i \in 1 .. 3 : exc_info[i] = o) <=> a = o \/ b = o \/ c = o
        <5>1. \A i \in 1 .. 3 : i = 1 \/ i = 2 \/ i = 3
          OBVIOUS
        <5>2. exc_info[1] = a /\ exc_info[2] = b /\ exc_info[3] = c
          BY <4>1
        <5> QED BY <5>1, <5>2
      <4>4. refs[o] = IF a = o \/ b = o \/ c = o THEN 1 ELSE 0
        BY <1>1, <4>3
      <4>5. InTriple(exc_info, o) = Is(a, o) + Is(b, o) + Is(c, o)
        BY <3>2, <4>1
      <4> QED BY <3>1, <4>2, <4>4, <4>5
    <3> QED BY <1>1, <3>3, <3>4
  <2> QED BY <2>1, <2>2, CountsAre DEF Counted
<1>5. StackFits(sp_map, nest, nest[pc], slot, f_blockstack)
  <2>1. Len(f_blockstack) = 0 /\ f_blockstack \in Seq(Block) /\ Len(nest[pc]) = 0
    BY <1>1, <1>2, EmptySeq
  <2> QED BY <2>1 DEF StackFits
<1>6. Phases(nest)
  <2>1. code[0].op # "END_ASYNC_FOR"
    <3>1. Nested(nest, 0)
      BY <1>2 DEF Structured
    <3> QED BY <1>2, <3>1, HandlerTop
  <2>2. Len(f_blockstack) = Len(nest[pc])
    BY <1>1, <1>2
  <2> QED BY <1>1, <2>1, <2>2 DEF Phases, unit
<1> QED BY <1>1, <1>3, <1>4, <1>5, <1>6 DEF Inv

LEMMA Inductive ==
  ASSUME Enough
  PROVE  Spec /\ Compiled => []IInv
<1>1. Init /\ Compiled => IInv
  BY Start DEF Compiled, IInv
<1>2. IInv /\ [Next]_vars => IInv'
  <2>1. SUFFICES ASSUME IInv, [Next]_vars PROVE IInv'
    OBVIOUS
  <2>2. PICK nest : Inv(nest)
    BY <2>1 DEF IInv
  <2>3. Inv(nest)'
    BY <2>1, <2>2, Step
  <2> QED BY <2>3 DEF IInv
<1> QED BY <1>1, <1>2, PTL DEF Spec

-----------------------------------------------------------------------------
(* The blocks, as ExceptionState has them.                                 *)

Shape(nest) == [i \in 1 .. Len(f_blockstack) |-> Meant(nest[pc][i], slot)]

\* SavedAt finds what a handler saved where the compiler's nesting says it is.
LEMMA SavedAtIs ==
  ASSUME NEW nest, Inv(nest), NEW i \in 1 .. Len(f_blockstack)
  PROVE  SavedAt(i) = nest[pc][i].saved
<1>1. PICK n : n = nest[pc]
  OBVIOUS
<1>2. phase \in {"run", "unwind"}
  <2>1. f_blockstack # <<>>
    BY EmptySeq
  <2> QED BY <2>1 DEF Inv, Phases, TypeOK
<1>3. pc \in DOMAIN code /\ Balanced /\ Structured(nest) /\ Nested(nest, pc) /\ Ordered(n)
  BY <1>1, <1>2, AtRun, AtUnwind, Around
<1>4. StackFits(sp_map, nest, n, slot, f_blockstack)
  BY <1>1, <1>2, AtRun, AtUnwind
<1>5. i \in 1 .. Len(n) /\ i \in Nat /\ Len(n) \in Nat /\ Len(f_blockstack) \in Nat
  BY <1>3, <1>4 DEF StackFits, Ordered
<1>6. PICK l, v \in Nat : l = n[i].level /\ v = n[i].saved
  BY <1>3, <1>5, InOrderAt DEF Entry
<1>7. f_blockstack[i].b_level = l /\ v \in {l, l + 1}
  BY <1>3, <1>4, <1>5, <1>6, InOrderAt DEF StackFits, Fits
<1>8. CASE Running({"POP_EXCEPT"})
  <2>1. phase = "run" /\ code[pc].op = "POP_EXCEPT"
    BY <1>8 DEF Running, unit
  <2>2. Len(f_blockstack) = Len(n) /\ sp_map[pc] \in Nat
    BY <1>1, <2>1, AtRun
  <2>3. sp_map[pc] = n[Len(n)].saved + 3
    BY <1>1, <1>3, <2>1, BlockLeft
  <2>4. CASE i = Len(n)
    <3>1. sp_map[pc] = l + 4 <=> v = l + 1
      BY <1>6, <2>3, <2>4
    <3> QED BY <1>1, <1>6, <1>7, <1>8, <2>2, <2>4, <3>1 DEF SavedAt, height
  <2>5. CASE i # Len(n)
    <3>1. i \in 1 .. Len(n) - 1 /\ Len(n) \in 1 .. Len(n)
      BY <1>5, <2>5
    <3>2. v = l
      BY <1>3, <1>6, <3>1, InOrderAt
    <3> QED BY <1>1, <1>6, <1>7, <2>2, <2>5, <3>2 DEF SavedAt
  <2> QED BY <2>4, <2>5
<1>9. CASE ~Running({"POP_EXCEPT"})
  <2>1. code[pc].op # "POP_EXCEPT"
    BY <1>2, <1>9, AtUnwind DEF Running, unit
  <2>2. v = l
    BY <1>1, <1>3, <1>5, <1>6, <2>1, SavedAtLevel
  <2> QED BY <1>1, <1>6, <1>7, <1>9, <2>2 DEF SavedAt
<1> QED BY <1>8, <1>9

Shapes == \A nest : Inv(nest) => Blocks = Shape(nest)

LEMMA BlocksAre == Shapes
<1>1. ASSUME NEW nest, Inv(nest) PROVE Blocks = Shape(nest)
  <2>1. StackFits(sp_map, nest, nest[pc], slot, f_blockstack)
    BY <1>1 DEF Inv
  <2>2. ASSUME NEW i \in 1 .. Len(f_blockstack)
        PROVE  Meant(nest[pc][i], slot) =
                 IF f_blockstack[i].b_type = "EXCEPT_HANDLER"
                   THEN [handler |-> TRUE,
                         saved |-> ExceptionOf(slot[SavedAt(i) + 3], slot[SavedAt(i) + 2])]
                   ELSE [handler |-> FALSE, saved |-> NoExc]
    <3>1. PICK e, b, l : e = nest[pc][i] /\ b = f_blockstack[i] /\ l = e.saved
      OBVIOUS
    <3>2. SavedAt(i) = l
      BY <1>1, <3>1, SavedAtIs
    <3>3. /\ e.try => b.b_type = "SETUP_FINALLY"
          /\ ~e.try => b.b_type = "EXCEPT_HANDLER"
      BY <2>1, <3>1 DEF StackFits, Fits
    <3>4. Exception(Saved(slot, l)) = ExceptionOf(slot[l + 3], slot[l + 2])
      BY DEF Exception, Saved
    <3>5. CASE e.try
      <4>1. b.b_type # "EXCEPT_HANDLER" /\ Meant(e, slot) = ATry
        BY <3>3, <3>5 DEF Meant
      <4> QED BY <3>1, <4>1 DEF ATry
    <3>6. CASE ~e.try
      <4>1. b.b_type = "EXCEPT_HANDLER" /\ Meant(e, slot) = AHandler(Exception(Saved(slot, l)))
        BY <3>1, <3>3, <3>6 DEF Meant
      <4> QED BY <3>1, <3>2, <3>4, <4>1 DEF AHandler
    <3> QED BY <3>5, <3>6
  <2> QED BY <2>2 DEF Blocks, Shape
<1> QED BY <1>1 DEF Shapes

\* A sequence of k, given place by place.
Listed(B, k) == B = [i \in 1 .. k |-> B[i]]

LEMMA ListedIs ==
  ASSUME NEW k \in Nat, NEW B, Listed(B, k), NEW T, \A i \in 1 .. k : B[i] \in T
  PROVE  Len(B) = k /\ B \in Seq(T)
<1>1. B = [i \in 1 .. k |-> B[i]]
  BY DEF Listed
<1>2. B \in [1 .. k -> T]
  BY <1>1
<1> QED BY <1>2, LenProperties, SeqDef

LEMMA SameList ==
  ASSUME NEW k \in Nat, NEW B, Listed(B, k), NEW C, Listed(C, k), \A i \in 1 .. k : C[i] = B[i]
  PROVE  C = B
BY DEF Listed

LEMMA ListAppend ==
  ASSUME NEW k \in Nat, NEW B, Listed(B, k), NEW C, Listed(C, k + 1), \A i \in 1 .. k : C[i] = B[i],
         NEW x, C[k + 1] = x
  PROVE  C = Append(B, x)
<1>1. PICK T : x \in T /\ \A i \in 1 .. k : B[i] \in T
  <2>1. PICK S : S = {x} \cup {B[i] : i \in 1 .. k}
    OBVIOUS
  <2> QED BY <2>1
<1>2. Len(B) = k /\ B \in Seq(T)
  BY <1>1, ListedIs
<1>3. PICK D : D = Append(B, x)
  OBVIOUS
<1>4. D \in Seq(T) /\ Len(D) = k + 1 /\ D[k + 1] = x /\ \A i \in 1 .. k : D[i] = B[i]
  BY <1>1, <1>2, <1>3, PushIs
<1>5. D = [i \in 1 .. k + 1 |-> D[i]]
  BY <1>4
<1>6. ASSUME NEW i \in 1 .. k + 1 PROVE D[i] = C[i]
  <2>1. i \in 1 .. k \/ i = k + 1
    OBVIOUS
  <2> QED BY <1>4, <2>1
<1> QED BY <1>3, <1>5, <1>6 DEF Listed

LEMMA ListRest ==
  ASSUME NEW k \in Nat \ {0}, NEW B, Listed(B, k), NEW C, Listed(C, k - 1),
         \A i \in 1 .. k - 1 : C[i] = B[i]
  PROVE  C = SubSeq(B, 1, Len(B) - 1) /\ B # <<>> /\ Len(B) = k
<1>1. PICK T : \A i \in 1 .. k : B[i] \in T
  <2>1. PICK S : S = {B[i] : i \in 1 .. k}
    OBVIOUS
  <2> QED BY <2>1
<1>2. Len(B) = k /\ B \in Seq(T)
  BY <1>1, ListedIs
<1>3. B # <<>>
  BY <1>2, EmptySeq
<1>4. PICK D : D = SubSeq(B, 1, Len(B) - 1)
  OBVIOUS
<1>5. D \in Seq(T) /\ Len(D) = k - 1 /\ \A i \in 1 .. k - 1 : D[i] = B[i]
  BY <1>2, <1>3, <1>4, RestIs
<1>6. D = [i \in 1 .. k - 1 |-> D[i]]
  BY <1>5
<1>7. C = D
  BY <1>5, <1>6 DEF Listed
<1> QED BY <1>2, <1>3, <1>4, <1>7

handling == ExceptionOf(exc_info[1], exc_info[2])
raised   == IF curexc = NoExc THEN NoExc ELSE curexc[2][1]

LEMMA Refines ==
  ASSUME NEW nest, Inv(nest), Inv(nest)', Does(nest)
  PROVE  [Abstract!Next]_(Abstract!vars)
<1>1. Blocks = Shape(nest) /\ Blocks' = Shape(nest)'
  <2>1. Shapes'
    BY BlocksAre, PTL
  <2> QED BY <2>1, BlocksAre DEF Shapes
<1>2. PICK k, j \in Nat : k = Len(f_blockstack) /\ j = Len(f_blockstack')
  <2>1. f_blockstack \in Seq(Block)
    BY DEF Inv, StackFits
  <2>2. f_blockstack' \in Seq(Block)
    BY DEF Inv, StackFits
  <2> QED BY <2>1, <2>2
<1>3. PICK B, C : B = Blocks /\ C = Blocks'
  OBVIOUS
<1>4. PICK n, m, s, t : n = nest[pc] /\ m = nest[pc'] /\ s = slot /\ t = slot'
  OBVIOUS
<1>5. /\ Listed(B, k) /\ \A i \in 1 .. k : B[i] = Meant(n[i], s)
      /\ Listed(C, j) /\ \A i \in 1 .. j : C[i] = Meant(m[i], t)
  BY <1>1, <1>2, <1>3, <1>4 DEF Shape, Listed
<1>7. PICK h, g : h = handling /\ g = handling'
  OBVIOUS
<1>8. PICK r, q : r = raised /\ q = raised'
  OBVIOUS
<1>9. h = Exception(exc_info) /\ g = Exception(exc_info')
  BY <1>7 DEF handling, Exception
<1>10. /\ UNCHANGED exc_info => g = h
       /\ UNCHANGED curexc => q = r
       /\ curexc = NoExc => r = NoExc
       /\ curexc' = NoExc => q = NoExc
  BY <1>7, <1>8 DEF handling, raised
<1>11. /\ curexc # NoExc => r \in Exc /\ r # NoExc /\ r = Exception(curexc)
       /\ curexc' \in Raised => q \in Exc
  <2>1. \A c \in Raised : c # NoExc /\ c[2][1] \in Exc /\ c[2][1] # NoExc /\ c[2][1] = Exception(c)
    BY Triples, ObjectsDistinct DEF Raised
  <2>2. curexc \in Raised \cup {NoExc}
    BY DEF Inv, TypeOK, Raised
  <2> QED BY <1>8, <2>1, <2>2 DEF raised
<1>12. CASE Quiet(nest)
  <2>1. C = B
    BY <1>2, <1>4, <1>5, <1>12, SameList DEF Quiet, MeansSame
  <2>2. UNCHANGED outside /\ UNCHANGED Blocks /\ UNCHANGED handling /\ UNCHANGED raised
    BY <1>3, <1>7, <1>8, <1>10, <1>12, <2>1 DEF Quiet
  <2> QED BY <2>2 DEF Abstract!vars, handling, raised
<1>13. CASE curexc = NoExc /\ Encloses(nest)
  <2>1. C = Append(B, ATry)
    <3>1. j = k + 1 /\ (\A i \in 1 .. k : C[i] = B[i]) /\ C[k + 1] = ATry
      BY <1>2, <1>4, <1>5, <1>13 DEF Encloses, MeansSame
    <3> QED BY <1>5, <3>1, ListAppend
  <2>2. /\ raised = NoExc /\ Blocks' = Append(Blocks, ATry)
        /\ UNCHANGED outside /\ UNCHANGED handling /\ UNCHANGED raised
    BY <1>3, <1>7, <1>8, <1>10, <1>13, <2>1 DEF Encloses
  <2>3. Abstract!EnterTry
    BY <2>2 DEF Abstract!EnterTry, Abstract!Try, ATry, handling, raised
  <2> QED BY <2>3 DEF Abstract!Next
<1>14. CASE curexc = NoExc /\ Leaves(nest)
  <2>1. k \in Nat \ {0} /\ j = k - 1 /\ (\A i \in 1 .. k - 1 : C[i] = B[i]) /\ B[k] = ATry
    <3>1. k # 0
      BY <1>2, <1>14, EmptySeq DEF Leaves, Inv, StackFits
    <3>2. B[k] = ATry
      BY <1>2, <1>4, <1>5, <1>14, <3>1 DEF Leaves, Meant
    <3> QED BY <1>2, <1>4, <1>5, <1>14, <3>1, <3>2 DEF Leaves, MeansSame
  <2>2. C = SubSeq(B, 1, Len(B) - 1) /\ B # <<>> /\ Len(B) = k
    BY <1>5, <2>1, ListRest
  <2>3. /\ raised = NoExc /\ Blocks' = SubSeq(Blocks, 1, Len(Blocks) - 1) /\ Blocks # <<>>
        /\ Blocks[Len(Blocks)] = ATry
        /\ UNCHANGED outside /\ UNCHANGED handling /\ UNCHANGED raised
    BY <1>3, <1>7, <1>8, <1>10, <1>14, <2>1, <2>2 DEF Leaves
  <2>4. Abstract!LeaveTry
    BY <2>3 DEF Abstract!LeaveTry, Abstract!Top, Abstract!Rest, ATry, handling, raised
  <2> QED BY <2>4 DEF Abstract!Next
<1>15. CASE curexc = NoExc /\ Throws(nest)
  <2>1. C = B
    BY <1>2, <1>4, <1>5, <1>15, SameList DEF Throws, MeansSame
  <2>2. /\ raised = NoExc /\ raised' \in Exc
        /\ UNCHANGED outside /\ UNCHANGED Blocks /\ UNCHANGED handling
    BY <1>3, <1>7, <1>8, <1>10, <1>11, <1>15, <2>1 DEF Throws
  <2>3. Abstract!Raise(raised')
    BY <2>2 DEF Abstract!Raise, handling, raised
  <2> QED BY <2>2, <2>3 DEF Abstract!Next
<1>16. CASE Catches(nest)
  <2>1. /\ k \in Nat \ {0} /\ j = k /\ (\A i \in 1 .. k - 1 : C[i] = B[i])
        /\ B[k] = ATry /\ C[k] = AHandler(h)
    <3>1. k # 0
      BY <1>2, <1>16, EmptySeq DEF Catches, Inv, StackFits
    <3>2. B[k] = ATry
      BY <1>2, <1>4, <1>5, <1>16, <3>1 DEF Catches, Meant
    <3> QED BY <1>2, <1>4, <1>5, <1>9, <1>16, <3>1, <3>2 DEF Catches, MeansSame
  <2>2. PICK D : D = [i \in 1 .. k - 1 |-> B[i]]
    OBVIOUS
  <2>3. Listed(D, k - 1) /\ \A i \in 1 .. k - 1 : D[i] = B[i]
    BY <2>2 DEF Listed
  <2>4. D = SubSeq(B, 1, Len(B) - 1) /\ B # <<>> /\ Len(B) = k
    BY <1>5, <2>1, <2>3, ListRest
  <2>5. C = Append(D, AHandler(h))
    <3>1. k - 1 \in Nat /\ k - 1 + 1 = k /\ \A i \in 1 .. k - 1 : C[i] = D[i]
      BY <2>1, <2>3
    <3>2. Listed(C, k - 1 + 1) /\ C[k - 1 + 1] = AHandler(h)
      BY <1>5, <2>1, <3>1
    <3> QED BY <2>3, <3>1, <3>2, ListAppend
  <2>6. /\ raised # NoExc /\ raised' = NoExc /\ handling' = raised /\ UNCHANGED outside
        /\ Blocks # <<>> /\ Blocks[Len(Blocks)] = ATry
        /\ Blocks' = Append(SubSeq(Blocks, 1, Len(Blocks) - 1), AHandler(handling))
    <3>1. g = r /\ r # NoExc /\ q = NoExc
      BY <1>9, <1>10, <1>11, <1>16 DEF Catches
    <3> QED BY <1>3, <1>7, <1>8, <1>16, <2>1, <2>4, <2>5, <3>1 DEF Catches
  <2>7. Abstract!Catch
    BY <2>6 DEF Abstract!Catch, Abstract!Top, Abstract!Rest, Abstract!Handler, ATry, AHandler,
                handling, raised
  <2> QED BY <2>7 DEF Abstract!Next
<1>17. CASE Restores(nest)
  <2>1. /\ k \in Nat \ {0} /\ j = k - 1 /\ (\A i \in 1 .. k - 1 : C[i] = B[i])
        /\ B[k] = AHandler(g)
    <3>1. k # 0
      BY <1>2, <1>17, EmptySeq DEF Restores, Inv, StackFits
    <3>2. B[k] = AHandler(g)
      BY <1>2, <1>4, <1>5, <1>9, <1>17, <3>1 DEF Restores, Meant
    <3> QED BY <1>2, <1>4, <1>5, <1>17, <3>1, <3>2 DEF Restores, MeansSame
  <2>2. C = SubSeq(B, 1, Len(B) - 1) /\ B # <<>> /\ Len(B) = k
    BY <1>5, <2>1, ListRest
  <2>3. /\ Blocks' = SubSeq(Blocks, 1, Len(Blocks) - 1) /\ Blocks # <<>>
        /\ Blocks[Len(Blocks)] = AHandler(handling')
        /\ UNCHANGED outside /\ UNCHANGED raised
    BY <1>3, <1>7, <1>8, <1>10, <1>17, <2>1, <2>2 DEF Restores
  <2>4. Abstract!LeaveHandler
    BY <2>3 DEF Abstract!LeaveHandler, Abstract!Top, Abstract!Rest, AHandler, handling, raised
  <2> QED BY <2>4 DEF Abstract!Next
<1> QED BY <1>12, <1>13, <1>14, <1>15, <1>16, <1>17 DEF Does

\* Types: exc_info and the exception set are always three objects that belong
\* together, and the stack stays within the frame.
THEOREM TypeCorrect ==
  ASSUME Enough
  PROVE  Spec /\ Compiled => []TypeOK
<1>1. IInv => TypeOK
  BY DEF IInv, Inv
<1> QED BY <1>1, Inductive, PTL

\* Whatever is raised, caught, raised again or suppressed, and however deep the
\* handlers nest, nothing is released twice and nothing leaks.
THEOREM CountsStayExact ==
  ASSUME Enough
  PROVE  Spec /\ Compiled => []CountsExact
<1>1. IInv => CountsExact
  BY DEF IInv, Inv
<1> QED BY <1>1, Inductive, PTL

\* The block stack is never empty, or of the wrong kind, where handle_POP_BLOCK,
\* handle_POP_EXCEPT and handle_RERAISE assert what they find there.
THEOREM AssertionsNeverFail ==
  ASSUME Enough
  PROVE  Spec /\ Compiled => []AssertionsHold
<1>1. ASSUME NEW nest, Inv(nest) PROVE AssertionsHold
  <2>1. phase \in {"returned", "raised"} => f_stackdepth = 0
    BY <1>1 DEF Inv, Phases
  <2>2. ASSUME Running({"POP_BLOCK", "POP_EXCEPT", "RERAISE"})
        PROVE  /\ f_blockstack # <<>>
               /\ code[pc].op = "POP_EXCEPT" =>
                    /\ TopBlock.b_type = "EXCEPT_HANDLER"
                    /\ height \in TopBlock.b_level + 3 .. TopBlock.b_level + 4
               /\ code[pc].op = "RERAISE" => sp_map[ReraiseLasti] = TopBlock.b_level + 6
    <3>1. phase = "run" /\ code[pc].op \in {"POP_BLOCK", "POP_EXCEPT", "RERAISE"}
      BY <2>2 DEF Running, unit
    <3>2. PICK n : n = nest[pc]
      OBVIOUS
    <3>3. /\ Len(f_blockstack) = Len(n) /\ Nested(nest, pc) /\ Ordered(n) /\ n \in Seq(Entry)
          /\ StackFits(sp_map, nest, n, slot, f_blockstack) /\ sp_map[pc] \in Nat
          /\ f_blockstack \in Seq(Block)
      BY <1>1, <3>1, <3>2, AtRun
    <3>4. n # <<>>
      BY <3>1, <3>2, <3>3, BlockLeft, HandlerTop
    <3>5. Len(n) \in Nat \ {0} /\ Len(n) \in 1 .. Len(n) /\ f_blockstack # <<>>
      BY <3>3, <3>4, EmptySeq
    <3>6. PICK e : e = n[Len(n)]
      OBVIOUS
    <3>7. PICK l, v \in Nat : l = e.level /\ v = e.saved /\ v \in {l, l + 1}
      BY <3>3, <3>5, <3>6, InOrderAt DEF Entry
    <3>8. Fits(sp_map, nest, n, Len(n), slot, f_blockstack[Len(n)])
      BY <3>3, <3>5 DEF StackFits
    <3>9. TopBlock.b_level = l /\ (~e.try => TopBlock.b_type = "EXCEPT_HANDLER")
      BY <3>3, <3>6, <3>7, <3>8 DEF Fits, TopBlock
    <3>10. CASE code[pc].op = "POP_EXCEPT"
      <4>1. ~e.try /\ sp_map[pc] = v + 3
        BY <3>2, <3>3, <3>6, <3>7, <3>10, BlockLeft
      <4>2. height \in l + 3 .. l + 4
        BY <3>7, <4>1 DEF height
      <4> QED BY <3>5, <3>9, <3>10, <4>1, <4>2
    <3>11. CASE code[pc].op = "RERAISE"
      <4>1. sp_map[pc] = l + 6 /\ code[pc].arg = 0
        BY <3>2, <3>3, <3>6, <3>7, <3>11, HandlerTop
      <4>2. ReraiseLasti = pc
        BY <4>1 DEF ReraiseLasti, unit
      <4> QED BY <3>5, <3>9, <3>11, <4>1, <4>2
    <3>12. CASE code[pc].op = "POP_BLOCK"
      BY <3>5, <3>12
    <3> QED BY <3>1, <3>10, <3>11, <3>12
  <2> QED BY <2>1, <2>2 DEF AssertionsHold, Running, unit
<1>2. IInv => AssertionsHold
  BY <1>1 DEF IInv
<1> QED BY <1>2, Inductive, PTL

\* gotoUnwind enters a handler with the stack as high as the analysis said.
THEOREM HandlersEnteredRight ==
  ASSUME Enough
  PROVE  Spec /\ Compiled => HandlerHeight
<1>1. ASSUME IInv, [Next]_vars
      PROVE  [phase = "unwind" /\ phase' = "run" => f_stackdepth' = sp_map[pc']]_vars
  BY <1>1, Step DEF IInv
<1>2. IInv /\ [Next]_vars =>
        [phase = "unwind" /\ phase' = "run" => f_stackdepth' = sp_map[pc']]_vars
  BY <1>1
<1> QED BY <1>2, Inductive, PTL DEF Spec, HandlerHeight

LEMMA AbstractStart ==
  ASSUME Init
  PROVE  Abstract!Init
<1>1. /\ f_blockstack = <<>> /\ outside \in Exc \cup {NoExc}
      /\ exc_info = State(outside) /\ curexc = NoExc
  BY DEF Init
<1>2. Blocks = <<>>
  <2>1. Len(f_blockstack) = 0
    BY <1>1, EmptySeq
  <2>2. \A f : [i \in 1 .. 0 |-> f[i]] = <<>>
    OBVIOUS
  <2> QED BY <2>1, <2>2 DEF Blocks
<1>3. Exception(exc_info) = outside
  BY <1>1, Triples, NoTriples
<1> QED BY <1>1, <1>2, <1>3 DEF Abstract!Init, Abstract!Handled, Exception

\* The block stack, the values that handlers save and exc_info nest the exceptions
\* being handled as the program's handlers nest, in every function.
THEOREM ImplementsExceptionState ==
  ASSUME Enough
  PROVE  Spec /\ Compiled => Implements
<1>1. Init => Abstract!Init
  BY AbstractStart
<1>2. IInv /\ [Next]_vars => [Abstract!Next]_(Abstract!vars)
  <2>1. SUFFICES ASSUME IInv, [Next]_vars PROVE [Abstract!Next]_(Abstract!vars)
    OBVIOUS
  <2>2. PICK nest : Inv(nest)
    BY <2>1 DEF IInv
  <2>3. Inv(nest)' /\ Does(nest)
    BY <2>1, <2>2, Step
  <2> QED BY <2>2, <2>3, Refines
<1> QED BY <1>1, <1>2, Inductive, PTL DEF Spec, Implements, Abstract!Spec

Nesting == INSTANCE ExceptionStateProofs WITH
  blocks <- Blocks, handled <- handling, raising <- raised

\* While no handler is entered sys.exc_info() is the caller's, and when the function
\* is left no block is: this follows from what ExceptionState promises.
THEOREM CallersExceptionBack ==
  ASSUME Enough
  PROVE  Spec /\ Compiled => []OutsideRestored
<1>1. Implements => Nesting!Spec
  <2>1. Abstract!Init => Nesting!Init
    BY DEF Abstract!Init, Nesting!Init, Abstract!Handled, Nesting!Handled, handling, raised
  <2>2. [Abstract!Next]_(Abstract!vars) => [Nesting!Next]_(Nesting!vars)
    BY DEF Abstract!Next, Nesting!Next, Abstract!vars, Nesting!vars,
           Abstract!EnterTry, Nesting!EnterTry, Abstract!LeaveTry, Nesting!LeaveTry,
           Abstract!Raise, Nesting!Raise, Abstract!Catch, Nesting!Catch,
           Abstract!LeaveHandler, Nesting!LeaveHandler, Abstract!Top, Nesting!Top,
           Abstract!Rest, Nesting!Rest, Abstract!Try, Nesting!Try,
           Abstract!Handler, Nesting!Handler, handling, raised
  <2> QED BY <2>1, <2>2, PTL DEF Implements, Abstract!Spec, Nesting!Spec
<1>2. Nesting!OutsideRestored => Abstract!OutsideRestored
  BY DEF Nesting!OutsideRestored, Abstract!OutsideRestored, handling
<1>3. IInv => (phase \in {"returned", "raised"} => f_blockstack = <<>>)
  BY DEF IInv, Inv, Phases
<1>4. Nesting!Spec => []Nesting!OutsideRestored
  BY Nesting!CallersExceptionRestored
<1>5. IInv /\ Nesting!OutsideRestored => OutsideRestored
  BY <1>2, <1>3 DEF OutsideRestored
<1> QED BY <1>1, <1>4, <1>5, Inductive, ImplementsExceptionState, PTL
=============================================================================
