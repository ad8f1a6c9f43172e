------------------------ MODULE CompiledLocalsProofs ------------------------
(***************************************************************************)
(* Proofs about the passes on a function's bytecode, for every code the    *)
(* compiler might emit, of any length and nesting, with any number of      *)
(* locals.  Of ParseCFG: the array reserved from the counts of the first   *)
(* pass is filled exactly, what fills it are basic blocks, every jump is   *)
(* resolved, and forward in a block arguments are what they are walking    *)
(* back.  Of CompiledLocals: what the passes find out about the locals     *)
(* holds whenever the emitted code relies on it.                           *)
(***************************************************************************)
EXTENDS CompiledLocals, FiniteSetTheorems, SequenceTheorems, WellFoundedInduction, TLAPS

CodeOK ==
  /\ py_instr_num \in Nat \ {0}
  /\ DOMAIN code = 0 .. py_instr_num - 1
  /\ Emitted(code)

ParseSpec == CodeOK /\ InitParse /\ [][ParseNext]_parseVars

-----------------------------------------------------------------------------
(* The inductive invariant.                                                *)

\* Of the first k units, those that set a try block up.
Setups(k) == {v \in 0 .. k - 1 : isTryBlockSetup(code[v].op)}

ScanInv ==
  /\ cursor \in 0 .. py_instr_num
  /\ is_boundary \subseteq 0 .. py_instr_num
  /\ block_num = Cardinality(is_boundary)
  /\ try_block_num = Cardinality(Setups(cursor))
  /\ \A v \in 0 .. cursor - 1 : Marks(v) \subseteq is_boundary

IsBlock(r) ==
  r = [end_index |-> r.end_index, fall_through |-> r.fall_through, branch |-> r.branch,
       eh_body_enter |-> r.eh_body_enter, eh_body_exit |-> r.eh_body_exit,
       eh_setup_block |-> r.eh_setup_block]

\* What the first pass leaves.
Scanned ==
  /\ is_boundary \subseteq 1 .. py_instr_num
  /\ py_instr_num \in is_boundary
  /\ block_num = Cardinality(is_boundary)
  /\ try_block_num = Cardinality(Setups(py_instr_num))
  /\ \A v \in 0 .. py_instr_num - 1 : Marks(v) \subseteq is_boundary \cup {0}
  /\ blocks = [b \in AllBlocks |-> blocks[b]]
  /\ \A b \in AllBlocks : IsBlock(blocks[b])

\* Block b reaches to the next boundary, and its last unit says what follows.
Cut(b) ==
  LET end == blocks[b].end_index
  IN  /\ end \in is_boundary
      /\ BlockStart(b) < end
      /\ \A e \in is_boundary : e <= BlockStart(b) \/ end <= e
      /\ blocks[b].fall_through = ~isTerminator(code[end - 1].op)
      /\ blocks[b].eh_body_enter = isTryBlockSetup(code[end - 1].op)

\* The first k blocks are cut, at all the boundaries so far.
CutUpTo(k) ==
  /\ \A b \in 0 .. k - 1 : Cut(b)
  /\ \A e \in is_boundary :
       e <= BlockStart(k) => \E b \in 0 .. k - 1 : blocks[b].end_index = e

CreateInv ==
  /\ cursor \in 0 .. block_num
  /\ CutUpTo(cursor)
  /\ Cardinality({e \in is_boundary : e <= BlockStart(cursor)}) = cursor
  /\ \A b \in 0 .. cursor - 1 : blocks[b].eh_body_enter => blocks[b].branch # Nil

LinkInv ==
  /\ cursor \in 0 .. block_num
  /\ CutUpTo(block_num)
  /\ BlockStart(block_num) = py_instr_num
  /\ \A b \in cursor .. block_num - 1 : blocks[b].eh_body_enter => blocks[b].branch # Nil
  /\ exception_block_index = block_num + Cardinality(Setups(BlockStart(cursor)))

IInv ==
  /\ CodeOK
  /\ phase \in {"scan", "create", "link", "parsed"}
  /\ phase = "scan" => ScanInv
  /\ phase # "scan" => Scanned
  /\ phase = "create" => CreateInv
  /\ phase \in {"link", "parsed"} => LinkInv
  /\ phase = "parsed" => cursor = block_num

-----------------------------------------------------------------------------
(* What the code, which no step changes, is like.                          *)

LEMMA CodeRigid ==
  ASSUME code' = code
  PROVE  /\ py_instr_num' = py_instr_num
         /\ CodeOK' <=> CodeOK
         /\ \A k : Setups(k)' = Setups(k)
         /\ \A v : Marks(v)' = Marks(v)
BY DEF py_instr_num, CodeOK, Setups, Marks

LEMMA CodeFacts ==
  ASSUME CodeOK
  PROVE  /\ py_instr_num \in Nat \ {0}
         /\ isTerminator(code[py_instr_num - 1].op)
         /\ \A v \in 0 .. py_instr_num - 1 :
              Jumps(code[v].op) => Destination(code, v) \in 0 .. py_instr_num - 1
         /\ \A v \in 0 .. py_instr_num - 2 : isTerminator(code[v].op) =>
              \E j \in 0 .. py_instr_num - 1 :
                Jumps(code[j].op) /\ Destination(code, j) = v + 1
<1>1. py_instr_num \in Nat \ {0} /\ DOMAIN code = 0 .. py_instr_num - 1
  BY DEF CodeOK
<1>2. Cardinality(DOMAIN code) = py_instr_num
  BY DEF py_instr_num
<1> QED BY <1>1, <1>2 DEF CodeOK, Emitted

\* No unit is of two of the kinds told apart.
LEMMA Opcodes ==
  ASSUME NEW op
  PROVE  /\ isTryBlockSetup(op) => Jumps(op) /\ ~isTerminator(op) /\ op # "YIELD_VALUE"
         /\ op = "POP_BLOCK" => ~Jumps(op) /\ ~isTerminator(op)
BY DEF isTryBlockSetup, Jumps, isTerminator, isRelativeJump, isAbsoluteJmp

LEMMA MarkFacts ==
  ASSUME CodeOK, NEW v \in 0 .. py_instr_num - 1
  PROVE  /\ Marks(v) \subseteq 0 .. py_instr_num
         /\ code[v].op = "POP_BLOCK" => v + 1 \in Marks(v)
         /\ Jumps(code[v].op) => Destination(code, v) \in Marks(v)
         /\ Jumps(code[v].op) /\ ~isTerminator(code[v].op) => v + 1 \in Marks(v)
         /\ isTryBlockSetup(code[v].op) => v + 1 \in Marks(v)
<1>1. CASE code[v].op = "POP_BLOCK"
  BY <1>1, CodeFacts, Opcodes DEF Marks
<1>2. CASE Jumps(code[v].op)
  <2>1. code[v].op # "POP_BLOCK"
    BY <1>2, Opcodes
  <2>2. Marks(v) = {Destination(code, v)} \cup
                     (IF isTerminator(code[v].op) THEN {} ELSE {v + 1})
    BY <1>2, <2>1 DEF Marks
  <2> QED BY <1>2, <2>1, <2>2, CodeFacts, Opcodes
<1>3. CASE code[v].op # "POP_BLOCK" /\ ~Jumps(code[v].op)
  BY <1>3, Opcodes DEF Marks
<1> QED BY <1>1, <1>2, <1>3

-----------------------------------------------------------------------------
(* Counting.                                                               *)

LEMMA SubsetOfInterval ==
  ASSUME NEW m \in Nat, NEW S \in SUBSET (0 .. m)
  PROVE  IsFiniteSet(S) /\ Cardinality(S) \in Nat
<1>1. IsFiniteSet(0 .. m)
  BY FS_Interval
<1>2. IsFiniteSet(S)
  BY <1>1, FS_Subset
<1> QED BY <1>2, FS_CardinalityType

LEMMA Disjoint ==
  ASSUME NEW S, NEW T, IsFiniteSet(S), IsFiniteSet(T), S \cap T = {}
  PROVE  Cardinality(S \cup T) = Cardinality(S) + Cardinality(T)
<1>1. Cardinality(S \cup T) = Cardinality(S) + Cardinality(T) - Cardinality(S \cap T)
  BY FS_Union
<1>2. Cardinality(S \cap T) = 0
  BY FS_EmptySet
<1>3. Cardinality(S) \in Nat /\ Cardinality(T) \in Nat
  BY FS_CardinalityType
<1> QED BY <1>1, <1>2, <1>3

LEMMA SetupsFinite ==
  ASSUME NEW k \in Nat
  PROVE  IsFiniteSet(Setups(k)) /\ Cardinality(Setups(k)) \in Nat
<1>1. Setups(k) \in SUBSET (0 .. k)
  BY DEF Setups
<1> QED BY <1>1, SubsetOfInterval

LEMMA OneMoreUnit ==
  ASSUME NEW k \in Nat
  PROVE  Cardinality(Setups(k + 1)) =
           Cardinality(Setups(k)) + (IF isTryBlockSetup(code[k].op) THEN 1 ELSE 0)
<1>1. Setups(k + 1) = IF isTryBlockSetup(code[k].op) THEN Setups(k) \cup {k} ELSE Setups(k)
  BY DEF Setups
<1>2. k \notin Setups(k)
  BY DEF Setups
<1>3. Cardinality(Setups(k) \cup {k}) = Cardinality(Setups(k)) + 1
  BY <1>2, SetupsFinite, FS_AddElement
<1> QED BY <1>1, <1>3, SetupsFinite

\* Between two boundaries, only the last unit can set a try block up.
LEMMA OneMoreBlock ==
  ASSUME CodeOK, Scanned, NEW start \in 0 .. py_instr_num, NEW end \in is_boundary,
         start < end, \A e \in is_boundary : e <= start \/ end <= e
  PROVE  Cardinality(Setups(end)) =
           Cardinality(Setups(start)) + (IF isTryBlockSetup(code[end - 1].op) THEN 1 ELSE 0)
<1>1. end \in 1 .. py_instr_num /\ start \in Nat /\ py_instr_num \in Nat
  BY CodeFacts DEF Scanned
<1>2. ASSUME NEW v \in start .. end - 2 PROVE ~isTryBlockSetup(code[v].op)
  <2>1. v \in 0 .. py_instr_num - 1 /\ v + 1 \in 1 .. py_instr_num
    BY <1>1
  <2>2. v + 1 \notin is_boundary
    BY <1>1
  <2>3. v + 1 \notin Marks(v)
    BY <2>1, <2>2 DEF Scanned
  <2> QED BY <2>1, <2>3, MarkFacts
<1>3. Setups(end) = IF isTryBlockSetup(code[end - 1].op) THEN Setups(start) \cup {end - 1}
                                                         ELSE Setups(start)
  <2>1. ASSUME NEW v \in Setups(end), v # end - 1 PROVE v \in Setups(start)
    <3>1. v \in 0 .. end - 2 /\ isTryBlockSetup(code[v].op)
      BY <1>1, <2>1 DEF Setups
    <3>2. v \notin start .. end - 2
      BY <1>2, <3>1
    <3> QED BY <1>1, <3>1, <3>2 DEF Setups
  <2>2. Setups(start) \subseteq Setups(end)
    BY <1>1 DEF Setups
  <2>3. end - 1 \in Setups(end) <=> isTryBlockSetup(code[end - 1].op)
    BY <1>1 DEF Setups
  <2> QED BY <2>1, <2>2, <2>3
<1>4. end - 1 \notin Setups(start)
  BY <1>1 DEF Setups
<1>5. Cardinality(Setups(start) \cup {end - 1}) = Cardinality(Setups(start)) + 1
  BY <1>1, <1>4, SetupsFinite, FS_AddElement
<1> QED BY <1>1, <1>3, <1>5, SetupsFinite

-----------------------------------------------------------------------------
(* The first pass.                                                         *)

LEMMA InitOK ==
  ASSUME CodeOK, InitParse
  PROVE  IInv
<1>1. Setups(0) = {}
  BY DEF Setups
<1>2. ScanInv
  <2>1. /\ cursor = 0 /\ is_boundary = {}
        /\ block_num = 0 /\ try_block_num = 0
    BY DEF InitParse
  <2>2. Setups(cursor) = {} /\ 0 .. cursor - 1 = {}
    BY <1>1, <2>1
  <2>3. Cardinality({}) = 0 /\ py_instr_num \in Nat
    BY FS_EmptySet, CodeFacts
  <2>4. \A v \in 0 .. cursor - 1 : Marks(v) \subseteq is_boundary
    BY <2>2
  <2>5. Cardinality(is_boundary) = 0 /\ Cardinality(Setups(cursor)) = 0
    BY <2>1, <2>2, <2>3
  <2>6. cursor \in 0 .. py_instr_num /\ is_boundary \subseteq 0 .. py_instr_num
    BY <2>1, <2>3
  <2> QED BY <2>1, <2>4, <2>5, <2>6 DEF ScanInv
<1> QED BY <1>2 DEF InitParse, IInv

LEMMA ScanKeeps ==
  ASSUME IInv, Scan
  PROVE  IInv'
<1>1. /\ CodeOK /\ ScanInv /\ code' = code /\ phase = "scan" /\ phase' = "scan"
      /\ py_instr_num \in Nat \ {0} /\ cursor \in 0 .. py_instr_num - 1
      /\ cursor' = cursor + 1
  BY CodeFacts DEF IInv, ScanInv, Scan
<1>2. py_instr_num' = py_instr_num /\ CodeOK' /\ \A v : Marks(v)' = Marks(v)
  BY <1>1, CodeRigid
<1>3. Marks(cursor) \subseteq 0 .. py_instr_num
  BY <1>1, MarkFacts
<1>4. is_boundary' \subseteq 0 .. py_instr_num /\ is_boundary' = is_boundary \cup Marks(cursor)
  BY <1>1, <1>3 DEF Scan, ScanInv
<1>5. block_num' = Cardinality(is_boundary')
  <2>1. is_boundary \in SUBSET (0 .. py_instr_num)
        /\ Marks(cursor) \ is_boundary \in SUBSET (0 .. py_instr_num)
    BY <1>1, <1>3 DEF ScanInv
  <2>2. IsFiniteSet(is_boundary) /\ IsFiniteSet(Marks(cursor) \ is_boundary)
    BY <1>1, <2>1, SubsetOfInterval
  <2>3. Cardinality(is_boundary \cup (Marks(cursor) \ is_boundary))
          = Cardinality(is_boundary) + Cardinality(Marks(cursor) \ is_boundary)
    BY <2>2, Disjoint
  <2>4. is_boundary' = is_boundary \cup (Marks(cursor) \ is_boundary)
    BY <1>4
  <2> QED BY <2>3, <2>4, <1>1 DEF Scan, ScanInv
<1>6. try_block_num' = Cardinality(Setups(cursor + 1))
  <2>1. cursor \in Nat
    BY <1>1
  <2>2. /\ try_block_num' =
             IF isTryBlockSetup(code[cursor].op) THEN try_block_num + 1 ELSE try_block_num
        /\ try_block_num = Cardinality(Setups(cursor))
    BY <1>1 DEF Scan, ScanInv
  <2> QED BY <2>1, <2>2, OneMoreUnit, SetupsFinite
<1>7. Setups(cursor)' = Setups(cursor + 1)
  BY <1>1 DEF Setups
<1>8. \A v \in 0 .. cursor' - 1 : Marks(v)' \subseteq is_boundary'
  BY <1>1, <1>2, <1>4 DEF ScanInv
<1>9. ScanInv'
  BY <1>1, <1>2, <1>4, <1>5, <1>6, <1>7, <1>8 DEF ScanInv
<1> QED BY <1>1, <1>2, <1>9 DEF IInv

LEMMA EndScanKeeps ==
  ASSUME IInv, EndScan
  PROVE  IInv'
<1>1. /\ CodeOK /\ ScanInv /\ code' = code /\ phase' = "create"
      /\ py_instr_num \in Nat \ {0} /\ cursor = py_instr_num /\ cursor' = 0
      /\ try_block_num' = try_block_num
      /\ is_boundary' = (is_boundary \cup {py_instr_num}) \ {0}
      /\ is_boundary \subseteq 0 .. py_instr_num
  BY CodeFacts DEF IInv, ScanInv, EndScan
<1>2. py_instr_num' = py_instr_num /\ CodeOK' /\ \A v : Marks(v)' = Marks(v)
  BY <1>1, CodeRigid
<1>3. is_boundary' \subseteq 1 .. py_instr_num /\ py_instr_num \in is_boundary'
  BY <1>1
<1>4. block_num' = Cardinality(is_boundary')
  <2>1. is_boundary \in SUBSET (0 .. py_instr_num)
    BY <1>1
  <2>2. IsFiniteSet(is_boundary) /\ Cardinality(is_boundary) \in Nat
    BY <1>1, <2>1, SubsetOfInterval
  <2>3. /\ IsFiniteSet(is_boundary \cup {py_instr_num})
        /\ Cardinality(is_boundary \cup {py_instr_num}) =
             Cardinality(is_boundary) + (IF py_instr_num \in is_boundary THEN 0 ELSE 1)
    BY <2>2, FS_AddElement
  <2>4. Cardinality((is_boundary \cup {py_instr_num}) \ {0}) =
          Cardinality(is_boundary \cup {py_instr_num}) - (IF 0 \in is_boundary THEN 1 ELSE 0)
    <3>1. 0 \in is_boundary <=> 0 \in is_boundary \cup {py_instr_num}
      BY <1>1
    <3>2. Cardinality(is_boundary \cup {py_instr_num}) \in Nat
      BY <2>3, FS_CardinalityType
    <3> QED BY <2>3, <3>1, <3>2, FS_RemoveElement
  <2>5. Cardinality({py_instr_num} \ is_boundary) = IF py_instr_num \in is_boundary THEN 0 ELSE 1
    <3>1. {py_instr_num} \ is_boundary = IF py_instr_num \in is_boundary THEN {}
                                                                        ELSE {py_instr_num}
      OBVIOUS
    <3> QED BY <3>1, FS_EmptySet, FS_Singleton
  <2>6. Cardinality({0} \cap is_boundary) = IF 0 \in is_boundary THEN 1 ELSE 0
    <3>1. {0} \cap is_boundary = IF 0 \in is_boundary THEN {0} ELSE {}
      OBVIOUS
    <3> QED BY <3>1, FS_EmptySet, FS_Singleton
  <2>7. block_num' = Cardinality(is_boundary) + Cardinality({py_instr_num} \ is_boundary)
                       - Cardinality({0} \cap is_boundary)
    BY <1>1 DEF EndScan, IInv, ScanInv
  <2> QED BY <1>1, <2>2, <2>3, <2>4, <2>5, <2>6, <2>7
<1>5. Scanned'
  <2>1. try_block_num' = Cardinality(Setups(py_instr_num)')
    <3>1. Setups(py_instr_num)' = Setups(cursor)
      BY <1>1, <1>2 DEF Setups
    <3> QED BY <1>1, <3>1 DEF ScanInv
  <2>2. \A v \in 0 .. py_instr_num - 1 : Marks(v)' \subseteq is_boundary' \cup {0}
    BY <1>1, <1>2 DEF ScanInv
  <2>3. blocks' = [b \in AllBlocks' |-> FreshBlock] /\ \A b \in AllBlocks' : IsBlock(blocks'[b])
    <3>1. blocks' = [b \in AllBlocks' |-> FreshBlock]
      BY <1>1 DEF EndScan, AllBlocks
    <3>2. IsBlock(FreshBlock)
      BY DEF IsBlock, FreshBlock
    <3> QED BY <3>1, <3>2
  <2> QED BY <1>2, <1>3, <1>4, <2>1, <2>2, <2>3 DEF Scanned, IsBlock
<1>6. CreateInv'
  <2>1. block_num' \in Nat
    <3>1. PICK S \in SUBSET (0 .. py_instr_num) : S = is_boundary'
      BY <1>1, <1>3
    <3>2. Cardinality(S) \in Nat
      BY <1>1, SubsetOfInterval
    <3> QED BY <1>4, <3>1, <3>2
  <2>2. BlockStart(cursor)' = 0
    BY <1>1 DEF BlockStart
  <2>3. {e \in is_boundary' : e <= BlockStart(cursor)'} = {}
    <3>1. ASSUME NEW e \in is_boundary' PROVE ~(e <= BlockStart(cursor)')
      BY <1>1, <1>3, <2>2
    <3> QED BY <3>1
  <2>4. CutUpTo(cursor)'
    <3>1. cursor' = 0 /\ 0 .. cursor' - 1 = {}
      BY <1>1
    <3>2. ASSUME NEW e \in is_boundary', e <= BlockStart(cursor)' PROVE FALSE
      BY <2>3, <3>2
    <3> QED BY <3>1, <3>2 DEF CutUpTo
  <2>5. /\ cursor' \in 0 .. block_num'
        /\ \A b \in 0 .. cursor' - 1 : blocks'[b].eh_body_enter => blocks'[b].branch # Nil
    BY <1>1, <2>1
  <2>6. Cardinality({e \in is_boundary : e <= BlockStart(cursor)})' = cursor'
    BY <1>1, <2>3, FS_EmptySet
  <2> QED BY <2>4, <2>5, <2>6 DEF CreateInv
<1> QED BY <1>1, <1>2, <1>5, <1>6 DEF IInv

-----------------------------------------------------------------------------
(* The second pass.                                                        *)

LEMMA Smallest ==
  ASSUME NEW S \in SUBSET Nat, S # {}
  PROVE  Min(S) \in S /\ \A y \in S : Min(S) <= y
<1> DEFINE less == {p \in Nat \X Nat : p[1] < p[2]}
<1>1. IsWellFoundedOn(less, Nat)
  BY NatLessThanWellFounded DEF OpToRel
<1>2. \E x \in S : \A y \in S : <<y, x>> \notin less
  <2> HIDE DEF less
  <2> QED BY <1>1, WFMin
<1>3. \A x, y \in Nat : <<y, x>> \notin less => x <= y
  OBVIOUS
<1> QED BY <1>2, <1>3 DEF Min

LEMMA ArrayFacts ==
  ASSUME CodeOK, Scanned
  PROVE  /\ block_num \in Nat \ {0} /\ try_block_num \in Nat
         /\ \A k \in 0 .. block_num :
              (\A b \in 0 .. k - 1 : Cut(b)) => BlockStart(k) \in 0 .. py_instr_num
<1>1. py_instr_num \in Nat \ {0}
  BY CodeFacts
<1>2. IsFiniteSet(is_boundary) /\ block_num \in Nat
  <2>1. is_boundary \in SUBSET (0 .. py_instr_num)
    BY DEF Scanned
  <2> QED BY <1>1, <2>1, SubsetOfInterval DEF Scanned
<1>3. block_num # 0
  BY <1>2, FS_EmptySet DEF Scanned
<1>4. try_block_num \in Nat
  BY <1>1, SetupsFinite DEF Scanned
<1>5. ASSUME NEW k \in 0 .. block_num, \A b \in 0 .. k - 1 : Cut(b)
      PROVE  BlockStart(k) \in 0 .. py_instr_num
  <2>1. CASE k = 0
    BY <1>1, <2>1 DEF BlockStart
  <2>2. CASE k # 0
    <3>1. k - 1 \in 0 .. k - 1
      BY <1>2, <2>2
    <3>2. blocks[k - 1].end_index \in is_boundary
      BY <1>5, <3>1 DEF Cut
    <3> QED BY <2>2, <3>2 DEF BlockStart, Scanned
  <2> QED BY <2>1, <2>2
<1> QED BY <1>2, <1>3, <1>4, <1>5

LEMMA NewBlock ==
  ASSUME CodeOK, NEW end \in 1 .. py_instr_num, NEW r, r = BlockEndingAt(end)
  PROVE  /\ IsBlock(r)
         /\ r.end_index = end
         /\ r.fall_through = ~isTerminator(code[end - 1].op)
         /\ r.eh_body_enter = isTryBlockSetup(code[end - 1].op)
         /\ r.eh_body_exit = (code[end - 1].op = "POP_BLOCK")
         /\ r.branch = IF Jumps(code[end - 1].op) THEN Destination(code, end - 1) ELSE Nil
         /\ r.eh_body_enter => r.branch # Nil
<1>1. r = [end_index |-> end,
           fall_through |-> ~isTerminator(code[end - 1].op),
           branch |-> IF Jumps(code[end - 1].op) THEN Destination(code, end - 1) ELSE Nil,
           eh_body_enter |-> isTryBlockSetup(code[end - 1].op),
           eh_body_exit |-> (code[end - 1].op = "POP_BLOCK"),
           eh_setup_block |-> Nil]
  BY DEF BlockEndingAt, FreshBlock
<1>2. end - 1 \in 0 .. py_instr_num - 1
  BY CodeFacts
<1>3. isTryBlockSetup(code[end - 1].op) =>
        Jumps(code[end - 1].op) /\ Destination(code, end - 1) # Nil
  BY <1>2, CodeFacts, Opcodes, NilAssumption
<1> QED BY <1>1, <1>3 DEF IsBlock

LEMMA CreateKeeps ==
  ASSUME IInv, Create
  PROVE  IInv'
<1> DEFINE start == BlockStart(cursor)
           ends  == {e \in is_boundary : e > start}
           end   == Min(ends)
           new   == BlockEndingAt(end)
<1>1. /\ CodeOK /\ Scanned /\ CreateInv /\ code' = code
      /\ phase = "create" /\ phase' = "create" /\ ends # {}
      /\ blocks' = [blocks EXCEPT ![cursor] = new]
      /\ cursor' = cursor + 1
      /\ is_boundary' = is_boundary /\ block_num' = block_num /\ try_block_num' = try_block_num
  BY DEF IInv, Create, start_index, BlockStart
<1>2. py_instr_num' = py_instr_num /\ CodeOK' /\ \A v : Marks(v)' = Marks(v)
  BY <1>1, CodeRigid
<1>3. /\ py_instr_num \in Nat \ {0} /\ block_num \in Nat \ {0} /\ try_block_num \in Nat
      /\ is_boundary \subseteq 1 .. py_instr_num
      /\ cursor \in 0 .. block_num /\ start \in 0 .. py_instr_num
  BY <1>1, CodeFacts, ArrayFacts DEF CreateInv, CutUpTo, Scanned
<1>4. /\ end \in is_boundary /\ start < end /\ end \in 1 .. py_instr_num
      /\ \A e \in is_boundary : e <= start \/ end <= e
  <2>1. is_boundary \subseteq Nat /\ start \in Nat
    BY <1>3
  <2>2. ends \in SUBSET Nat
    BY <2>1
  <2>3. end \in ends /\ \A e \in ends : end <= e
    <3> HIDE DEF ends
    <3> QED BY <1>1, <2>2, Smallest
  <2> HIDE DEF end
  <2>4. end \in is_boundary /\ start < end /\ end \in 1 .. py_instr_num
    BY <1>3, <2>3
  <2>5. \A e \in is_boundary : e <= start \/ end <= e
    BY <2>1, <2>3
  <2> QED BY <2>4, <2>5
<1>5. cursor < block_num
  <2> DEFINE done == {e \in is_boundary : e <= start}
  <2>1. is_boundary \in SUBSET (0 .. py_instr_num)
    BY <1>3
  <2>2. IsFiniteSet(is_boundary)
    BY <1>3, <2>1, SubsetOfInterval
  <2>3. done # is_boundary
    BY <1>3, <1>4
  <2>4. done \in SUBSET is_boundary
    OBVIOUS
  <2>5. Cardinality(done) <= Cardinality(is_boundary)
        /\ Cardinality(done) # Cardinality(is_boundary)
    BY <2>2, <2>3, <2>4, FS_Subset
  <2>6. Cardinality(done) = cursor /\ Cardinality(is_boundary) = block_num
    BY <1>1 DEF CreateInv, Scanned
  <2> QED BY <1>3, <2>5, <2>6
<1>6. /\ IsBlock(new) /\ new.end_index = end
      /\ new.fall_through = ~isTerminator(code[end - 1].op)
      /\ new.eh_body_enter = isTryBlockSetup(code[end - 1].op)
      /\ new.eh_body_enter => new.branch # Nil
  BY <1>1, <1>4, NewBlock
<1> HIDE DEF ends, end, new
<1>7. cursor \in AllBlocks /\ AllBlocks' = AllBlocks /\ 0 .. cursor \subseteq AllBlocks
  BY <1>1, <1>3, <1>5 DEF AllBlocks
<1>8. /\ blocks'[cursor] = new
      /\ \A b \in AllBlocks : b # cursor => blocks'[b] = blocks[b]
      /\ blocks' = [b \in AllBlocks |-> blocks'[b]]
  BY <1>1, <1>7 DEF Scanned
<1>9. /\ \A b \in 0 .. cursor : BlockStart(b)' = BlockStart(b)
      /\ BlockStart(cursor)' = end
  <2>1. \A b \in 1 .. cursor : b - 1 \in AllBlocks /\ b - 1 # cursor
    BY <1>3, <1>7
  <2>2. \A b \in 0 .. cursor : BlockStart(b)' = BlockStart(b)
    BY <1>8, <2>1 DEF BlockStart
  <2>3. cursor' - 1 = cursor /\ cursor' # 0
    BY <1>1, <1>3
  <2>4. BlockStart(cursor)' = blocks'[cursor].end_index
    BY <2>3 DEF BlockStart
  <2> QED BY <1>6, <1>8, <2>2, <2>4
<1>10. Scanned'
  <2>1. Setups(py_instr_num)' = Setups(py_instr_num)
    BY <1>1, <1>2 DEF Setups
  <2>2. \A b \in AllBlocks' : IsBlock(blocks[b])'
    BY <1>1, <1>6, <1>7, <1>8 DEF Scanned, IsBlock
  <2> QED BY <1>1, <1>2, <1>7, <1>8, <2>1, <2>2 DEF Scanned
<1>11. CutUpTo(cursor)'
  <2>1. ASSUME NEW b \in 0 .. cursor - 1 PROVE Cut(b)'
    <3>1. b \in AllBlocks /\ b # cursor /\ b \in 0 .. cursor
      BY <1>3, <1>7
    <3>2. blocks'[b] = blocks[b] /\ BlockStart(b)' = BlockStart(b)
      BY <1>8, <1>9, <3>1
    <3>3. Cut(b)
      BY <1>1 DEF CreateInv, CutUpTo
    <3> QED BY <1>1, <3>2, <3>3 DEF Cut
  <2>2. \A b : b = cursor => Cut(b)'
    <3>1. SUFFICES ASSUME NEW b, b = cursor PROVE Cut(b)'
      OBVIOUS
    <3>2. b \in 0 .. cursor
      BY <1>3, <3>1
    <3>3. blocks'[b] = new /\ BlockStart(b)' = start
      BY <1>8, <1>9, <3>1, <3>2
    <3> HIDE DEF start
    <3>4. code' = code /\ is_boundary' = is_boundary
      BY <1>1
    <3> QED BY <1>4, <1>6, <3>3, <3>4 DEF Cut
  <2>3. \A b \in 0 .. cursor' - 1 : Cut(b)'
    BY <1>1, <1>3, <2>1, <2>2
  <2>4. ASSUME NEW e \in is_boundary, e <= end
        PROVE  \E b \in 0 .. cursor : blocks'[b].end_index = e
    <3>1. CASE e <= start
      <4>1. PICK b \in 0 .. cursor - 1 : blocks[b].end_index = e
        BY <1>1, <3>1 DEF CreateInv, CutUpTo
      <4>2. b \in 0 .. cursor /\ b # cursor
        BY <1>3
      <4>3. blocks'[b] = blocks[b]
        BY <1>7, <1>8, <4>2
      <4> QED BY <4>1, <4>2, <4>3
    <3>2. CASE ~(e <= start)
      <4>1. end <= e
        BY <1>4, <3>2
      <4>2. e = end
        BY <1>3, <1>4, <2>4, <4>1
      <4>3. cursor \in 0 .. cursor /\ blocks'[cursor].end_index = e
        BY <1>3, <1>6, <1>8, <4>2
      <4> QED BY <4>3
    <3> QED BY <3>1, <3>2
  <2>5. 0 .. cursor' - 1 = 0 .. cursor
    BY <1>1, <1>3
  <2> QED BY <1>1, <1>9, <2>3, <2>4, <2>5 DEF CutUpTo
<1>12. Cardinality({e \in is_boundary : e <= end}) = cursor + 1
  <2> DEFINE done == {e \in is_boundary : e <= start}
  <2>1. {e \in is_boundary : e <= end} = done \cup {end}
    <3>1. \A e \in is_boundary : e <= end <=> e <= start \/ e = end
      <4> HIDE DEF start
      <4>1. \A e \in is_boundary : e \in Nat
        BY <1>3
      <4> QED BY <1>3, <1>4, <4>1
    <3> QED BY <1>4, <3>1
  <2>2. end \notin done
    BY <1>3, <1>4
  <2>3. done \in SUBSET (0 .. py_instr_num)
    <3>1. is_boundary \subseteq 0 .. py_instr_num
      BY <1>3
    <3> QED BY <3>1
  <2>4. IsFiniteSet(done) /\ Cardinality(done) = cursor
    <3>1. Cardinality(done) = cursor
      BY <1>1 DEF CreateInv
    <3> QED BY <1>3, <2>3, <3>1, SubsetOfInterval
  <2> QED BY <2>1, <2>2, <2>4, FS_AddElement
<1>13. \A b \in 0 .. cursor : blocks'[b].eh_body_enter => blocks'[b].branch # Nil
  BY <1>1, <1>3, <1>6, <1>7, <1>8 DEF CreateInv
<1>14. CreateInv'
  <2>1. cursor' \in 0 .. block_num' /\ 0 .. cursor' - 1 = 0 .. cursor
    BY <1>1, <1>3, <1>5
  <2>2. Cardinality({e \in is_boundary : e <= BlockStart(cursor)})' = cursor'
    BY <1>1, <1>9, <1>12
  <2> QED BY <1>2, <1>11, <1>13, <2>1, <2>2 DEF CreateInv
<1> QED BY <1>1, <1>2, <1>10, <1>14 DEF IInv

LEMMA EndCreateKeeps ==
  ASSUME IInv, EndCreate
  PROVE  IInv' /\ cursor = block_num
<1>1. /\ CodeOK /\ Scanned /\ CreateInv /\ code' = code /\ phase' = "link" /\ cursor' = 0
      /\ \A e \in is_boundary : e <= BlockStart(cursor)
      /\ exception_block_index' = block_num
      /\ blocks' = blocks
      /\ is_boundary' = is_boundary /\ block_num' = block_num /\ try_block_num' = try_block_num
  BY DEF IInv, EndCreate, start_index, BlockStart
<1>2. py_instr_num' = py_instr_num /\ CodeOK' /\ \A v : Marks(v)' = Marks(v)
  BY <1>1, CodeRigid
<1>3. /\ py_instr_num \in Nat \ {0} /\ block_num \in Nat \ {0}
      /\ BlockStart(cursor) \in 0 .. py_instr_num
  BY <1>1, CodeFacts, ArrayFacts DEF CreateInv, CutUpTo
<1>4. cursor = block_num
  <2>1. {e \in is_boundary : e <= BlockStart(cursor)} = is_boundary
    BY <1>1
  <2> QED BY <1>1, <2>1 DEF CreateInv, Scanned
<1>5. BlockStart(block_num) = py_instr_num
  <2>1. py_instr_num <= BlockStart(cursor)
    BY <1>1 DEF Scanned
  <2> QED BY <1>3, <1>4, <2>1
<1>6. AllBlocks' = AllBlocks /\ (\A b : BlockStart(b)' = BlockStart(b) /\ Cut(b)' = Cut(b))
  BY <1>1 DEF AllBlocks, BlockStart, Cut
<1>7. Scanned'
  <2>1. Setups(py_instr_num)' = Setups(py_instr_num)
    BY <1>1, <1>2 DEF Setups
  <2>2. \A b \in AllBlocks' : IsBlock(blocks[b])'
    BY <1>1, <1>6 DEF Scanned, IsBlock
  <2> QED BY <1>1, <1>2, <1>6, <2>1, <2>2 DEF Scanned
<1>8. LinkInv'
  <2>1. CutUpTo(block_num)' /\ BlockStart(block_num)' = BlockStart(block_num)
    <3>1. BlockStart(block_num)' = BlockStart(block_num)
      BY <1>1 DEF BlockStart
    <3> QED BY <1>1, <1>4, <1>6, <3>1 DEF CreateInv, CutUpTo
  <2>2. Setups(BlockStart(cursor))' = {}
    <3>1. BlockStart(cursor)' = 0
      BY <1>1 DEF BlockStart
    <3> QED BY <3>1 DEF Setups
  <2>3. exception_block_index' = block_num' + Cardinality(Setups(BlockStart(cursor))')
    BY <1>1, <1>3, <2>2, FS_EmptySet
  <2>4. \A b \in cursor' .. block_num' - 1 :
          blocks'[b].eh_body_enter => blocks'[b].branch # Nil
    BY <1>1, <1>4 DEF CreateInv
  <2>5. cursor' \in 0 .. block_num'
    BY <1>1, <1>3
  <2> QED BY <1>2, <1>5, <2>1, <2>3, <2>4, <2>5 DEF LinkInv
<1> QED BY <1>1, <1>2, <1>4, <1>7, <1>8 DEF IInv

-----------------------------------------------------------------------------
(* The third pass.                                                         *)

\* An exception block is left for the setup of a try block that is linked.
LEMMA RoomLeft ==
  ASSUME CodeOK, Scanned, LinkInv, cursor < block_num
  PROVE  /\ BlockStart(cursor + 1) = blocks[cursor].end_index
         /\ Cardinality(Setups(BlockStart(cursor + 1))) =
              Cardinality(Setups(BlockStart(cursor)))
                + (IF blocks[cursor].eh_body_enter THEN 1 ELSE 0)
         /\ exception_block_index \in Nat /\ exception_block_index >= block_num
         /\ blocks[cursor].eh_body_enter => exception_block_index \in AllBlocks
<1> DEFINE start == BlockStart(cursor)
           end   == blocks[cursor].end_index
<1>1. /\ py_instr_num \in Nat \ {0} /\ block_num \in Nat \ {0} /\ try_block_num \in Nat
      /\ cursor \in 0 .. block_num - 1
  BY CodeFacts, ArrayFacts DEF LinkInv
<1>2. start \in 0 .. py_instr_num
  <2>1. \A b \in 0 .. cursor - 1 : Cut(b)
    BY <1>1 DEF LinkInv, CutUpTo
  <2> QED BY <1>1, <2>1, ArrayFacts
<1>3. /\ end \in is_boundary /\ start < end /\ \A e \in is_boundary : e <= start \/ end <= e
      /\ blocks[cursor].eh_body_enter = isTryBlockSetup(code[end - 1].op)
  BY <1>1 DEF LinkInv, CutUpTo, Cut
<1>4. BlockStart(cursor + 1) = end
  BY <1>1 DEF BlockStart
<1>5. Cardinality(Setups(end)) =
        Cardinality(Setups(start)) + (IF blocks[cursor].eh_body_enter THEN 1 ELSE 0)
  <2> HIDE DEF start, end
  <2> QED BY <1>2, <1>3, OneMoreBlock
<1>6. end \in 1 .. py_instr_num
  BY <1>3 DEF Scanned
<1>7. /\ Cardinality(Setups(start)) \in Nat /\ Cardinality(Setups(end)) \in Nat
      /\ Cardinality(Setups(end)) <= try_block_num
  <2>1. Setups(end) \in SUBSET Setups(py_instr_num)
    BY <1>1, <1>6 DEF Setups
  <2>2. Cardinality(Setups(end)) <= Cardinality(Setups(py_instr_num))
    BY <1>1, <2>1, SetupsFinite, FS_Subset
  <2> QED BY <1>1, <1>2, <1>6, <2>2, SetupsFinite DEF Scanned
<1>8. exception_block_index = block_num + Cardinality(Setups(start))
  BY DEF LinkInv
<1> HIDE DEF start, end
<1>9. exception_block_index \in Nat /\ exception_block_index >= block_num
  BY <1>1, <1>7, <1>8
<1>10. ASSUME blocks[cursor].eh_body_enter PROVE exception_block_index \in AllBlocks
  BY <1>1, <1>5, <1>7, <1>8, <1>10 DEF AllBlocks
<1> QED BY <1>4, <1>5, <1>9, <1>10 DEF start, end

LEMMA LinkKeeps ==
  ASSUME IInv, Link
  PROVE  IInv'
<1> DEFINE eb   == exception_block_index
           own  == blocks[cursor].branch # Nil /\ blocks[cursor].eh_body_enter
<1>1. /\ CodeOK /\ Scanned /\ LinkInv /\ code' = code
      /\ phase = "link" /\ phase' = "link" /\ cursor' = cursor + 1 /\ cursor < block_num
      /\ exception_block_index' = IF own THEN eb + 1 ELSE eb
      /\ is_boundary' = is_boundary /\ block_num' = block_num /\ try_block_num' = try_block_num
  BY DEF IInv, Link
<1>2. py_instr_num' = py_instr_num /\ CodeOK' /\ \A v : Marks(v)' = Marks(v)
  BY <1>1, CodeRigid
<1>3. /\ py_instr_num \in Nat \ {0} /\ block_num \in Nat \ {0} /\ try_block_num \in Nat
      /\ cursor \in 0 .. block_num - 1
  BY <1>1, CodeFacts, ArrayFacts DEF LinkInv
<1>4. own <=> blocks[cursor].eh_body_enter
  BY <1>1, <1>3 DEF LinkInv
<1>5. /\ eb \in Nat /\ eb >= block_num
      /\ own => eb \in AllBlocks
      /\ BlockStart(cursor + 1) = blocks[cursor].end_index
      /\ Cardinality(Setups(BlockStart(cursor + 1))) =
           Cardinality(Setups(BlockStart(cursor))) + (IF own THEN 1 ELSE 0)
  BY <1>1, <1>4, RoomLeft
<1>6. AllBlocks' = AllBlocks /\ cursor \in AllBlocks /\ CodeBlocks \subseteq AllBlocks
  BY <1>1, <1>3 DEF AllBlocks, CodeBlocks
<1>7. PICK target \in targets(blocks[cursor].branch) :
        blocks' = IF own THEN [blocks EXCEPT ![cursor].branch = eb,
                                             ![eb].branch = target,
                                             ![eb].eh_setup_block = cursor]
                         ELSE [blocks EXCEPT ![cursor].branch = target]
  BY DEF Link
<1>8. /\ blocks' = [b \in AllBlocks |-> blocks'[b]]
      /\ \A b \in AllBlocks : IsBlock(blocks'[b])
      /\ \A b \in AllBlocks : /\ blocks'[b].end_index = blocks[b].end_index
                              /\ blocks'[b].fall_through = blocks[b].fall_through
                              /\ blocks'[b].eh_body_enter = blocks[b].eh_body_enter
      /\ \A b \in AllBlocks : b # cursor /\ b # eb => blocks'[b] = blocks[b]
  <2> DEFINE Relinked(r, t)  == [r EXCEPT !.branch = t]
             Handling(r, t)  == [[r EXCEPT !.branch = t] EXCEPT !.eh_setup_block = cursor]
  <2>1. ASSUME NEW r, IsBlock(r), NEW t, NEW q, q \in {Relinked(r, t), Handling(r, t)}
        PROVE  /\ IsBlock(q) /\ q.end_index = r.end_index
               /\ q.fall_through = r.fall_through /\ q.eh_body_enter = r.eh_body_enter
    <3>1. r = [end_index |-> r.end_index, fall_through |-> r.fall_through, branch |-> r.branch,
               eh_body_enter |-> r.eh_body_enter, eh_body_exit |-> r.eh_body_exit,
               eh_setup_block |-> r.eh_setup_block]
      BY <2>1 DEF IsBlock
    <3>2. Relinked(r, t) =
            [end_index |-> r.end_index, fall_through |-> r.fall_through, branch |-> t,
             eh_body_enter |-> r.eh_body_enter, eh_body_exit |-> r.eh_body_exit,
             eh_setup_block |-> r.eh_setup_block]
      BY <3>1
    <3>3. Handling(r, t) =
            [end_index |-> r.end_index, fall_through |-> r.fall_through, branch |-> t,
             eh_body_enter |-> r.eh_body_enter, eh_body_exit |-> r.eh_body_exit,
             eh_setup_block |-> cursor]
      <4>1. PICK z : z = Relinked(r, t)
        OBVIOUS
      <4>2. z = [end_index |-> r.end_index, fall_through |-> r.fall_through, branch |-> t,
                 eh_body_enter |-> r.eh_body_enter, eh_body_exit |-> r.eh_body_exit,
                 eh_setup_block |-> r.eh_setup_block]
        BY <3>2, <4>1
      <4>3. [z EXCEPT !.eh_setup_block = cursor] =
              [end_index |-> r.end_index, fall_through |-> r.fall_through, branch |-> t,
               eh_body_enter |-> r.eh_body_enter, eh_body_exit |-> r.eh_body_exit,
               eh_setup_block |-> cursor]
        BY <4>2
      <4> QED BY <4>1, <4>3
    <3>4. CASE q = Relinked(r, t)
      BY <3>2, <3>4 DEF IsBlock
    <3>5. CASE q = Handling(r, t)
      BY <3>3, <3>5 DEF IsBlock
    <3> QED BY <2>1, <3>4, <3>5
  <2>2. \A b \in AllBlocks : IsBlock(blocks[b])
    BY <1>1 DEF Scanned
  <2>3. blocks = [b \in AllBlocks |-> blocks[b]]
    BY <1>1 DEF Scanned
  <2>4. CASE own
    <3>1. eb # cursor /\ eb \in AllBlocks
      <4> HIDE DEF eb, own
      <4> QED BY <1>3, <1>5, <2>4
    <3>2. /\ blocks' = [b \in AllBlocks |-> blocks'[b]]
          /\ blocks'[cursor] = Relinked(blocks[cursor], eb)
          /\ blocks'[eb] = Handling(blocks[eb], target)
          /\ \A b \in AllBlocks : b # cursor /\ b # eb => blocks'[b] = blocks[b]
      BY <1>6, <1>7, <2>3, <2>4, <3>1
    <3> HIDE DEF Relinked, Handling
    <3> QED BY <2>1, <2>2, <3>1, <3>2, <1>6
  <2>5. CASE ~own
    <3>1. /\ blocks' = [b \in AllBlocks |-> blocks'[b]]
          /\ blocks'[cursor] = Relinked(blocks[cursor], target)
          /\ \A b \in AllBlocks : b # cursor => blocks'[b] = blocks[b]
      BY <1>6, <1>7, <2>3, <2>5
    <3> HIDE DEF Relinked, Handling
    <3> QED BY <2>1, <2>2, <3>1, <1>6
  <2> QED BY <2>4, <2>5
<1> HIDE DEF eb, own
<1>9. /\ \A b \in 0 .. block_num : BlockStart(b)' = BlockStart(b)
      /\ \A b \in CodeBlocks : Cut(b) => Cut(b)'
  <2>1. \A b \in 0 .. block_num : b # 0 => b - 1 \in AllBlocks
    BY <1>3 DEF AllBlocks
  <2>2. \A b \in 0 .. block_num : BlockStart(b)' = BlockStart(b)
    BY <1>8, <2>1 DEF BlockStart
  <2>3. ASSUME NEW b \in CodeBlocks, Cut(b) PROVE Cut(b)'
    <3>1. /\ b \in 0 .. block_num /\ b \in AllBlocks
      BY <1>3, <1>6 DEF CodeBlocks
    <3>2. /\ BlockStart(b)' = BlockStart(b) /\ blocks'[b].end_index = blocks[b].end_index
          /\ blocks'[b].fall_through = blocks[b].fall_through
          /\ blocks'[b].eh_body_enter = blocks[b].eh_body_enter
      BY <1>8, <2>2, <3>1
    <3> QED BY <1>1, <2>3, <3>2 DEF Cut
  <2> QED BY <2>2, <2>3
<1>10. Scanned'
  <2>1. Setups(py_instr_num)' = Setups(py_instr_num)
    BY <1>1, <1>2 DEF Setups
  <2>2. \A b \in AllBlocks' : IsBlock(blocks[b])'
    BY <1>6, <1>8 DEF IsBlock
  <2> QED BY <1>1, <1>2, <1>6, <1>8, <2>1, <2>2 DEF Scanned
<1>11. CutUpTo(block_num)' /\ BlockStart(block_num)' = py_instr_num
  <2>1. block_num \in 0 .. block_num /\ CodeBlocks = 0 .. block_num - 1
    BY <1>3 DEF CodeBlocks
  <2>2. BlockStart(block_num)' = BlockStart(block_num)
    <3>1. \A b : b = block_num => BlockStart(b)' = BlockStart(b)
      BY <1>9, <2>1
    <3> QED BY <1>1, <1>6, <1>8, <1>3 DEF BlockStart, AllBlocks
  <2>3. \A b \in 0 .. block_num - 1 : Cut(b)'
    BY <1>1, <1>9, <2>1 DEF LinkInv, CutUpTo
  <2>4. \A e \in is_boundary : \E b \in 0 .. block_num - 1 : blocks'[b].end_index = e
    <3>1. SUFFICES ASSUME NEW e \in is_boundary
                   PROVE  \E b \in 0 .. block_num - 1 : blocks'[b].end_index = e
      OBVIOUS
    <3>2. e <= BlockStart(block_num)
      BY <1>1, <1>3 DEF LinkInv, Scanned
    <3>3. PICK b \in 0 .. block_num - 1 : blocks[b].end_index = e
      BY <1>1, <3>2 DEF LinkInv, CutUpTo
    <3> QED BY <1>6, <1>8, <2>1, <3>3
  <2> QED BY <1>1, <2>2, <2>3, <2>4 DEF CutUpTo, LinkInv
<1>12. \A b \in cursor' .. block_num' - 1 :
         blocks'[b].eh_body_enter => blocks'[b].branch # Nil
  <2>1. SUFFICES ASSUME NEW b \in cursor' .. block_num' - 1
                 PROVE  blocks'[b].eh_body_enter => blocks'[b].branch # Nil
    OBVIOUS
  <2>2. b \in cursor .. block_num - 1 /\ b # cursor /\ b # eb /\ b \in AllBlocks
    <3>1. b \in cursor + 1 .. block_num - 1
      BY <1>1, <2>1
    <3>2. eb \in Nat /\ eb >= block_num
      BY <1>5
    <3> QED BY <1>3, <3>1, <3>2 DEF AllBlocks
  <2> QED BY <1>1, <1>8, <2>2 DEF LinkInv
<1>13. /\ exception_block_index' = block_num + Cardinality(Setups(BlockStart(cursor + 1)))
  <2>1. eb = block_num + Cardinality(Setups(BlockStart(cursor)))
    BY <1>1 DEF LinkInv, eb
  <2>2. BlockStart(cursor) \in Nat
    <3>1. \A b \in 0 .. cursor - 1 : Cut(b)
      BY <1>1, <1>3 DEF LinkInv, CutUpTo
    <3> QED BY <1>1, <1>3, <3>1, ArrayFacts
  <2>3. Cardinality(Setups(BlockStart(cursor))) \in Nat
    BY <2>2, SetupsFinite
  <2> QED BY <1>1, <1>3, <1>5, <2>1, <2>3
<1>14. /\ Setups(py_instr_num)' = Setups(py_instr_num)
       /\ Setups(BlockStart(cursor))' = Setups(BlockStart(cursor + 1))
  <2>1. BlockStart(cursor)' = BlockStart(cursor + 1)
    BY <1>1, <1>3, <1>5, <1>6, <1>8 DEF BlockStart
  <2> QED BY <1>1, <1>2, <2>1 DEF Setups
<1>15. LinkInv'
  <2>1. cursor' \in 0 .. block_num'
    BY <1>1, <1>3
  <2> QED BY <1>1, <1>2, <1>11, <1>12, <1>13, <1>14, <2>1 DEF LinkInv
<1> QED BY <1>1, <1>2, <1>10, <1>15 DEF IInv

LEMMA EndLinkKeeps ==
  ASSUME IInv, EndLink
  PROVE  IInv'
<1>1. /\ CodeOK /\ Scanned /\ LinkInv /\ phase = "link" /\ phase' = "parsed"
      /\ cursor = block_num
      /\ UNCHANGED <<code, cursor, is_boundary, block_num, try_block_num,
                     blocks, exception_block_index>>
  BY DEF IInv, EndLink
<1>2. CodeOK' /\ Scanned' /\ LinkInv'
  BY <1>1, CodeRigid
     DEF Scanned, LinkInv, CutUpTo, Cut, BlockStart, AllBlocks, IsBlock, Setups,
         Marks, py_instr_num
<1> QED BY <1>1, <1>2 DEF IInv

LEMMA StutterKeeps ==
  ASSUME IInv, UNCHANGED parseVars
  PROVE  IInv'
BY CodeRigid
   DEF parseVars, IInv, ScanInv, Scanned, CreateInv, LinkInv, CutUpTo, Cut, BlockStart,
       AllBlocks, IsBlock, Setups, Marks, py_instr_num

LEMMA StepKeeps == IInv /\ [ParseNext]_parseVars => IInv'
<1>1. SUFFICES ASSUME IInv, [ParseNext]_parseVars PROVE IInv'
  OBVIOUS
<1>2. CASE Scan
  BY <1>1, <1>2, ScanKeeps
<1>3. CASE EndScan
  BY <1>1, <1>3, EndScanKeeps
<1>4. CASE Create
  BY <1>1, <1>4, CreateKeeps
<1>5. CASE EndCreate
  BY <1>1, <1>5, EndCreateKeeps
<1>6. CASE Link
  BY <1>1, <1>6, LinkKeeps
<1>7. CASE EndLink
  BY <1>1, <1>7, EndLinkKeeps
<1>8. CASE UNCHANGED parseVars
  BY <1>1, <1>8, StutterKeeps
<1> QED BY <1>1, <1>2, <1>3, <1>4, <1>5, <1>6, <1>7, <1>8 DEF ParseNext

\* The invariant the theorems below follow from: what each pass has counted and
\* cut so far is what the code has up to there.
THEOREM InvariantHolds == ParseSpec => []IInv
BY InitOK, StepKeeps, PTL DEF ParseSpec

\* Every jump's destination is the start of a block.
LEMMA DestinationsAreStarts ==
  ASSUME CodeOK, Scanned, LinkInv, NEW v \in 0 .. py_instr_num - 1, Jumps(code[v].op)
  PROVE  \E b \in CodeBlocks : BlockStart(b) = Destination(code, v)
<1> DEFINE d == Destination(code, v)
<1>1. py_instr_num \in Nat \ {0} /\ block_num \in Nat \ {0} /\ CodeBlocks = 0 .. block_num - 1
  BY CodeFacts, ArrayFacts DEF CodeBlocks
<1>2. d \in 0 .. py_instr_num - 1 /\ d \in Marks(v)
  BY CodeFacts, MarkFacts
<1> HIDE DEF d
<1>3. CASE d = 0
  BY <1>1, <1>3 DEF BlockStart, d
<1>4. CASE d # 0
  <2>1. d \in is_boundary
    BY <1>2, <1>4 DEF Scanned
  <2>2. d <= BlockStart(block_num)
    BY <1>1, <1>2 DEF LinkInv
  <2>3. PICK b \in 0 .. block_num - 1 : blocks[b].end_index = d
    BY <2>1, <2>2 DEF LinkInv, CutUpTo
  <2>4. b # block_num - 1
    <3>1. blocks[block_num - 1].end_index = py_instr_num
      BY <1>1 DEF LinkInv, BlockStart
    <3> QED BY <1>1, <1>2, <2>3, <3>1
  <2>5. b + 1 \in CodeBlocks /\ BlockStart(b + 1) = d
    BY <1>1, <2>3, <2>4 DEF BlockStart
  <2> QED BY <2>5 DEF d
<1> QED BY <1>3, <1>4

-----------------------------------------------------------------------------
(* What is concluded.                                                      *)

LEMMA CountsFollow ==
  ASSUME IInv
  PROVE  CountsAgree
<1>1. CodeOK /\ py_instr_num \in Nat \ {0}
  BY CodeFacts DEF IInv
<1>2. phase = "create" => cursor <= block_num
  BY <1>1, ArrayFacts DEF IInv, CreateInv
<1>3. phase = "create" /\ (\A e \in is_boundary : e <= start_index) => cursor = block_num
  <2>1. SUFFICES ASSUME phase = "create", \A e \in is_boundary : e <= start_index
                 PROVE  cursor = block_num
    OBVIOUS
  <2>2. {e \in is_boundary : e <= BlockStart(cursor)} = is_boundary
    BY <2>1 DEF start_index, BlockStart
  <2> QED BY <2>1, <2>2 DEF IInv, CreateInv, Scanned
<1>4. ASSUME phase \in {"link", "parsed"}
      PROVE  /\ exception_block_index <= block_num + try_block_num
             /\ cursor = block_num => exception_block_index = block_num + try_block_num
  <2>1. Scanned /\ LinkInv
    BY <1>4 DEF IInv
  <2>2. block_num \in Nat /\ BlockStart(cursor) \in 0 .. py_instr_num
    <3>1. cursor \in 0 .. block_num /\ block_num \in Nat
      BY <1>1, <2>1, ArrayFacts DEF LinkInv
    <3>2. \A b \in 0 .. cursor - 1 : Cut(b)
      BY <2>1, <3>1 DEF LinkInv, CutUpTo
    <3> QED BY <1>1, <2>1, <3>1, <3>2, ArrayFacts
  <2>3. Cardinality(Setups(BlockStart(cursor))) <= Cardinality(Setups(py_instr_num))
    <3>1. Setups(BlockStart(cursor)) \in SUBSET Setups(py_instr_num)
      BY <1>1, <2>2 DEF Setups
    <3> QED BY <1>1, <3>1, SetupsFinite, FS_Subset
  <2>4. /\ Cardinality(Setups(BlockStart(cursor))) \in Nat
        /\ Cardinality(Setups(py_instr_num)) \in Nat
    BY <1>1, <2>2, SetupsFinite
  <2>5. /\ exception_block_index = block_num + Cardinality(Setups(BlockStart(cursor)))
        /\ try_block_num = Cardinality(Setups(py_instr_num))
        /\ cursor = block_num => BlockStart(cursor) = py_instr_num
    BY <2>1 DEF LinkInv, Scanned
  <2> QED BY <2>2, <2>3, <2>4, <2>5
<1>5. phase = "parsed" => cursor = block_num
  BY DEF IInv
<1> QED BY <1>2, <1>3, <1>4, <1>5 DEF CountsAgree

LEMMA BasicBlocksFollow ==
  ASSUME IInv
  PROVE  BasicBlocks
<1>1. SUFFICES ASSUME phase = "parsed" PROVE BasicBlocks
  BY DEF BasicBlocks
<1>2. CodeOK /\ Scanned /\ LinkInv
  BY <1>1 DEF IInv
<1>3. py_instr_num \in Nat \ {0} /\ block_num \in Nat \ {0} /\ CodeBlocks = 0 .. block_num - 1
  BY <1>2, CodeFacts, ArrayFacts DEF CodeBlocks
<1>4. \A b \in CodeBlocks : Cut(b) /\ blocks[b].end_index \in 1 .. py_instr_num
  BY <1>2, <1>3 DEF LinkInv, CutUpTo, Cut, Scanned
<1>5. \A b \in CodeBlocks : BlockStart(b) \in 0 .. py_instr_num
  <2>1. ASSUME NEW b \in CodeBlocks PROVE BlockStart(b) \in 0 .. py_instr_num
    <3>1. b \in 0 .. block_num /\ \A d \in 0 .. b - 1 : Cut(d)
      BY <1>3, <1>4, <2>1
    <3> QED BY <1>2, <3>1, ArrayFacts
  <2> QED BY <2>1
<1>6. \A b \in CodeBlocks : BlockStart(b) < blocks[b].end_index
  BY <1>4 DEF Cut
<1>7. blocks[block_num - 1].end_index = py_instr_num
  BY <1>2, <1>3 DEF LinkInv, BlockStart
<1>8. ~blocks[block_num - 1].fall_through
  <2>1. Cut(block_num - 1)
    BY <1>3, <1>4
  <2> QED BY <1>2, <1>7, <2>1, CodeFacts DEF Cut
<1>9. ASSUME NEW b \in CodeBlocks, NEW v \in BlockStart(b) .. blocks[b].end_index - 2
      PROVE  code[v].op # "POP_BLOCK" /\ ~Jumps(code[v].op) /\ ~isTerminator(code[v].op)
  <2>1. v \in 0 .. py_instr_num - 2
    BY <1>3, <1>4, <1>5
  <2>2. v + 1 \notin is_boundary /\ v + 1 # 0
    <3>1. BlockStart(b) < v + 1 /\ v + 1 < blocks[b].end_index
      BY <1>4, <1>5
    <3> QED BY <1>4, <1>5, <2>1, <3>1 DEF Cut
  <2>3. \A u \in 0 .. py_instr_num - 1 : v + 1 \notin Marks(u)
    BY <1>2, <2>2 DEF Scanned
  <2>4. v \in 0 .. py_instr_num - 1
    BY <2>1, <1>3
  <2>5. ~isTerminator(code[v].op)
    BY <1>2, <2>1, <2>3, CodeFacts, MarkFacts
  <2> QED BY <1>2, <2>3, <2>4, <2>5, MarkFacts
<1>10. ASSUME NEW v \in DOMAIN code, Jumps(code[v].op)
       PROVE  \E b \in CodeBlocks : BlockStart(b) = Destination(code, v)
  BY <1>2, <1>10, DestinationsAreStarts DEF CodeOK
<1> QED BY <1>6, <1>7, <1>8, <1>9, <1>10 DEF BasicBlocks

\* Whatever code the compiler emits, the array of blocks reserved from the counts of
\* the first pass is filled exactly by the other two.
THEOREM CountsCorrect == ParseSpec => []CountsAgree
<1>1. IInv => CountsAgree
  BY CountsFollow
<1> QED BY <1>1, InvariantHolds, PTL

\* The blocks parseCFG makes are basic blocks: no unit inside one is entered by a
\* jump or leaves it, and every jump of the code leads to the start of one.
THEOREM BlocksAreBasic == ParseSpec => []BasicBlocks
<1>1. IInv => BasicBlocks
  BY BasicBlocksFollow
<1> QED BY <1>1, InvariantHolds, PTL

-----------------------------------------------------------------------------
(* The search of findPyBlock.                                              *)

\* The ends of blocks are in order.
LEMMA EndsIncrease ==
  ASSUME CodeOK, Scanned, CutUpTo(block_num)
  PROVE  /\ \A b \in CodeBlocks : blocks[b].end_index \in 1 .. py_instr_num
         /\ \A b, c \in CodeBlocks : b < c => blocks[b].end_index < blocks[c].end_index
<1>1. block_num \in Nat \ {0} /\ CodeBlocks = 0 .. block_num - 1 /\ py_instr_num \in Nat
  BY ArrayFacts, CodeFacts DEF CodeBlocks
<1>2. \A b \in CodeBlocks : blocks[b].end_index \in 1 .. py_instr_num
  BY <1>1 DEF CutUpTo, Cut, Scanned
<1>3. ASSUME NEW b \in CodeBlocks, b + 1 \in CodeBlocks
      PROVE  blocks[b].end_index < blocks[b + 1].end_index
  <2>1. Cut(b + 1) /\ BlockStart(b + 1) = blocks[b].end_index
    BY <1>1, <1>3 DEF CutUpTo, BlockStart
  <2> QED BY <2>1 DEF Cut
<1>4. ASSUME NEW b \in CodeBlocks, NEW c \in CodeBlocks, b < c,
             ~(blocks[b].end_index < blocks[c].end_index)
      PROVE  FALSE
  <2> DEFINE bad == {k \in Nat : /\ b + k + 1 \in CodeBlocks
                                 /\ ~(blocks[b].end_index < blocks[b + k + 1].end_index)}
  <2>1. c - b - 1 \in bad
    BY <1>1, <1>4
  <2>2. Min(bad) \in bad /\ \A k \in bad : Min(bad) <= k
    BY <2>1, Smallest
  <2>3. PICK k \in bad : \A j \in bad : k <= j
    BY <2>2
  <2>4. k \in Nat /\ b + k + 1 \in CodeBlocks
        /\ ~(blocks[b].end_index < blocks[b + k + 1].end_index)
    BY <2>3
  <2>5. k # 0
    BY <1>1, <1>3, <2>4
  <2>6. k - 1 \notin bad /\ k - 1 \in Nat
    BY <2>3, <2>5
  <2>7. b + k \in CodeBlocks /\ b + (k - 1) + 1 = b + k
    BY <1>1, <2>4
  <2>8. blocks[b].end_index < blocks[b + k].end_index
    BY <2>6, <2>7
  <2>9. blocks[b + k].end_index < blocks[b + k + 1].end_index
    BY <1>3, <2>4, <2>7
  <2> QED BY <1>2, <2>4, <2>7, <2>8, <2>9
<1> QED BY <1>2, <1>4

\* Where the search can be, and what one turn of it makes of what the rest finds.
Ranges == (0 .. block_num) \X (-1 .. block_num - 1)

Turn(found, at, offset) ==
  LET left  == at[1]
      right == at[2]
      mid   == left + (right - left) \div 2
      end   == blocks[mid].end_index
  IN  IF left > right THEN 0
      ELSE IF end < offset THEN found[<<mid + 1, right>>]
      ELSE IF end > offset THEN found[<<left, mid - 1>>]
      ELSE mid + 1

\* What the search is for: the block after the one in the range that ends there.
AfterBlockEnding(at, offset) ==
  IF \E j \in at[1] .. at[2] : blocks[j].end_index = offset
    THEN 1 + CHOOSE j \in at[1] .. at[2] : blocks[j].end_index = offset
    ELSE 0

Sorted ==
  /\ \A b \in CodeBlocks : blocks[b].end_index \in Nat
  /\ \A b, c \in CodeBlocks : b < c => blocks[b].end_index < blocks[c].end_index

LEMMA Middle ==
  ASSUME block_num \in Nat, NEW at \in Ranges, at[1] <= at[2]
  PROVE  LET mid == at[1] + (at[2] - at[1]) \div 2
         IN  /\ mid \in at[1] .. at[2] /\ mid \in CodeBlocks
             /\ <<mid + 1, at[2]>> \in Ranges /\ <<at[1], mid - 1>> \in Ranges
BY DEF Ranges, CodeBlocks

LEMMA OneTurn ==
  ASSUME block_num \in Nat, Sorted, NEW offset \in Nat, NEW at \in Ranges, NEW found,
         at[1] <= at[2] =>
           LET mid == at[1] + (at[2] - at[1]) \div 2
           IN  /\ found[<<mid + 1, at[2]>>] = AfterBlockEnding(<<mid + 1, at[2]>>, offset)
               /\ found[<<at[1], mid - 1>>] = AfterBlockEnding(<<at[1], mid - 1>>, offset)
  PROVE  Turn(found, at, offset) = AfterBlockEnding(at, offset)
<1> DEFINE left  == at[1]
           right == at[2]
           mid   == left + (right - left) \div 2
           Ends(j) == blocks[j].end_index = offset
<1>1. left \in Nat /\ right \in Int /\ at = <<left, right>> /\ right < block_num
  BY DEF Ranges
<1>2. \A j \in left .. right : j \in CodeBlocks
  BY <1>1 DEF CodeBlocks
<1>3. CASE left > right
  <2>1. ~ \E j \in left .. right : Ends(j)
    BY <1>1, <1>3
  <2> QED BY <1>3, <2>1 DEF Turn, AfterBlockEnding
<1>4. CASE left <= right
  <2>1. mid \in left .. right /\ mid \in CodeBlocks /\ blocks[mid].end_index \in Nat
    BY <1>4, Middle DEF Sorted
  <2>2. /\ found[<<mid + 1, right>>] = AfterBlockEnding(<<mid + 1, right>>, offset)
        /\ found[<<left, mid - 1>>] = AfterBlockEnding(<<left, mid - 1>>, offset)
    BY <1>4
  <2>3. Turn(found, at, offset) =
          IF blocks[mid].end_index < offset THEN found[<<mid + 1, right>>]
          ELSE IF blocks[mid].end_index > offset THEN found[<<left, mid - 1>>]
          ELSE mid + 1
    BY <1>4, <1>1, <2>1 DEF Turn
  <2> HIDE DEF left, right, mid
  <2>4. CASE blocks[mid].end_index < offset
    <3>1. \A j \in left .. mid : ~Ends(j)
      BY <1>1, <1>2, <2>1, <2>4 DEF Sorted
    <3>2. \A j : j \in left .. right /\ Ends(j) <=> j \in mid + 1 .. right /\ Ends(j)
      BY <1>1, <2>1, <3>1
    <3>3. AfterBlockEnding(<<mid + 1, right>>, offset) = AfterBlockEnding(<<left, right>>, offset)
      <4>1. (CHOOSE j \in left .. right : Ends(j)) = (CHOOSE j \in mid + 1 .. right : Ends(j))
        BY <3>2
      <4> QED BY <3>2, <4>1 DEF AfterBlockEnding
    <3> QED BY <1>1, <2>2, <2>3, <2>4, <3>3
  <2>5. CASE blocks[mid].end_index > offset
    <3>1. \A j \in mid .. right : ~Ends(j)
      BY <1>1, <1>2, <2>1, <2>5 DEF Sorted
    <3>2. \A j : j \in left .. right /\ Ends(j) <=> j \in left .. mid - 1 /\ Ends(j)
      BY <1>1, <2>1, <3>1
    <3>3. AfterBlockEnding(<<left, mid - 1>>, offset) = AfterBlockEnding(<<left, right>>, offset)
      <4>1. (CHOOSE j \in left .. right : Ends(j)) = (CHOOSE j \in left .. mid - 1 : Ends(j))
        BY <3>2
      <4> QED BY <3>2, <4>1 DEF AfterBlockEnding
    <3> QED BY <1>1, <2>1, <2>2, <2>3, <2>5, <3>3
  <2>6. CASE blocks[mid].end_index = offset
    <3>1. \A j \in left .. right : Ends(j) => j = mid
      BY <1>1, <1>2, <2>1, <2>6 DEF Sorted
    <3>2. (CHOOSE j \in left .. right : Ends(j)) = mid
      BY <2>1, <2>6, <3>1
    <3>3. AfterBlockEnding(<<left, right>>, offset) = 1 + mid
      BY <2>1, <2>6, <3>2 DEF AfterBlockEnding
    <3>4. 1 + mid = mid + 1
      BY <1>1, <2>1
    <3> QED BY <1>1, <2>1, <2>3, <2>6, <3>3, <3>4
  <2> QED BY <2>1, <2>4, <2>5, <2>6
<1> QED BY <1>1, <1>3, <1>4

\* The search is a recursive function: it exists, and finds what it is for.
LEMMA SearchFinds ==
  ASSUME block_num \in Nat, block_num # 1, Sorted, NEW offset \in Nat,
         <<0, block_num - 2>> \in Ranges
  PROVE  findPyBlock(offset) = {AfterBlockEnding(<<0, block_num - 2>>, offset)}
<1> DEFINE s == CHOOSE s : s = [at \in Ranges |-> Turn(s, at, offset)]
           f == [at \in Ranges |-> AfterBlockEnding(at, offset)]
<1>1. f = [at \in Ranges |-> Turn(f, at, offset)]
  <2>1. SUFFICES ASSUME NEW at \in Ranges
                 PROVE  Turn(f, at, offset) = AfterBlockEnding(at, offset)
    OBVIOUS
  <2>2. at[1] <= at[2] =>
          LET mid == at[1] + (at[2] - at[1]) \div 2
          IN  /\ f[<<mid + 1, at[2]>>] = AfterBlockEnding(<<mid + 1, at[2]>>, offset)
              /\ f[<<at[1], mid - 1>>] = AfterBlockEnding(<<at[1], mid - 1>>, offset)
    BY Middle
  <2> HIDE DEF f
  <2> QED BY <2>2, OneTurn
<1>2. s = [at \in Ranges |-> Turn(s, at, offset)]
  <2> HIDE DEF f
  <2> QED BY <1>1
<1>3. findPyBlock(offset) = {s[<<0, block_num - 2>>]}
  BY DEF findPyBlock, Turn, Ranges
<1> HIDE DEF s, f
<1>4. ASSUME NEW at \in Ranges, s[at] # AfterBlockEnding(at, offset)
      PROVE  FALSE
  <2> DEFINE Wrong(a) == s[a] # AfterBlockEnding(a, offset)
             bad == {k \in Nat : \E a \in Ranges : a[2] - a[1] < k /\ Wrong(a)}
  <2>1. at[2] - at[1] \in Int /\ \E k \in Nat : at[2] - at[1] < k
    <3>1. at[2] - at[1] < block_num /\ at[2] - at[1] \in Int
      BY DEF Ranges
    <3> QED BY <3>1
  <2>2. bad # {} /\ bad \in SUBSET Nat
    BY <1>4, <2>1
  <2>3. PICK k \in bad : \A j \in bad : k <= j
    <3> HIDE DEF bad
    <3> QED BY <2>2, Smallest
  <2>4. PICK a \in Ranges : a[2] - a[1] < k /\ Wrong(a)
    BY <2>3
  <2>5. ASSUME NEW c \in Ranges, c[2] - c[1] < a[2] - a[1], a[1] <= a[2]
        PROVE  ~Wrong(c)
    <3>1. k \in Nat /\ a[1] \in Int /\ a[2] \in Int /\ c[1] \in Int /\ c[2] \in Int
      BY <2>3 DEF Ranges
    <3>2. k - 1 \in Nat /\ c[2] - c[1] < k - 1
      BY <2>4, <2>5, <3>1
    <3>3. k - 1 \notin bad
      BY <2>3, <3>1
    <3> QED BY <3>2, <3>3
  <2>6. a[1] <= a[2] =>
          LET mid == a[1] + (a[2] - a[1]) \div 2
          IN  /\ s[<<mid + 1, a[2]>>] = AfterBlockEnding(<<mid + 1, a[2]>>, offset)
              /\ s[<<a[1], mid - 1>>] = AfterBlockEnding(<<a[1], mid - 1>>, offset)
    <3>1. SUFFICES ASSUME a[1] <= a[2],
                          NEW mid, mid = a[1] + (a[2] - a[1]) \div 2
                   PROVE  ~Wrong(<<mid + 1, a[2]>>) /\ ~Wrong(<<a[1], mid - 1>>)
      OBVIOUS
    <3>2. /\ mid \in a[1] .. a[2]
          /\ <<mid + 1, a[2]>> \in Ranges /\ <<a[1], mid - 1>> \in Ranges
      BY <3>1, Middle
    <3>3. a[1] \in Int /\ a[2] \in Int
      BY DEF Ranges
    <3>4. a[2] - (mid + 1) < a[2] - a[1] /\ (mid - 1) - a[1] < a[2] - a[1]
      BY <3>2, <3>3
    <3> HIDE DEF Wrong
    <3>5. ASSUME NEW x, NEW y, <<x, y>> \in Ranges, y - x < a[2] - a[1]
          PROVE  ~Wrong(<<x, y>>)
      BY <2>5, <3>1, <3>5
    <3> QED BY <3>2, <3>4, <3>5
  <2>7. Turn(s, a, offset) = AfterBlockEnding(a, offset)
    BY <2>6, OneTurn
  <2>8. s[a] = Turn(s, a, offset)
    BY <1>2
  <2> QED BY <2>4, <2>7, <2>8
<1> QED BY <1>3, <1>4

\* Where a block begins, findPyBlock finds it.
LEMMA FindCorrect ==
  ASSUME CodeOK, Scanned, CutUpTo(block_num), block_num # 1, NEW t \in CodeBlocks
  PROVE  findPyBlock(BlockStart(t)) = {t}
<1> DEFINE offset == BlockStart(t)
           all    == <<0, block_num - 2>>
           Ends(j) == blocks[j].end_index = offset
<1>1. block_num \in Nat \ {0} /\ CodeBlocks = 0 .. block_num - 1
  BY ArrayFacts DEF CodeBlocks
<1>2. Sorted /\ \A b \in CodeBlocks : blocks[b].end_index \in 1 .. py_instr_num
  BY EndsIncrease, CodeFacts DEF Sorted
<1>3. all \in Ranges /\ all[1] = 0 /\ all[2] = block_num - 2
  BY <1>1 DEF Ranges
<1>4. offset \in Nat
  BY <1>1, <1>2, CodeFacts DEF BlockStart
<1>5. findPyBlock(offset) = {AfterBlockEnding(all, offset)}
  BY <1>1, <1>2, <1>3, <1>4, SearchFinds
<1>6. CASE t = 0
  <2>1. offset = 0
    BY <1>6 DEF BlockStart
  <2>2. \A j \in 0 .. block_num - 2 : ~Ends(j)
    BY <1>1, <1>2, <2>1
  <2> QED BY <1>3, <1>5, <1>6, <2>2 DEF AfterBlockEnding
<1>7. CASE t # 0
  <2>1. offset = blocks[t - 1].end_index /\ t - 1 \in 0 .. block_num - 2
    BY <1>1, <1>7 DEF BlockStart
  <2> HIDE DEF offset
  <2>2. \A j \in 0 .. block_num - 2 : Ends(j) => j = t - 1
    BY <1>1, <1>2, <1>4, <2>1 DEF Sorted
  <2>3. (CHOOSE j \in 0 .. block_num - 2 : Ends(j)) = t - 1
    BY <2>1, <2>2
  <2>4. AfterBlockEnding(all, offset) = 1 + (t - 1)
    BY <1>3, <2>1, <2>3 DEF AfterBlockEnding
  <2>5. 1 + (t - 1) = t
    BY <1>1
  <2> QED BY <1>5, <2>4, <2>5 DEF offset
<1> QED BY <1>6, <1>7

-----------------------------------------------------------------------------
(* What becomes of the branches.                                           *)

\* The last unit of code block b.
LastUnit(b) == blocks[b].end_index - 1

\* As the second pass leaves a block: its branch is still a place in the code.
Unlinked(b) ==
  /\ blocks[b].eh_body_exit = (code[LastUnit(b)].op = "POP_BLOCK")
  /\ blocks[b].branch = IF Jumps(code[LastUnit(b)].op) THEN Destination(code, LastUnit(b)) ELSE Nil

LeadsTo(b, v) ==
  blocks[b].branch \in CodeBlocks /\ BlockStart(blocks[b].branch) = Destination(code, v)

\* As the third pass leaves it: a try block's set-up has an exception block.
Linked(b) ==
  LET op == code[LastUnit(b)].op
      eb == blocks[b].branch
  IN  /\ blocks[b].eh_body_exit = (op = "POP_BLOCK")
      /\ ~Jumps(op) => eb = Nil
      /\ Jumps(op) /\ ~isTryBlockSetup(op) => LeadsTo(b, LastUnit(b))
      /\ isTryBlockSetup(op) => /\ eb \in block_num .. exception_block_index - 1
                                /\ blocks[eb].eh_setup_block = b
                                /\ LeadsTo(eb, LastUnit(b))

\* The exception block of the set-up in block b.
ExceptionBlock(target, b) ==
  [end_index |-> Nil, fall_through |-> FALSE, branch |-> target,
   eh_body_enter |-> FALSE, eh_body_exit |-> FALSE, eh_setup_block |-> b]

\* An exception block that is handed out to the set-up of one of the first k blocks.
HandedOut(eb, k) ==
  LET b == blocks[eb].eh_setup_block
  IN  /\ blocks[eb] = ExceptionBlock(blocks[eb].branch, b)
      /\ b \in 0 .. k - 1 /\ isTryBlockSetup(code[LastUnit(b)].op) /\ blocks[b].branch = eb

Created ==
  /\ \A b \in 0 .. cursor - 1 : Unlinked(b)
  /\ \A b \in AllBlocks : b >= cursor => blocks[b] = FreshBlock

LinkedSoFar ==
  /\ \A b \in 0 .. cursor - 1 : Linked(b)
  /\ \A b \in cursor .. block_num - 1 : Unlinked(b)
  /\ \A eb \in block_num .. exception_block_index - 1 : HandedOut(eb, cursor)
  /\ \A eb \in AllBlocks : eb >= exception_block_index => blocks[eb] = FreshBlock

BranchInv ==
  /\ ~OneBlockLoop
  /\ phase = "create" => Created
  /\ phase \in {"link", "parsed"} => LinkedSoFar

\* A code of one block that is not the loop left out has no jump at all.
LEMMA OneBlockStays ==
  ASSUME CodeOK, Scanned, block_num = 1, ~OneBlockLoop
  PROVE  ~Jumps(code[py_instr_num - 1].op)
<1>1. py_instr_num \in Nat \ {0}
  BY CodeFacts
<1>2. is_boundary = {py_instr_num}
  <2>1. IsFiniteSet(is_boundary)
    <3>1. is_boundary \in SUBSET (0 .. py_instr_num)
      BY DEF Scanned
    <3> QED BY <1>1, <3>1, SubsetOfInterval
  <2>2. Cardinality(is_boundary) = 1 /\ py_instr_num \in is_boundary
    BY DEF Scanned
  <2>3. IsFiniteSet({py_instr_num}) /\ Cardinality({py_instr_num}) = 1
    BY FS_Singleton
  <2>4. {py_instr_num} \in SUBSET is_boundary
    BY <2>2
  <2> QED BY <2>1, <2>2, <2>3, <2>4, FS_Subset
<1>3. \A v \in 0 .. py_instr_num - 1 : Marks(v) \subseteq {0, py_instr_num}
  BY <1>2 DEF Scanned
<1>4. ASSUME NEW v \in 0 .. py_instr_num - 2
      PROVE  ~Jumps(code[v].op) /\ code[v].op # "POP_BLOCK"
  <2>1. v + 1 \notin {0, py_instr_num} /\ v \in 0 .. py_instr_num - 1
    BY <1>1
  <2>2. \A u \in 0 .. py_instr_num - 1 : v + 1 \notin Marks(u)
    BY <1>3, <2>1
  <2>3. ~isTerminator(code[v].op)
    BY <2>2, CodeFacts, MarkFacts
  <2> QED BY <2>1, <2>2, <2>3, MarkFacts
<1>5. ASSUME Jumps(code[py_instr_num - 1].op) PROVE FALSE
  <2>1. py_instr_num - 1 \in 0 .. py_instr_num - 1
    BY <1>1
  <2>2. Destination(code, py_instr_num - 1) \in Marks(py_instr_num - 1)
    BY <1>5, <2>1, MarkFacts
  <2>3. Destination(code, py_instr_num - 1) \in 0 .. py_instr_num - 1
    BY <1>5, <2>1, CodeFacts
  <2>4. Destination(code, py_instr_num - 1) = 0
    BY <1>1, <1>3, <2>1, <2>2, <2>3
  <2>5. 0 .. py_instr_num - 1 - 1 = 0 .. py_instr_num - 2
    BY <1>1
  <2> QED BY <1>4, <1>5, <2>4, <2>5 DEF OneBlockLoop
<1> QED BY <1>5

LEMMA CreateBranches ==
  ASSUME IInv, IInv', BranchInv, Create
  PROVE  BranchInv'
<1> DEFINE end == Min({e \in is_boundary : e > start_index})
           new == BlockEndingAt(end)
<1>1. /\ CodeOK /\ Scanned /\ CreateInv /\ Created /\ ~OneBlockLoop /\ code' = code
      /\ phase = "create" /\ phase' = "create" /\ cursor' = cursor + 1
      /\ blocks' = [blocks EXCEPT ![cursor] = new]
      /\ is_boundary' = is_boundary /\ block_num' = block_num /\ try_block_num' = try_block_num
      /\ Scanned' /\ CreateInv'
  BY DEF IInv, Create, BranchInv
<1> HIDE DEF end
<1>2. /\ block_num \in Nat /\ try_block_num \in Nat /\ cursor \in 0 .. block_num - 1
      /\ AllBlocks = 0 .. block_num + try_block_num - 1 /\ AllBlocks' = AllBlocks
  BY <1>1, ArrayFacts DEF CreateInv, AllBlocks
<1> HIDE DEF new
<1>3. /\ blocks'[cursor] = new
      /\ \A b \in AllBlocks : b # cursor => blocks'[b] = blocks[b]
  <2>1. cursor \in AllBlocks
    BY <1>2
  <2> QED BY <1>1, <2>1 DEF Scanned
<1>4. end \in 1 .. py_instr_num
  <2> DEFINE start == BlockStart(cursor)
             ends  == {e \in is_boundary : e > start}
  <2>1. is_boundary \subseteq 1 .. py_instr_num /\ start \in Int /\ py_instr_num \in Nat
    BY <1>1, <1>2, ArrayFacts, CodeFacts DEF CreateInv, CutUpTo, Scanned
  <2>2. ends # {} /\ end = Min(ends)
    <3>1. ends # {}
      BY DEF Create, start_index, BlockStart
    <3>2. start_index = start
      BY DEF start_index, BlockStart
    <3> QED BY <3>1, <3>2 DEF end
  <2>3. ends \in SUBSET Nat
    <3>1. is_boundary \subseteq Nat
      BY <2>1
    <3> QED BY <3>1
  <2>4. end \in ends
    <3> HIDE DEF ends
    <3> QED BY <2>2, <2>3, Smallest
  <2> QED BY <2>1, <2>4
<1>5. \A b : b = cursor => Unlinked(b)'
  <2>1. /\ new.end_index = end
        /\ new.eh_body_exit = (code[end - 1].op = "POP_BLOCK")
        /\ new.branch = IF Jumps(code[end - 1].op) THEN Destination(code, end - 1) ELSE Nil
    BY <1>1, <1>4, NewBlock DEF new
  <2> QED BY <1>1, <1>3, <2>1 DEF Unlinked, LastUnit
<1>6. \A b \in 0 .. cursor - 1 : Unlinked(b)'
  <2>1. ASSUME NEW b \in 0 .. cursor - 1 PROVE Unlinked(b)'
    <3>1. b \in AllBlocks /\ b # cursor
      BY <1>2
    <3> QED BY <1>1, <1>3, <3>1 DEF Created, Unlinked, LastUnit
  <2> QED BY <2>1
<1>7. \A b \in 0 .. cursor' - 1 : Unlinked(b)'
  BY <1>1, <1>2, <1>5, <1>6
<1>8. \A b \in AllBlocks' : b >= cursor' => blocks'[b] = FreshBlock
  BY <1>1, <1>2, <1>3 DEF Created
<1>9. Created'
  BY <1>7, <1>8 DEF Created, FreshBlock
<1> QED BY <1>1, <1>9 DEF BranchInv, OneBlockLoop, py_instr_num

LEMMA EndCreateBranches ==
  ASSUME IInv, BranchInv, EndCreate
  PROVE  BranchInv'
<1>1. /\ CodeOK /\ Scanned /\ Created /\ ~OneBlockLoop /\ code' = code
      /\ phase = "create" /\ phase' = "link" /\ cursor' = 0 /\ blocks' = blocks
      /\ block_num' = block_num /\ try_block_num' = try_block_num
      /\ exception_block_index' = block_num
  BY DEF IInv, EndCreate, BranchInv
<1>2. cursor = block_num /\ block_num \in Nat
  BY <1>1, EndCreateKeeps, ArrayFacts
<1>3. \A b \in cursor' .. block_num' - 1 : Unlinked(b)'
  BY <1>1, <1>2 DEF Created, Unlinked, LastUnit
<1>4. \A b \in AllBlocks' : b >= exception_block_index' => blocks'[b] = FreshBlock
  BY <1>1, <1>2 DEF Created, AllBlocks
<1>5. 0 .. cursor' - 1 = {} /\ block_num' .. exception_block_index' - 1 = {}
  BY <1>1, <1>2
<1>6. LinkedSoFar'
  BY <1>3, <1>4, <1>5 DEF LinkedSoFar, FreshBlock
<1> QED BY <1>1, <1>6 DEF BranchInv, OneBlockLoop, py_instr_num

\* What the third pass makes of one block.
LEMMA LinkMakes ==
  ASSUME IInv, BranchInv, Link
  PROVE  LET op == code[LastUnit(cursor)].op
             eb == exception_block_index
         IN  /\ cursor \in CodeBlocks
             /\ blocks[cursor].eh_body_enter = isTryBlockSetup(op)
             /\ ~Jumps(op) => blocks' = [blocks EXCEPT ![cursor].branch = Nil]
             /\ Jumps(op) => \E target \in CodeBlocks :
                  /\ BlockStart(target) = Destination(code, LastUnit(cursor))
                  /\ blocks' = IF isTryBlockSetup(op)
                                 THEN [blocks EXCEPT ![cursor].branch = eb,
                                                     ![eb].branch = target,
                                                     ![eb].eh_setup_block = cursor]
                                 ELSE [blocks EXCEPT ![cursor].branch = target]
<1> DEFINE op  == code[LastUnit(cursor)].op
           own == blocks[cursor].branch # Nil /\ blocks[cursor].eh_body_enter
           eb  == exception_block_index
<1>1. /\ CodeOK /\ Scanned /\ LinkInv /\ LinkedSoFar /\ ~OneBlockLoop
      /\ phase = "link" /\ cursor < block_num
  BY DEF IInv, BranchInv, Link
<1>2. /\ block_num \in Nat \ {0} /\ cursor \in 0 .. block_num - 1
      /\ CodeBlocks = 0 .. block_num - 1
  BY <1>1, ArrayFacts DEF LinkInv, CodeBlocks
<1>3. /\ CutUpTo(block_num) /\ Cut(cursor) /\ Unlinked(cursor)
      /\ blocks[cursor].eh_body_enter = isTryBlockSetup(op)
  BY <1>1, <1>2 DEF LinkInv, CutUpTo, Cut, LinkedSoFar, LastUnit
<1>4. PICK target \in targets(blocks[cursor].branch) :
        blocks' = IF own THEN [blocks EXCEPT ![cursor].branch = eb,
                                             ![eb].branch = target,
                                             ![eb].eh_setup_block = cursor]
                         ELSE [blocks EXCEPT ![cursor].branch = target]
  BY DEF Link
<1>5. CASE ~Jumps(op)
  <2>1. blocks[cursor].branch = Nil
    BY <1>3, <1>5 DEF Unlinked
  <2>2. target = Nil /\ ~own
    BY <1>4, <2>1 DEF targets
  <2> QED BY <1>2, <1>3, <1>4, <1>5, <2>2
<1>6. CASE Jumps(op)
  <2> DEFINE v == LastUnit(cursor)
  <2>1. v \in 0 .. py_instr_num - 1
    BY <1>1, <1>2, <1>3, EndsIncrease, CodeFacts DEF LastUnit
  <2>2. Destination(code, v) # Nil /\ blocks[cursor].branch = Destination(code, v)
    BY <1>1, <1>3, <1>6, <2>1, CodeFacts, NilAssumption DEF Unlinked
  <2>3. PICK t \in CodeBlocks : BlockStart(t) = Destination(code, v)
    BY <1>1, <1>6, <2>1, DestinationsAreStarts
  <2>4. block_num # 1
    <3>1. SUFFICES ASSUME block_num = 1 PROVE FALSE
      OBVIOUS
    <3>2. cursor = 0 /\ blocks[cursor].end_index = py_instr_num
      BY <1>1, <1>2, <3>1 DEF LinkInv, BlockStart
    <3> QED BY <1>1, <1>6, <3>1, <3>2, OneBlockStays DEF LastUnit
  <2>5. targets(blocks[cursor].branch) = {t}
    BY <1>1, <1>3, <2>2, <2>3, <2>4, FindCorrect DEF targets
  <2>6. target = t
    BY <1>4, <2>5
  <2>7. own <=> isTryBlockSetup(op)
    BY <1>3, <2>2
  <2> HIDE DEF v, own, op
  <2> QED BY <1>2, <1>3, <1>4, <1>6, <2>3, <2>6, <2>7 DEF v, op
<1> QED BY <1>5, <1>6

\* The same, field by field.
LEMMA LinkWrites ==
  ASSUME IInv, BranchInv, Link
  PROVE  LET op == code[LastUnit(cursor)].op
             eb == exception_block_index
         IN  /\ \A b \in AllBlocks : /\ blocks'[b].end_index = blocks[b].end_index
                                     /\ blocks'[b].eh_body_exit = blocks[b].eh_body_exit
             /\ \A b \in AllBlocks : b # cursor /\ ~(isTryBlockSetup(op) /\ b = eb) =>
                                       blocks'[b] = blocks[b]
             /\ ~Jumps(op) => blocks'[cursor].branch = Nil
             /\ Jumps(op) => \E target \in CodeBlocks :
                  /\ BlockStart(target) = Destination(code, LastUnit(cursor))
                  /\ IF isTryBlockSetup(op)
                       THEN /\ blocks'[cursor].branch = eb
                            /\ blocks'[eb] = ExceptionBlock(target, cursor)
                       ELSE blocks'[cursor].branch = target
<1> DEFINE op  == code[LastUnit(cursor)].op
           eb  == exception_block_index
           Relinked(r, t) == [r EXCEPT !.branch = t]
           Handling(r, t) == [[r EXCEPT !.branch = t] EXCEPT !.eh_setup_block = cursor]
<1>1. /\ CodeOK /\ Scanned /\ LinkInv /\ LinkedSoFar /\ cursor < block_num
  BY DEF IInv, BranchInv, Link
<1>2. /\ block_num \in Nat \ {0} /\ cursor \in 0 .. block_num - 1 /\ try_block_num \in Nat
      /\ AllBlocks = 0 .. block_num + try_block_num - 1
  BY <1>1, ArrayFacts DEF LinkInv, AllBlocks
<1>3. /\ cursor \in AllBlocks
      /\ blocks = [b \in AllBlocks |-> blocks[b]] /\ \A b \in AllBlocks : IsBlock(blocks[b])
  BY <1>1, <1>2 DEF Scanned
<1>4. ASSUME NEW r, IsBlock(r), NEW t
      PROVE  /\ Relinked(r, t).branch = t
             /\ Relinked(r, t).end_index = r.end_index
             /\ Relinked(r, t).eh_body_exit = r.eh_body_exit
  <2>1. r = [end_index |-> r.end_index, fall_through |-> r.fall_through, branch |-> r.branch,
             eh_body_enter |-> r.eh_body_enter, eh_body_exit |-> r.eh_body_exit,
             eh_setup_block |-> r.eh_setup_block]
    BY <1>4 DEF IsBlock
  <2>2. Relinked(r, t) =
          [end_index |-> r.end_index, fall_through |-> r.fall_through, branch |-> t,
           eh_body_enter |-> r.eh_body_enter, eh_body_exit |-> r.eh_body_exit,
           eh_setup_block |-> r.eh_setup_block]
    BY <2>1
  <2> HIDE DEF Relinked
  <2> QED BY <2>2
<1>5. CASE ~isTryBlockSetup(op)
  <2>1. PICK t : /\ blocks' = [blocks EXCEPT ![cursor] = Relinked(blocks[cursor], t)]
                 /\ ~Jumps(op) => t = Nil
                 /\ Jumps(op) => /\ t \in CodeBlocks
                                 /\ BlockStart(t) = Destination(code, LastUnit(cursor))
    <3>1. CASE ~Jumps(op)
      BY <3>1, LinkMakes
    <3>2. CASE Jumps(op)
      BY <1>5, <3>2, LinkMakes
    <3> QED BY <3>1, <3>2
  <2> HIDE DEF Relinked, op
  <2>2. /\ blocks'[cursor] = Relinked(blocks[cursor], t)
        /\ \A b \in AllBlocks : b # cursor => blocks'[b] = blocks[b]
    BY <1>3, <2>1
  <2>3. /\ blocks'[cursor].branch = t
        /\ blocks'[cursor].end_index = blocks[cursor].end_index
        /\ blocks'[cursor].eh_body_exit = blocks[cursor].eh_body_exit
    BY <1>3, <1>4, <2>2
  <2> QED BY <1>5, <2>1, <2>2, <2>3 DEF op
<1>6. CASE isTryBlockSetup(op)
  <2>1. Jumps(op)
    BY <1>6, Opcodes
  <2>2. PICK target \in CodeBlocks :
          /\ BlockStart(target) = Destination(code, LastUnit(cursor))
          /\ blocks' = [blocks EXCEPT ![cursor].branch = eb,
                                      ![eb].branch = target,
                                      ![eb].eh_setup_block = cursor]
    BY <1>6, <2>1, LinkMakes
  <2>3. eb \in AllBlocks /\ eb # cursor /\ blocks[eb] = FreshBlock
    <3>1. blocks[cursor].eh_body_enter
      BY <1>6, LinkMakes
    <3>2. eb \in Nat /\ eb >= block_num /\ eb \in AllBlocks
      BY <1>1, <3>1, RoomLeft
    <3> QED BY <1>1, <1>2, <3>2 DEF LinkedSoFar
  <2>4. /\ blocks'[cursor] = Relinked(blocks[cursor], eb)
        /\ blocks'[eb] = Handling(blocks[eb], target)
        /\ \A b \in AllBlocks : b # cursor /\ b # eb => blocks'[b] = blocks[b]
    <3> HIDE DEF eb
    <3> QED BY <1>3, <2>2, <2>3 DEF eb
  <2>5. /\ blocks'[eb] = ExceptionBlock(target, cursor)
        /\ blocks'[eb].end_index = FreshBlock.end_index
        /\ blocks'[eb].eh_body_exit = FreshBlock.eh_body_exit
    <3>1. PICK f : f = FreshBlock
      OBVIOUS
    <3>2. /\ f.end_index = Nil /\ f.fall_through = FALSE /\ f.eh_body_enter = FALSE
          /\ f.eh_body_exit = FALSE /\ IsBlock(f)
      BY <3>1 DEF FreshBlock, IsBlock
    <3>3. f = [end_index |-> f.end_index, fall_through |-> f.fall_through, branch |-> f.branch,
               eh_body_enter |-> f.eh_body_enter, eh_body_exit |-> f.eh_body_exit,
               eh_setup_block |-> f.eh_setup_block]
      BY <3>2 DEF IsBlock
    <3>4. PICK g : g = Relinked(f, target)
      OBVIOUS
    <3>5. g = [end_index |-> f.end_index, fall_through |-> f.fall_through, branch |-> target,
               eh_body_enter |-> f.eh_body_enter, eh_body_exit |-> f.eh_body_exit,
               eh_setup_block |-> f.eh_setup_block]
      BY <3>3, <3>4
    <3>6. [g EXCEPT !.eh_setup_block = cursor] =
            [end_index |-> f.end_index, fall_through |-> f.fall_through, branch |-> target,
             eh_body_enter |-> f.eh_body_enter, eh_body_exit |-> f.eh_body_exit,
             eh_setup_block |-> cursor]
      BY <3>5
    <3>7. [g EXCEPT !.eh_setup_block = cursor] = ExceptionBlock(target, cursor)
      BY <3>2, <3>6 DEF ExceptionBlock
    <3>8. blocks'[eb] = ExceptionBlock(target, cursor)
      BY <2>3, <2>4, <3>1, <3>4, <3>7
    <3>9. blocks'[eb].end_index = Nil /\ blocks'[eb].eh_body_exit = FALSE
      BY <3>8 DEF ExceptionBlock
    <3> QED BY <3>1, <3>2, <3>8, <3>9
  <2> HIDE DEF Relinked, Handling, op
  <2>6. /\ blocks'[cursor].branch = eb
        /\ blocks'[cursor].end_index = blocks[cursor].end_index
        /\ blocks'[cursor].eh_body_exit = blocks[cursor].eh_body_exit
    BY <1>3, <1>4, <2>4
  <2>7. \A b \in AllBlocks : /\ blocks'[b].end_index = blocks[b].end_index
                             /\ blocks'[b].eh_body_exit = blocks[b].eh_body_exit
    BY <2>3, <2>4, <2>5, <2>6
  <2> HIDE DEF eb
  <2> QED BY <1>6, <2>1, <2>2, <2>4, <2>5, <2>6, <2>7 DEF op, eb
<1> QED BY <1>5, <1>6

LEMMA LinkBranches ==
  ASSUME IInv, BranchInv, Link
  PROVE  BranchInv'
<1>0. PICK op, eb : op = code[LastUnit(cursor)].op /\ eb = exception_block_index
  OBVIOUS
<1>1. /\ CodeOK /\ Scanned /\ LinkInv /\ LinkedSoFar /\ ~OneBlockLoop /\ code' = code
      /\ phase = "link" /\ phase' = "link" /\ cursor' = cursor + 1 /\ cursor < block_num
      /\ block_num' = block_num /\ try_block_num' = try_block_num
  BY DEF IInv, BranchInv, Link
<1>2. /\ block_num \in Nat \ {0} /\ cursor \in 0 .. block_num - 1 /\ try_block_num \in Nat
      /\ AllBlocks = 0 .. block_num + try_block_num - 1 /\ CodeBlocks = 0 .. block_num - 1
      /\ AllBlocks' = AllBlocks /\ CodeBlocks' = CodeBlocks
      /\ eb \in Nat /\ eb >= block_num /\ eb <= block_num + try_block_num
      /\ isTryBlockSetup(op) => eb \in AllBlocks
  <2>1. block_num \in Nat \ {0} /\ cursor \in 0 .. block_num - 1 /\ try_block_num \in Nat
    BY <1>1, ArrayFacts DEF LinkInv
  <2>2. eb \in Nat /\ eb >= block_num /\ (isTryBlockSetup(op) => eb \in AllBlocks)
    BY <1>0, <1>1, LinkMakes, RoomLeft
  <2>3. eb <= block_num + try_block_num
    BY <1>0, <1>1, CountsFollow DEF CountsAgree
  <2> QED BY <1>1, <2>1, <2>2, <2>3 DEF AllBlocks, CodeBlocks
<1>3. exception_block_index' = IF isTryBlockSetup(op) THEN eb + 1 ELSE eb
  <2>1. Unlinked(cursor) /\ blocks[cursor].eh_body_enter = isTryBlockSetup(op)
    BY <1>0, <1>1, <1>2, LinkMakes DEF LinkedSoFar
  <2>2. isTryBlockSetup(op) => blocks[cursor].branch # Nil
    <3>1. cursor \in cursor .. block_num - 1
      BY <1>2
    <3> QED BY <1>1, <2>1, <3>1 DEF LinkInv
  <2> QED BY <1>0, <2>1, <2>2 DEF Link
<1>4. /\ \A b \in AllBlocks : /\ blocks'[b].end_index = blocks[b].end_index
                              /\ blocks'[b].eh_body_exit = blocks[b].eh_body_exit
      /\ \A b \in AllBlocks : b # cursor /\ ~(isTryBlockSetup(op) /\ b = eb) =>
                                blocks'[b] = blocks[b]
      /\ ~Jumps(op) => blocks'[cursor].branch = Nil
      /\ Jumps(op) => \E target \in CodeBlocks :
           /\ BlockStart(target) = Destination(code, LastUnit(cursor))
           /\ IF isTryBlockSetup(op)
                THEN /\ blocks'[cursor].branch = eb
                     /\ blocks'[eb] = ExceptionBlock(target, cursor)
                ELSE blocks'[cursor].branch = target
  BY <1>0, LinkWrites
<1>5. /\ \A b \in CodeBlocks : BlockStart(b)' = BlockStart(b) /\ LastUnit(b)' = LastUnit(b)
      /\ CodeBlocks \subseteq AllBlocks
  <2>1. \A b \in CodeBlocks : b # 0 => b - 1 \in AllBlocks
    BY <1>2
  <2>2. CodeBlocks \subseteq AllBlocks
    BY <1>2
  <2> QED BY <1>4, <2>1, <2>2 DEF BlockStart, LastUnit
<1>6. ASSUME NEW b \in 0 .. cursor - 1 PROVE Linked(b)'
  <2>1. b \in CodeBlocks /\ b \in AllBlocks /\ b # cursor /\ b # eb /\ Linked(b)
    BY <1>1, <1>2 DEF LinkedSoFar
  <2>2. blocks'[b] = blocks[b] /\ LastUnit(b)' = LastUnit(b)
    BY <1>4, <1>5, <2>1
  <2>3. ASSUME isTryBlockSetup(code[LastUnit(b)].op)
        PROVE  LET e == blocks[b].branch
               IN  /\ e \in block_num' .. exception_block_index' - 1
                   /\ blocks'[e] = blocks[e]
    <3>1. blocks[b].branch \in block_num .. eb - 1
      BY <1>0, <2>1, <2>3 DEF Linked
    <3>2. blocks[b].branch \in AllBlocks /\ blocks[b].branch # cursor /\ blocks[b].branch # eb
      BY <1>2, <3>1
    <3> QED BY <1>1, <1>2, <1>3, <1>4, <3>1, <3>2
  <2>4. /\ LeadsTo(b, LastUnit(b)) => LeadsTo(b, LastUnit(b))'
        /\ isTryBlockSetup(code[LastUnit(b)].op) /\ LeadsTo(blocks[b].branch, LastUnit(b)) =>
             LeadsTo(blocks[b].branch, LastUnit(b))'
    BY <1>1, <1>2, <1>5, <2>2, <2>3 DEF LeadsTo
  <2> QED BY <1>1, <2>1, <2>2, <2>3, <2>4 DEF Linked
<1>7. \A b : b = cursor => Linked(b)'
  <2>1. SUFFICES ASSUME NEW b, b = cursor PROVE Linked(b)'
    OBVIOUS
  <2>2. b \in CodeBlocks /\ LastUnit(b)' = LastUnit(b) /\ code[LastUnit(b)].op = op
        /\ blocks'[b].eh_body_exit = (op = "POP_BLOCK")
    <3>1. b \in CodeBlocks /\ b \in AllBlocks /\ code[LastUnit(b)].op = op
      BY <1>0, <1>2, <2>1
    <3>2. cursor \in cursor .. block_num - 1
      BY <1>2
    <3>3. blocks[b].eh_body_exit = (op = "POP_BLOCK")
      BY <1>0, <1>1, <2>1, <3>2 DEF LinkedSoFar, Unlinked
    <3> QED BY <1>4, <1>5, <3>1, <3>3
  <2>3. CASE ~Jumps(op)
    <3>1. ~isTryBlockSetup(op)
      BY <2>3, Opcodes
    <3> QED BY <1>1, <1>4, <2>1, <2>2, <2>3, <3>1 DEF Linked
  <2>4. CASE Jumps(op)
    <3>1. PICK target \in CodeBlocks :
            /\ BlockStart(target) = Destination(code, LastUnit(cursor))
            /\ IF isTryBlockSetup(op)
                 THEN /\ blocks'[cursor].branch = eb
                      /\ blocks'[eb] = ExceptionBlock(target, cursor)
                 ELSE blocks'[cursor].branch = target
      BY <1>4, <2>4
    <3>2. CASE isTryBlockSetup(op)
      <4>1. blocks'[eb].branch = target /\ blocks'[eb].eh_setup_block = cursor
        BY <3>1, <3>2 DEF ExceptionBlock
      <4>2. eb \in block_num' .. exception_block_index' - 1
        BY <1>1, <1>2, <1>3, <3>2
      <4>3. LeadsTo(eb, LastUnit(b))'
        BY <1>1, <1>2, <1>5, <2>1, <2>2, <3>1, <4>1 DEF LeadsTo
      <4>4. blocks'[b].branch = eb
        BY <2>1, <3>1, <3>2
      <4> QED BY <1>1, <2>1, <2>2, <2>4, <3>2, <4>1, <4>2, <4>3, <4>4 DEF Linked, LeadsTo
    <3>3. CASE ~isTryBlockSetup(op)
      <4>1. LeadsTo(b, LastUnit(b))'
        BY <1>1, <1>2, <1>5, <2>1, <2>2, <3>1, <3>3 DEF LeadsTo
      <4> QED BY <1>1, <2>1, <2>2, <2>4, <3>3, <4>1 DEF Linked
    <3> QED BY <3>2, <3>3
  <2> QED BY <2>3, <2>4
<1>8. \A b \in 0 .. cursor' - 1 : Linked(b)'
  BY <1>1, <1>2, <1>6, <1>7
<1>9. \A b \in cursor' .. block_num' - 1 : Unlinked(b)'
  <2>1. SUFFICES ASSUME NEW b \in cursor' .. block_num' - 1 PROVE Unlinked(b)'
    OBVIOUS
  <2>2. b \in cursor .. block_num - 1 /\ b # cursor /\ b # eb /\ b \in AllBlocks
    BY <1>1, <1>2, <2>1
  <2> QED BY <1>1, <1>4, <2>2 DEF LinkedSoFar, Unlinked, LastUnit
<1>10. ASSUME NEW e \in block_num' .. exception_block_index' - 1 PROVE HandedOut(e, cursor)'
  <2>1. CASE e \in block_num .. eb - 1
    <3>1. HandedOut(e, cursor) /\ e \in AllBlocks /\ e # cursor /\ e # eb
      BY <1>0, <1>1, <1>2, <2>1 DEF LinkedSoFar
    <3>2. /\ blocks[e].eh_setup_block \in 0 .. cursor - 1
          /\ blocks[e].eh_setup_block \in AllBlocks /\ blocks[e].eh_setup_block # cursor
          /\ blocks[e].eh_setup_block # eb
      BY <1>2, <3>1 DEF HandedOut
    <3>3. blocks'[e] = blocks[e]
          /\ blocks'[blocks[e].eh_setup_block] = blocks[blocks[e].eh_setup_block]
      BY <1>4, <3>1, <3>2
    <3>4. blocks[e].eh_setup_block \in 0 .. cursor' - 1
      BY <1>1, <1>2, <3>2
    <3> QED BY <1>1, <3>1, <3>3, <3>4 DEF HandedOut, ExceptionBlock, LastUnit
  <2>2. CASE e \notin block_num .. eb - 1
    <3>1. isTryBlockSetup(op) /\ e = eb
      BY <1>1, <1>2, <1>3, <2>2
    <3>2. PICK target \in CodeBlocks :
            /\ blocks'[cursor].branch = e
            /\ blocks'[e] = ExceptionBlock(target, cursor)
      BY <1>4, <3>1, Opcodes
    <3>3. blocks'[e].eh_setup_block = cursor /\ blocks'[e].branch = target
      BY <3>2 DEF ExceptionBlock
    <3>4. cursor \in 0 .. cursor' - 1 /\ blocks'[cursor].end_index = blocks[cursor].end_index
      BY <1>1, <1>2, <1>4, <1>5
    <3>5. blocks'[e] = ExceptionBlock(blocks'[e].branch, blocks'[e].eh_setup_block)
      BY <3>2, <3>3
    <3>6. isTryBlockSetup(code'[blocks'[cursor].end_index - 1].op)
      BY <1>0, <1>1, <3>1, <3>4 DEF LastUnit
    <3> QED BY <3>2, <3>3, <3>4, <3>5, <3>6 DEF HandedOut, ExceptionBlock, LastUnit
  <2> QED BY <2>1, <2>2
<1>11. \A e \in AllBlocks' : e >= exception_block_index' => blocks'[e] = FreshBlock
  <2>1. SUFFICES ASSUME NEW e \in AllBlocks, e >= exception_block_index'
                 PROVE  blocks'[e] = FreshBlock
    BY <1>2
  <2>2. e >= eb /\ e # cursor /\ ~(isTryBlockSetup(op) /\ e = eb)
    BY <1>2, <1>3, <2>1
  <2> QED BY <1>0, <1>1, <1>4, <2>2 DEF LinkedSoFar
<1>12. LinkedSoFar'
  BY <1>8, <1>9, <1>10, <1>11 DEF LinkedSoFar, FreshBlock
<1> QED BY <1>1, <1>12 DEF BranchInv, OneBlockLoop, py_instr_num

LEMMA BranchStep == IInv /\ IInv' /\ BranchInv /\ [ParseNext]_parseVars => BranchInv'
<1>1. SUFFICES ASSUME IInv, IInv', BranchInv, [ParseNext]_parseVars PROVE BranchInv'
  OBVIOUS
<1>2. CASE Scan
  BY <1>1, <1>2 DEF Scan, BranchInv, OneBlockLoop, py_instr_num
<1>3. CASE EndScan
  <2>1. /\ code' = code /\ phase' = "create" /\ cursor' = 0
        /\ blocks' = [b \in AllBlocks' |-> FreshBlock]
    BY <1>3 DEF EndScan, AllBlocks
  <2>2. Created'
    BY <2>1 DEF Created, FreshBlock
  <2> QED BY <1>1, <2>1, <2>2 DEF BranchInv, OneBlockLoop, py_instr_num
<1>4. CASE Create
  BY <1>1, <1>4, CreateBranches
<1>5. CASE EndCreate
  BY <1>1, <1>5, EndCreateBranches
<1>6. CASE Link
  BY <1>1, <1>6, LinkBranches
<1>7. CASE EndLink
  BY <1>1, <1>7
     DEF EndLink, BranchInv, OneBlockLoop, LinkedSoFar, Linked, Unlinked, HandedOut, LeadsTo,
         LastUnit, CodeBlocks, AllBlocks, BlockStart, FreshBlock, ExceptionBlock, py_instr_num
<1>8. CASE UNCHANGED parseVars
  BY <1>1, <1>8
     DEF parseVars, BranchInv, OneBlockLoop, Created, LinkedSoFar, Linked, Unlinked, HandedOut,
         LeadsTo, LastUnit, CodeBlocks, AllBlocks, BlockStart, FreshBlock, ExceptionBlock,
         py_instr_num
<1> QED BY <1>1, <1>2, <1>3, <1>4, <1>5, <1>6, <1>7, <1>8 DEF ParseNext

\* A second invariant on top of the first: what the branches are in each pass.
THEOREM BranchesHold == ParseSpec /\ ~OneBlockLoop => [](IInv /\ BranchInv)
<1>1. CodeOK /\ InitParse /\ ~OneBlockLoop => IInv /\ BranchInv
  BY InitOK DEF InitParse, BranchInv
<1> QED BY <1>1, StepKeeps, BranchStep, PTL DEF ParseSpec

LEMMA BranchesFollow ==
  ASSUME IInv, BranchInv
  PROVE  BranchesResolved
<1>1. SUFFICES ASSUME phase = "parsed", NEW b \in CodeBlocks
               PROVE  LET tail == blocks[b].end_index - 1
                          eb   == blocks[b].branch
                      IN  /\ ~Jumps(code[tail].op) => eb = Nil
                          /\ Jumps(code[tail].op) /\ ~isTryBlockSetup(code[tail].op) =>
                               eb \in CodeBlocks /\ BlockStart(eb) = Destination(code, tail)
                          /\ isTryBlockSetup(code[tail].op) =>
                               /\ eb \in AllBlocks \ CodeBlocks
                               /\ blocks[eb].eh_setup_block = b
                               /\ blocks[eb].branch \in CodeBlocks
                               /\ BlockStart(blocks[eb].branch) = Destination(code, tail)
  BY DEF BranchesResolved
<1>2. /\ CodeOK /\ Scanned /\ LinkedSoFar /\ cursor = block_num
      /\ exception_block_index = block_num + try_block_num
  BY <1>1, CountsFollow DEF IInv, BranchInv, CountsAgree
<1>3. block_num \in Nat \ {0} /\ try_block_num \in Nat
  BY <1>2, ArrayFacts
<1>4. Linked(b)
  BY <1>1, <1>2 DEF LinkedSoFar, CodeBlocks
<1>5. block_num .. exception_block_index - 1 \subseteq AllBlocks \ CodeBlocks
  BY <1>2, <1>3 DEF AllBlocks, CodeBlocks
<1> QED BY <1>4, <1>5 DEF Linked, LeadsTo, LastUnit

\* Every jump of the code is resolved to the block that begins at its destination,
\* and the set-up of a try block to an exception block of its own that leads to the
\* handler: the binary search of findPyBlock finds what it is asked for, in any code
\* but the one-block loop.
THEOREM BranchesCorrect == ParseSpec /\ ~OneBlockLoop => []BranchesResolved
<1>1. IInv /\ BranchInv => BranchesResolved
  BY BranchesFollow
<1> QED BY <1>1, BranchesHold, PTL

-----------------------------------------------------------------------------
(* The argument of a unit.                                                 *)

\* Induction up to m, with a set for the induction hypothesis.
LEMMA UpTo ==
  ASSUME NEW m \in Nat, NEW G, 0 \in G, \A n \in 1 .. m : n - 1 \in G => n \in G
  PROVE  \A n \in 0 .. m : n \in G
<1> DEFINE bad == {n \in 0 .. m : n \notin G}
<1>1. bad \in SUBSET Nat
  OBVIOUS
<1>2. ASSUME bad # {} PROVE FALSE
  <2>1. PICK k \in bad : \A j \in bad : k <= j
    <3> HIDE DEF bad
    <3> QED BY <1>1, <1>2, Smallest
  <2>2. k \in 1 .. m /\ k - 1 \in 0 .. m /\ k - 1 < k
    BY <2>1
  <2>3. k - 1 \in G
    BY <2>1, <2>2
  <2> QED BY <2>1, <2>2, <2>3
<1> QED BY <1>2

\* What a function defined by recursion from one place to the next says, and that
\* there is one: a and g are where it begins and how it goes on.
Goes(f, a, g, m) ==
  f = [n \in 0 .. m |-> IF n = 0 THEN a ELSE g[<<n, f[n - 1]>>]]

LEMMA GoesOn ==
  ASSUME NEW S, NEW a \in S, NEW g \in [Nat \X S -> S], NEW m \in Nat
  PROVE  \E f \in [0 .. m -> S] : Goes(f, a, g, m)
<1> DEFINE Short(k) == ~ \E f \in [0 .. k -> S] : Goes(f, a, g, k)
           bad == {k \in Nat : Short(k)}
<1>1. ASSUME bad # {} PROVE FALSE
  <2>1. bad \in SUBSET Nat
    OBVIOUS
  <2>2. PICK k \in bad : \A j \in bad : k <= j
    <3> HIDE DEF bad
    <3> QED BY <1>1, <2>1, Smallest
  <2>3. k \in Nat /\ Short(k)
    BY <2>2
  <2>4. CASE k = 0
    <3> DEFINE f == [n \in 0 .. 0 |-> a]
    <3>1. f \in [0 .. 0 -> S] /\ \A n \in 0 .. 0 : n = 0
      OBVIOUS
    <3>2. Goes(f, a, g, 0)
      BY <3>1 DEF Goes
    <3> QED BY <2>3, <2>4, <3>1, <3>2
  <2>5. CASE k # 0
    <3>1. PICK j \in Nat : k = j + 1
      <4>1. k - 1 \in Nat /\ k = (k - 1) + 1
        BY <2>3, <2>5
      <4> QED BY <4>1
    <3>2. ~Short(j)
      BY <2>2, <3>1
    <3>3. PICK e \in [0 .. j -> S] : Goes(e, a, g, j)
      BY <3>2
    <3> DEFINE f == [n \in 0 .. k |-> IF n = k THEN g[<<k, e[j]>>] ELSE e[n]]
    <3>4. g[<<k, e[j]>>] \in S /\ e[j] \in S
      BY <2>3, <3>1
    <3>5. f \in [0 .. k -> S]
      BY <3>1, <3>4
    <3>6. ASSUME NEW n \in 0 .. k
          PROVE  f[n] = IF n = 0 THEN a ELSE g[<<n, f[n - 1]>>]
      <4>1. CASE n = k
        <5>1. n - 1 = j /\ j \in 0 .. k /\ j # k
          BY <3>1, <4>1
        <5> QED BY <2>5, <4>1, <5>1
      <4>2. CASE n # k
        <5>1. n \in 0 .. j
          BY <3>1, <4>2
        <5>2. e[n] = IF n = 0 THEN a ELSE g[<<n, e[n - 1]>>]
          BY <3>3, <5>1 DEF Goes
        <5>3. n # 0 => n - 1 \in 0 .. k /\ n - 1 # k
          BY <3>1, <5>1
        <5> QED BY <4>2, <5>2, <5>3
      <4> QED BY <4>1, <4>2
    <3>7. f = [n \in 0 .. k |-> f[n]]
      OBVIOUS
    <3> HIDE DEF f
    <3>8. Goes(f, a, g, k)
      BY <3>6, <3>7 DEF Goes
    <3> QED BY <2>3, <3>5, <3>8
  <2> QED BY <2>4, <2>5
<1> QED BY <1>1

\* The arguments of the units are bytes.
Bytes == \A v \in DOMAIN code : code[v].arg \in 0 .. ArgBase - 1

Prefixed(v) == v > 0 /\ code[v - 1].op = "EXTENDED_ARG"

\* How many prefixes unit v has.
Runs(v) == {n \in 0 .. v : \A j \in v - n .. v - 1 : code[j].op = "EXTENDED_ARG"}
Prefixes(v) == Max(Runs(v))

LEMMA PrefixesAre ==
  ASSUME NEW v \in Nat
  PROVE  /\ Prefixes(v) \in Runs(v) /\ Prefixes(v) \in 0 .. v
         /\ \A n \in Runs(v) : n <= Prefixes(v)
<1> DEFINE left == {v - n : n \in Runs(v)}
<1>1. 0 \in Runs(v)
  BY DEF Runs
<1>2. \A n \in Runs(v) : n \in Nat /\ v - n \in Nat /\ n <= v
  BY DEF Runs
<1>3. left # {} /\ left \in SUBSET Nat
  BY <1>1, <1>2
<1>4. PICK l \in left : \A y \in left : l <= y
  <2> HIDE DEF left
  <2> QED BY <1>3, Smallest
<1>5. PICK m \in Runs(v) : l = v - m
  BY <1>4
<1>6. \A n \in Runs(v) : m >= n
  <2>1. ASSUME NEW n \in Runs(v) PROVE m >= n
    <3>1. v - n \in left /\ n \in Nat /\ m \in Nat
      BY <1>2
    <3>2. l <= v - n
      BY <1>4, <3>1
    <3> QED BY ONLY <1>5, <3>1, <3>2, v \in Nat
  <2> QED BY <2>1
<1>7. Prefixes(v) \in Runs(v) /\ \A n \in Runs(v) : Prefixes(v) >= n
  BY <1>5, <1>6 DEF Prefixes, Max
<1> QED BY <1>2, <1>7

LEMMA PrefixesNext ==
  ASSUME NEW u \in Nat, NEW v, v = u + 1, code[u].op = "EXTENDED_ARG"
  PROVE  Prefixes(v) = Prefixes(u) + 1
<1>1. v \in Nat /\ v - 1 = u
  OBVIOUS
<1>2. ASSUME NEW n \in Runs(u) PROVE n + 1 \in Runs(v)
  <2>1. n \in 0 .. u /\ \A j \in u - n .. u - 1 : code[j].op = "EXTENDED_ARG"
    BY DEF Runs
  <2>2. n + 1 \in 0 .. v
    BY <2>1
  <2>3. \A j \in v - (n + 1) .. v - 1 : j = u \/ j \in u - n .. u - 1
    BY <2>1
  <2> QED BY <2>1, <2>2, <2>3 DEF Runs
<1>3. ASSUME NEW n \in Runs(v), n # 0 PROVE n - 1 \in Runs(u)
  <2>1. n \in 0 .. v /\ \A j \in v - n .. v - 1 : code[j].op = "EXTENDED_ARG"
    BY DEF Runs
  <2>2. n - 1 \in 0 .. u
    BY <1>3, <2>1
  <2>3. \A j \in u - (n - 1) .. u - 1 : j \in v - n .. v - 1
    BY <2>1
  <2> QED BY <2>1, <2>2, <2>3 DEF Runs
<1>4. PICK p, q \in Nat : p = Prefixes(u) /\ q = Prefixes(v)
  BY <1>1, PrefixesAre
<1>5. p + 1 <= q
  BY <1>1, <1>2, <1>4, PrefixesAre
<1>6. q - 1 \in Runs(u)
  BY <1>1, <1>3, <1>4, <1>5, PrefixesAre
<1>7. q - 1 <= p
  BY <1>4, <1>6, PrefixesAre
<1> QED BY <1>4, <1>5, <1>7

LEMMA PrefixesNone ==
  ASSUME NEW v \in Nat, ~Prefixed(v)
  PROVE  Prefixes(v) = 0
<1>1. ASSUME NEW n \in Runs(v), n # 0 PROVE FALSE
  <2>1. n \in 0 .. v /\ \A j \in v - n .. v - 1 : code[j].op = "EXTENDED_ARG"
    BY DEF Runs
  <2>2. v - 1 \in v - n .. v - 1 /\ v > 0
    BY <1>1, <2>1
  <2> QED BY <2>1, <2>2 DEF Prefixed
<1> QED BY <1>1, PrefixesAre

\* The places, and the sum of the first so many bytes of the argument of unit v.
Shift(k) == CHOOSE s : s = [n \in 0 .. k |-> IF n = 0 THEN 1 ELSE s[n - 1] * ArgBase]
Sum(v, k, s) ==
  CHOOSE a : a = [n \in 0 .. k |-> IF n = 0 THEN code[v].arg
                                            ELSE a[n - 1] + code[v - n].arg * s[n]]

LEMMA ShiftIs ==
  ASSUME NEW k \in Nat
  PROVE  /\ Shift(k) \in [0 .. k -> Int] /\ Shift(k)[0] = 1
         /\ \A n \in 1 .. k : Shift(k)[n] = Shift(k)[n - 1] * ArgBase
<1> DEFINE g == [p \in Nat \X Int |-> p[2] * ArgBase]
<1>1. ArgBase \in Int
  BY ArgBaseAssumption
<1>2. g \in [Nat \X Int -> Int] /\ 1 \in Int
  BY <1>1
<1>3. PICK f \in [0 .. k -> Int] : Goes(f, 1, g, k)
  <2> HIDE DEF g
  <2> QED BY <1>2, GoesOn
<1>4. f = [n \in 0 .. k |-> IF n = 0 THEN 1 ELSE f[n - 1] * ArgBase]
  <2>1. \A n \in 0 .. k : n # 0 => n \in Nat /\ f[n - 1] \in Int
    BY <1>3
  <2>2. \A n \in 0 .. k : n # 0 => g[<<n, f[n - 1]>>] = f[n - 1] * ArgBase
    BY <2>1
  <2> HIDE DEF g
  <2>3. f = [n \in 0 .. k |-> IF n = 0 THEN 1 ELSE g[<<n, f[n - 1]>>]]
    BY <1>3 DEF Goes
  <2> QED BY <2>2, <2>3
<1> HIDE DEF g
<1>5. PICK s : s = Shift(k)
  OBVIOUS
<1>6. s = [n \in 0 .. k |-> IF n = 0 THEN 1 ELSE s[n - 1] * ArgBase]
  BY <1>4, <1>5 DEF Shift
<1>7. \A n \in 0 .. k : s[n] = IF n = 0 THEN 1 ELSE s[n - 1] * ArgBase
  BY <1>6
<1>8. s[0] = 1 /\ \A n \in 1 .. k : s[n] = s[n - 1] * ArgBase
  BY <1>7
<1>9. \A n \in 0 .. k : n \in {j \in 0 .. k : s[j] \in Int}
  <2> DEFINE G == {j \in 0 .. k : s[j] \in Int}
  <2>1. 0 \in G
    BY <1>8
  <2>2. \A n \in 1 .. k : n - 1 \in G => n \in G
    BY <1>1, <1>8
  <2> HIDE DEF G
  <2>3. \A n \in 0 .. k : n \in G
    BY <2>1, <2>2, UpTo
  <2> QED BY <2>3 DEF G
<1>10. s \in [0 .. k -> Int]
  BY <1>6, <1>9
<1> QED BY <1>5, <1>8, <1>10

LEMMA SumIs ==
  ASSUME NEW v \in Int, NEW k \in Nat, NEW s \in [0 .. k -> Int],
         \A n \in 0 .. k : code[v - n].arg \in Int
  PROVE  /\ Sum(v, k, s) \in [0 .. k -> Int] /\ Sum(v, k, s)[0] = code[v].arg
         /\ \A n \in 1 .. k : Sum(v, k, s)[n] = Sum(v, k, s)[n - 1] + code[v - n].arg * s[n]
<1> DEFINE more(n) == code[v - n].arg * s[n]
           g == [p \in Nat \X Int |-> p[2] + (IF p[1] \in 0 .. k THEN more(p[1]) ELSE 0)]
           first == code[v].arg
<1>1. \A n \in 0 .. k : more(n) \in Int
  OBVIOUS
<1>2. first \in Int
  <2>1. 0 \in 0 .. k /\ v - 0 = v
    OBVIOUS
  <2> QED BY <2>1
<1> HIDE DEF more, first
<1>3. g \in [Nat \X Int -> Int]
  BY <1>1
<1>4. PICK f \in [0 .. k -> Int] : Goes(f, first, g, k)
  <2> HIDE DEF g
  <2> QED BY <1>2, <1>3, GoesOn
<1>5. f = [n \in 0 .. k |-> IF n = 0 THEN first ELSE f[n - 1] + more(n)]
  <2>1. \A n \in 0 .. k : n # 0 => n \in Nat /\ f[n - 1] \in Int
    BY <1>4
  <2>2. \A n \in 0 .. k : n # 0 => g[<<n, f[n - 1]>>] = f[n - 1] + more(n)
    BY <2>1
  <2> HIDE DEF g
  <2>3. f = [n \in 0 .. k |-> IF n = 0 THEN first ELSE g[<<n, f[n - 1]>>]]
    BY <1>4 DEF Goes
  <2> QED BY <2>2, <2>3
<1> HIDE DEF g
<1>6. PICK a : a = Sum(v, k, s)
  OBVIOUS
<1>7. a = [n \in 0 .. k |-> IF n = 0 THEN first ELSE a[n - 1] + more(n)]
  BY <1>5, <1>6 DEF Sum, more, first
<1>8. a[0] = first /\ \A n \in 1 .. k : a[n] = a[n - 1] + more(n)
  <2>1. \A n \in 0 .. k : a[n] = IF n = 0 THEN first ELSE a[n - 1] + more(n)
    BY <1>7
  <2> QED BY <2>1
<1>9. \A n \in 0 .. k : n \in {j \in 0 .. k : a[j] \in Int}
  <2> DEFINE G == {j \in 0 .. k : a[j] \in Int}
  <2>1. 0 \in G
    BY <1>2, <1>8
  <2>2. \A n \in 1 .. k : n - 1 \in G => n \in G
    BY <1>1, <1>8
  <2> HIDE DEF G
  <2>3. \A n \in 0 .. k : n \in G
    BY <2>1, <2>2, UpTo
  <2> QED BY <2>3 DEF G
<1>10. a \in [0 .. k -> Int]
  BY <1>7, <1>9
<1> QED BY <1>6, <1>8, <1>10 DEF more, first

\* Distributing the place over what was added so far.
LEMMA Carries ==
  ASSUME NEW x \in Int, NEW y \in Int, NEW c \in Int, NEW s \in Int, NEW B \in Int
  PROVE  (x + B * y) + c * (s * B) = x + B * (y + c * s) /\ (x + c * (1 * B)) = x + B * c
OBVIOUS

\* One prefix more: the byte of the unit, and what its prefix had for an argument, one
\* place up.
LEMMA OneMorePrefix ==
  ASSUME NEW u \in Nat, NEW v, v = u + 1, NEW k \in 0 .. u, \A n \in 0 .. v : code[n].arg \in Int
  PROVE  /\ Sum(v, k + 1, Shift(k + 1))[k + 1] = code[v].arg + ArgBase * Sum(u, k, Shift(k))[k]
         /\ Sum(u, k, Shift(k))[k] \in Int
<1>1. PICK B \in Int : B = ArgBase
  BY ArgBaseAssumption
<1>2. k \in Nat /\ k + 1 \in Nat /\ v \in Int /\ u \in Int
  OBVIOUS
<1>3. PICK s, t, a, b, l : /\ s = Shift(k) /\ t = Shift(l) /\ a = Sum(u, k, s)
                           /\ b = Sum(v, l, t) /\ l = k + 1
  OBVIOUS
<1>4. /\ s \in [0 .. k -> Int] /\ s[0] = 1 /\ \A n \in 1 .. k : s[n] = s[n - 1] * B
      /\ t \in [0 .. l -> Int] /\ t[0] = 1 /\ \A n \in 1 .. l : t[n] = t[n - 1] * B
  BY <1>1, <1>2, <1>3, ShiftIs
<1>5. (\A n \in 0 .. k : code[u - n].arg \in Int) /\ (\A n \in 0 .. l : code[v - n].arg \in Int)
  <2>1. \A n \in 0 .. k : u - n \in 0 .. v
    OBVIOUS
  <2>2. \A n \in 0 .. l : v - n \in 0 .. v
    BY <1>3
  <2> QED BY <2>1, <2>2
<1>6. /\ a \in [0 .. k -> Int] /\ a[0] = code[u].arg
      /\ \A n \in 1 .. k : a[n] = a[n - 1] + code[u - n].arg * s[n]
  BY <1>2, <1>3, <1>4, <1>5, SumIs
<1>7. /\ b \in [0 .. l -> Int] /\ b[0] = code[v].arg
      /\ \A n \in 1 .. l : b[n] = b[n - 1] + code[v - n].arg * t[n]
  BY <1>2, <1>3, <1>4, <1>5, SumIs
<1> DEFINE G == {n \in 0 .. k : t[n + 1] = s[n] * B /\ b[n + 1] = code[v].arg + B * a[n]}
<1>8. 0 \in G
  <2>1. t[1] = 1 * B /\ b[1] = code[v].arg + code[u].arg * (1 * B)
    <3>1. 1 \in 1 .. l /\ 1 - 1 = 0 /\ v - 1 = u
      BY <1>3
    <3> QED BY <1>4, <1>7, <3>1
  <2>2. code[v].arg \in Int /\ code[u].arg \in Int
    OBVIOUS
  <2> QED BY <1>4, <1>6, <2>1, <2>2, Carries
<1>9. ASSUME NEW n \in 1 .. k, n - 1 \in G PROVE n \in G
  <2>1. n + 1 \in 1 .. l /\ (n + 1) - 1 = n /\ (n - 1) + 1 = n /\ v - (n + 1) = u - n
    BY <1>3
  <2>2. t[n] = s[n - 1] * B /\ b[n] = code[v].arg + B * a[n - 1]
    BY <1>9, <2>1
  <2>3. t[n + 1] = t[n] * B /\ s[n] = s[n - 1] * B
    BY <1>4, <2>1
  <2>4. t[n + 1] = s[n] * B
    BY <2>2, <2>3
  <2>5. PICK c, x : c = code[u - n].arg /\ x = code[v].arg
    OBVIOUS
  <2>6. c \in Int /\ x \in Int /\ a[n - 1] \in Int /\ s[n] \in Int
    <3>1. n \in 0 .. k /\ n - 1 \in 0 .. k /\ v \in 0 .. v
      OBVIOUS
    <3> QED BY <1>4, <1>5, <1>6, <2>5, <3>1
  <2>7. b[n + 1] = b[n] + c * t[n + 1]
    BY <1>7, <2>1, <2>5
  <2>8. b[n + 1] = (x + B * a[n - 1]) + c * (s[n] * B)
    BY <2>2, <2>4, <2>5, <2>7
  <2>9. a[n] = a[n - 1] + c * s[n]
    BY <1>6, <2>5
  <2>10. b[n + 1] = x + B * a[n]
    BY <2>6, <2>8, <2>9, Carries
  <2> QED BY <2>4, <2>5, <2>10
<1>10. k \in G
  <2> HIDE DEF G
  <2>1. \A n \in 0 .. k : n \in G
    BY <1>2, <1>8, <1>9, UpTo
  <2> QED BY <2>1
<1> QED BY <1>1, <1>3, <1>6, <1>10

\* What the analysis reads walking back: the byte of the unit, and below it what its
\* prefix has for an argument.
LEMMA OpargIs ==
  ASSUME CodeOK, Bytes, NEW v \in DOMAIN code
  PROVE  /\ oparg(code, v) \in Int
         /\ oparg(code, v) = IF Prefixed(v) THEN oparg(code, v - 1) * ArgBase + code[v].arg
                                            ELSE code[v].arg
<1>1. v \in Nat /\ \A n \in 0 .. v : n \in DOMAIN code /\ code[n].arg \in Int
  <2>1. v \in 0 .. py_instr_num - 1 /\ py_instr_num \in Nat /\ DOMAIN code = 0 .. py_instr_num - 1
    BY DEF CodeOK
  <2>2. \A n \in 0 .. v : n \in DOMAIN code
    BY <2>1
  <2>3. \A n \in DOMAIN code : code[n].arg \in Int
    BY ArgBaseAssumption DEF Bytes
  <2> QED BY <2>1, <2>2, <2>3
<1>2. \A w : oparg(code, w) = Sum(w, Prefixes(w), Shift(Prefixes(w)))[Prefixes(w)]
  BY DEF oparg, Sum, Shift, Prefixes, Runs
<1>3. CASE Prefixed(v)
  <2>1. PICK u \in Nat : v = u + 1 /\ u = v - 1
    <3>1. v - 1 \in Nat /\ v = (v - 1) + 1
      BY <1>1, <1>3 DEF Prefixed
    <3> QED BY <3>1
  <2>2. code[u].op = "EXTENDED_ARG"
    BY <1>3, <2>1 DEF Prefixed
  <2>3. PICK k \in 0 .. u : k = Prefixes(u)
    BY PrefixesAre
  <2>4. Prefixes(v) = k + 1
    BY <2>1, <2>2, <2>3, PrefixesNext
  <2>5. /\ Sum(v, k + 1, Shift(k + 1))[k + 1] = code[v].arg + ArgBase * Sum(u, k, Shift(k))[k]
        /\ Sum(u, k, Shift(k))[k] \in Int
    BY <1>1, <2>1, <2>3, OneMorePrefix
  <2>6. PICK x, y : x = oparg(code, v) /\ y = oparg(code, u)
    OBVIOUS
  <2>7. x = code[v].arg + ArgBase * y /\ y \in Int
    BY <1>2, <2>3, <2>4, <2>5, <2>6
  <2>8. PICK c, B \in Int : c = code[v].arg /\ B = ArgBase
    <3>1. v \in 0 .. v
      BY <1>1
    <3> QED BY <1>1, <3>1, ArgBaseAssumption
  <2>9. x = y * B + c /\ x \in Int
    BY <2>7, <2>8
  <2> QED BY <1>3, <2>1, <2>6, <2>8, <2>9
<1>4. CASE ~Prefixed(v)
  <2>1. Prefixes(v) = 0
    BY <1>1, <1>4, PrefixesNone
  <2>2. Shift(0) \in [0 .. 0 -> Int]
    BY ShiftIs
  <2>3. v - 0 = v /\ v \in 0 .. v /\ v \in Int /\ \A n \in 0 .. 0 : n = 0
    BY <1>1
  <2>4. \A n \in 0 .. 0 : code[v - n].arg \in Int
    BY <1>1, <2>3
  <2>5. Sum(v, 0, Shift(0))[0] = code[v].arg
    BY <2>2, <2>3, <2>4, SumIs
  <2> QED BY <1>1, <1>2, <1>4, <2>1, <2>3, <2>5
<1> QED BY <1>3, <1>4

\* What emitBlock adds up walking forward from where a block begins.
LEMMA EmittedIs ==
  ASSUME CodeOK, Bytes, NEW start \in DOMAIN code, ~Prefixed(start),
         NEW v \in DOMAIN code, start <= v
  PROVE  emittedOparg(code, start, v) = oparg(code, v)
<1> DEFINE Turned(s, w) == IF w > start /\ code[w - 1].op = "EXTENDED_ARG"
                             THEN s[w - 1] * ArgBase + code[w].arg ELSE code[w].arg
           f == [w \in start .. v |-> oparg(code, w)]
           e == CHOOSE s : s = [w \in start .. v |-> Turned(s, w)]
<1>1. /\ start \in Nat /\ v \in Nat
      /\ \A w \in start .. v : w \in DOMAIN code /\ w \in Nat /\ start <= w
  BY DEF CodeOK
<1>2. ASSUME NEW w \in start .. v
      PROVE  (w > start /\ code[w - 1].op = "EXTENDED_ARG") <=> Prefixed(w)
  BY <1>1 DEF Prefixed
<1>3. ASSUME NEW w \in start .. v, NEW s, w > start => s[w - 1] = oparg(code, w - 1)
      PROVE  Turned(s, w) = oparg(code, w)
  BY <1>1, <1>2, <1>3, OpargIs
<1>4. f = [w \in start .. v |-> Turned(f, w)]
  <2>1. \A w \in start .. v : w > start => f[w - 1] = oparg(code, w - 1)
    BY <1>1
  <2> HIDE DEF Turned
  <2>2. \A w \in start .. v : Turned(f, w) = oparg(code, w)
    <3> HIDE DEF f
    <3> QED BY <1>3, <2>1
  <2> QED BY <2>2
<1>5. e = [w \in start .. v |-> Turned(e, w)]
  <2> HIDE DEF f, Turned
  <2> QED BY <1>4
<1>6. emittedOparg(code, start, v) = e[v]
  BY DEF emittedOparg
<1> HIDE DEF e, f, Turned
<1> DEFINE G == {n \in Nat : start + n <= v => e[start + n] = oparg(code, start + n)}
<1>7. \A w \in start .. v : e[w] = Turned(e, w)
  BY <1>5
<1>8. 0 \in G
  <2>1. start \in start .. v /\ start + 0 = start /\ ~(start > start)
    BY <1>1
  <2> QED BY <1>3, <1>7, <2>1
<1>9. ASSUME NEW n \in 1 .. v - start, n - 1 \in G PROVE n \in G
  <2>1. PICK w \in start .. v : w = start + n /\ w - 1 = start + (n - 1)
    BY <1>1
  <2>2. e[w - 1] = oparg(code, w - 1)
    BY <1>1, <1>9, <2>1
  <2>3. e[w] = oparg(code, w)
    BY <1>3, <1>7, <2>2
  <2> QED BY <2>1, <2>3
<1>10. v - start \in Nat /\ v = start + (v - start)
  BY <1>1
<1>11. v - start \in G
  <2> HIDE DEF G
  <2>1. \A n \in 0 .. v - start : n \in G
    BY <1>8, <1>9, <1>10, UpTo
  <2> QED BY <1>10, <2>1
<1>12. PICK w : w = start + (v - start)
  OBVIOUS
<1>13. w = v /\ w <= v
  BY <1>1, <1>12
<1>14. e[w] = oparg(code, w)
  BY <1>11, <1>12, <1>13
<1> QED BY <1>6, <1>13, <1>14

\* No boundary is between a unit and its prefixes.
WholeUnits == \A e \in is_boundary : ~Prefixed(e)

LEMMA MarksWhole ==
  ASSUME CodeOK, NEW v \in 0 .. py_instr_num - 1, NEW e \in Marks(v)
  PROVE  ~Prefixed(e)
<1>1. py_instr_num \in Nat \ {0} /\ DOMAIN code = 0 .. py_instr_num - 1
  BY CodeFacts DEF CodeOK
<1>2. CASE e = v + 1
  <2>1. code[v].op # "EXTENDED_ARG"
    BY <1>1, <1>2, Opcodes
       DEF Marks, Jumps, isTryBlockSetup, isRelativeJump, isAbsoluteJmp, Destination
  <2> QED BY <1>1, <1>2, <2>1 DEF Prefixed
<1>3. CASE e # v + 1
  <2>1. Jumps(code[v].op) /\ e = Destination(code, v)
    BY <1>3 DEF Marks
  <2> QED BY <1>1, <2>1 DEF Prefixed, CodeOK, Emitted
<1> QED BY <1>2, <1>3

LEMMA EndWhole ==
  ASSUME CodeOK
  PROVE  ~Prefixed(py_instr_num)
BY CodeFacts DEF Prefixed, isTerminator

LEMMA WholeStep ==
  ASSUME IInv, Bytes, WholeUnits, [ParseNext]_parseVars
  PROVE  Bytes' /\ WholeUnits'
<1>1. code' = code
  BY DEF ParseNext, Scan, EndScan, Create, EndCreate, Link, EndLink, parseVars
<1>2. Bytes' /\ \A e : Prefixed(e)' <=> Prefixed(e)
  BY <1>1 DEF Bytes, Prefixed
<1>3. CodeOK
  BY DEF IInv
<1>4. CASE Scan
  <2>1. cursor \in 0 .. py_instr_num - 1 /\ is_boundary' = is_boundary \cup Marks(cursor)
    BY <1>3, <1>4, CodeFacts DEF Scan, IInv, ScanInv
  <2> QED BY <1>2, <1>3, <2>1, MarksWhole DEF WholeUnits
<1>5. CASE EndScan
  BY <1>2, <1>3, <1>5, EndWhole DEF EndScan, WholeUnits
<1>6. CASE is_boundary' = is_boundary
  BY <1>2, <1>6 DEF WholeUnits
<1> QED BY <1>2, <1>4, <1>5, <1>6
        DEF ParseNext, Create, EndCreate, Link, EndLink, parseVars

LEMMA ArgumentsFollow ==
  ASSUME IInv, Bytes, WholeUnits
  PROVE  OpargsAgree
<1>1. SUFFICES ASSUME phase = "parsed", NEW b \in CodeBlocks,
                      NEW v \in BlockStart(b) .. blocks[b].end_index - 1
               PROVE  emittedOparg(code, BlockStart(b), v) = oparg(code, v)
  BY DEF OpargsAgree
<1>2. CodeOK /\ Scanned /\ LinkInv
  BY <1>1 DEF IInv
<1>3. /\ py_instr_num \in Nat \ {0} /\ DOMAIN code = 0 .. py_instr_num - 1
      /\ block_num \in Nat \ {0}
  BY <1>2, ArrayFacts DEF CodeOK
<1>4. b \in 0 .. block_num - 1 /\ \A c \in 0 .. block_num - 1 : Cut(c)
  BY <1>2, <1>3 DEF CodeBlocks, LinkInv, CutUpTo
<1>5. \A c \in 0 .. block_num - 1 :
        blocks[c].end_index \in is_boundary /\ blocks[c].end_index \in 1 .. py_instr_num
  BY <1>2, <1>4 DEF Cut, Scanned
<1>6. BlockStart(b) \in Nat /\ ~Prefixed(BlockStart(b))
  <2>1. CASE b = 0
    BY <2>1 DEF BlockStart, Prefixed
  <2>2. CASE b # 0
    <3>1. b - 1 \in 0 .. block_num - 1 /\ BlockStart(b) = blocks[b - 1].end_index
      BY <1>3, <1>4, <2>2 DEF BlockStart
    <3> QED BY <1>5, <3>1 DEF WholeUnits
  <2> QED BY <2>1, <2>2
<1>7. PICK start, end : start = BlockStart(b) /\ end = blocks[b].end_index
  OBVIOUS
<1>8. start \in Nat /\ end \in 1 .. py_instr_num /\ v \in start .. end - 1 /\ ~Prefixed(start)
  BY <1>1, <1>4, <1>5, <1>6, <1>7
<1>9. start \in DOMAIN code /\ v \in DOMAIN code /\ start <= v
  BY <1>3, <1>8
<1>10. emittedOparg(code, start, v) = oparg(code, v)
  BY <1>2, <1>8, <1>9, EmittedIs
<1> QED BY <1>7, <1>10

\* In every block of code of any length, the argument that emitBlock adds up from
\* where the block begins, byte by byte, is for each unit the one that the analysis
\* reads walking back over the prefixes: no block begins in between.
THEOREM ArgumentsAgree == ParseSpec /\ Bytes => []OpargsAgree
<1>1. CodeOK /\ InitParse => IInv /\ WholeUnits
  BY InitOK DEF InitParse, WholeUnits
<1>2. IInv /\ Bytes /\ WholeUnits => OpargsAgree
  BY ArgumentsFollow
<1> QED BY <1>1, <1>2, StepKeeps, WholeStep, PTL DEF ParseSpec

-----------------------------------------------------------------------------
(* The locals, from the bytecode to the run.                               *)

Worklist == INSTANCE DefinedLocalsProofs WITH
  nblock       <- block_num + try_block_num,
  branch       <- [b \in AllBlocks |-> blocks[b].branch],
  fall_through <- [b \in AllBlocks |-> blocks[b].fall_through]

FastOps == {"LOAD_FAST", "STORE_FAST", "DELETE_FAST"}

\* How the units are nested; a function of the code, so no step changes it.
nesting == CHOOSE nest : Nests(nest)

\* The functions spoken of: emitted by CPython's compiler, not one block that
\* jumps to itself, and without *args and **kwargs, which the mask of the entry
\* gets wrong.
Compilable ==
  /\ CodeOK
  /\ ~OneBlockLoop
  /\ \E nest : Nests(nest)
  /\ \A v \in DOMAIN code : code[v].op \in FastOps => oparg(code, v) \in Local
  /\ signature \in Signature /\ ~signature.varargs /\ ~signature.varkw

CompileSpec == Compilable /\ InitCompile /\ [][Next]_vars

-----------------------------------------------------------------------------
(* The graph, as every pass after parseCFG finds it.                       *)

Units     == 0 .. py_instr_num - 1
EhBlocks  == AllBlocks \ CodeBlocks
Op(v)     == code[v].op
TailOp(b) == Op(LastUnit(b))

\* The units of block b.
UnitsOf(b) == BlockStart(b) .. blocks[b].end_index - 1

\* Blocks cover the code in order; only the last unit of one says what follows it.
Layout ==
  /\ block_num \in Nat \ {0} /\ try_block_num \in Nat
  /\ \A b \in CodeBlocks : blocks[b].end_index \in 1 .. py_instr_num
  /\ \A b, c \in CodeBlocks : b < c => blocks[b].end_index < blocks[c].end_index
  /\ blocks[block_num - 1].end_index = py_instr_num
  /\ \A b \in CodeBlocks : \A v \in BlockStart(b) .. blocks[b].end_index - 2 :
       Op(v) # "POP_BLOCK" /\ ~Jumps(Op(v)) /\ ~isTerminator(Op(v))

\* What the fields of the blocks say.
Fields ==
  /\ \A b \in CodeBlocks :
       /\ blocks[b].fall_through = ~isTerminator(TailOp(b))
       /\ blocks[b].eh_body_enter = isTryBlockSetup(TailOp(b))
       /\ blocks[b].eh_body_exit = (TailOp(b) = "POP_BLOCK")
       /\ ~Jumps(TailOp(b)) => blocks[b].branch = Nil
       /\ Jumps(TailOp(b)) /\ ~isTryBlockSetup(TailOp(b)) => LeadsTo(b, LastUnit(b))
  /\ \A eb \in EhBlocks :
       /\ blocks[eb].fall_through = FALSE /\ blocks[eb].eh_body_enter = FALSE
       /\ blocks[eb].eh_setup_block \in CodeBlocks
       /\ isTryBlockSetup(TailOp(blocks[eb].eh_setup_block))
       /\ LeadsTo(eb, LastUnit(blocks[eb].eh_setup_block))
  /\ \A eb, fb \in EhBlocks :
       blocks[eb].eh_setup_block = blocks[fb].eh_setup_block => eb = fb

\* The set-up of a try block branches to its exception block; when the exception
\* blocks are cut out, to its handler.
SetupsLinked ==
  \A b \in CodeBlocks : isTryBlockSetup(TailOp(b)) =>
    blocks[b].branch \in EhBlocks /\ blocks[blocks[b].branch].eh_setup_block = b

SetupsCut ==
  \A b \in CodeBlocks : isTryBlockSetup(TailOp(b)) =>
    \E eb \in EhBlocks : blocks[eb].eh_setup_block = b /\ blocks[b].branch = blocks[eb].branch

\* The array is a function of its blocks, each with all its fields.
Arrayed ==
  /\ blocks = [b \in AllBlocks |-> blocks[b]]
  /\ \A b \in AllBlocks : IsBlock(blocks[b])

-----------------------------------------------------------------------------
LEMMA GraphRigid ==
  ASSUME UNCHANGED <<code, block_num, try_block_num, blocks>>
  PROVE  /\ Layout' <=> Layout
         /\ Fields' <=> Fields
         /\ SetupsLinked' <=> SetupsLinked
         /\ SetupsCut' <=> SetupsCut
         /\ Arrayed' <=> Arrayed
         /\ CodeBlocks' = CodeBlocks /\ AllBlocks' = AllBlocks /\ EhBlocks' = EhBlocks
         /\ \A b : BlockStart(b)' = BlockStart(b)
         /\ \A v : BlockOf(v)' = BlockOf(v)
<1>1. CodeBlocks' = CodeBlocks /\ AllBlocks' = AllBlocks /\ EhBlocks' = EhBlocks
  BY DEF CodeBlocks, AllBlocks, EhBlocks
<1>2. \A b : BlockStart(b)' = BlockStart(b)
  BY DEF BlockStart
<1>3. \A b : LastUnit(b)' = LastUnit(b) /\ TailOp(b)' = TailOp(b)
  BY DEF LastUnit, TailOp, Op
<1>4. \A b, v : LeadsTo(b, v)' <=> LeadsTo(b, v)
  BY <1>1, <1>2 DEF LeadsTo
<1>5. Layout' <=> Layout
  BY <1>1, <1>2 DEF Layout, Op, py_instr_num
<1>6. Fields' <=> Fields
  BY <1>1, <1>3, <1>4 DEF Fields
<1>7. /\ SetupsLinked' <=> SetupsLinked
      /\ SetupsCut' <=> SetupsCut
  BY <1>1, <1>3 DEF SetupsLinked, SetupsCut
<1>8. Arrayed' <=> Arrayed
  BY <1>1 DEF Arrayed, IsBlock
<1>9. \A v : BlockOf(v)' = BlockOf(v)
  BY <1>1, <1>2 DEF BlockOf
<1> QED BY <1>1, <1>2, <1>5, <1>6, <1>7, <1>8, <1>9

LEMMA CompilableRigid ==
  ASSUME UNCHANGED <<code, signature>>
  PROVE  Compilable' <=> Compilable
BY DEF Compilable, CodeOK, OneBlockLoop, Nests, Leaving, py_instr_num

LEMMA CompilableFacts ==
  ASSUME Compilable
  PROVE  /\ CodeOK
         /\ DOMAIN code = Units /\ py_instr_num \in Nat \ {0}
         /\ Nests(nesting)
         /\ \A v \in Units : Op(v) \in FastOps => oparg(code, v) \in Local
<1>1. CodeOK /\ DOMAIN code = Units /\ py_instr_num \in Nat \ {0}
  BY DEF Compilable, CodeOK, Units
<1>2. Nests(nesting)
  BY DEF Compilable, nesting
<1> QED BY <1>1, <1>2 DEF Compilable, Op

\* What parseCFG leaves is such a graph.
LEMMA ParsedGraph ==
  ASSUME IInv, BranchInv, phase = "parsed"
  PROVE  Layout /\ Fields /\ SetupsLinked /\ Arrayed
<1>1. /\ CodeOK /\ Scanned /\ LinkInv /\ LinkedSoFar /\ cursor = block_num
      /\ exception_block_index = block_num + try_block_num
  BY CountsFollow DEF IInv, BranchInv, CountsAgree
<1>2. /\ block_num \in Nat \ {0} /\ try_block_num \in Nat
      /\ CodeBlocks = 0 .. block_num - 1
  BY <1>1, ArrayFacts DEF CodeBlocks
<1>3. EhBlocks = block_num .. exception_block_index - 1
  BY <1>1, <1>2 DEF EhBlocks, AllBlocks, CodeBlocks
<1>4. CutUpTo(block_num)
  BY <1>1 DEF LinkInv
<1>5. Layout
  <2>1. /\ \A b \in CodeBlocks : blocks[b].end_index \in 1 .. py_instr_num
        /\ \A b, c \in CodeBlocks : b < c => blocks[b].end_index < blocks[c].end_index
    BY <1>1, <1>4, EndsIncrease
  <2>2. BasicBlocks
    BY BasicBlocksFollow
  <2> QED BY <1>2, <2>1, <2>2 DEF Layout, BasicBlocks, Op
<1>6. ASSUME NEW b \in CodeBlocks
      PROVE  /\ blocks[b].fall_through = ~isTerminator(TailOp(b))
             /\ blocks[b].eh_body_enter = isTryBlockSetup(TailOp(b))
             /\ blocks[b].eh_body_exit = (TailOp(b) = "POP_BLOCK")
             /\ ~Jumps(TailOp(b)) => blocks[b].branch = Nil
             /\ Jumps(TailOp(b)) /\ ~isTryBlockSetup(TailOp(b)) => LeadsTo(b, LastUnit(b))
             /\ isTryBlockSetup(TailOp(b)) =>
                  blocks[b].branch \in EhBlocks /\ blocks[blocks[b].branch].eh_setup_block = b
  <2>1. Cut(b) /\ Linked(b)
    BY <1>1, <1>2, <1>4 DEF CutUpTo, LinkedSoFar
  <2> QED BY <1>3, <2>1 DEF Cut, Linked, TailOp, Op, LastUnit
<1>7. ASSUME NEW eb \in EhBlocks
      PROVE  /\ blocks[eb].fall_through = FALSE /\ blocks[eb].eh_body_enter = FALSE
             /\ blocks[eb].eh_setup_block \in CodeBlocks
             /\ isTryBlockSetup(TailOp(blocks[eb].eh_setup_block))
             /\ blocks[blocks[eb].eh_setup_block].branch = eb
             /\ LeadsTo(eb, LastUnit(blocks[eb].eh_setup_block))
  <2> DEFINE b == blocks[eb].eh_setup_block
  <2>1. HandedOut(eb, block_num)
    BY <1>1, <1>3 DEF LinkedSoFar
  <2>2. blocks[eb] = ExceptionBlock(blocks[eb].branch, b)
        /\ b \in CodeBlocks /\ isTryBlockSetup(TailOp(b)) /\ blocks[b].branch = eb
    BY <1>2, <2>1 DEF HandedOut, TailOp, Op
  <2>3. blocks[eb].fall_through = FALSE /\ blocks[eb].eh_body_enter = FALSE
    <3>1. PICK f : f = ExceptionBlock(blocks[eb].branch, b)
      OBVIOUS
    <3>2. f.fall_through = FALSE /\ f.eh_body_enter = FALSE
      BY <3>1 DEF ExceptionBlock
    <3> QED BY <2>2, <3>1, <3>2
  <2>4. LeadsTo(eb, LastUnit(b))
    <3>1. Linked(b)
      BY <1>1, <1>2, <2>2 DEF LinkedSoFar
    <3> QED BY <2>2, <3>1 DEF Linked, TailOp, Op
  <2> QED BY <2>2, <2>3, <2>4
<1>8. \A eb, fb \in EhBlocks :
        blocks[eb].eh_setup_block = blocks[fb].eh_setup_block => eb = fb
  BY <1>7
<1>9. Fields /\ SetupsLinked
  BY <1>6, <1>7, <1>8 DEF Fields, SetupsLinked
<1>10. Arrayed
  BY <1>1 DEF Scanned, Arrayed
<1> QED BY <1>5, <1>9, <1>10

-----------------------------------------------------------------------------
(* Blocks and units.                                                       *)

LEMMA Blocks ==
  ASSUME CodeOK, Layout, NEW b \in CodeBlocks
  PROVE  /\ CodeBlocks = 0 .. block_num - 1 /\ b \in Nat
         /\ BlockStart(b) \in Units /\ blocks[b].end_index \in 1 .. py_instr_num
         /\ BlockStart(b) < blocks[b].end_index
         /\ LastUnit(b) \in UnitsOf(b) /\ LastUnit(b) \in Units
         /\ UnitsOf(b) \subseteq Units
         /\ b + 1 \in CodeBlocks => BlockStart(b + 1) = blocks[b].end_index
         /\ ~isTerminator(TailOp(b)) => b + 1 \in CodeBlocks
         /\ \A v \in UnitsOf(b) : v # LastUnit(b) =>
              /\ v + 1 \in UnitsOf(b)
              /\ Op(v) # "POP_BLOCK" /\ ~Jumps(Op(v)) /\ ~isTerminator(Op(v))
         /\ \A c \in CodeBlocks : b < c => blocks[b].end_index <= BlockStart(c)
<1>1. block_num \in Nat \ {0} /\ CodeBlocks = 0 .. block_num - 1 /\ py_instr_num \in Nat \ {0}
  BY CodeFacts DEF Layout, CodeBlocks
<1>2. blocks[b].end_index \in 1 .. py_instr_num
  BY DEF Layout
<1>3. BlockStart(b) \in Nat /\ BlockStart(b) < blocks[b].end_index
  <2>1. CASE b = 0
    BY <1>2, <2>1 DEF BlockStart
  <2>2. CASE b # 0
    <3>1. b - 1 \in CodeBlocks /\ b - 1 < b
      BY <1>1, <2>2
    <3> QED BY <2>2, <3>1 DEF Layout, BlockStart
  <2> QED BY <2>1, <2>2
<1>4. BlockStart(b) \in Units /\ LastUnit(b) \in UnitsOf(b) /\ LastUnit(b) \in Units
      /\ UnitsOf(b) \subseteq Units
  BY <1>1, <1>2, <1>3 DEF Units, UnitsOf, LastUnit
<1>5. b + 1 \in CodeBlocks => BlockStart(b + 1) = blocks[b].end_index
  BY <1>1 DEF BlockStart
<1>6. ASSUME ~isTerminator(TailOp(b)) PROVE b + 1 \in CodeBlocks
  <2>1. b # block_num - 1
    BY <1>6, CodeFacts DEF Layout, TailOp, LastUnit, Op
  <2> QED BY <1>1, <2>1
<1>7. ASSUME NEW v \in UnitsOf(b), v # LastUnit(b)
      PROVE  /\ v + 1 \in UnitsOf(b)
             /\ Op(v) # "POP_BLOCK" /\ ~Jumps(Op(v)) /\ ~isTerminator(Op(v))
  <2>1. v \in BlockStart(b) .. blocks[b].end_index - 2
    BY <1>2, <1>3, <1>7 DEF UnitsOf, LastUnit
  <2>2. v + 1 \in UnitsOf(b)
    BY <1>2, <1>3, <2>1 DEF UnitsOf
  <2> QED BY <2>1, <2>2 DEF Layout
<1>8. ASSUME NEW c \in CodeBlocks, b < c PROVE blocks[b].end_index <= BlockStart(c)
  <2>1. c - 1 \in CodeBlocks /\ BlockStart(c) = blocks[c - 1].end_index
    BY <1>1, <1>8 DEF BlockStart
  <2>2. CASE b = c - 1
    BY <1>2, <2>1, <2>2
  <2>3. CASE b < c - 1
    <3>1. blocks[b].end_index < blocks[c - 1].end_index /\ blocks[c - 1].end_index \in Nat
      BY <2>1, <2>3 DEF Layout
    <3> QED BY <1>2, <2>1, <3>1
  <2> QED BY <1>1, <1>8, <2>2, <2>3
<1> QED BY <1>1, <1>2, <1>3, <1>4, <1>5, <1>6, <1>7, <1>8

LEMMA OneBlockPerUnit ==
  ASSUME CodeOK, Layout, NEW b \in CodeBlocks, NEW c \in CodeBlocks,
         NEW v \in UnitsOf(b), v \in UnitsOf(c)
  PROVE  b = c
<1>1. b \in Nat /\ c \in Nat /\ v \in Nat
  BY Blocks DEF Units
<1>2. /\ BlockStart(b) <= v /\ v < blocks[b].end_index
      /\ BlockStart(c) <= v /\ v < blocks[c].end_index
      /\ BlockStart(b) \in Nat /\ BlockStart(c) \in Nat
      /\ blocks[b].end_index \in Nat /\ blocks[c].end_index \in Nat
  BY <1>1, Blocks DEF UnitsOf, Units
<1>3. ~(b < c)
  <2>1. b < c => blocks[b].end_index <= BlockStart(c)
    BY Blocks
  <2> QED BY <1>1, <1>2, <2>1
<1>4. ~(c < b)
  <2>1. c < b => blocks[c].end_index <= BlockStart(b)
    BY Blocks
  <2> QED BY <1>1, <1>2, <2>1
<1> QED BY <1>1, <1>3, <1>4

LEMMA BlockOfUnit ==
  ASSUME CodeOK, Layout, NEW v \in Units
  PROVE  BlockOf(v) \in CodeBlocks /\ v \in UnitsOf(BlockOf(v))
<1>1. block_num \in Nat \ {0} /\ CodeBlocks = 0 .. block_num - 1 /\ py_instr_num \in Nat \ {0}
  BY CodeFacts DEF Layout, CodeBlocks
<1> DEFINE past == {b \in CodeBlocks : v < blocks[b].end_index}
<1>2. block_num - 1 \in past /\ past \subseteq Nat
  BY <1>1 DEF Layout, Units
<1>3. PICK b \in past : \A c \in past : b <= c
  BY <1>2, Smallest
<1>4. BlockStart(b) <= v
  <2>1. CASE b = 0
    BY <2>1 DEF BlockStart, Units
  <2>2. CASE b # 0
    <3>1. b - 1 \in CodeBlocks /\ b - 1 \notin past
      BY <1>1, <1>3, <2>2
    <3>2. ~(v < blocks[b - 1].end_index) /\ blocks[b - 1].end_index \in Nat
      BY <3>1 DEF Layout
    <3> QED BY <2>2, <3>2 DEF BlockStart, Units
  <2> QED BY <2>1, <2>2
<1>5. \E c \in CodeBlocks : BlockStart(c) <= v /\ v < blocks[c].end_index
  BY <1>3, <1>4
<1>6. /\ BlockOf(v) \in CodeBlocks
      /\ BlockStart(BlockOf(v)) <= v /\ v < blocks[BlockOf(v)].end_index
  BY <1>5 DEF BlockOf
<1>7. BlockStart(BlockOf(v)) \in Nat /\ blocks[BlockOf(v)].end_index \in Nat
  BY <1>6, Blocks DEF Units
<1> QED BY <1>6, <1>7 DEF UnitsOf, Units

LEMMA BlockOfIs ==
  ASSUME CodeOK, Layout, NEW b \in CodeBlocks, NEW v \in UnitsOf(b)
  PROVE  BlockOf(v) = b
<1>1. v \in Units
  BY Blocks
<1> QED BY <1>1, BlockOfUnit, OneBlockPerUnit

LEMMA SameStart ==
  ASSUME CodeOK, Layout, NEW b \in CodeBlocks, NEW c \in CodeBlocks,
         BlockStart(b) = BlockStart(c)
  PROVE  b = c
<1>1. BlockStart(b) \in UnitsOf(b) /\ BlockStart(c) \in UnitsOf(c)
  <2>1. \A d \in CodeBlocks : BlockStart(d) \in UnitsOf(d)
    BY Blocks DEF Units, UnitsOf
  <2> QED BY <2>1
<1> QED BY <1>1, OneBlockPerUnit

-----------------------------------------------------------------------------
(* What the units of a block do to the locals.                             *)

Touches(v, x) == Op(v) \in FastOps /\ oparg(code, v) = x

Deletes(v, x) == Touches(v, x) /\ Op(v) = "DELETE_FAST"

\* The locals touched from lo up to hi, those the last touch of which deletes
\* them, and those deleted at all.
TouchedIn(lo, hi) == {x \in Local : \E v \in lo .. hi - 1 : Touches(v, x)}

DeletedLast(lo, hi) ==
  {x \in Local : \E v \in lo .. hi - 1 :
     Deletes(v, x) /\ \A w \in v + 1 .. hi - 1 : ~Touches(w, x)}

EverDeleted(lo, hi) == {x \in Local : \E v \in lo .. hi - 1 : Deletes(v, x)}

\* What the fields of block b hold when the units from k on have been analysed.
SoFar(b, k, kept, set, deleted) ==
  /\ kept = TouchedIn(k, blocks[b].end_index)
  /\ set = DeletedLast(k, blocks[b].end_index)
  /\ deleted = EverDeleted(k, blocks[b].end_index)

Summary(b, kept, set, deleted) ==
  LET lo == BlockStart(b)
      hi == blocks[b].end_index
  IN  /\ kept = Local \ TouchedIn(lo, hi)
      /\ set = TouchedIn(lo, hi) \ DeletedLast(lo, hi)
      /\ deleted = EverDeleted(lo, hi)

Analysed(b, k, kept, set, deleted) ==
  IF BlockStart(b) < k THEN SoFar(b, k, kept, set, deleted) ELSE Summary(b, kept, set, deleted)

SummaryTypes ==
  /\ locals_kept \in [AllBlocks -> SUBSET Local]
  /\ locals_set \in [AllBlocks -> SUBSET Local]
  /\ locals_ever_deleted \in [AllBlocks -> SUBSET Local]
  /\ \A eb \in EhBlocks : locals_set[eb] = {}

IntraInv ==
  /\ cursor \in 0 .. py_instr_num
  /\ \A b \in CodeBlocks :
       Analysed(b, cursor, locals_kept[b], locals_set[b], locals_ever_deleted[b])
  /\ visited_eh_block = [b \in AllBlocks |-> Nil]

Summaries ==
  \A b \in CodeBlocks : /\ locals_set[b] = TouchedIn(BlockStart(b), blocks[b].end_index)
                                            \ DeletedLast(BlockStart(b), blocks[b].end_index)
                        /\ locals_kept[b] = Local \ TouchedIn(BlockStart(b), blocks[b].end_index)
                        /\ locals_ever_deleted[b] = EverDeleted(BlockStart(b), blocks[b].end_index)

LEMMA UnitsRigid ==
  ASSUME UNCHANGED <<code, block_num, try_block_num, blocks>>
  PROVE  /\ \A lo, hi : /\ TouchedIn(lo, hi)' = TouchedIn(lo, hi)
                        /\ DeletedLast(lo, hi)' = DeletedLast(lo, hi)
                        /\ EverDeleted(lo, hi)' = EverDeleted(lo, hi)
         /\ \A b, k, K, S, D : Analysed(b, k, K, S, D)' <=> Analysed(b, k, K, S, D)
<1>1. \A lo, hi : /\ TouchedIn(lo, hi)' = TouchedIn(lo, hi)
                  /\ DeletedLast(lo, hi)' = DeletedLast(lo, hi)
                  /\ EverDeleted(lo, hi)' = EverDeleted(lo, hi)
  BY DEF TouchedIn, DeletedLast, EverDeleted, Touches, Deletes, Op
<1> QED BY <1>1, GraphRigid DEF Analysed, SoFar, Summary

LEMMA NoUnits ==
  ASSUME NEW lo \in Int, NEW hi \in Int, hi <= lo
  PROVE  TouchedIn(lo, hi) = {} /\ DeletedLast(lo, hi) = {} /\ EverDeleted(lo, hi) = {}
BY DEF TouchedIn, DeletedLast, EverDeleted

LEMMA OneUnit ==
  ASSUME Compilable, NEW v \in Units, NEW hi \in Nat, v < hi
  PROVE  /\ TouchedIn(v, hi) = TouchedIn(v + 1, hi) \cup
              (IF Op(v) \in FastOps THEN {oparg(code, v)} ELSE {})
         /\ DeletedLast(v, hi) = DeletedLast(v + 1, hi) \cup
              (IF Op(v) = "DELETE_FAST" THEN {oparg(code, v)} \ TouchedIn(v + 1, hi) ELSE {})
         /\ EverDeleted(v, hi) = EverDeleted(v + 1, hi) \cup
              (IF Op(v) = "DELETE_FAST" THEN {oparg(code, v)} ELSE {})
         /\ DeletedLast(v, hi) \subseteq TouchedIn(v, hi)
<1>1. v \in Nat /\ v .. hi - 1 = {v} \cup (v + 1 .. hi - 1) /\ v \notin v + 1 .. hi - 1
  BY DEF Units
<1>2. Op(v) \in FastOps => oparg(code, v) \in Local
  BY CompilableFacts
<1>3. "DELETE_FAST" \in FastOps
  BY DEF FastOps
<1>4. TouchedIn(v, hi) = TouchedIn(v + 1, hi) \cup
        (IF Op(v) \in FastOps THEN {oparg(code, v)} ELSE {})
  <2>1. ASSUME NEW x \in Local
        PROVE  x \in TouchedIn(v, hi) <=> x \in TouchedIn(v + 1, hi) \/ Touches(v, x)
    BY <1>1 DEF TouchedIn
  <2>2. TouchedIn(v, hi) \subseteq Local /\ TouchedIn(v + 1, hi) \subseteq Local
    BY DEF TouchedIn
  <2>3. CASE Op(v) \in FastOps
    <3>1. \A x \in Local : Touches(v, x) <=> x \in {oparg(code, v)}
      BY <2>3 DEF Touches
    <3> QED BY <1>2, <2>1, <2>2, <2>3, <3>1
  <2>4. CASE Op(v) \notin FastOps
    BY <2>1, <2>2, <2>4 DEF Touches
  <2> QED BY <2>3, <2>4
<1>5. EverDeleted(v, hi) = EverDeleted(v + 1, hi) \cup
        (IF Op(v) = "DELETE_FAST" THEN {oparg(code, v)} ELSE {})
  <2>1. ASSUME NEW x \in Local
        PROVE  x \in EverDeleted(v, hi) <=> x \in EverDeleted(v + 1, hi) \/ Deletes(v, x)
    BY <1>1 DEF EverDeleted
  <2>2. EverDeleted(v, hi) \subseteq Local /\ EverDeleted(v + 1, hi) \subseteq Local
    BY DEF EverDeleted
  <2>3. CASE Op(v) = "DELETE_FAST"
    <3>1. \A x \in Local : Deletes(v, x) <=> x \in {oparg(code, v)}
      BY <1>3, <2>3 DEF Deletes, Touches
    <3> QED BY <1>2, <1>3, <2>1, <2>2, <2>3, <3>1
  <2>4. CASE Op(v) # "DELETE_FAST"
    BY <2>1, <2>2, <2>4 DEF Deletes
  <2> QED BY <2>3, <2>4
<1>6. ASSUME NEW x \in Local
      PROVE  x \in DeletedLast(v, hi) <=>
               \/ x \in DeletedLast(v + 1, hi)
               \/ Deletes(v, x) /\ x \notin TouchedIn(v + 1, hi)
  BY <1>1 DEF DeletedLast, TouchedIn
<1>7. DeletedLast(v, hi) \subseteq Local /\ DeletedLast(v + 1, hi) \subseteq Local
  BY DEF DeletedLast
<1>8. DeletedLast(v, hi) = DeletedLast(v + 1, hi) \cup
        (IF Op(v) = "DELETE_FAST" THEN {oparg(code, v)} \ TouchedIn(v + 1, hi) ELSE {})
  BY <1>2, <1>3, <1>6, <1>7 DEF Deletes, Touches
<1>9. DeletedLast(v, hi) \subseteq TouchedIn(v, hi)
  BY DEF DeletedLast, TouchedIn, Deletes
<1> QED BY <1>4, <1>5, <1>8, <1>9

\* A unit that is analysed adds its own part to what its block's fields hold, and
\* the first one of a block makes them say what their names do.
LEMMA AnalyseUnit ==
  ASSUME Compilable, Layout, NEW v \in Units, NEW b \in CodeBlocks, v \in UnitsOf(b),
         NEW kept, NEW set, NEW deleted, Analysed(b, v + 1, kept, set, deleted),
         NEW touched,
         touched = kept \cup (IF Op(v) \in FastOps THEN {oparg(code, v)} ELSE {}),
         NEW gone,
         gone = set \cup (IF Op(v) = "DELETE_FAST" THEN {oparg(code, v)} \ kept ELSE {})
  PROVE  Analysed(b, v, IF v = BlockStart(b) THEN Local \ touched ELSE touched,
                        IF v = BlockStart(b) THEN touched \ gone ELSE gone,
                        deleted \cup (IF Op(v) = "DELETE_FAST" THEN {oparg(code, v)} ELSE {}))
<1>1. CodeOK /\ v \in Nat
  BY CompilableFacts DEF Units
<1>2. BlockStart(b) \in Nat /\ BlockStart(b) <= v /\ blocks[b].end_index \in Nat
      /\ v < blocks[b].end_index
  BY <1>1, Blocks DEF UnitsOf, Units
<1>3. SoFar(b, v + 1, kept, set, deleted)
  BY <1>1, <1>2 DEF Analysed
<1>4. SoFar(b, v, touched, gone,
            deleted \cup (IF Op(v) = "DELETE_FAST" THEN {oparg(code, v)} ELSE {}))
  BY <1>2, <1>3, OneUnit DEF SoFar
<1>5. CASE v = BlockStart(b)
  <2>1. ~(BlockStart(b) < v)
    BY <1>1, <1>2, <1>5
  <2> QED BY <1>4, <1>5, <2>1 DEF Analysed, Summary, SoFar
<1>6. CASE v # BlockStart(b)
  <2>1. BlockStart(b) < v
    BY <1>1, <1>2, <1>6
  <2> QED BY <1>4, <1>6, <2>1 DEF Analysed
<1> QED BY <1>5, <1>6

LEMMA OtherBlock ==
  ASSUME CodeOK, Layout, NEW v \in Units, NEW c \in CodeBlocks, v \notin UnitsOf(c),
         NEW kept, NEW set, NEW deleted, Analysed(c, v + 1, kept, set, deleted)
  PROVE  Analysed(c, v, kept, set, deleted)
<1>1. v \in Nat /\ BlockStart(c) \in Nat /\ blocks[c].end_index \in Nat
  BY Blocks DEF Units
<1>2. v < BlockStart(c) \/ blocks[c].end_index <= v
  BY <1>1 DEF UnitsOf
<1>3. CASE v < BlockStart(c)
  BY <1>1, <1>3 DEF Analysed
<1>4. CASE ~(v < BlockStart(c))
  <2>1. blocks[c].end_index <= v /\ blocks[c].end_index <= v + 1
    BY <1>1, <1>2, <1>4
  <2>2. BlockStart(c) < v /\ BlockStart(c) < v + 1
    BY <1>1, <2>1, Blocks
  <2>3. \A k \in {v, v + 1} : /\ TouchedIn(k, blocks[c].end_index) = {}
                             /\ DeletedLast(k, blocks[c].end_index) = {}
                             /\ EverDeleted(k, blocks[c].end_index) = {}
    <3>1. \A k \in {v, v + 1} : k \in Int /\ blocks[c].end_index <= k
      BY <1>1, <2>1
    <3>2. blocks[c].end_index \in Int
      BY <1>1
    <3> QED BY ONLY <3>1, <3>2, NoUnits
  <2> QED BY <2>2, <2>3 DEF Analysed, SoFar
<1> QED BY <1>3, <1>4

GraphBuilt == Layout /\ Fields /\ SetupsLinked /\ Arrayed

LEMMA BlockSets ==
  ASSUME Layout
  PROVE  /\ CodeBlocks \subseteq AllBlocks /\ EhBlocks \subseteq AllBlocks
         /\ CodeBlocks \cap EhBlocks = {} /\ AllBlocks = CodeBlocks \cup EhBlocks
         /\ 0 \in CodeBlocks
BY DEF Layout, CodeBlocks, AllBlocks, EhBlocks

LEMMA StartIntraMakes ==
  ASSUME Compilable, GraphBuilt, StartIntra
  PROVE  (GraphBuilt /\ SummaryTypes /\ IntraInv)'
<1>1. /\ UNCHANGED <<code, block_num, try_block_num, blocks>>
      /\ locals_kept' = [b \in AllBlocks |-> IF b \in CodeBlocks THEN {} ELSE Local]
      /\ locals_set' = [b \in AllBlocks |-> {}]
      /\ locals_ever_deleted' = [b \in AllBlocks |-> {}]
      /\ visited_eh_block' = [b \in AllBlocks |-> Nil]
      /\ cursor' = py_instr_num
  BY DEF StartIntra
<1>2. GraphBuilt' /\ AllBlocks' = AllBlocks /\ CodeBlocks' = CodeBlocks /\ EhBlocks' = EhBlocks
  BY <1>1, GraphRigid DEF GraphBuilt
<1>3. Layout /\ CodeOK /\ py_instr_num \in Nat /\ py_instr_num' = py_instr_num
  BY <1>1, CompilableFacts DEF GraphBuilt, py_instr_num
<1>4. SummaryTypes'
  BY <1>1, <1>2, <1>3, BlockSets DEF SummaryTypes
<1>5. ASSUME NEW b \in CodeBlocks
      PROVE  Analysed(b, py_instr_num, {}, {}, {})
  <2>1. /\ BlockStart(b) < py_instr_num /\ blocks[b].end_index \in Nat
        /\ blocks[b].end_index <= py_instr_num
    BY <1>3, Blocks DEF Units
  <2> QED BY <1>3, <2>1, NoUnits DEF Analysed, SoFar
<1>6. \A b \in CodeBlocks : locals_kept'[b] = {} /\ locals_set'[b] = {}
                            /\ locals_ever_deleted'[b] = {}
  BY <1>1, <1>3, BlockSets
<1>7. \A b \in CodeBlocks : Analysed(b, cursor, locals_kept[b], locals_set[b],
                                     locals_ever_deleted[b])'
  <2>1. TAKE b \in CodeBlocks
  <2>2. PICK n : n = py_instr_num
    OBVIOUS
  <2>3. Analysed(b, n, {}, {}, {})'
    BY <1>1, <1>5, <2>2, UnitsRigid
  <2> QED BY <1>1, <1>3, <1>6, <2>2, <2>3
<1>8. IntraInv'
  <2>1. cursor' \in 0 .. py_instr_num'
    BY <1>1, <1>3
  <2>2. visited_eh_block' = [b \in AllBlocks' |-> Nil]
    BY <1>1, <1>2
  <2> QED BY <1>7, <1>2, <2>1, <2>2 DEF IntraInv
<1> QED BY <1>2, <1>4, <1>8

LEMMA IntraKeeps ==
  ASSUME Compilable, GraphBuilt, SummaryTypes, IntraInv, Intra
  PROVE  (GraphBuilt /\ SummaryTypes /\ IntraInv)'
<1> DEFINE v       == cursor - 1
           b       == BlockOf(v)
           touched == locals_kept[b] \cup (IF Op(v) \in FastOps THEN {oparg(code, v)} ELSE {})
           gone    == locals_set[b] \cup
                        (IF Op(v) = "DELETE_FAST" THEN {oparg(code, v)} \ locals_kept[b] ELSE {})
           deleted == locals_ever_deleted[b] \cup
                        (IF Op(v) = "DELETE_FAST" THEN {oparg(code, v)} ELSE {})
           kept2   == IF v = BlockStart(b) THEN Local \ touched ELSE touched
           set2    == IF v = BlockStart(b) THEN touched \ gone ELSE gone
<1>1. /\ UNCHANGED <<code, block_num, try_block_num, blocks, visited_eh_block>>
      /\ cursor > 0 /\ cursor' = v
      /\ locals_kept' = [locals_kept EXCEPT ![b] = kept2]
      /\ locals_set' = [locals_set EXCEPT ![b] = set2]
      /\ locals_ever_deleted' = [locals_ever_deleted EXCEPT ![b] = deleted]
  BY DEF Intra, Op, FastOps
<1>2. GraphBuilt' /\ AllBlocks' = AllBlocks /\ CodeBlocks' = CodeBlocks /\ EhBlocks' = EhBlocks
  BY <1>1, GraphRigid DEF GraphBuilt
<1>3. Layout /\ CodeOK /\ py_instr_num \in Nat /\ py_instr_num' = py_instr_num
  BY <1>1, CompilableFacts DEF GraphBuilt, py_instr_num
<1>4. v \in Units /\ v + 1 = cursor
  BY <1>1, <1>3 DEF IntraInv, Units
<1>5. b \in CodeBlocks /\ v \in UnitsOf(b) /\ b \in AllBlocks
  BY <1>3, <1>4, BlockOfUnit, BlockSets
<1>6. Op(v) \in FastOps => oparg(code, v) \in Local
  BY <1>4, CompilableFacts
<1>7. "DELETE_FAST" \in FastOps
  BY DEF FastOps
<1>8. touched \in SUBSET Local /\ gone \in SUBSET Local /\ deleted \in SUBSET Local
  BY <1>5, <1>6, <1>7 DEF SummaryTypes
<1>9. Analysed(b, v, kept2, set2, deleted)
  <2>1. Analysed(b, v + 1, locals_kept[b], locals_set[b], locals_ever_deleted[b])
    BY <1>4, <1>5 DEF IntraInv
  <2> QED BY <1>3, <1>4, <1>5, <2>1, AnalyseUnit
<1>10. ASSUME NEW c \in CodeBlocks, c # b
       PROVE  Analysed(c, v, locals_kept[c], locals_set[c], locals_ever_deleted[c])
  <2>1. v \notin UnitsOf(c)
    BY <1>3, <1>5, <1>10, OneBlockPerUnit
  <2>2. Analysed(c, v + 1, locals_kept[c], locals_set[c], locals_ever_deleted[c])
    BY <1>4 DEF IntraInv
  <2> QED BY <1>3, <1>4, <2>1, <2>2, OtherBlock
<1> HIDE DEF touched, gone, deleted, b
<1>11. kept2 \in SUBSET Local /\ set2 \in SUBSET Local
  BY <1>8
<1> HIDE DEF kept2, set2
<1>12. /\ locals_kept' \in [AllBlocks -> SUBSET Local]
       /\ locals_set' \in [AllBlocks -> SUBSET Local]
       /\ locals_ever_deleted' \in [AllBlocks -> SUBSET Local]
       /\ \A c \in AllBlocks :
            /\ locals_kept'[c] = IF c = b THEN kept2 ELSE locals_kept[c]
            /\ locals_set'[c] = IF c = b THEN set2 ELSE locals_set[c]
            /\ locals_ever_deleted'[c] = IF c = b THEN deleted ELSE locals_ever_deleted[c]
  BY <1>1, <1>8, <1>11 DEF SummaryTypes
<1>13. SummaryTypes'
  BY <1>2, <1>3, <1>5, <1>12, BlockSets DEF SummaryTypes
<1>14. \A c \in CodeBlocks :
         Analysed(c, v, locals_kept'[c], locals_set'[c], locals_ever_deleted'[c])
  BY <1>3, <1>9, <1>10, <1>12, BlockSets
<1>15. \A c \in CodeBlocks : Analysed(c, cursor, locals_kept[c], locals_set[c],
                                      locals_ever_deleted[c])'
  <2>1. TAKE c \in CodeBlocks
  <2>2. PICK k, K, S, D : /\ k = v /\ K = locals_kept'[c] /\ S = locals_set'[c]
                          /\ D = locals_ever_deleted'[c]
    OBVIOUS
  <2>3. Analysed(c, k, K, S, D)'
    BY <1>1, <1>14, <2>2, UnitsRigid
  <2> QED BY <1>1, <2>2, <2>3
<1>16. cursor' \in 0 .. py_instr_num'
  BY <1>1, <1>3, <1>4 DEF Units
<1>17. visited_eh_block' = [c \in AllBlocks' |-> Nil]
  BY <1>1, <1>2 DEF IntraInv
<1> QED BY <1>2, <1>13, <1>15, <1>16, <1>17 DEF IntraInv

LEMMA EndIntraMakes ==
  ASSUME Compilable, GraphBuilt, IntraInv, cursor = 0
  PROVE  Summaries
<1>1. ASSUME NEW b \in CodeBlocks
      PROVE  Summary(b, locals_kept[b], locals_set[b], locals_ever_deleted[b])
  <2>1. BlockStart(b) \in Nat
    BY CompilableFacts, Blocks DEF GraphBuilt, Units
  <2> QED BY <2>1 DEF IntraInv, Analysed
<1> QED BY <1>1 DEF Summaries, Summary

-----------------------------------------------------------------------------
(* Nesting.                                                                *)

Entries == [try : BOOLEAN, setup : Units]

\* The places from k on in nesting s that are bodies of try blocks.
Tries(s, k) == {i \in k .. Len(s) : s[i].try}

\* Unit v is in the body of the try block that unit u sets up, and how many such
\* bodies there are around it, that one included.
Within(u, v) ==
  /\ Len(nesting[u]) < Len(nesting[v])
  /\ nesting[v][Len(nesting[u]) + 1] = [try |-> TRUE, setup |-> u]

Depth(u, v) == Cardinality(Tries(nesting[v], Len(nesting[u]) + 1))

LEMMA NestingRigid ==
  ASSUME code' = code
  PROVE  /\ nesting' = nesting
         /\ \A u, v : Within(u, v)' <=> Within(u, v)
         /\ \A u, v : Depth(u, v)' = Depth(u, v)
<1>1. \A nest : Nests(nest)' <=> Nests(nest)
  BY DEF Nests, Leaving
<1>2. nesting' = nesting
  BY <1>1 DEF nesting
<1> QED BY <1>2 DEF Within, Depth, Tries

LEMMA NestFacts ==
  ASSUME Compilable, NEW v \in Units
  PROVE  /\ nesting[v] \in Seq(Entries) /\ nesting[0] = <<>>
         /\ Jumps(Op(v)) =>
              nesting[Destination(code, v)] =
                IF isTryBlockSetup(Op(v)) THEN Append(nesting[v], [try |-> FALSE, setup |-> v])
                                          ELSE nesting[v]
         /\ ~isTerminator(Op(v)) =>
              nesting[v + 1] =
                IF isTryBlockSetup(Op(v)) THEN Append(nesting[v], [try |-> TRUE, setup |-> v])
                ELSE IF Op(v) \in Leaving THEN SubSeq(nesting[v], 1, Len(nesting[v]) - 1)
                ELSE nesting[v]
         /\ Op(v) \in Leaving =>
              nesting[v] # <<>> /\ nesting[v][Len(nesting[v])].try = (Op(v) = "POP_BLOCK")
<1>1. Nests(nesting) /\ DOMAIN code = Units
  BY CompilableFacts
<1>2. nesting \in [Units -> Seq(Entries)]
  BY <1>1 DEF Nests, Entries
<1> QED BY <1>1, <1>2 DEF Nests, Op

LEMMA TriesFinite ==
  ASSUME NEW s \in Seq(Entries), NEW k \in Nat \ {0}
  PROVE  IsFiniteSet(Tries(s, k)) /\ Cardinality(Tries(s, k)) \in Nat
<1>1. IsFiniteSet(k .. Len(s)) /\ Tries(s, k) \in SUBSET (k .. Len(s))
  BY FS_Interval DEF Tries
<1> QED BY <1>1, FS_Subset, FS_CardinalityType

LEMMA TriesAppend ==
  ASSUME NEW s \in Seq(Entries), NEW k \in Nat \ {0}, NEW e \in Entries, k <= Len(s) + 1
  PROVE  /\ ~e.try => Tries(Append(s, e), k) = Tries(s, k)
         /\ e.try => Cardinality(Tries(Append(s, e), k)) = Cardinality(Tries(s, k)) + 1
<1> DEFINE n == Len(s) + 1
           t == Append(s, e)
<1>1. Len(t) = n /\ n \in Nat /\ t[n] = e /\ \A i \in 1 .. Len(s) : t[i] = s[i]
  OBVIOUS
<1>2. k .. n = (k .. Len(s)) \cup {n} /\ n \notin k .. Len(s)
  OBVIOUS
<1> HIDE DEF t
<1>3. \A i \in k .. Len(s) : t[i] = s[i]
  BY <1>1
<1>4. Tries(t, k) = Tries(s, k) \cup (IF e.try THEN {n} ELSE {})
  BY <1>1, <1>2, <1>3 DEF Tries
<1>5. n \notin Tries(s, k)
  BY <1>2 DEF Tries
<1>6. e.try => Cardinality(Tries(t, k)) = Cardinality(Tries(s, k)) + 1
  BY <1>4, <1>5, TriesFinite, FS_AddElement
<1> QED BY <1>4, <1>6 DEF t

LEMMA Prefix ==
  ASSUME NEW T, NEW s \in Seq(T), NEW m \in 0 .. Len(s)
  PROVE  /\ SubSeq(s, 1, m) \in Seq(T) /\ Len(SubSeq(s, 1, m)) = m
         /\ \A i \in 1 .. m : SubSeq(s, 1, m)[i] = s[i]
<1>1. /\ SubSeq(s, 1, m) \in Seq(T)
      /\ Len(SubSeq(s, 1, m)) = IF 1 <= m THEN m - 1 + 1 ELSE 0
      /\ \A i \in 1 .. m - 1 + 1 : SubSeq(s, 1, m)[i] = s[1 + i - 1]
  BY SubSeqProperties
<1> QED BY <1>1

LEMMA TriesFront ==
  ASSUME NEW s \in Seq(Entries), NEW k \in Nat \ {0}, k <= Len(s), NEW t,
         t = SubSeq(s, 1, Len(s) - 1)
  PROVE  /\ t \in Seq(Entries) /\ Len(t) = Len(s) - 1
         /\ \A i \in 1 .. Len(s) - 1 : t[i] = s[i]
         /\ ~s[Len(s)].try => Tries(t, k) = Tries(s, k)
         /\ s[Len(s)].try => Cardinality(Tries(s, k)) = Cardinality(Tries(t, k)) + 1
<1> DEFINE n == Len(s)
<1>1. n \in Nat /\ n - 1 \in 0 .. n
  OBVIOUS
<1>2. t \in Seq(Entries) /\ Len(t) = n - 1 /\ \A i \in 1 .. n - 1 : t[i] = s[i]
  <2>1. PICK m \in 0 .. Len(s) : m = n - 1
    BY <1>1
  <2>2. /\ SubSeq(s, 1, m) \in Seq(Entries) /\ Len(SubSeq(s, 1, m)) = m
        /\ \A i \in 1 .. m : SubSeq(s, 1, m)[i] = s[i]
    BY Prefix
  <2> QED BY <2>1, <2>2
<1>3. k .. n = (k .. n - 1) \cup {n} /\ n \notin k .. n - 1
  BY <1>1
<1>4. \A i \in k .. n - 1 : t[i] = s[i]
  BY <1>1, <1>2
<1>5. Tries(s, k) = Tries(t, k) \cup (IF s[n].try THEN {n} ELSE {})
  BY <1>2, <1>3, <1>4 DEF Tries
<1>6. n \notin Tries(t, k)
  BY <1>1, <1>2 DEF Tries
<1>7. s[n].try => Cardinality(Tries(s, k)) = Cardinality(Tries(t, k)) + 1
  <2>1. IsFiniteSet(Tries(t, k))
    BY <1>2, TriesFinite
  <2>2. Cardinality(Tries(t, k) \cup {n}) = Cardinality(Tries(t, k)) + 1
    BY <1>6, <2>1, FS_AddElement
  <2> QED BY <1>5, <2>2
<1> QED BY <1>2, <1>5, <1>7

LEMMA DepthPositive ==
  ASSUME Compilable, NEW u \in Units, NEW v \in Units, Within(u, v)
  PROVE  Depth(u, v) \in Nat \ {0}
<1>1. nesting[u] \in Seq(Entries) /\ nesting[v] \in Seq(Entries)
  BY NestFacts
<1>2. Len(nesting[u]) + 1 \in Tries(nesting[v], Len(nesting[u]) + 1)
  BY <1>1 DEF Within, Tries
<1>3. Len(nesting[u]) + 1 \in Nat \ {0}
  BY <1>1
<1>4. IsFiniteSet(Tries(nesting[v], Len(nesting[u]) + 1)) /\ Depth(u, v) \in Nat
  BY <1>1, <1>3, TriesFinite DEF Depth
<1> QED BY <1>2, <1>4, FS_EmptySet DEF Depth

\* The unit after a set-up begins the body.
LEMMA BodyStarts ==
  ASSUME Compilable, NEW u \in Units, isTryBlockSetup(Op(u))
  PROVE  u + 1 \in Units /\ Within(u, u + 1) /\ Depth(u, u + 1) = 1
<1>1. ~isTerminator(Op(u))
  BY Opcodes
<1>2. u + 1 \in Units
  BY <1>1, CompilableFacts, CodeFacts DEF Units, Op
<1> DEFINE s == nesting[u]
           e == [try |-> TRUE, setup |-> u]
<1>3. s \in Seq(Entries) /\ e \in Entries /\ e.try /\ nesting[u + 1] = Append(s, e)
  BY <1>1, NestFacts DEF Entries
<1> HIDE DEF s, e
<1>4. Len(s) \in Nat /\ Len(Append(s, e)) = Len(s) + 1 /\ Append(s, e)[Len(s) + 1] = e
  BY <1>3
<1>5. Within(u, u + 1)
  BY <1>3, <1>4 DEF Within, s, e
<1>6. Tries(s, Len(s) + 1) = {}
  BY <1>4 DEF Tries
<1>7. Cardinality(Tries(Append(s, e), Len(s) + 1)) = 0 + 1
  <2>1. PICK k \in Nat \ {0} : k = Len(s) + 1
    BY <1>4
  <2>2. Cardinality(Tries(Append(s, e), k)) = Cardinality(Tries(s, k)) + 1
    <3>1. k <= Len(s) + 1
      BY <1>4, <2>1
    <3> QED BY <1>3, <3>1, TriesAppend
  <2> QED BY <1>6, <2>1, <2>2, FS_EmptySet
<1>8. Depth(u, u + 1) = 1
  BY <1>3, <1>7 DEF Depth, s
<1> QED BY <1>2, <1>5, <1>8

\* Jumps stay in the body, handlers of try blocks in it included.
LEMMA JumpStays ==
  ASSUME Compilable, NEW u \in Units, NEW v \in Units, Within(u, v), Jumps(Op(v))
  PROVE  LET d == Destination(code, v)
         IN  d \in Units /\ Within(u, d) /\ Depth(u, d) = Depth(u, v)
<1> DEFINE d == Destination(code, v)
           s == nesting[v]
           e == [try |-> FALSE, setup |-> v]
<1>1. d \in Units
  BY CompilableFacts, CodeFacts DEF Units, Op
<1>2. s \in Seq(Entries) /\ nesting[u] \in Seq(Entries) /\ e \in Entries /\ e.try = FALSE
  BY NestFacts DEF Entries
<1>3. nesting[d] = IF isTryBlockSetup(Op(v)) THEN Append(s, e) ELSE s
  BY NestFacts
<1> HIDE DEF d, e
<1>4. CASE isTryBlockSetup(Op(v))
  <2>1. PICK k \in Nat \ {0} : k = Len(nesting[u]) + 1
    BY <1>2
  <2>2. k <= Len(s) /\ s[k] = [try |-> TRUE, setup |-> u]
    BY <1>2, <2>1 DEF Within
  <2> HIDE DEF s
  <2>3. Append(s, e)[k] = s[k] /\ Len(Append(s, e)) = Len(s) + 1
    BY <1>2, <2>1, <2>2
  <2>4. Tries(Append(s, e), k) = Tries(s, k)
    BY <1>2, <2>2, TriesAppend
  <2>5. nesting[d] = Append(s, e)
    BY <1>3, <1>4
  <2>6. Within(u, d)
    BY <1>2, <2>1, <2>2, <2>3, <2>5 DEF Within
  <2>7. Depth(u, d) = Depth(u, v)
    BY <2>1, <2>4, <2>5 DEF Depth, s
  <2> QED BY <1>1, <2>6, <2>7 DEF d
<1>5. CASE ~isTryBlockSetup(Op(v))
  BY <1>1, <1>3, <1>5 DEF Within, Depth, d
<1> QED BY <1>4, <1>5

\* The next unit is in the body too, unless the unit ends the body; and how many
\* try blocks there are around it changes as analyzeEHBlock counts.
LEMMA NextStays ==
  ASSUME Compilable, NEW u \in Units, NEW v \in Units, Within(u, v), ~isTerminator(Op(v))
  PROVE  /\ v + 1 \in Units
         /\ Within(u, v + 1) <=> ~(Op(v) = "POP_BLOCK" /\ Depth(u, v) = 1)
         /\ Within(u, v + 1) =>
              Depth(u, v + 1) = Depth(u, v) + (IF isTryBlockSetup(Op(v)) THEN 1 ELSE 0)
                                            - (IF Op(v) = "POP_BLOCK" THEN 1 ELSE 0)
<1> DEFINE s == nesting[v]
           e == [try |-> TRUE, setup |-> v]
<1>1. v + 1 \in Units
  BY CompilableFacts, CodeFacts DEF Units, Op
<1>2. s \in Seq(Entries) /\ nesting[u] \in Seq(Entries) /\ e \in Entries /\ e.try
  BY NestFacts DEF Entries
<1>3. PICK k \in Nat \ {0} : k = Len(nesting[u]) + 1
  BY <1>2
<1>4. k <= Len(s) /\ s[k] = [try |-> TRUE, setup |-> u] /\ s[k].try
  BY <1>2, <1>3 DEF Within
<1>5. Depth(u, v) \in Nat \ {0} /\ Depth(u, v) = Cardinality(Tries(s, k))
  BY <1>3, DepthPositive DEF Depth
<1>6. /\ Within(u, v + 1) <=> k <= Len(nesting[v + 1]) /\ nesting[v + 1][k] = s[k]
      /\ Depth(u, v + 1) = Cardinality(Tries(nesting[v + 1], k))
  <2>1. nesting[v + 1] \in Seq(Entries)
    BY <1>1, NestFacts
  <2>2. Len(nesting[u]) < Len(nesting[v + 1]) <=> k <= Len(nesting[v + 1])
    BY <1>2, <1>3, <2>1
  <2> QED BY <1>3, <1>4, <2>2 DEF Within, Depth
<1>7. CASE isTryBlockSetup(Op(v))
  <2>1. nesting[v + 1] = Append(s, e) /\ Op(v) # "POP_BLOCK"
    BY <1>7, NestFacts DEF isTryBlockSetup
  <2> HIDE DEF s, e
  <2>2. Append(s, e)[k] = s[k] /\ Len(Append(s, e)) = Len(s) + 1
    BY <1>2, <1>4
  <2>3. Cardinality(Tries(Append(s, e), k)) = Cardinality(Tries(s, k)) + 1
    BY <1>2, <1>4, TriesAppend
  <2> QED BY <1>1, <1>2, <1>4, <1>5, <1>6, <1>7, <2>1, <2>2, <2>3
<1>8. CASE ~isTryBlockSetup(Op(v)) /\ Op(v) \notin Leaving
  <2>1. nesting[v + 1] = s /\ Op(v) # "POP_BLOCK"
    BY <1>8, NestFacts DEF Leaving
  <2> HIDE DEF s
  <2> QED BY <1>1, <1>4, <1>5, <1>6, <1>8, <2>1
<1>9. CASE Op(v) \in Leaving
  <2>0. ~isTryBlockSetup(Op(v))
    BY <1>9 DEF Leaving, isTryBlockSetup
  <2>1. PICK t : t = SubSeq(s, 1, Len(s) - 1) /\ nesting[v + 1] = t
    BY <1>9, <2>0, NestFacts
  <2>2. s[Len(s)].try = (Op(v) = "POP_BLOCK")
    BY <1>9, NestFacts
  <2> HIDE DEF s, e
  <2>3. /\ t \in Seq(Entries) /\ Len(t) = Len(s) - 1
        /\ \A i \in 1 .. Len(s) - 1 : t[i] = s[i]
        /\ ~s[Len(s)].try => Tries(t, k) = Tries(s, k)
        /\ s[Len(s)].try => Cardinality(Tries(s, k)) = Cardinality(Tries(t, k)) + 1
    <3>1. s \in Seq(Entries) /\ k \in Nat \ {0} /\ k <= Len(s) /\ t = SubSeq(s, 1, Len(s) - 1)
      BY <1>2, <1>4, <2>1
    <3> QED BY ONLY <3>1, TriesFront, Zenon
  <2>4. Len(s) \in Nat
    BY <1>2
  <2>5. CASE Op(v) # "POP_BLOCK"
    <3>1. ~s[Len(s)].try /\ Len(s) # k
      BY <1>4, <2>2, <2>5
    <3>2. k <= Len(s) - 1 /\ k \in 1 .. Len(s) - 1
      BY <1>4, <2>4, <3>1
    <3> QED BY <1>1, <1>5, <1>6, <2>0, <2>1, <2>3, <2>5, <3>1, <3>2
  <2>6. CASE Op(v) = "POP_BLOCK"
    <3>1. Cardinality(Tries(s, k)) = Cardinality(Tries(t, k)) + 1
      BY <2>2, <2>3, <2>6
    <3>2. IsFiniteSet(Tries(t, k)) /\ Cardinality(Tries(t, k)) \in Nat
      BY <2>3, TriesFinite
    <3>3. CASE Len(s) = k
      <4>1. Tries(t, k) = {}
        BY <2>3, <2>4, <3>3 DEF Tries
      <4>2. Depth(u, v) = 1
        BY <1>5, <3>1, <4>1, FS_EmptySet
      <4>3. ~(k <= Len(t))
        BY <2>3, <2>4, <3>3
      <4> QED BY <1>1, <1>6, <2>1, <2>6, <4>2, <4>3
    <3>4. CASE Len(s) # k
      <4>1. k <= Len(s) - 1 /\ k \in 1 .. Len(s) - 1
        BY <1>4, <2>4, <3>4
      <4>2. k \in Tries(t, k)
        BY <1>4, <2>3, <4>1 DEF Tries
      <4>3. Cardinality(Tries(t, k)) # 0
        BY <3>2, <4>2, FS_EmptySet
      <4>4. Depth(u, v) # 1
        BY <1>5, <3>1, <3>2, <4>3
      <4> QED BY <1>1, <1>5, <1>6, <2>0, <2>1, <2>3, <2>6, <3>1, <3>2, <4>1, <4>4
    <3> QED BY <3>3, <3>4
  <2> QED BY <2>5, <2>6
<1> QED BY <1>7, <1>8, <1>9

\* All units of a block are in the body if its first one is, equally deep.
LEMMA BlockStays ==
  ASSUME Compilable, Layout, NEW u \in Units, NEW b \in CodeBlocks,
         Within(u, BlockStart(b)), NEW v \in UnitsOf(b)
  PROVE  Within(u, v) /\ Depth(u, v) = Depth(u, BlockStart(b))
<1> DEFINE Same(w) == Within(u, w) /\ Depth(u, w) = Depth(u, BlockStart(b))
           bad     == {w \in UnitsOf(b) : ~Same(w)}
<1>1. UnitsOf(b) \subseteq Units /\ BlockStart(b) \in Nat /\ blocks[b].end_index \in Nat
  BY CompilableFacts, Blocks DEF Units
<1>2. SUFFICES ASSUME ~Same(v) PROVE FALSE
  OBVIOUS
<1>3. v \in bad /\ bad \subseteq Nat
  BY <1>1, <1>2 DEF Units
<1>4. PICK w \in bad : \A x \in bad : w <= x
  BY <1>3, Smallest
<1>5. w \in UnitsOf(b) /\ ~Same(w)
  OBVIOUS
<1>6. w # BlockStart(b)
  BY <1>5
<1>7. w - 1 \in UnitsOf(b) /\ w - 1 # LastUnit(b) /\ w \in Nat
  BY <1>1, <1>5, <1>6 DEF UnitsOf, LastUnit
<1>8. Same(w - 1)
  BY <1>4, <1>7
<1>9. /\ Op(w - 1) # "POP_BLOCK" /\ ~Jumps(Op(w - 1)) /\ ~isTerminator(Op(w - 1))
      /\ ~isTryBlockSetup(Op(w - 1))
  BY <1>7, CompilableFacts, Blocks, Opcodes
<1>10. Within(u, w - 1 + 1) /\ Depth(u, w - 1 + 1) = Depth(u, w - 1) + 0 - 0
       /\ Depth(u, w - 1) \in Nat
  BY <1>1, <1>7, <1>8, <1>9, NextStays, DepthPositive
<1>11. w - 1 + 1 = w
  BY <1>7
<1> QED BY <1>5, <1>8, <1>10, <1>11

-----------------------------------------------------------------------------
(* The walk of analyzeEHBlock over the body of a try block.                *)

\* The set-up unit of the try block whose exception block is eb.
SetupUnit(eb) == LastUnit(blocks[eb].eh_setup_block)

\* The blocks that b, a block of the body, can pass control to inside the body.
Follows(eb, b, s) ==
  /\ s \in CodeBlocks
  /\ \/ /\ ~isTerminator(TailOp(b)) /\ s = b + 1
        /\ Within(SetupUnit(eb), BlockStart(s))
     \/ Jumps(TailOp(b)) /\ BlockStart(s) = Destination(code, LastUnit(b))

\* V has every block of the body, and none of them deletes a local that is kept.
Covers(eb, V, kept) ==
  /\ V \in SUBSET CodeBlocks /\ blocks[eb].eh_setup_block + 1 \in V
  /\ \A b \in V : \A s : Follows(eb, b, s) => s \in V
  /\ \A b \in V : kept \cap EverDeleted(BlockStart(b), blocks[b].end_index) = {}

Accounted(eb, kept) == \E V : Covers(eb, V, kept)

\* A call is for a block of the body, as deeply nested as it says.
Calls == [eb : EhBlocks, b : CodeBlocks, depth : Nat \ {0}]

InBody(eb, b, depth) ==
  /\ eb \in EhBlocks /\ b \in CodeBlocks
  /\ Within(SetupUnit(eb), BlockStart(b))
  /\ depth = Depth(SetupUnit(eb), BlockStart(b))

\* Some call that is pending visits block b.
Waiting(b) == \E i \in 1 .. Len(eh_calls) : eh_calls[i].b = b

Visited(eb) == {b \in CodeBlocks : visited_eh_block[b] = eb}

Walking(eb) ==
  LET reached(b) == b \in Visited(eb) \/ Waiting(b)
  IN  /\ reached(blocks[eb].eh_setup_block + 1)
      /\ \A b \in Visited(eb) :
           /\ Within(SetupUnit(eb), BlockStart(b))
           /\ \A s : Follows(eb, b, s) => reached(s)
           /\ locals_kept[eb] \cap EverDeleted(BlockStart(b), blocks[b].end_index) = {}

EhInv ==
  /\ cursor \in block_num .. block_num + try_block_num
  /\ visited_eh_block \in [AllBlocks -> {Nil} \cup block_num .. cursor - 1]
  /\ eh_calls \in Seq(Calls)
  /\ \A i \in 1 .. Len(eh_calls) :
       /\ eh_calls[i].eb = cursor - 1
       /\ InBody(eh_calls[i].eb, eh_calls[i].b, eh_calls[i].depth)
  /\ \A eb \in EhBlocks : eb < cursor - 1 => Accounted(eb, locals_kept[eb])
  /\ \A eb \in EhBlocks : eb = cursor - 1 => Walking(eb)

LEMMA SetupFacts ==
  ASSUME Compilable, GraphBuilt, NEW eb \in EhBlocks
  PROVE  LET b == blocks[eb].eh_setup_block
         IN  /\ b \in CodeBlocks /\ b + 1 \in CodeBlocks
             /\ SetupUnit(eb) \in Units /\ isTryBlockSetup(Op(SetupUnit(eb)))
             /\ BlockStart(b + 1) = SetupUnit(eb) + 1
<1> DEFINE b == blocks[eb].eh_setup_block
<1>1. b \in CodeBlocks /\ isTryBlockSetup(TailOp(b))
  BY DEF GraphBuilt, Fields
<1>2. ~isTerminator(TailOp(b))
  BY <1>1, Opcodes
<1>3. CodeOK /\ Layout
  BY CompilableFacts DEF GraphBuilt
<1>4. /\ b + 1 \in CodeBlocks /\ LastUnit(b) \in Units
      /\ BlockStart(b + 1) = blocks[b].end_index /\ blocks[b].end_index \in Nat
  BY <1>1, <1>2, <1>3, Blocks
<1>5. blocks[b].end_index = LastUnit(b) + 1
  BY <1>4 DEF LastUnit
<1> QED BY <1>1, <1>4, <1>5 DEF SetupUnit, TailOp

\* The first call of a walk.
LEMMA FirstCall ==
  ASSUME Compilable, GraphBuilt, NEW eb \in EhBlocks
  PROVE  InBody(eb, blocks[eb].eh_setup_block + 1, 1)
BY SetupFacts, BodyStarts DEF InBody

\* A call makes calls for exactly the blocks that follow.
LEMMA CallReaches ==
  ASSUME Compilable, GraphBuilt, NEW eb, NEW b, NEW depth, InBody(eb, b, depth),
         NEW after, after = depth + (IF blocks[b].eh_body_enter THEN 1 ELSE 0)
                                  - (IF blocks[b].eh_body_exit THEN 1 ELSE 0),
         NEW target, target = IF blocks[b].eh_body_enter THEN blocks[blocks[b].branch].branch
                                                         ELSE blocks[b].branch
  PROVE  /\ blocks[b].fall_through /\ after # 0 => InBody(eb, b + 1, after)
         /\ blocks[b].branch # Nil => InBody(eb, target, depth)
         /\ \A s : Follows(eb, b, s) =>
              \/ blocks[b].fall_through /\ after # 0 /\ s = b + 1
              \/ blocks[b].branch # Nil /\ s = target
<1> DEFINE u == SetupUnit(eb)
           v == LastUnit(b)
<1>1. /\ CodeOK /\ Layout /\ Fields /\ SetupsLinked
      /\ eb \in EhBlocks /\ b \in CodeBlocks /\ u \in Units /\ v \in Units /\ v \in UnitsOf(b)
  BY CompilableFacts, SetupFacts, Blocks DEF GraphBuilt, InBody
<1>2. Within(u, v) /\ Depth(u, v) = depth /\ depth \in Nat \ {0}
  BY <1>1, BlockStays, DepthPositive DEF InBody
<1>3. /\ blocks[b].fall_through = ~isTerminator(Op(v))
      /\ blocks[b].eh_body_enter = isTryBlockSetup(Op(v))
      /\ blocks[b].eh_body_exit = (Op(v) = "POP_BLOCK")
      /\ ~Jumps(Op(v)) => blocks[b].branch = Nil
      /\ isTryBlockSetup(Op(v)) => Op(v) # "POP_BLOCK"
  BY <1>1 DEF Fields, TailOp, isTryBlockSetup
<1> HIDE DEF u, v
<1>4. ASSUME ~isTerminator(Op(v))
      PROVE  /\ b + 1 \in CodeBlocks
             /\ Within(u, BlockStart(b + 1)) <=> after # 0
             /\ after # 0 => after \in Nat \ {0} /\ after = Depth(u, BlockStart(b + 1))
  <2>1. b + 1 \in CodeBlocks /\ BlockStart(b + 1) = v + 1
    <3>1. /\ b + 1 \in CodeBlocks /\ BlockStart(b + 1) = blocks[b].end_index
          /\ blocks[b].end_index \in Nat
      BY <1>1, <1>4, Blocks DEF v, TailOp
    <3> QED BY <3>1 DEF v, LastUnit
  <2>2. /\ v + 1 \in Units
        /\ Within(u, v + 1) <=> ~(Op(v) = "POP_BLOCK" /\ Depth(u, v) = 1)
        /\ Within(u, v + 1) =>
             Depth(u, v + 1) = Depth(u, v) + (IF isTryBlockSetup(Op(v)) THEN 1 ELSE 0)
                                           - (IF Op(v) = "POP_BLOCK" THEN 1 ELSE 0)
    BY <1>1, <1>2, <1>4, NextStays
  <2>3. after = depth + (IF isTryBlockSetup(Op(v)) THEN 1 ELSE 0)
                      - (IF Op(v) = "POP_BLOCK" THEN 1 ELSE 0)
    BY <1>3
  <2> QED BY <1>2, <1>3, <2>1, <2>2, <2>3
<1>5. ASSUME blocks[b].branch # Nil \/ Jumps(Op(v))
      PROVE  /\ blocks[b].branch # Nil /\ Jumps(Op(v))
             /\ target \in CodeBlocks /\ BlockStart(target) = Destination(code, v)
             /\ Within(u, BlockStart(target)) /\ depth = Depth(u, BlockStart(target))
  <2>1. Jumps(Op(v))
    BY <1>3, <1>5
  <2>2. /\ blocks[b].branch # Nil
        /\ target \in CodeBlocks /\ BlockStart(target) = Destination(code, v)
    <3>1. CASE isTryBlockSetup(Op(v))
      <4>1. /\ blocks[b].branch \in EhBlocks /\ blocks[blocks[b].branch].eh_setup_block = b
            /\ target = blocks[blocks[b].branch].branch
        BY <1>1, <1>3, <3>1 DEF SetupsLinked, TailOp, v
      <4>2. LeadsTo(blocks[b].branch, v)
        BY <1>1, <4>1 DEF Fields, v
      <4>3. blocks[b].branch # Nil
        BY <1>1, <4>1, NilAssumption DEF EhBlocks, AllBlocks
      <4> QED BY <4>1, <4>2, <4>3 DEF LeadsTo
    <3>2. CASE ~isTryBlockSetup(Op(v))
      <4>1. LeadsTo(b, v) /\ target = blocks[b].branch
        BY <1>1, <1>3, <2>1, <3>2 DEF Fields, TailOp, v
      <4> QED BY <1>1, <4>1, NilAssumption DEF LeadsTo, CodeBlocks
    <3> QED BY <3>1, <3>2
  <2>3. Within(u, Destination(code, v)) /\ depth = Depth(u, Destination(code, v))
    BY <1>1, <1>2, <2>1, JumpStays
  <2> QED BY <2>1, <2>2, <2>3
<1>6. blocks[b].fall_through /\ after # 0 => InBody(eb, b + 1, after)
  BY <1>1, <1>3, <1>4 DEF InBody, u
<1>7. blocks[b].branch # Nil => InBody(eb, target, depth)
  BY <1>1, <1>5 DEF InBody, u
<1>8. ASSUME NEW s, Follows(eb, b, s)
      PROVE  \/ blocks[b].fall_through /\ after # 0 /\ s = b + 1
             \/ blocks[b].branch # Nil /\ s = target
  <2>1. CASE ~isTerminator(Op(v)) /\ s = b + 1 /\ Within(u, BlockStart(s))
    BY <1>3, <1>4, <2>1
  <2>2. CASE Jumps(Op(v)) /\ BlockStart(s) = Destination(code, v)
    <3>1. s \in CodeBlocks
      BY <1>8 DEF Follows
    <3> QED BY <1>1, <1>5, <2>2, <3>1, SameStart
  <2> QED BY <1>8, <2>1, <2>2 DEF Follows, u, v, TailOp
<1> QED BY <1>6, <1>7, <1>8

LEMMA WalkRigid ==
  ASSUME UNCHANGED <<code, block_num, try_block_num, blocks>>
  PROVE  /\ \A eb : SetupUnit(eb)' = SetupUnit(eb)
         /\ \A eb, b, s : Follows(eb, b, s)' <=> Follows(eb, b, s)
         /\ \A eb, V, K : Covers(eb, V, K)' <=> Covers(eb, V, K)
         /\ \A eb, K : Accounted(eb, K)' <=> Accounted(eb, K)
         /\ \A eb, b, d : InBody(eb, b, d)' <=> InBody(eb, b, d)
         /\ Calls' = Calls
<1>1. CodeBlocks' = CodeBlocks /\ EhBlocks' = EhBlocks /\ \A b : BlockStart(b)' = BlockStart(b)
  BY GraphRigid
<1>2. \A eb : SetupUnit(eb)' = SetupUnit(eb)
  BY DEF SetupUnit, LastUnit
<1>3. \A eb, b, s : Follows(eb, b, s)' <=> Follows(eb, b, s)
  BY <1>1, <1>2, NestingRigid DEF Follows, TailOp, LastUnit, Op
<1>4. \A eb, V, K : Covers(eb, V, K)' <=> Covers(eb, V, K)
  BY <1>1, <1>3, UnitsRigid DEF Covers
<1>5. \A eb, K : Accounted(eb, K)' <=> Accounted(eb, K)
  BY <1>4 DEF Accounted
<1>6. \A eb, b, d : InBody(eb, b, d)' <=> InBody(eb, b, d)
  BY <1>1, <1>2, NestingRigid DEF InBody
<1>7. Calls' = Calls
  BY <1>1 DEF Calls
<1> QED BY <1>2, <1>3, <1>4, <1>5, <1>6, <1>7

\* Nothing is pending any more: the blocks visited are the body's.
LEMMA WalkEnds ==
  ASSUME eh_calls = <<>>, NEW eb, Walking(eb)
  PROVE  Accounted(eb, locals_kept[eb])
<1>1. \A b : ~Waiting(b)
  BY DEF Waiting
<1>2. Covers(eb, Visited(eb), locals_kept[eb])
  BY <1>1 DEF Covers, Walking, Visited
<1> QED BY <1>2 DEF Accounted

EhGraph == GraphBuilt /\ SummaryTypes /\ Summaries

LEMMA EhGraphRigid ==
  ASSUME EhGraph, Compilable,
         UNCHANGED <<code, block_num, try_block_num, blocks, locals_set, locals_ever_deleted>>,
         locals_kept' \in [AllBlocks -> SUBSET Local],
         \A b \in CodeBlocks : locals_kept'[b] = locals_kept[b]
  PROVE  EhGraph'
<1>1. /\ GraphBuilt' /\ CodeBlocks' = CodeBlocks /\ AllBlocks' = AllBlocks
      /\ EhBlocks' = EhBlocks /\ \A b : BlockStart(b)' = BlockStart(b)
  BY GraphRigid DEF EhGraph, GraphBuilt
<1>2. SummaryTypes'
  BY <1>1 DEF EhGraph, SummaryTypes
<1>3. Summaries'
  BY <1>1, UnitsRigid DEF EhGraph, Summaries
<1> QED BY <1>1, <1>2, <1>3 DEF EhGraph

LEMMA EndIntraStarts ==
  ASSUME Compilable, GraphBuilt, SummaryTypes, IntraInv, eh_calls = <<>>, EndIntra
  PROVE  (EhGraph /\ EhInv)'
<1>1. /\ UNCHANGED <<code, block_num, try_block_num, blocks, locals_kept, locals_set,
                     locals_ever_deleted, visited_eh_block, eh_calls>>
      /\ cursor = 0 /\ cursor' = block_num
  BY DEF EndIntra, analysis
<1>2. EhGraph
  BY <1>1, EndIntraMakes DEF EhGraph
<1>3. EhGraph'
  BY <1>1, <1>2, EhGraphRigid DEF SummaryTypes
<1>4. /\ block_num \in Nat /\ try_block_num \in Nat /\ AllBlocks' = AllBlocks
      /\ EhBlocks' = EhBlocks /\ \A eb \in EhBlocks : eb \in Nat /\ eb >= block_num
  BY <1>1, GraphRigid DEF GraphBuilt, Layout, EhBlocks, AllBlocks, CodeBlocks
<1>5. visited_eh_block \in [AllBlocks -> {Nil} \cup block_num .. block_num - 1]
  BY DEF IntraInv
<1> QED BY <1>1, <1>3, <1>4, <1>5 DEF EhInv

LEMMA VisitBodyKeeps ==
  ASSUME Compilable, EhGraph, EhInv, VisitBody
  PROVE  (EhGraph /\ EhInv)'
<1> DEFINE start == blocks[cursor].eh_setup_block + 1
           call  == [eb |-> cursor, b |-> start, depth |-> 1]
<1>1. /\ UNCHANGED <<code, block_num, try_block_num, blocks, locals_kept, locals_set,
                     locals_ever_deleted, visited_eh_block>>
      /\ eh_calls = <<>> /\ eh_calls' = <<call>>
      /\ cursor \in AllBlocks /\ cursor' = cursor + 1
  BY DEF VisitBody
<1>2. EhGraph'
  BY <1>1, EhGraphRigid DEF EhGraph, SummaryTypes
<1>3. /\ block_num \in Nat /\ try_block_num \in Nat /\ AllBlocks' = AllBlocks
      /\ EhBlocks' = EhBlocks /\ \A eb \in EhBlocks : eb \in Nat /\ eb >= block_num
      /\ cursor \in EhBlocks /\ cursor \in Nat /\ CodeBlocks' = CodeBlocks
      /\ \A b : BlockStart(b)' = BlockStart(b)
  <2>1. block_num \in Nat /\ try_block_num \in Nat
    BY DEF EhGraph, GraphBuilt, Layout
  <2>2. cursor \in EhBlocks
    BY <1>1, <2>1 DEF EhInv, EhBlocks, AllBlocks, CodeBlocks
  <2> QED BY <1>1, <2>1, <2>2, GraphRigid DEF EhBlocks, AllBlocks, CodeBlocks
<1>4. InBody(cursor, start, 1)
  BY <1>3, FirstCall DEF EhGraph
<1>5. call \in Calls /\ call.eb = cursor /\ call.b = start /\ call.depth = 1
  BY <1>3, <1>4 DEF Calls, InBody
<1> HIDE DEF call
<1>6. /\ eh_calls' \in Seq(Calls) /\ Len(eh_calls') = 1 /\ eh_calls'[1] = call
  BY <1>1, <1>5
<1>7. \A eb \in EhBlocks : eb < cursor => Accounted(eb, locals_kept[eb])
  <2>1. TAKE eb \in EhBlocks
  <2>2. HAVE eb < cursor
  <2>3. eb < cursor - 1 \/ eb = cursor - 1
    BY <1>3, <2>2
  <2> QED BY <1>1, <2>3, WalkEnds DEF EhInv
<1>8. visited_eh_block' \in [AllBlocks -> {Nil} \cup block_num .. cursor]
      /\ \A b \in CodeBlocks : visited_eh_block'[b] # cursor
  <2>1. block_num .. cursor - 1 \subseteq block_num .. cursor /\ Nil # cursor
        /\ cursor \notin block_num .. cursor - 1
    BY <1>3, NilAssumption
  <2> QED BY <1>1, <2>1, BlockSets DEF EhInv, EhGraph, GraphBuilt
<1>9. ASSUME NEW eb \in EhBlocks, eb = cursor
      PROVE  Walking(eb)'
  <2>1. Visited(eb)' = {}
    BY <1>3, <1>8, <1>9 DEF Visited
  <2>2. Waiting(blocks[eb].eh_setup_block + 1)'
    BY <1>1, <1>5, <1>6, <1>9 DEF Waiting
  <2> QED BY <2>1, <2>2 DEF Walking
<1>10. ASSUME NEW eb \in EhBlocks, eb < cursor
       PROVE  Accounted(eb, locals_kept[eb])'
  BY <1>1, <1>7, <1>10, WalkRigid
<1>11. \A i \in 1 .. Len(eh_calls') :
         /\ eh_calls'[i].eb = cursor
         /\ InBody(eh_calls'[i].eb, eh_calls'[i].b, eh_calls'[i].depth)
  BY <1>4, <1>5, <1>6
<1>12. \A i \in 1 .. Len(eh_calls') :
         InBody(eh_calls[i].eb, eh_calls[i].b, eh_calls[i].depth)'
  BY <1>1, <1>11, WalkRigid
<1>13. EhInv'
  <2>1. cursor' \in block_num' .. block_num' + try_block_num'
    BY <1>1, <1>3 DEF AllBlocks
  <2>2. eh_calls' \in Seq(Calls')
    BY <1>1, <1>6, WalkRigid
  <2>3. cursor' - 1 = cursor
    BY <1>1, <1>3
  <2> QED BY <1>1, <1>3, <1>8, <1>9, <1>10, <1>11, <1>12, <2>1, <2>2, <2>3 DEF EhInv
<1> QED BY <1>2, <1>13

LEMMA Concat ==
  ASSUME NEW T, NEW r \in Seq(T), NEW f \in Seq(T), NEW q, q = r \o f
  PROVE  /\ q \in Seq(T) /\ Len(q) = Len(r) + Len(f)
         /\ \A i \in 1 .. Len(r) : q[i] = r[i]
         /\ \A i \in 1 .. Len(f) : q[Len(r) + i] = f[i]
<1>1. /\ r \o f \in Seq(T) /\ Len(r \o f) = Len(r) + Len(f)
      /\ \A i \in 1 .. Len(r) + Len(f) : (r \o f)[i] = IF i <= Len(r) THEN r[i] ELSE f[i - Len(r)]
  BY ConcatProperties
<1> QED BY <1>1

\* Every element of r is one of q's; those of q are all of r, f or g.
Among(r, q) == \A j \in 1 .. Len(r) : \E i \in 1 .. Len(q) : q[i] = r[j]

OneOf(q, r, f, g) ==
  \A i \in 1 .. Len(q) : \/ \E j \in 1 .. Len(r) : q[i] = r[j]
                         \/ \E j \in 1 .. Len(f) : q[i] = f[j]
                         \/ \E j \in 1 .. Len(g) : q[i] = g[j]

\* The calls pending after a call: those before, and those it makes.
LEMMA Queued ==
  ASSUME NEW T, NEW r \in Seq(T), NEW f \in Seq(T), NEW g \in Seq(T), NEW q, q = r \o f \o g
  PROVE  q \in Seq(T) /\ OneOf(q, r, f, g) /\ Among(r, q) /\ Among(f, q) /\ Among(g, q)
<1>1. Len(r) \in Nat /\ Len(f) \in Nat /\ Len(g) \in Nat
  OBVIOUS
<1>2. PICK h : h = r \o f
  OBVIOUS
<1>3. /\ h \in Seq(T) /\ Len(h) = Len(r) + Len(f)
      /\ \A i \in 1 .. Len(r) : h[i] = r[i]
      /\ \A i \in 1 .. Len(f) : h[Len(r) + i] = f[i]
  BY <1>2, Concat
<1>4. /\ q \in Seq(T) /\ Len(q) = Len(h) + Len(g)
      /\ \A i \in 1 .. Len(h) : q[i] = h[i]
      /\ \A i \in 1 .. Len(g) : q[Len(h) + i] = g[i]
  <2>1. q = h \o g
    BY <1>2
  <2>2. PICK k \in Seq(T) : k = h
    BY <1>3
  <2>3. /\ q \in Seq(T) /\ Len(q) = Len(k) + Len(g)
        /\ \A i \in 1 .. Len(k) : q[i] = k[i]
        /\ \A i \in 1 .. Len(g) : q[Len(k) + i] = g[i]
    <3>1. q = k \o g
      BY <2>1, <2>2
    <3> QED BY ONLY k \in Seq(T), g \in Seq(T), <3>1, Concat
  <2> QED BY <2>2, <2>3
<1>5. /\ q \in Seq(T) /\ Len(q) = Len(r) + Len(f) + Len(g)
      /\ \A i \in 1 .. Len(r) : q[i] = r[i]
      /\ \A i \in 1 .. Len(f) : q[Len(r) + i] = f[i]
      /\ \A i \in 1 .. Len(g) : q[Len(r) + Len(f) + i] = g[i]
  BY <1>1, <1>3, <1>4
<1>6. ASSUME NEW i \in 1 .. Len(q)
      PROVE  \/ \E j \in 1 .. Len(r) : q[i] = r[j]
             \/ \E j \in 1 .. Len(f) : q[i] = f[j]
             \/ \E j \in 1 .. Len(g) : q[i] = g[j]
  <2>1. CASE i <= Len(r)
    BY <1>1, <1>5, <2>1
  <2>2. CASE Len(r) < i /\ i <= Len(r) + Len(f)
    <3>1. i - Len(r) \in 1 .. Len(f) /\ Len(r) + (i - Len(r)) = i
      BY <1>1, <1>5, <2>2
    <3> QED BY <1>5, <3>1
  <2>3. CASE Len(r) + Len(f) < i
    <3>1. i - (Len(r) + Len(f)) \in 1 .. Len(g)
          /\ Len(r) + Len(f) + (i - (Len(r) + Len(f))) = i
      BY <1>1, <1>5, <2>3
    <3> QED BY <1>5, <3>1
  <2> QED BY <1>1, <1>5, <2>1, <2>2, <2>3
<1>7. ASSUME NEW j \in 1 .. Len(r) PROVE \E i \in 1 .. Len(q) : q[i] = r[j]
  <2>1. j \in 1 .. Len(q)
    BY <1>1, <1>5
  <2> QED BY <1>5, <2>1
<1>8. ASSUME NEW j \in 1 .. Len(f) PROVE \E i \in 1 .. Len(q) : q[i] = f[j]
  <2>1. Len(r) + j \in 1 .. Len(q)
    BY <1>1, <1>5
  <2> QED BY <1>5, <2>1
<1>9. ASSUME NEW j \in 1 .. Len(g) PROVE \E i \in 1 .. Len(q) : q[i] = g[j]
  <2>1. Len(r) + Len(f) + j \in 1 .. Len(q)
    BY <1>1, <1>5
  <2> QED BY <1>5, <2>1
<1> QED BY <1>5, <1>6, <1>7, <1>8, <1>9 DEF OneOf, Among

\* One call: blocks visited before stay accounted for, and what follows the block
\* visited now is visited or waiting.
LEMMA analyzeEHBlockKeeps ==
  ASSUME Compilable, EhGraph, EhInv, analyzeEHBlock, phase' # "rejected"
  PROVE  (EhGraph /\ EhInv)'
<1>1. PICK n \in Nat \ {0}, c \in Calls :
        /\ n = Len(eh_calls) /\ c = eh_calls[n]
        /\ c.eb = cursor - 1 /\ InBody(c.eb, c.b, c.depth)
  <2>1. eh_calls \in Seq(Calls) /\ eh_calls # <<>>
    BY DEF analyzeEHBlock, EhInv
  <2>2. Len(eh_calls) \in Nat \ {0} /\ eh_calls[Len(eh_calls)] \in Calls
    BY <2>1
  <2> QED BY <2>2 DEF EhInv
<1>2. PICK rest \in Seq(Calls) :
        /\ rest = SubSeq(eh_calls, 1, n - 1) /\ Len(rest) = n - 1
        /\ \A i \in 1 .. n - 1 : rest[i] = eh_calls[i]
  <2>1. PICK m \in 0 .. Len(eh_calls) : m = n - 1
    <3>1. n \in Nat \ {0} /\ n = Len(eh_calls)
      BY <1>1
    <3> QED BY ONLY <3>1
  <2>2. /\ SubSeq(eh_calls, 1, m) \in Seq(Calls) /\ Len(SubSeq(eh_calls, 1, m)) = m
        /\ \A i \in 1 .. m : SubSeq(eh_calls, 1, m)[i] = eh_calls[i]
    BY Prefix DEF EhInv
  <2> QED BY <2>1, <2>2
<1>3. PICK eb \in EhBlocks, b \in CodeBlocks, depth \in Nat \ {0} :
        eb = c.eb /\ b = c.b /\ depth = c.depth /\ eb = cursor - 1 /\ InBody(eb, b, depth)
  BY <1>1 DEF Calls
<1>4. PICK after : after = depth + (IF blocks[b].eh_body_enter THEN 1 ELSE 0)
                                 - (IF blocks[b].eh_body_exit THEN 1 ELSE 0)
  OBVIOUS
<1>5. PICK target : target = IF blocks[b].eh_body_enter THEN blocks[blocks[b].branch].branch
                                                        ELSE blocks[b].branch
  OBVIOUS
<1>6. PICK onFall : onFall = IF blocks[b].fall_through /\ after # 0
                               THEN <<[eb |-> eb, b |-> b + 1, depth |-> after]>> ELSE <<>>
  OBVIOUS
<1>7. PICK onBranch : onBranch = IF blocks[b].branch # Nil
                                   THEN <<[eb |-> eb, b |-> target, depth |-> depth]>> ELSE <<>>
  OBVIOUS
<1>8. /\ UNCHANGED <<code, cursor, block_num, try_block_num, blocks, locals_set,
                     locals_ever_deleted>>
      /\ \/ /\ visited_eh_block[b] = eb /\ eh_calls' = rest
            /\ UNCHANGED <<locals_kept, visited_eh_block>>
         \/ /\ visited_eh_block[b] # eb /\ eh_calls' = rest \o onFall \o onBranch
            /\ visited_eh_block' = [visited_eh_block EXCEPT ![b] = eb]
            /\ locals_kept' = [locals_kept EXCEPT ![eb] = @ \ locals_ever_deleted[b]]
  BY <1>1, <1>2, <1>3, <1>4, <1>5, <1>6, <1>7 DEF analyzeEHBlock
<1>9. /\ CodeBlocks' = CodeBlocks /\ EhBlocks' = EhBlocks /\ AllBlocks' = AllBlocks
      /\ \A x : BlockStart(x)' = BlockStart(x)
      /\ b \in AllBlocks /\ eb \in AllBlocks /\ eb \notin CodeBlocks
      /\ cursor \in Nat
  BY <1>8, GraphRigid, BlockSets DEF EhGraph, GraphBuilt, EhInv, Layout
<1>10. EhGraph'
  <2>1. locals_kept' \in [AllBlocks -> SUBSET Local]
        /\ \A x \in CodeBlocks : locals_kept'[x] = locals_kept[x]
    <3>1. CASE UNCHANGED locals_kept
      BY <3>1 DEF EhGraph, SummaryTypes
    <3>2. CASE locals_kept' = [locals_kept EXCEPT ![eb] = @ \ locals_ever_deleted[b]]
      BY <1>9, <3>2, BlockSets DEF EhGraph, GraphBuilt, SummaryTypes
    <3> QED BY <1>8, <3>1, <3>2
  <2> QED BY <1>8, <2>1, EhGraphRigid
<1>11. /\ blocks[b].fall_through /\ after # 0 => InBody(eb, b + 1, after)
       /\ blocks[b].branch # Nil => InBody(eb, target, depth)
       /\ \A s : Follows(eb, b, s) =>
            \/ blocks[b].fall_through /\ after # 0 /\ s = b + 1
            \/ blocks[b].branch # Nil /\ s = target
  <2>1. GraphBuilt /\ InBody(eb, b, depth)
    BY <1>3 DEF EhGraph
  <2> QED BY <1>4, <1>5, <2>1, CallReaches
<1>12. \A x \in EhBlocks : \A y, d : InBody(x, y, d) => [eb |-> x, b |-> y, depth |-> d] \in Calls
  BY CompilableFacts, Blocks, SetupFacts, DepthPositive DEF InBody, Calls, EhGraph, GraphBuilt
<1>13. /\ onFall \in Seq(Calls)
       /\ \A i \in 1 .. Len(onFall) :
            onFall[i].eb = eb /\ InBody(eb, onFall[i].b, onFall[i].depth)
       /\ blocks[b].fall_through /\ after # 0 =>
            \E i \in 1 .. Len(onFall) : onFall[i].b = b + 1
  <2>1. CASE blocks[b].fall_through /\ after # 0
    <3>1. PICK r \in Calls : r = [eb |-> eb, b |-> b + 1, depth |-> after]
      BY <1>11, <1>12, <2>1
    <3>2. onFall = <<r>> /\ r.eb = eb /\ r.b = b + 1 /\ r.depth = after
      BY <1>6, <2>1, <3>1
    <3> QED BY <1>11, <2>1, <3>2
  <2>2. CASE ~(blocks[b].fall_through /\ after # 0)
    BY <1>6, <2>2
  <2> QED BY <2>1, <2>2
<1>14. /\ onBranch \in Seq(Calls)
       /\ \A i \in 1 .. Len(onBranch) :
            onBranch[i].eb = eb /\ InBody(eb, onBranch[i].b, onBranch[i].depth)
       /\ blocks[b].branch # Nil => \E i \in 1 .. Len(onBranch) : onBranch[i].b = target
  <2>1. CASE blocks[b].branch # Nil
    <3>1. PICK r \in Calls : r = [eb |-> eb, b |-> target, depth |-> depth]
      BY <1>11, <1>12, <2>1
    <3>2. onBranch = <<r>> /\ r.eb = eb /\ r.b = target /\ r.depth = depth
      BY <1>7, <2>1, <3>1
    <3> QED BY <1>11, <2>1, <3>2
  <2>2. CASE ~(blocks[b].branch # Nil)
    BY <1>7, <2>2
  <2> QED BY <2>1, <2>2
<1>15. ASSUME NEW x \in EhBlocks, x < cursor - 1
       PROVE  locals_kept'[x] = locals_kept[x] /\ Accounted(x, locals_kept[x])
  <2>1. x # eb
    BY <1>3, <1>9, <1>15
  <2> QED BY <1>8, <1>9, <1>15, <2>1, BlockSets DEF EhInv, EhGraph, SummaryTypes, GraphBuilt
<1>16. \A x : Waiting(x) => x = b \/ \E i \in 1 .. Len(rest) : rest[i].b = x
  BY <1>1, <1>2, <1>3 DEF Waiting
<1>17. ASSUME eh_calls' \in Seq(Calls),
              \A i \in 1 .. Len(eh_calls') :
                /\ eh_calls'[i].eb = eb
                /\ InBody(eh_calls'[i].eb, eh_calls'[i].b, eh_calls'[i].depth),
              visited_eh_block' \in [AllBlocks -> {Nil} \cup block_num .. cursor - 1],
              Walking(eb)'
       PROVE  EhInv'
  <2>1. cursor' \in block_num' .. block_num' + try_block_num'
    BY <1>8 DEF EhInv
  <2>2. eh_calls' \in Seq(Calls')
    BY <1>8, <1>17, WalkRigid
  <2>3. \A i \in 1 .. Len(eh_calls') :
          InBody(eh_calls[i].eb, eh_calls[i].b, eh_calls[i].depth)'
    BY <1>8, <1>17, WalkRigid
  <2>4. ASSUME NEW x \in EhBlocks, x < cursor - 1
        PROVE  Accounted(x, locals_kept[x])'
    <3>1. PICK k : k = locals_kept[x] /\ k = locals_kept'[x] /\ Accounted(x, k)
      BY <1>15, <2>4
    <3>2. Accounted(x, k)'
      BY <1>8, <3>1, WalkRigid
    <3> QED BY <3>1, <3>2
  <2>5. \A x \in EhBlocks : x = cursor - 1 => Walking(x)'
    BY <1>3, <1>17
  <2> QED BY <1>3, <1>8, <1>9, <1>17, <2>1, <2>2, <2>3, <2>4, <2>5 DEF EhInv
<1>18. Walking(eb)
  BY <1>3 DEF EhInv
<1>19. CASE visited_eh_block[b] = eb /\ eh_calls' = rest
            /\ UNCHANGED <<locals_kept, visited_eh_block>>
  <2>1. \A x : Waiting(x) => x \in Visited(eb) \/ Waiting(x)'
    BY <1>16, <1>19 DEF Waiting, Visited
  <2>2. Visited(eb)' = Visited(eb)
    BY <1>9, <1>19 DEF Visited
  <2>3. \A i \in 1 .. Len(rest) : rest[i].eb = eb /\ InBody(rest[i].eb, rest[i].b, rest[i].depth)
    BY <1>1, <1>2, <1>3 DEF EhInv
  <2>4. Walking(eb)'
    BY <1>8, <1>9, <1>18, <1>19, <2>1, <2>2, WalkRigid, NestingRigid, UnitsRigid DEF Walking
  <2> QED BY <1>10, <1>17, <1>19, <2>3, <2>4 DEF EhInv
<1>20. CASE /\ visited_eh_block[b] # eb /\ eh_calls' = rest \o onFall \o onBranch
            /\ visited_eh_block' = [visited_eh_block EXCEPT ![b] = eb]
            /\ locals_kept' = [locals_kept EXCEPT ![eb] = @ \ locals_ever_deleted[b]]
  <2>1. PICK q \in Seq(Calls) :
          /\ q = eh_calls' /\ OneOf(q, rest, onFall, onBranch)
          /\ Among(rest, q) /\ Among(onFall, q) /\ Among(onBranch, q)
    <3>1. PICK q : q = eh_calls'
      OBVIOUS
    <3>2. q = rest \o onFall \o onBranch
      BY <1>20, <3>1
    <3>3. onFall \in Seq(Calls)
      BY <1>13
    <3>4. onBranch \in Seq(Calls)
      BY <1>14
    <3>5. /\ q \in Seq(Calls) /\ OneOf(q, rest, onFall, onBranch)
          /\ Among(rest, q) /\ Among(onFall, q) /\ Among(onBranch, q)
      BY ONLY rest \in Seq(Calls), <3>2, <3>3, <3>4, Queued
    <3> QED BY ONLY <3>1, <3>5
  <2>2. \A i \in 1 .. Len(eh_calls') :
          /\ eh_calls'[i].eb = eb
          /\ InBody(eh_calls'[i].eb, eh_calls'[i].b, eh_calls'[i].depth)
    <3>1. \A i \in 1 .. Len(rest) : rest[i].eb = eb /\ InBody(eb, rest[i].b, rest[i].depth)
      <4>1. TAKE i \in 1 .. Len(rest)
      <4>2. i \in 1 .. Len(eh_calls) /\ rest[i] = eh_calls[i]
        BY <1>1, <1>2
      <4>3. eh_calls[i].eb = cursor - 1
            /\ InBody(eh_calls[i].eb, eh_calls[i].b, eh_calls[i].depth)
        BY <4>2 DEF EhInv
      <4> QED BY <1>3, <4>2, <4>3
    <3>2. \A i \in 1 .. Len(onFall) : onFall[i].eb = eb /\ InBody(eb, onFall[i].b, onFall[i].depth)
      BY <1>13
    <3>3. \A i \in 1 .. Len(onBranch) :
            onBranch[i].eb = eb /\ InBody(eb, onBranch[i].b, onBranch[i].depth)
      BY <1>14
    <3>4. \A i \in 1 .. Len(q) : q[i].eb = eb /\ InBody(eb, q[i].b, q[i].depth)
      <4>1. TAKE i \in 1 .. Len(q)
      <4>2. \/ \E j \in 1 .. Len(rest) : q[i] = rest[j]
            \/ \E j \in 1 .. Len(onFall) : q[i] = onFall[j]
            \/ \E j \in 1 .. Len(onBranch) : q[i] = onBranch[j]
        BY <2>1 DEF OneOf
      <4>3. CASE \E j \in 1 .. Len(rest) : q[i] = rest[j]
        BY <3>1, <4>3
      <4>4. CASE \E j \in 1 .. Len(onFall) : q[i] = onFall[j]
        BY <3>2, <4>4
      <4>5. CASE \E j \in 1 .. Len(onBranch) : q[i] = onBranch[j]
        BY <3>3, <4>5
      <4> QED BY <4>2, <4>3, <4>4, <4>5
    <3> QED BY <2>1, <3>4
  <2>3. visited_eh_block' \in [AllBlocks -> {Nil} \cup block_num .. cursor - 1]
        /\ Visited(eb)' = Visited(eb) \cup {b}
    <3>1. eb \in {Nil} \cup block_num .. cursor - 1
      BY <1>3, <1>9 DEF EhInv, EhBlocks, AllBlocks, CodeBlocks, EhGraph, GraphBuilt, Layout
    <3>2. visited_eh_block' \in [AllBlocks -> {Nil} \cup block_num .. cursor - 1]
          /\ \A x \in AllBlocks : visited_eh_block'[x] = IF x = b THEN eb ELSE visited_eh_block[x]
      BY <1>9, <1>20, <3>1 DEF EhInv
    <3>3. CodeBlocks \subseteq AllBlocks
      BY BlockSets DEF EhGraph, GraphBuilt
    <3> QED BY <1>9, <3>2, <3>3 DEF Visited
  <2>4. locals_kept'[eb] = locals_kept[eb] \ EverDeleted(BlockStart(b), blocks[b].end_index)
    BY <1>9, <1>20 DEF EhGraph, SummaryTypes, Summaries
  <2>5. \A x : Waiting(x) => x \in Visited(eb)' \/ Waiting(x)'
    <3>1. \A x : (\E i \in 1 .. Len(rest) : rest[i].b = x) => Waiting(x)'
      <4>1. \A x : (\E i \in 1 .. Len(rest) : rest[i].b = x) =>
                     \E i \in 1 .. Len(q) : q[i].b = x
        BY <2>1 DEF Among
      <4> QED BY <2>1, <4>1 DEF Waiting
    <3> QED BY <1>16, <2>3, <3>1
  <2>6. \A s : Follows(eb, b, s) => Waiting(s)'
    <3>1. \A j \in 1 .. Len(onFall) : Waiting(onFall[j].b)'
      <4>1. TAKE j \in 1 .. Len(onFall)
      <4>2. PICK i \in 1 .. Len(eh_calls') : eh_calls'[i] = onFall[j]
        BY <2>1 DEF Among
      <4> QED BY <4>2 DEF Waiting
    <3>2. \A j \in 1 .. Len(onBranch) : Waiting(onBranch[j].b)'
      <4>1. TAKE j \in 1 .. Len(onBranch)
      <4>2. PICK i \in 1 .. Len(eh_calls') : eh_calls'[i] = onBranch[j]
        BY <2>1 DEF Among
      <4> QED BY <4>2 DEF Waiting
    <3>3. ASSUME blocks[b].fall_through /\ after # 0
          PROVE  \A s : s = b + 1 => Waiting(s)'
      BY <1>13, <3>1, <3>3
    <3>4. ASSUME blocks[b].branch # Nil
          PROVE  \A s : s = target => Waiting(s)'
      BY <1>14, <3>2, <3>4
    <3> QED BY <1>11, <3>3, <3>4
  <2>7. \A x \in Visited(eb) \cup {b} :
          /\ Within(SetupUnit(eb), BlockStart(x))
          /\ \A s : Follows(eb, x, s) => s \in Visited(eb)' \/ Waiting(s)'
          /\ locals_kept'[eb] \cap EverDeleted(BlockStart(x), blocks[x].end_index) = {}
    <3>1. Within(SetupUnit(eb), BlockStart(b))
      BY <1>3 DEF InBody
    <3> QED BY <1>18, <2>3, <2>4, <2>5, <2>6, <3>1 DEF Walking
  <2>8. blocks[eb].eh_setup_block + 1 \in Visited(eb)'
        \/ Waiting(blocks[eb].eh_setup_block + 1)'
    <3>1. PICK x : x = blocks[eb].eh_setup_block + 1
      OBVIOUS
    <3>2. x \in Visited(eb) \/ Waiting(x)
      BY <1>18, <3>1 DEF Walking
    <3>3. x \in Visited(eb)' \/ Waiting(x)'
      BY <2>3, <2>5, <3>2
    <3> QED BY <1>8, <3>1, <3>3
  <2>9. Walking(eb)'
    BY <1>8, <1>9, <2>3, <2>7, <2>8, WalkRigid, NestingRigid, UnitsRigid DEF Walking
  <2> QED BY <1>10, <1>17, <2>1, <2>2, <2>3, <2>9
<1> QED BY <1>8, <1>19, <1>20

-----------------------------------------------------------------------------
(* The worklist.                                                           *)

\* With no *args and no **kwargs the mask lets no more through than the
\* parameters, whichever way the machine shifts.
LEMMA MaskIsParameters ==
  ASSUME Compilable, NEW mask \in entryMasks(signature)
  PROVE  mask \subseteq Parameters(signature) /\ mask \subseteq Local
<1>1. signature.argcount \in Nat /\ signature.kwonly \in Nat
  BY DEF Compilable, Signature
<1>2. PICK n \in Nat : n = signature.argcount + signature.kwonly
  BY <1>1
<1>3. maskedArgs(signature) = n /\ Parameters(signature) = {x \in Local : x < n}
  BY <1>1, <1>2 DEF Compilable, maskedArgs, Parameters
<1> DEFINE left(chunk) == IF n > chunk * ChunkBits THEN n - chunk * ChunkBits ELSE 0
<1>4. \A x \in mask : x \in Local /\ (\/ x % ChunkBits < left(x \div ChunkBits)
                                      \/ x % ChunkBits < left(x \div ChunkBits) % ChunkBits)
  BY <1>3 DEF entryMasks
<1>5. ASSUME NEW x \in mask PROVE x < n
  <2>1. x \in Nat /\ ChunkBits \in Nat \ {0}
    BY <1>4, LocalAssumption, ChunkAssumption, FS_CardinalityType
  <2>2. PICK q \in Nat, r \in Nat : /\ q = x \div ChunkBits /\ r = x % ChunkBits
                                    /\ x = ChunkBits * q + r
    BY <2>1
  <2>3. PICK p \in Nat : p = q * ChunkBits /\ x = p + r
    BY <2>1, <2>2
  <2>4. PICK l \in Nat : l = (IF n > p THEN n - p ELSE 0) /\ l = left(x \div ChunkBits)
    <3>1. (x \div ChunkBits) * ChunkBits = p
      BY <2>2, <2>3
    <3>2. left(x \div ChunkBits) = IF n > p THEN n - p ELSE 0
      BY <3>1
    <3>3. (IF n > p THEN n - p ELSE 0) \in Nat
      OBVIOUS
    <3> HIDE DEF left
    <3> QED BY <3>2, <3>3
  <2>5. l % ChunkBits <= l /\ l % ChunkBits \in Nat
    BY <2>1
  <2> HIDE DEF left
  <2>6. r < l \/ r < l % ChunkBits
    BY <1>4, <2>2, <2>4
  <2>7. r < l
    BY <2>5, <2>6
  <2> QED BY <2>3, <2>4, <2>7
<1> QED BY <1>3, <1>4, <1>5

\* Every block's successors are blocks, and the last block has none after it.
LEMMA WellFormedGraph ==
  ASSUME Compilable, EhGraph
  PROVE  LET branch       == [b \in AllBlocks |-> blocks[b].branch]
             fall_through == [b \in AllBlocks |-> blocks[b].fall_through]
             n            == block_num + try_block_num
         IN  /\ n \in Nat \ {0} /\ AllBlocks = 0 .. n - 1
             /\ branch \in [AllBlocks -> AllBlocks \cup {Nil}]
             /\ fall_through \in [AllBlocks -> BOOLEAN]
             /\ ~fall_through[n - 1]
             /\ locals_kept \in [AllBlocks -> SUBSET Local]
             /\ locals_set \in [AllBlocks -> SUBSET Local]
<1>1. /\ CodeOK /\ Layout /\ Fields /\ SetupsLinked /\ SummaryTypes
      /\ block_num \in Nat \ {0} /\ try_block_num \in Nat
  BY CompilableFacts DEF EhGraph, GraphBuilt, Layout
<1>2. PICK n \in Nat \ {0} : n = block_num + try_block_num /\ AllBlocks = 0 .. n - 1
  BY <1>1 DEF AllBlocks
<1>3. \A b \in AllBlocks : blocks[b].branch \in AllBlocks \cup {Nil}
                           /\ blocks[b].fall_through \in BOOLEAN
  <2>1. ASSUME NEW b \in CodeBlocks
        PROVE  blocks[b].branch \in AllBlocks \cup {Nil} /\ blocks[b].fall_through \in BOOLEAN
    <3>1. CASE ~Jumps(TailOp(b))
      BY <1>1, <3>1 DEF Fields
    <3>2. CASE isTryBlockSetup(TailOp(b))
      BY <1>1, <3>2, BlockSets DEF Fields, SetupsLinked
    <3>3. CASE Jumps(TailOp(b)) /\ ~isTryBlockSetup(TailOp(b))
      BY <1>1, <3>3, BlockSets DEF Fields, LeadsTo
    <3> QED BY <3>1, <3>2, <3>3
  <2>2. ASSUME NEW b \in EhBlocks
        PROVE  blocks[b].branch \in AllBlocks \cup {Nil} /\ blocks[b].fall_through \in BOOLEAN
    BY <1>1, BlockSets DEF Fields, LeadsTo
  <2> QED BY <1>1, <2>1, <2>2, BlockSets
<1>4. ~blocks[n - 1].fall_through /\ n - 1 \in AllBlocks
  <2>1. CASE try_block_num = 0
    <3>1. n - 1 = block_num - 1 /\ n - 1 \in CodeBlocks
      BY <1>1, <1>2, <2>1 DEF CodeBlocks
    <3>2. ~(block_num \in CodeBlocks) /\ n - 1 + 1 = block_num
      BY <1>1, <1>2, <2>1 DEF CodeBlocks
    <3> QED BY <1>1, <1>2, <3>1, <3>2, Blocks, BlockSets DEF Fields
  <2>2. CASE try_block_num # 0
    <3>1. n - 1 \in EhBlocks
      BY <1>1, <1>2, <2>2 DEF EhBlocks, AllBlocks, CodeBlocks
    <3> QED BY <1>1, <3>1, BlockSets DEF Fields
  <2> QED BY <2>1, <2>2
<1> QED BY <1>1, <1>2, <1>3, <1>4 DEF SummaryTypes

AllAccounted == \A eb \in EhBlocks : Accounted(eb, locals_kept[eb])

\* The worklist's own invariant, and what it started from.
FlowInv ==
  /\ Worklist!IInv /\ Worklist!SettledOffList
  /\ entry_locals \subseteq Parameters(signature)

LEMMA WorklistStarts == Worklist!Init' => Worklist!IInv' /\ Worklist!SettledOffList'
<1>1. Worklist!Init => Worklist!IInv /\ Worklist!SettledOffList
  BY NilAssumption, Worklist!InitIInv, Worklist!InitSettled
<1> QED BY <1>1, PTL

LEMMA StartFlowMakes ==
  ASSUME Compilable, EhGraph, EhInv, StartFlow
  PROVE  (EhGraph /\ AllAccounted /\ FlowInv)' /\ Flow!Init'
<1>1. /\ UNCHANGED <<code, block_num, try_block_num, blocks, locals_kept, locals_set,
                     locals_ever_deleted, signature>>
      /\ eh_calls = <<>> /\ cursor \notin AllBlocks
      /\ entry_locals' \in entryMasks(signature)
      /\ worklist_head' = 0 /\ worklist_link' = ArrayOrder
      /\ locals_input'  = [b \in AllBlocks |-> IF b = 0 THEN entry_locals' ELSE Local]
  BY DEF StartFlow, analysis
<1>2. EhGraph' /\ Compilable'
  BY <1>1, EhGraphRigid, CompilableRigid DEF EhGraph, SummaryTypes
<1>3. AllAccounted
  <2>1. SUFFICES ASSUME NEW eb \in EhBlocks PROVE Accounted(eb, locals_kept[eb])
    BY DEF AllAccounted
  <2>2. /\ block_num \in Nat /\ try_block_num \in Nat
        /\ cursor \in block_num .. block_num + try_block_num
    BY DEF EhGraph, GraphBuilt, Layout, EhInv
  <2>3. eb \in Nat /\ (eb < cursor - 1 \/ eb = cursor - 1)
    BY <1>1, <2>2 DEF EhBlocks, AllBlocks, CodeBlocks
  <2> QED BY <1>1, <2>3, WalkEnds DEF EhInv
<1>4. AllAccounted'
  <2>1. EhBlocks' = EhBlocks
    BY <1>1, GraphRigid
  <2>2. ASSUME NEW eb \in EhBlocks PROVE Accounted(eb, locals_kept[eb])'
    BY <1>1, <1>3, <2>2, WalkRigid DEF AllAccounted
  <2> QED BY <2>1, <2>2 DEF AllAccounted
<1>5. entry_locals' \subseteq Parameters(signature) /\ entry_locals' \subseteq Local
  BY <1>1, MaskIsParameters
<1>6. AllBlocks' = AllBlocks
  BY <1>1, GraphRigid
<1>7. worklist_link' = [b \in AllBlocks |-> IF b = block_num + try_block_num - 1
                                              THEN Nil ELSE b + 1]
  <2>1. \A b \in AllBlocks : b + 1 \in AllBlocks <=> b # block_num + try_block_num - 1
    BY WellFormedGraph DEF AllBlocks, EhGraph, GraphBuilt, Layout
  <2> QED BY <1>1, <2>1 DEF ArrayOrder
<1>8. Flow!Init'
  BY <1>1, <1>2, <1>5, <1>6, <1>7, WellFormedGraph
     DEF Flow!Init, Flow!GraphOK, Flow!Block, Flow!next, AllBlocks
<1>9. Worklist!Init'
  BY <1>8 DEF Flow!Init, Flow!GraphOK, Flow!Block, Flow!next,
              Worklist!Init, Worklist!GraphOK, Worklist!Block, Worklist!next
<1>10. Worklist!IInv' /\ Worklist!SettledOffList'
  BY <1>9, WorklistStarts
<1>11. Parameters(signature)' = Parameters(signature)
  BY <1>1 DEF Parameters
<1> QED BY <1>2, <1>4, <1>5, <1>8, <1>10, <1>11 DEF FlowInv

LEMMA WorklistTurns ==
  Worklist!IInv /\ Worklist!SettledOffList /\ [Worklist!Next]_Worklist!vars
    => Worklist!IInv' /\ Worklist!SettledOffList'
BY NilAssumption, Worklist!StepIInv, Worklist!StepSettled

LEMMA FlowStepKeeps ==
  ASSUME Compilable, EhGraph, AllAccounted, FlowInv, FlowStep
  PROVE  (EhGraph /\ AllAccounted /\ FlowInv)'
<1>1. /\ UNCHANGED <<code, block_num, try_block_num, blocks, locals_kept, locals_set,
                     locals_ever_deleted, signature, entry_locals>>
      /\ Flow!ProcessHead
  BY DEF FlowStep, parseVars, analysis, Flow!ProcessHead, Flow!graph
<1>2. EhGraph'
  BY <1>1, EhGraphRigid DEF EhGraph, SummaryTypes
<1>3. AllAccounted'
  <2>1. EhBlocks' = EhBlocks
    BY <1>1, GraphRigid
  <2>2. ASSUME NEW eb \in EhBlocks PROVE Accounted(eb, locals_kept[eb])'
    BY <1>1, <2>2, WalkRigid DEF AllAccounted
  <2> QED BY <2>1, <2>2 DEF AllAccounted
<1>4. Worklist!ProcessHead
  BY <1>1 DEF Flow!ProcessHead, Flow!Push, Flow!Block, Flow!Successors, Flow!block_output,
              Flow!next, Flow!graph, Worklist!ProcessHead, Worklist!Push, Worklist!Block,
              Worklist!Successors, Worklist!block_output, Worklist!next, Worklist!graph
<1>5. Worklist!IInv' /\ Worklist!SettledOffList'
  BY <1>4, WorklistTurns DEF FlowInv, Worklist!Next
<1>6. Parameters(signature)' = Parameters(signature)
  BY <1>1 DEF Parameters
<1> QED BY <1>1, <1>2, <1>3, <1>5, <1>6 DEF FlowInv

-----------------------------------------------------------------------------
(* The code that runs.                                                     *)

\* What the code of block b leaves assigned if what is claimed at its start is.
Out(b) ==
  LET lo == BlockStart(b)
      hi == blocks[b].end_index
  IN  (locals_input[b] \ TouchedIn(lo, hi)) \cup (TouchedIn(lo, hi) \ DeletedLast(lo, hi))

\* What the analysis claims about the edges of the code: along each a local is
\* claimed only if it is assigned, and at a handler only if it was claimed where
\* the try block is set up and the body never deletes it.
Claims ==
  /\ locals_input \in [AllBlocks -> SUBSET Local]
  /\ locals_input[0] \subseteq Parameters(signature)
  /\ \A b \in CodeBlocks : ~isTerminator(TailOp(b)) => locals_input[b + 1] \subseteq Out(b)
  /\ \A b, s \in CodeBlocks :
       /\ Jumps(TailOp(b)) /\ ~isTryBlockSetup(TailOp(b))
       /\ BlockStart(s) = Destination(code, LastUnit(b))
       => locals_input[s] \subseteq Out(b)
  /\ \A eb \in EhBlocks :
       /\ locals_input[eb] \subseteq Out(blocks[eb].eh_setup_block)
       /\ locals_input[blocks[eb].branch] \subseteq locals_input[eb] \cap locals_kept[eb]

RunGraph ==
  /\ Layout /\ Fields /\ SetupsCut /\ SummaryTypes /\ Summaries /\ AllAccounted /\ Claims

\* An empty list: what every block claims, its predecessors provide.
LEMMA SettledClaims ==
  ASSUME Compilable, EhGraph, FlowInv, worklist_head = Nil
  PROVE  Claims
<1>1. Worklist!SoundWhenDone
  BY NilAssumption, Worklist!SettledSound DEF FlowInv
<1>2. /\ CodeOK /\ Layout /\ Fields /\ SetupsLinked /\ SummaryTypes /\ Summaries
      /\ Worklist!Block = AllBlocks
  <2>1. CodeOK /\ Layout /\ Fields /\ SetupsLinked /\ SummaryTypes /\ Summaries
    BY CompilableFacts DEF EhGraph, GraphBuilt
  <2>2. block_num \in Nat /\ try_block_num \in Nat
    BY <2>1 DEF Layout
  <2>3. Worklist!Block = AllBlocks
    BY <2>2 DEF Worklist!Block, AllBlocks
  <2> QED BY <2>1, <2>3
<1>3. locals_input \in [AllBlocks -> SUBSET Local]
  BY <1>2 DEF FlowInv, Worklist!IInv, Worklist!TypeOK
<1>4. ASSUME NEW b \in AllBlocks, NEW s \in AllBlocks,
             s = blocks[b].branch \/ (blocks[b].fall_through /\ s = b + 1)
      PROVE  locals_input[s] \subseteq (locals_input[b] \cap locals_kept[b]) \cup locals_set[b]
  <2>1. b \in Worklist!Block /\ s \in Worklist!Successors(b)
    BY <1>2, <1>4 DEF Worklist!Successors, Worklist!next
  <2>2. locals_input[s] \subseteq Worklist!block_output(b)
    BY <1>1, <2>1 DEF Worklist!SoundWhenDone
  <2> QED BY <2>2 DEF Worklist!block_output
<1>5. ASSUME NEW b \in CodeBlocks
      PROVE  (locals_input[b] \cap locals_kept[b]) \cup locals_set[b] \subseteq Out(b)
  BY <1>2, <1>3, BlockSets DEF Summaries, Out
<1>6. locals_input[0] \subseteq Parameters(signature)
  BY <1>1 DEF Worklist!SoundWhenDone, FlowInv
<1>7. ASSUME NEW b \in CodeBlocks, ~isTerminator(TailOp(b))
      PROVE  locals_input[b + 1] \subseteq Out(b)
  <2>1. b \in AllBlocks /\ b + 1 \in AllBlocks /\ blocks[b].fall_through
    BY <1>2, <1>7, Blocks, BlockSets DEF Fields
  <2> QED BY <1>4, <1>5, <2>1
<1>8. ASSUME NEW b \in CodeBlocks, NEW s \in CodeBlocks,
             Jumps(TailOp(b)), ~isTryBlockSetup(TailOp(b)),
             BlockStart(s) = Destination(code, LastUnit(b))
      PROVE  locals_input[s] \subseteq Out(b)
  <2>1. s = blocks[b].branch
    BY <1>2, <1>8, SameStart DEF Fields, LeadsTo
  <2>2. b \in AllBlocks /\ s \in AllBlocks
    BY <1>2, BlockSets
  <2> QED BY <1>4, <1>5, <2>1, <2>2
<1>9. ASSUME NEW eb \in EhBlocks
      PROVE  /\ locals_input[eb] \subseteq Out(blocks[eb].eh_setup_block)
             /\ locals_input[blocks[eb].branch] \subseteq locals_input[eb] \cap locals_kept[eb]
  <2>1. PICK b \in CodeBlocks : b = blocks[eb].eh_setup_block /\ isTryBlockSetup(TailOp(b))
    BY <1>2 DEF Fields
  <2>2. blocks[b].branch = eb
    BY <1>2, <2>1 DEF Fields, SetupsLinked
  <2>3. PICK h \in CodeBlocks : h = blocks[eb].branch
    BY <1>2 DEF Fields, LeadsTo
  <2>4. b \in AllBlocks /\ eb \in AllBlocks /\ h \in AllBlocks /\ locals_set[eb] = {}
    BY <1>2, BlockSets DEF SummaryTypes
  <2>5. locals_input[eb] \subseteq Out(b)
    BY <1>4, <1>5, <2>2, <2>4
  <2>6. locals_input[h] \subseteq (locals_input[eb] \cap locals_kept[eb]) \cup locals_set[eb]
    BY <1>4, <2>3, <2>4
  <2> QED BY <2>1, <2>3, <2>4, <2>5, <2>6
<1> QED BY <1>3, <1>6, <1>7, <1>8, <1>9 DEF Claims

\* Cutting the exception blocks out changes no more than the branches of set-ups.
LEMMA CutBlocks ==
  ASSUME Compilable, GraphBuilt, StartRun
  PROVE  /\ CodeBlocks' = CodeBlocks /\ AllBlocks' = AllBlocks /\ EhBlocks' = EhBlocks
         /\ \A b \in AllBlocks :
              /\ blocks'[b].end_index = blocks[b].end_index
              /\ blocks'[b].fall_through = blocks[b].fall_through
              /\ blocks'[b].eh_body_enter = blocks[b].eh_body_enter
              /\ blocks'[b].eh_body_exit = blocks[b].eh_body_exit
              /\ blocks'[b].eh_setup_block = blocks[b].eh_setup_block
              /\ blocks'[b].branch = IF blocks[b].eh_body_enter
                                       THEN blocks[blocks[b].branch].branch ELSE blocks[b].branch
         /\ \A b \in CodeBlocks : /\ BlockStart(b)' = BlockStart(b)
                                  /\ LastUnit(b)' = LastUnit(b) /\ TailOp(b)' = TailOp(b)
         /\ \A eb \in EhBlocks : SetupUnit(eb)' = SetupUnit(eb)
<1>1. UNCHANGED <<code, block_num, try_block_num>>
  BY DEF StartRun
<1>2. CodeBlocks' = CodeBlocks /\ AllBlocks' = AllBlocks /\ EhBlocks' = EhBlocks
  BY <1>1 DEF CodeBlocks, AllBlocks, EhBlocks
<1>3. ASSUME NEW b \in AllBlocks
      PROVE  /\ blocks'[b].end_index = blocks[b].end_index
             /\ blocks'[b].fall_through = blocks[b].fall_through
             /\ blocks'[b].eh_body_enter = blocks[b].eh_body_enter
             /\ blocks'[b].eh_body_exit = blocks[b].eh_body_exit
             /\ blocks'[b].eh_setup_block = blocks[b].eh_setup_block
             /\ blocks'[b].branch = IF blocks[b].eh_body_enter
                                      THEN blocks[blocks[b].branch].branch ELSE blocks[b].branch
  <2>1. PICK r : r = blocks[b] /\ IsBlock(r)
    BY DEF GraphBuilt, Arrayed
  <2>2. PICK to : to = blocks[blocks[b].branch].branch
    OBVIOUS
  <2>3. blocks'[b] = IF r.eh_body_enter THEN [r EXCEPT !.branch = to] ELSE r
    BY <2>1, <2>2 DEF StartRun
  <2>4. PICK r2 : r2 = [r EXCEPT !.branch = to]
    OBVIOUS
  <2>5. /\ r2.end_index = r.end_index /\ r2.fall_through = r.fall_through
        /\ r2.eh_body_enter = r.eh_body_enter /\ r2.eh_body_exit = r.eh_body_exit
        /\ r2.eh_setup_block = r.eh_setup_block /\ r2.branch = to
    BY <2>1, <2>4 DEF IsBlock
  <2>6. CASE r.eh_body_enter
    BY <2>1, <2>2, <2>3, <2>4, <2>5, <2>6
  <2>7. CASE ~r.eh_body_enter
    BY <2>1, <2>3, <2>7
  <2> QED BY <2>6, <2>7
<1>4. ASSUME NEW b \in CodeBlocks
      PROVE  BlockStart(b)' = BlockStart(b) /\ LastUnit(b)' = LastUnit(b) /\ TailOp(b)' = TailOp(b)
  <2>1. b \in AllBlocks /\ (b # 0 => b - 1 \in AllBlocks)
    BY BlockSets DEF GraphBuilt, Layout, CodeBlocks, AllBlocks
  <2> QED BY <1>1, <1>3, <2>1 DEF BlockStart, LastUnit, TailOp, Op
<1>5. ASSUME NEW eb \in EhBlocks PROVE SetupUnit(eb)' = SetupUnit(eb)
  <2>1. PICK b \in CodeBlocks : b = blocks[eb].eh_setup_block
    BY DEF GraphBuilt, Fields
  <2>2. eb \in AllBlocks
    BY BlockSets DEF GraphBuilt
  <2>3. b = blocks'[eb].eh_setup_block
    BY <1>3, <2>1, <2>2
  <2> QED BY <1>4, <2>1, <2>3 DEF SetupUnit
<1> QED BY <1>2, <1>3, <1>4, <1>5

LEMMA StartRunMakes ==
  ASSUME Compilable, EhGraph, AllAccounted, FlowInv, StartRun
  PROVE  RunGraph'
<1>1. /\ UNCHANGED <<code, block_num, try_block_num, locals_kept, locals_set,
                     locals_ever_deleted, signature, locals_input>>
      /\ worklist_head = Nil
  BY DEF StartRun, analysis, flowVars
<1>2. /\ GraphBuilt /\ SummaryTypes /\ Summaries /\ Layout /\ Fields /\ SetupsLinked
      /\ Claims /\ CodeOK
  BY <1>1, SettledClaims, CompilableFacts DEF EhGraph, GraphBuilt
<1>3. /\ CodeBlocks' = CodeBlocks /\ AllBlocks' = AllBlocks /\ EhBlocks' = EhBlocks
      /\ CodeBlocks \subseteq AllBlocks /\ EhBlocks \subseteq AllBlocks
      /\ CodeBlocks \cap EhBlocks = {}
  BY <1>2, CutBlocks, BlockSets
<1>4. \A b \in CodeBlocks : /\ BlockStart(b)' = BlockStart(b) /\ LastUnit(b)' = LastUnit(b)
                            /\ TailOp(b)' = TailOp(b)
                            /\ blocks'[b].end_index = blocks[b].end_index
  BY <1>2, <1>3, CutBlocks
<1>5. Layout'
  <2>1. block_num - 1 \in CodeBlocks
    BY <1>2 DEF Layout, CodeBlocks
  <2> QED BY <1>1, <1>2, <1>3, <1>4, <2>1 DEF Layout, Op, py_instr_num
<1>6. \A eb \in EhBlocks : /\ blocks'[eb].branch = blocks[eb].branch
                           /\ blocks'[eb].branch \in CodeBlocks
                           /\ blocks'[eb].eh_setup_block = blocks[eb].eh_setup_block
                           /\ blocks'[eb].fall_through = FALSE
                           /\ blocks'[eb].eh_body_enter = FALSE
                           /\ blocks[eb].eh_setup_block \in CodeBlocks
  BY <1>2, <1>3, CutBlocks DEF Fields, LeadsTo
<1>7. Fields'
  <2>1. ASSUME NEW b \in CodeBlocks
        PROVE  /\ blocks'[b].fall_through = ~isTerminator(TailOp(b))
               /\ blocks'[b].eh_body_enter = isTryBlockSetup(TailOp(b))
               /\ blocks'[b].eh_body_exit = (TailOp(b) = "POP_BLOCK")
               /\ ~Jumps(TailOp(b)) => blocks'[b].branch = Nil
               /\ Jumps(TailOp(b)) /\ ~isTryBlockSetup(TailOp(b)) =>
                    /\ blocks'[b].branch \in CodeBlocks
                    /\ BlockStart(blocks'[b].branch) = Destination(code, LastUnit(b))
    <3>1. ~isTryBlockSetup(TailOp(b)) => blocks'[b].branch = blocks[b].branch
      BY <1>2, <1>3, CutBlocks DEF Fields
    <3>2. isTryBlockSetup(TailOp(b)) => Jumps(TailOp(b))
      BY Opcodes
    <3> QED BY <1>2, <1>3, <3>1, <3>2, CutBlocks DEF Fields, LeadsTo
  <2>2. ASSUME NEW b \in CodeBlocks, Jumps(TailOp(b)), ~isTryBlockSetup(TailOp(b))
        PROVE  LeadsTo(b, LastUnit(b))'
    <3>1. PICK s \in CodeBlocks : /\ s = blocks'[b].branch
                                  /\ BlockStart(s) = Destination(code, LastUnit(b))
      BY <2>1, <2>2
    <3>2. BlockStart(s)' = Destination(code, LastUnit(b))'
      BY <1>1, <1>4, <3>1
    <3> QED BY <1>3, <3>1, <3>2 DEF LeadsTo
  <2>3. ASSUME NEW eb \in EhBlocks
        PROVE  LeadsTo(eb, LastUnit(blocks[eb].eh_setup_block))'
    <3>1. PICK s \in CodeBlocks, b \in CodeBlocks :
            /\ s = blocks[eb].branch /\ b = blocks[eb].eh_setup_block
            /\ BlockStart(s) = Destination(code, LastUnit(b))
      BY <1>2 DEF Fields, LeadsTo
    <3>2. BlockStart(s)' = Destination(code, LastUnit(b))'
      BY <1>1, <1>4, <3>1
    <3>3. s = blocks'[eb].branch /\ b = blocks'[eb].eh_setup_block
      BY <1>6, <3>1
    <3> QED BY <1>3, <3>2, <3>3 DEF LeadsTo
  <2>4. \A eb, fb \in EhBlocks :
          blocks'[eb].eh_setup_block = blocks'[fb].eh_setup_block => eb = fb
    BY <1>2, <1>6 DEF Fields
  <2>5. ASSUME NEW eb \in EhBlocks
        PROVE  isTryBlockSetup(TailOp(blocks[eb].eh_setup_block))'
    <3>1. PICK b \in CodeBlocks : b = blocks[eb].eh_setup_block /\ isTryBlockSetup(TailOp(b))
      BY <1>2 DEF Fields
    <3>2. b = blocks'[eb].eh_setup_block /\ TailOp(b)' = TailOp(b)
      BY <1>4, <1>6, <3>1
    <3> QED BY <3>1, <3>2
  <2> QED BY <1>3, <1>4, <1>6, <2>1, <2>2, <2>3, <2>4, <2>5 DEF Fields
<1>8. SetupsCut'
  <2>1. ASSUME NEW b \in CodeBlocks, isTryBlockSetup(TailOp(b))
        PROVE  \E eb \in EhBlocks : /\ blocks'[eb].eh_setup_block = b
                                    /\ blocks'[b].branch = blocks'[eb].branch
    <3>1. PICK eb \in EhBlocks : eb = blocks[b].branch /\ blocks[eb].eh_setup_block = b
      BY <1>2, <2>1 DEF SetupsLinked
    <3>2. blocks'[b].branch = blocks[eb].branch
      BY <1>2, <1>3, <2>1, <3>1, CutBlocks DEF Fields
    <3> QED BY <1>6, <3>1, <3>2
  <2> QED BY <1>3, <1>4, <2>1 DEF SetupsCut
<1>9. SummaryTypes'
  BY <1>1, <1>2, <1>3 DEF SummaryTypes
<1>10. \A lo, hi : /\ TouchedIn(lo, hi)' = TouchedIn(lo, hi)
                   /\ DeletedLast(lo, hi)' = DeletedLast(lo, hi)
                   /\ EverDeleted(lo, hi)' = EverDeleted(lo, hi)
  BY <1>1 DEF TouchedIn, DeletedLast, EverDeleted, Touches, Deletes, Op
<1>11. Summaries'
  BY <1>1, <1>2, <1>3, <1>4, <1>10 DEF Summaries
<1>12. AllAccounted'
  <2>1. ASSUME NEW eb \in EhBlocks, NEW b \in CodeBlocks, NEW s
        PROVE  Follows(eb, b, s)' <=> Follows(eb, b, s)
    <3>1. SetupUnit(eb)' = SetupUnit(eb)
      BY <1>2, CutBlocks
    <3> QED BY <1>1, <1>3, <1>4, <3>1, NestingRigid DEF Follows
  <2>2. ASSUME NEW eb \in EhBlocks PROVE Accounted(eb, locals_kept[eb])'
    <3>1. PICK V : Covers(eb, V, locals_kept[eb])
      BY DEF AllAccounted, Accounted
    <3>2. V \in SUBSET CodeBlocks /\ V \in SUBSET CodeBlocks'
      BY <1>3, <3>1 DEF Covers
    <3>3. blocks'[eb].eh_setup_block + 1 \in V
      BY <1>6, <3>1 DEF Covers
    <3>4. \A b \in V : \A s : Follows(eb, b, s)' => s \in V
      BY <2>1, <3>1, <3>2 DEF Covers
    <3>5. \A b \in V : locals_kept[eb] \cap EverDeleted(BlockStart(b), blocks[b].end_index) = {}
      BY <3>1 DEF Covers
    <3>6. \A b \in V : EverDeleted(BlockStart(b), blocks[b].end_index)'
                         = EverDeleted(BlockStart(b), blocks[b].end_index)
      BY <1>4, <1>10, <3>2
    <3>7. Covers(eb, V, locals_kept[eb])'
      BY <1>1, <3>2, <3>3, <3>4, <3>5, <3>6 DEF Covers
    <3> QED BY <3>7 DEF Accounted
  <2> QED BY <1>3, <2>2 DEF AllAccounted
<1>13. Claims'
  <2>1. ASSUME NEW b \in CodeBlocks PROVE Out(b)' = Out(b)
    BY <1>1, <1>4, <1>10 DEF Out
  <2>2. Parameters(signature)' = Parameters(signature)
    BY <1>1 DEF Parameters
  <2>3. ASSUME NEW eb \in EhBlocks
        PROVE  /\ locals_input[eb] \subseteq Out(blocks[eb].eh_setup_block)'
               /\ locals_input[blocks'[eb].branch] \subseteq locals_input[eb] \cap locals_kept[eb]
    <3>1. PICK b \in CodeBlocks : b = blocks[eb].eh_setup_block
      BY <1>6
    <3>2. b = blocks'[eb].eh_setup_block /\ blocks'[eb].branch = blocks[eb].branch
      BY <1>6, <3>1
    <3>3. locals_input[eb] \subseteq Out(b)'
      BY <1>2, <2>1, <3>1 DEF Claims
    <3> QED BY <1>2, <3>2, <3>3 DEF Claims
  <2>4. \A b \in CodeBlocks : ~isTerminator(TailOp(b))' => locals_input[b + 1] \subseteq Out(b)'
    BY <1>2, <1>4, <2>1 DEF Claims
  <2>5. \A b, s \in CodeBlocks :
          /\ Jumps(TailOp(b))' /\ ~isTryBlockSetup(TailOp(b))'
          /\ BlockStart(s)' = Destination(code, LastUnit(b))'
          => locals_input[s] \subseteq Out(b)'
    <3>1. \A b \in CodeBlocks : Destination(code, LastUnit(b))' = Destination(code, LastUnit(b))
      BY <1>1, <1>4
    <3> QED BY <1>2, <1>4, <2>1, <3>1 DEF Claims
  <2>6. /\ locals_input \in [AllBlocks -> SUBSET Local]
        /\ locals_input[0] \subseteq Parameters(signature)
    BY <1>2 DEF Claims
  <2> QED BY <1>1, <1>3, <2>2, <2>3, <2>4, <2>5, <2>6 DEF Claims
<1> QED BY <1>5, <1>7, <1>8, <1>9, <1>11, <1>12, <1>13 DEF RunGraph

-----------------------------------------------------------------------------
(* Running.                                                                *)

\* What is assigned at unit hi if the units from lo on complete, those of S being
\* assigned at lo.
Promise(lo, hi, S) == (S \ TouchedIn(lo, hi)) \cup (TouchedIn(lo, hi) \ DeletedLast(lo, hi))

\* The blocks of the body of eb's try block, and the exception block of the try
\* block that unit u sets up.
Body(eb) == CHOOSE V : Covers(eb, V, locals_kept[eb])

EhOf(u) == CHOOSE eb \in EhBlocks : SetupUnit(eb) = u

Slots == {"SETUP_FINALLY", "EXCEPT_HANDLER"} \X (CodeBlocks \cup {Nil})

\* Place i of the block stack K, at unit p, is for the try block whose exception
\* block is eb: the block that runs is in its body, as are the set-ups of the try
\* blocks inside, and its handler would find assigned what is claimed there.
Guards(eb, i, p, S, K) ==
  LET u == nesting[p][i].setup
  IN  /\ eb \in EhBlocks /\ SetupUnit(eb) = u
      /\ K[i] = <<"SETUP_FINALLY", blocks[eb].branch>>
      /\ Len(nesting[u]) = i - 1 /\ \A j \in 1 .. i - 1 : nesting[u][j] = nesting[p][j]
      /\ BlockOf(p) \in Body(eb)
      /\ locals_input[blocks[eb].branch] \subseteq S
      /\ \A j \in 1 .. i - 1 : nesting[p][j].try =>
           blocks[eb].eh_setup_block \in Body(EhOf(nesting[p][j].setup))

\* The block stack is what the nesting says.
Fits(n, p, S, K) ==
  \A i \in 1 .. n :
    /\ nesting[p][i].try => Guards(EhOf(nesting[p][i].setup), i, p, S, K)
    /\ ~nesting[p][i].try => K[i] = <<"EXCEPT_HANDLER", Nil>>

StackFits(p, S, K) ==
  /\ K \in Seq(Slots) /\ Len(K) = Len(nesting[p])
  /\ Fits(Len(K), p, S, K)

RunAt(p, S, D, K) ==
  /\ p \in Units /\ D \subseteq S /\ S \subseteq Local
  /\ Out(BlockOf(p)) \subseteq Promise(p, blocks[BlockOf(p)].end_index, S)
  /\ StackFits(p, S, K)

\* What completing unit p makes of the locals assigned.
Makes(p, S, S2) ==
  LET x == oparg(code, p)
  IN  /\ Op(p) = "LOAD_FAST" => x \in S /\ S2 = S
      /\ Op(p) = "STORE_FAST" => S2 = S \cup {x}
      /\ Op(p) = "DELETE_FAST" => S2 = S \ {x}
      /\ Op(p) \notin FastOps => S2 = S

LEMMA EhOfIs ==
  ASSUME Compilable, RunGraph, NEW eb \in EhBlocks
  PROVE  EhOf(SetupUnit(eb)) = eb
<1>1. CodeOK /\ Layout /\ Fields
  BY CompilableFacts DEF RunGraph
<1>2. ASSUME NEW fb \in EhBlocks, SetupUnit(fb) = SetupUnit(eb) PROVE fb = eb
  <2>1. PICK b \in CodeBlocks, c \in CodeBlocks :
          b = blocks[eb].eh_setup_block /\ c = blocks[fb].eh_setup_block
    BY <1>1 DEF Fields
  <2>2. LastUnit(b) \in UnitsOf(b) /\ LastUnit(c) \in UnitsOf(c) /\ LastUnit(b) = LastUnit(c)
    BY <1>1, <1>2, <2>1, Blocks DEF SetupUnit
  <2>3. b = c
    BY <1>1, <2>2, OneBlockPerUnit
  <2>4. \A x, y \in EhBlocks :
          blocks[x].eh_setup_block = blocks[y].eh_setup_block => x = y
    BY <1>1 DEF Fields
  <2> QED BY <2>1, <2>3, <2>4
<1> QED BY <1>2 DEF EhOf

LEMMA BodyCovers ==
  ASSUME RunGraph, NEW eb \in EhBlocks
  PROVE  Covers(eb, Body(eb), locals_kept[eb])
BY DEF RunGraph, AllAccounted, Accounted, Body

LEMMA PromiseKept ==
  ASSUME Compilable, NEW p \in Units, NEW hi \in Nat, p < hi, NEW S, NEW S2, Makes(p, S, S2)
  PROVE  Promise(p, hi, S) \subseteq Promise(p + 1, hi, S2)
<1>1. /\ TouchedIn(p, hi) = TouchedIn(p + 1, hi) \cup
           (IF Op(p) \in FastOps THEN {oparg(code, p)} ELSE {})
      /\ DeletedLast(p, hi) = DeletedLast(p + 1, hi) \cup
           (IF Op(p) = "DELETE_FAST" THEN {oparg(code, p)} \ TouchedIn(p + 1, hi) ELSE {})
  BY OneUnit
<1> DEFINE T == TouchedIn(p + 1, hi)
           L == DeletedLast(p + 1, hi)
           x == oparg(code, p)
<1> HIDE DEF T, L, x
<1>2. CASE Op(p) = "LOAD_FAST"
  <2>1. S2 = S /\ x \in S /\ Op(p) \in FastOps /\ Op(p) # "DELETE_FAST"
    BY <1>2 DEF Makes, FastOps, x
  <2>2. TouchedIn(p, hi) = T \cup {x} /\ DeletedLast(p, hi) = L
    BY <1>1, <2>1 DEF T, L, x
  <2> QED BY <2>1, <2>2 DEF Promise, T, L
<1>3. CASE Op(p) = "STORE_FAST"
  <2>1. S2 = S \cup {x} /\ Op(p) \in FastOps /\ Op(p) # "DELETE_FAST"
    BY <1>3 DEF Makes, FastOps, x
  <2>2. TouchedIn(p, hi) = T \cup {x} /\ DeletedLast(p, hi) = L
    BY <1>1, <2>1 DEF T, L, x
  <2> QED BY <2>1, <2>2 DEF Promise, T, L
<1>4. CASE Op(p) = "DELETE_FAST"
  <2>1. S2 = S \ {x} /\ Op(p) \in FastOps
    BY <1>4 DEF Makes, FastOps, x
  <2>2. TouchedIn(p, hi) = T \cup {x} /\ DeletedLast(p, hi) = L \cup ({x} \ T)
    BY <1>1, <1>4, <2>1 DEF T, L, x
  <2> QED BY <2>1, <2>2 DEF Promise, T, L
<1>5. CASE Op(p) \notin FastOps
  <2>1. S2 = S /\ Op(p) # "DELETE_FAST"
    BY <1>5 DEF Makes, FastOps
  <2>2. TouchedIn(p, hi) = T /\ DeletedLast(p, hi) = L
    BY <1>1, <1>5, <2>1 DEF T, L
  <2> QED BY <2>1, <2>2 DEF Promise, T, L
<1> QED BY <1>2, <1>3, <1>4, <1>5 DEF FastOps

\* At the start of a block it is enough that what is claimed there is assigned.
LEMMA EnterPromise ==
  ASSUME Compilable, RunGraph, NEW b \in CodeBlocks, NEW S, locals_input[b] \subseteq S
  PROVE  /\ BlockStart(b) \in Units /\ BlockOf(BlockStart(b)) = b
         /\ Out(b) \subseteq Promise(BlockStart(b), blocks[b].end_index, S)
<1>1. CodeOK /\ Layout
  BY CompilableFacts DEF RunGraph
<1>2. BlockStart(b) \in Units /\ BlockStart(b) \in UnitsOf(b)
  BY <1>1, Blocks DEF Units, UnitsOf
<1>3. BlockOf(BlockStart(b)) = b
  BY <1>1, <1>2, BlockOfIs
<1> QED BY <1>2, <1>3 DEF Out, Promise

\* At the end of a block what it is to leave assigned is.
LEMMA BlockEnds ==
  ASSUME Compilable, RunGraph, NEW b \in CodeBlocks, NEW S,
         Out(b) \subseteq Promise(blocks[b].end_index, blocks[b].end_index, S)
  PROVE  Out(b) \subseteq S
<1>1. blocks[b].end_index \in Int
  BY DEF RunGraph, Layout
<1> QED BY <1>1, NoUnits DEF Promise

\* A place of the stack that is for a try block.
LEMMA TryPlace ==
  ASSUME Compilable, RunGraph, NEW p \in Units, NEW S, NEW K, StackFits(p, S, K),
         NEW i \in 1 .. Len(K), nesting[p][i].try, NEW eb, eb = EhOf(nesting[p][i].setup)
  PROVE  /\ Guards(eb, i, p, S, K) /\ eb \in EhBlocks /\ SetupUnit(eb) \in Units
         /\ nesting[p][i] = [try |-> TRUE, setup |-> SetupUnit(eb)]
         /\ \A q \in Units : i <= Len(nesting[q]) /\ nesting[q][i] = nesting[p][i] =>
              Within(SetupUnit(eb), q)
         /\ Covers(eb, Body(eb), locals_kept[eb])
<1>1. Guards(eb, i, p, S, K) /\ eb \in EhBlocks /\ SetupUnit(eb) = nesting[p][i].setup
  BY DEF StackFits, Fits, Guards
<1>2. nesting[p] \in Seq(Entries) /\ Len(K) = Len(nesting[p])
  BY NestFacts DEF StackFits
<1>3. nesting[p][i] \in Entries
  BY <1>2
<1>4. PICK e \in Entries : e = nesting[p][i] /\ e.try /\ e.setup = SetupUnit(eb)
  BY <1>1, <1>3
<1>5. e = [try |-> TRUE, setup |-> SetupUnit(eb)] /\ SetupUnit(eb) \in Units
  BY <1>4 DEF Entries
<1>6. Len(nesting[SetupUnit(eb)]) = i - 1
  BY <1>1 DEF Guards
<1>7. ASSUME NEW q \in Units, i <= Len(nesting[q]), nesting[q][i] = nesting[p][i]
      PROVE  Within(SetupUnit(eb), q)
  <2>1. i - 1 + 1 = i /\ Len(nesting[q]) \in Nat
    BY <1>7, NestFacts
  <2>2. i - 1 < Len(nesting[q])
    BY <1>7, <2>1
  <2> QED BY <1>4, <1>5, <1>6, <1>7, <2>1, <2>2 DEF Within
<1> QED BY <1>1, <1>4, <1>5, <1>7, BodyCovers

\* Control that stays in the body stays among its blocks.
LEMMA BodyGoesOn ==
  ASSUME NEW eb, Covers(eb, Body(eb), locals_kept[eb]), NEW b \in Body(eb), NEW s \in CodeBlocks,
         Within(SetupUnit(eb), BlockStart(s)),
         \/ ~isTerminator(TailOp(b)) /\ s = b + 1
         \/ Jumps(TailOp(b)) /\ BlockStart(s) = Destination(code, LastUnit(b))
  PROVE  s \in Body(eb)
<1>1. Follows(eb, b, s)
  BY DEF Follows
<1> QED BY <1>1 DEF Covers

\* What a handler is to find assigned, no unit of the body takes away.
LEMMA HandlerKeeps ==
  ASSUME Compilable, RunGraph, NEW eb \in EhBlocks, NEW p \in Units, BlockOf(p) \in Body(eb),
         NEW S, NEW S2, Makes(p, S, S2), locals_input[blocks[eb].branch] \subseteq S
  PROVE  locals_input[blocks[eb].branch] \subseteq S2
<1>1. CodeOK /\ Layout
  BY CompilableFacts DEF RunGraph
<1>2. PICK b \in CodeBlocks : b = BlockOf(p) /\ p \in UnitsOf(b) /\ b \in Body(eb)
  BY <1>1, BlockOfUnit
<1>3. locals_kept[eb] \cap EverDeleted(BlockStart(b), blocks[b].end_index) = {}
  BY <1>2, BodyCovers DEF Covers
<1>4. locals_input[blocks[eb].branch] \subseteq locals_kept[eb]
  BY DEF RunGraph, Claims
<1>5. CASE Op(p) = "DELETE_FAST"
  <2>1. S2 = S \ {oparg(code, p)} /\ Op(p) \in FastOps
    BY <1>5 DEF Makes, FastOps
  <2>2. oparg(code, p) \in EverDeleted(BlockStart(b), blocks[b].end_index)
    BY <1>2, <1>5, <2>1, CompilableFacts DEF EverDeleted, Deletes, Touches, UnitsOf
  <2> QED BY <1>3, <1>4, <2>1, <2>2
<1>6. CASE Op(p) # "DELETE_FAST"
  <2>1. S \subseteq S2
    BY <1>6 DEF Makes, FastOps
  <2> QED BY <2>1
<1> QED BY <1>5, <1>6

\* From unit p to unit q the first n places of the stack stay, and q's block is in
\* the bodies they are for.
Stays(n, p, q, K, K2) == \A i \in 1 .. n : nesting[q][i] = nesting[p][i] /\ K2[i] = K[i]

Guarded(n, p, q, S) ==
  \A i \in 1 .. n : nesting[p][i].try =>
    /\ locals_input[blocks[EhOf(nesting[p][i].setup)].branch] \subseteq S
    /\ BlockOf(q) \in Body(EhOf(nesting[p][i].setup))

LEMMA StackMoves ==
  ASSUME Compilable, RunGraph, NEW p \in Units, NEW q \in Units, NEW S, NEW S2, NEW K,
         StackFits(p, S, K), NEW n \in 0 .. Len(K), NEW K2,
         Stays(n, p, q, K, K2), Guarded(n, p, q, S2)
  PROVE  Fits(n, q, S2, K2)
<1>1. K \in Seq(Slots)
  BY DEF StackFits
<1>2. SUFFICES ASSUME NEW i \in 1 .. n
               PROVE  /\ nesting[q][i].try => Guards(EhOf(nesting[q][i].setup), i, q, S2, K2)
                      /\ ~nesting[q][i].try => K2[i] = <<"EXCEPT_HANDLER", Nil>>
  BY DEF Fits
<1>3. i \in 1 .. Len(K) /\ i \in Nat /\ Len(K) \in Nat /\ n \in Nat
  BY <1>1
<1>4. nesting[q][i] = nesting[p][i] /\ K2[i] = K[i]
  BY <1>2 DEF Stays
<1>5. CASE nesting[p][i].try
  <2>1. PICK eb : eb = EhOf(nesting[p][i].setup)
    OBVIOUS
  <2>2. Guards(eb, i, p, S, K)
    BY <1>3, <1>5, <2>1, TryPlace
  <2>3. \A j \in 1 .. i - 1 : nesting[q][j] = nesting[p][j]
    BY <1>3 DEF Stays
  <2>4. locals_input[blocks[eb].branch] \subseteq S2 /\ BlockOf(q) \in Body(eb)
    BY <1>5, <2>1 DEF Guarded
  <2>5. Guards(eb, i, q, S2, K2)
    BY <1>4, <2>2, <2>3, <2>4 DEF Guards
  <2> QED BY <1>4, <1>5, <2>1, <2>5
<1>6. CASE ~nesting[p][i].try
  BY <1>3, <1>4, <1>6 DEF StackFits, Fits
<1> QED BY <1>5, <1>6

\* What is claimed at the next unit, D being claimed after this one.
ClaimedNext(p, D) ==
  IF p + 1 = blocks[BlockOf(p)].end_index THEN locals_input[BlockOf(p) + 1] ELSE D

\* The next unit is reached with S assigned and D claimed, and in no body but
\* those it is nested in.
Reached(p, S, D) ==
  /\ p + 1 \in Units /\ D \subseteq S
  /\ Out(BlockOf(p + 1)) \subseteq Promise(p + 1, blocks[BlockOf(p + 1)].end_index, S)
  /\ \A eb \in EhBlocks : BlockOf(p) \in Body(eb) /\ Within(SetupUnit(eb), p + 1) =>
       BlockOf(p + 1) \in Body(eb)
  /\ Jumps(Op(p)) => p = LastUnit(BlockOf(p))

\* Completing a unit, but for the block stack: what is claimed at the next unit is
\* assigned, and no body is left that the nesting does not leave.
LEMMA NextUnit ==
  ASSUME Compilable, RunGraph, NEW p, NEW S, NEW D, NEW K, RunAt(p, S, D, K),
         ~isTerminator(Op(p)), NEW S2, Makes(p, S, S2), NEW D2, D2 \subseteq S2,
         NEW D3, D3 = ClaimedNext(p, D2)
  PROVE  Reached(p, S2, D3)
<1>1. CodeOK /\ Layout /\ p \in Units
  BY CompilableFacts DEF RunGraph, RunAt
<1>2. PICK b \in CodeBlocks : b = BlockOf(p) /\ p \in UnitsOf(b)
  BY <1>1, BlockOfUnit
<1>3. PICK hi \in Nat : hi = blocks[b].end_index /\ p < hi /\ p \in Nat /\ BlockStart(b) \in Nat
  BY <1>1, <1>2, Blocks DEF UnitsOf, Units
<1>4. Out(b) \subseteq Promise(p + 1, hi, S2)
  <2>1. Out(b) \subseteq Promise(p, hi, S)
    BY <1>2, <1>3 DEF RunAt
  <2>2. Promise(p, hi, S) \subseteq Promise(p + 1, hi, S2)
    BY <1>1, <1>3, PromiseKept
  <2> QED BY <2>1, <2>2
<1>5. CASE p + 1 = hi
  <2>1. p = LastUnit(b)
    BY <1>3, <1>5 DEF LastUnit
  <2>2. b + 1 \in CodeBlocks /\ BlockStart(b + 1) = p + 1 /\ ~isTerminator(TailOp(b))
    BY <1>1, <1>3, <1>5, <2>1, Blocks DEF TailOp
  <2>3. Out(b) \subseteq S2
    BY <1>3, <1>4, <1>5, BlockEnds
  <2>4. locals_input[b + 1] \subseteq S2
    BY <2>2, <2>3 DEF RunGraph, Claims
  <2>5. /\ p + 1 \in Units /\ BlockOf(p + 1) = b + 1
        /\ Out(b + 1) \subseteq Promise(p + 1, blocks[b + 1].end_index, S2)
    BY <2>2, <2>4, EnterPromise
  <2>6. D3 \subseteq S2
    BY <1>2, <1>3, <1>5, <2>4 DEF ClaimedNext
  <2>7. ASSUME NEW eb \in EhBlocks, b \in Body(eb), Within(SetupUnit(eb), p + 1)
        PROVE  b + 1 \in Body(eb)
    <3>1. Covers(eb, Body(eb), locals_kept[eb])
      BY BodyCovers
    <3>2. PICK s \in CodeBlocks : s = b + 1 /\ Within(SetupUnit(eb), BlockStart(s))
      BY <2>2, <2>7
    <3> QED BY <2>2, <2>7, <3>1, <3>2, BodyGoesOn
  <2> QED BY <1>2, <2>1, <2>5, <2>6, <2>7 DEF Reached
<1>6. CASE p + 1 # hi
  <2>1. p # LastUnit(b)
    BY <1>3, <1>6 DEF LastUnit
  <2>2. p + 1 \in UnitsOf(b) /\ p + 1 \in Units /\ ~Jumps(Op(p))
    BY <1>1, <1>2, <2>1, Blocks
  <2>3. BlockOf(p + 1) = b
    BY <1>1, <2>2, BlockOfIs
  <2>4. D3 = D2
    BY <1>2, <1>3, <1>6 DEF ClaimedNext
  <2> QED BY <1>2, <1>3, <1>4, <2>2, <2>3, <2>4 DEF Reached
<1> QED BY <1>5, <1>6

\* Completing a unit.
LEMMA Advances ==
  ASSUME Compilable, RunGraph, NEW p, NEW S, NEW D, NEW K, RunAt(p, S, D, K),
         ~isTerminator(Op(p)), NEW S2, Makes(p, S, S2), S2 \subseteq Local, NEW D2, D2 \subseteq S2,
         NEW D3, D3 = ClaimedNext(p, D2),
         NEW K2, isTryBlockSetup(Op(p)) =>
                   K2 = Append(K, <<"SETUP_FINALLY", blocks[BlockOf(p)].branch>>),
         Op(p) \in Leaving => K2 = SubSeq(K, 1, Len(K) - 1),
         ~isTryBlockSetup(Op(p)) /\ Op(p) \notin Leaving => K2 = K
  PROVE  RunAt(p + 1, S2, D3, K2)
<1>1. /\ p + 1 \in Units /\ D3 \subseteq S2
      /\ Out(BlockOf(p + 1)) \subseteq Promise(p + 1, blocks[BlockOf(p + 1)].end_index, S2)
      /\ \A eb \in EhBlocks : BlockOf(p) \in Body(eb) /\ Within(SetupUnit(eb), p + 1) =>
           BlockOf(p + 1) \in Body(eb)
      /\ Jumps(Op(p)) => p = LastUnit(BlockOf(p))
  <2>1. Reached(p, S2, D3)
    BY NextUnit
  <2> QED BY <2>1 DEF Reached
<1>2. /\ p \in Units /\ S \subseteq Local /\ StackFits(p, S, K) /\ CodeOK /\ Layout
      /\ SetupsCut /\ Fields
  BY CompilableFacts DEF RunAt, RunGraph
<1>3. PICK b \in CodeBlocks : b = BlockOf(p) /\ p \in UnitsOf(b)
  BY <1>2, BlockOfUnit
<1>4. PICK s \in Seq(Entries) : s = nesting[p] /\ Len(K) = Len(s) /\ K \in Seq(Slots)
  BY <1>2, NestFacts DEF StackFits
<1>5. Len(s) \in Nat
  OBVIOUS
\* The places that stay.
<1>6. ASSUME NEW n \in 0 .. Len(s), n <= Len(nesting[p + 1]),
             \A i \in 1 .. n : nesting[p + 1][i] = s[i] /\ K2[i] = K[i]
      PROVE  Fits(n, p + 1, S2, K2)
  <2>1. ASSUME NEW i \in 1 .. n, nesting[p][i].try
        PROVE  /\ locals_input[blocks[EhOf(nesting[p][i].setup)].branch] \subseteq S2
               /\ BlockOf(p + 1) \in Body(EhOf(nesting[p][i].setup))
    <3>1. PICK eb : eb = EhOf(nesting[p][i].setup)
      OBVIOUS
    <3>2. i \in 1 .. Len(K) /\ i <= Len(nesting[p + 1]) /\ nesting[p + 1][i] = nesting[p][i]
      <4>1. Len(nesting[p + 1]) \in Nat /\ n \in Nat
        BY <1>1, <1>5, NestFacts
      <4> QED BY <1>4, <1>5, <1>6, <4>1
    <3>3. /\ Guards(eb, i, p, S, K) /\ eb \in EhBlocks /\ Within(SetupUnit(eb), p + 1)
      BY <1>1, <1>2, <2>1, <3>1, <3>2, TryPlace
    <3>4. BlockOf(p) \in Body(eb) /\ locals_input[blocks[eb].branch] \subseteq S
      BY <3>3 DEF Guards
    <3>5. locals_input[blocks[eb].branch] \subseteq S2
      BY <1>2, <3>3, <3>4, HandlerKeeps
    <3> QED BY <1>1, <3>1, <3>3, <3>4, <3>5
  <2>2. n \in 0 .. Len(K) /\ Stays(n, p, p + 1, K, K2) /\ Guarded(n, p, p + 1, S2)
    BY <1>4, <1>6, <2>1 DEF Stays, Guarded
  <2> QED BY <1>1, <1>2, <2>2, StackMoves
<1>7. StackFits(p + 1, S2, K2)
  <2>1. CASE isTryBlockSetup(Op(p))
    <3>1. PICK e \in Entries : e = [try |-> TRUE, setup |-> p] /\ e.try /\ e.setup = p
      <4>1. [try |-> TRUE, setup |-> p] \in Entries
        BY <1>2 DEF Entries
      <4> QED BY <4>1
    <3>2. nesting[p + 1] = Append(s, e)
      BY <1>2, <1>4, <2>1, <3>1, NestFacts, Opcodes
    <3>3. p = LastUnit(b) /\ TailOp(b) = Op(p)
      BY <1>1, <1>3, <2>1, Opcodes DEF TailOp
    <3>4. PICK eb \in EhBlocks : /\ blocks[eb].eh_setup_block = b
                                 /\ blocks[b].branch = blocks[eb].branch
      BY <1>2, <2>1, <3>3 DEF SetupsCut
    <3>5. EhOf(p) = eb /\ SetupUnit(eb) = p
      BY <3>3, <3>4, EhOfIs DEF SetupUnit
    <3>6. PICK slot \in Slots : slot = <<"SETUP_FINALLY", blocks[eb].branch>>
      BY <1>2 DEF Slots, Fields, LeadsTo
    <3>7. K2 = Append(K, slot)
      BY <1>3, <2>1, <3>4, <3>6
    <3>8. /\ K2 \in Seq(Slots) /\ Len(K2) = Len(s) + 1 /\ K2[Len(s) + 1] = slot
          /\ \A i \in 1 .. Len(s) : K2[i] = K[i]
      BY <1>4, <1>5, <3>7
    <3>9. /\ Len(nesting[p + 1]) = Len(s) + 1 /\ nesting[p + 1][Len(s) + 1] = e
          /\ \A i \in 1 .. Len(s) : nesting[p + 1][i] = s[i]
      BY <1>5, <3>2
    <3>10. Fits(Len(s), p + 1, S2, K2)
      BY <1>5, <1>6, <3>8, <3>9
    <3>11. Guards(eb, Len(s) + 1, p + 1, S2, K2)
      <4>1. PICK n \in Nat : n = Len(s) + 1 /\ n - 1 = Len(s)
        BY <1>5
      <4>2. BlockOf(p + 1) \in Body(eb)
        <5>1. Covers(eb, Body(eb), locals_kept[eb])
          BY BodyCovers
        <5>2. b + 1 \in Body(eb)
          BY <3>4, <5>1 DEF Covers
        <5>3. b + 1 \in CodeBlocks /\ BlockStart(b + 1) = p + 1
          <6>1. /\ ~isTerminator(TailOp(b))
                /\ p = blocks[b].end_index - 1 /\ blocks[b].end_index \in Nat
            BY <1>2, <3>3 DEF LastUnit, Layout
          <6> QED BY <1>2, <6>1, Blocks
        <5>4. BlockOf(p + 1) = b + 1
          BY <1>2, <5>3, Blocks, BlockOfIs DEF UnitsOf, Units
        <5> QED BY <5>2, <5>4
      <4>3. locals_input[blocks[eb].branch] \subseteq S2
        <5>1. locals_input[blocks[eb].branch] \subseteq Out(b)
          BY <3>4 DEF RunGraph, Claims
        <5>2. Out(b) \subseteq Promise(p, p + 1, S) /\ p \in Nat
          <6>1. p + 1 = blocks[b].end_index /\ p \in Nat
            BY <1>2, <3>3 DEF LastUnit, Layout, Units
          <6> QED BY <1>3, <6>1 DEF RunAt
        <5>3. Promise(p, p + 1, S) \subseteq Promise(p + 1, p + 1, S2)
          BY <1>2, <5>2, PromiseKept
        <5>4. Promise(p + 1, p + 1, S2) = S2
          BY <5>2, NoUnits DEF Promise
        <5> QED BY <5>1, <5>2, <5>3, <5>4
      <4>4. \A j \in 1 .. n - 1 : nesting[p + 1][j].try =>
              b \in Body(EhOf(nesting[p + 1][j].setup))
        <5>1. ASSUME NEW j \in 1 .. Len(s), nesting[p][j].try
              PROVE  b \in Body(EhOf(nesting[p][j].setup))
          <6>1. Guards(EhOf(nesting[p][j].setup), j, p, S, K)
            BY <1>2, <1>4, <5>1, TryPlace
          <6> QED BY <1>3, <6>1 DEF Guards
        <5> QED BY <1>4, <3>9, <4>1, <5>1
      <4>5. nesting[p + 1][n].setup = p /\ Len(nesting[p]) = n - 1 /\ K2[n] = slot
            /\ \A j \in 1 .. n - 1 : nesting[p][j] = nesting[p + 1][j]
        BY <1>4, <3>1, <3>8, <3>9, <4>1
      <4>6. Guards(eb, n, p + 1, S2, K2)
        BY <3>4, <3>5, <3>6, <4>2, <4>3, <4>4, <4>5 DEF Guards
      <4> QED BY <4>1, <4>6
    <3>12. \A i \in 1 .. Len(s) + 1 : i \in 1 .. Len(s) \/ i = Len(s) + 1
      BY <1>5
    <3> QED BY <3>1, <3>5, <3>8, <3>9, <3>10, <3>11, <3>12 DEF StackFits, Fits
  <2>2. CASE Op(p) \in Leaving
    <3>1. ~isTryBlockSetup(Op(p)) /\ s # <<>>
      BY <1>2, <1>4, <2>2, NestFacts DEF Leaving, isTryBlockSetup
    <3>2. PICK n \in 0 .. Len(s) : n = Len(s) - 1
      <4>1. Len(s) \in Nat \ {0}
        BY <1>4, <3>1
      <4>2. Len(s) - 1 \in 0 .. Len(s)
        BY <4>1
      <4> QED BY <4>2
    <3>3. nesting[p + 1] = SubSeq(s, 1, n) /\ K2 = SubSeq(K, 1, n) /\ n \in 0 .. Len(K)
      BY <1>2, <1>4, <2>2, <3>1, <3>2, NestFacts
    <3>4. /\ Len(nesting[p + 1]) = n /\ \A i \in 1 .. n : nesting[p + 1][i] = s[i]
          /\ K2 \in Seq(Slots) /\ Len(K2) = n /\ \A i \in 1 .. n : K2[i] = K[i]
      BY <1>4, <3>3, Prefix
    <3>5. n \in Nat /\ n <= Len(nesting[p + 1])
      BY <1>5, <3>2, <3>4
    <3>6. Fits(n, p + 1, S2, K2)
      BY <1>6, <3>2, <3>4, <3>5
    <3> QED BY <3>4, <3>6 DEF StackFits
  <2>3. CASE ~isTryBlockSetup(Op(p)) /\ Op(p) \notin Leaving
    <3>1. nesting[p + 1] = s /\ K2 = K
      BY <1>2, <1>4, <2>3, NestFacts
    <3>2. Len(s) \in 0 .. Len(s)
      BY <1>5
    <3> QED BY <1>4, <1>5, <1>6, <3>1, <3>2 DEF StackFits
  <2> QED BY <2>1, <2>2, <2>3
<1> QED BY <1>1, <1>7 DEF RunAt

\* A jump stays in every body it is in, wherever it goes.
LEMMA BodyJumpsOn ==
  ASSUME RunGraph, NEW eb \in EhBlocks, NEW b \in Body(eb), NEW s \in CodeBlocks,
         Jumps(TailOp(b)), BlockStart(s) = Destination(code, LastUnit(b))
  PROVE  s \in Body(eb)
<1>1. Covers(eb, Body(eb), locals_kept[eb])
  BY BodyCovers
<1>2. Follows(eb, b, s)
  BY DEF Follows
<1> QED BY <1>1, <1>2 DEF Covers

\* A jump that is taken, and is not the set-up of a try block.
LEMMA JumpsTo ==
  ASSUME Compilable, RunGraph, NEW p, NEW S, NEW D, NEW K, RunAt(p, S, D, K),
         Jumps(Op(p)), ~isTryBlockSetup(Op(p)), NEW s, s = blocks[BlockOf(p)].branch
  PROVE  RunAt(BlockStart(s), S, locals_input[s], K)
<1>1. /\ CodeOK /\ Layout /\ Fields /\ p \in Units /\ S \subseteq Local /\ StackFits(p, S, K)
      /\ Len(K) \in Nat /\ K \in Seq(Slots) /\ Len(K) = Len(nesting[p])
  BY CompilableFacts DEF RunGraph, RunAt, StackFits
<1>2. PICK b \in CodeBlocks : b = BlockOf(p) /\ p \in UnitsOf(b)
  BY <1>1, BlockOfUnit
<1>3. p = LastUnit(b) /\ TailOp(b) = Op(p)
  BY <1>1, <1>2, Blocks DEF TailOp
<1>4. s \in CodeBlocks /\ BlockStart(s) = Destination(code, p)
  BY <1>1, <1>2, <1>3 DEF Fields, LeadsTo
<1>5. Out(b) \subseteq S
  <2>1. p \in Nat /\ blocks[b].end_index = p + 1 /\ p + 1 \in Nat /\ p < p + 1
    BY <1>1, <1>3, Blocks DEF LastUnit, Units
  <2>2. Makes(p, S, S)
    BY DEF Makes, FastOps, Jumps, isRelativeJump, isAbsoluteJmp
  <2>3. Out(b) \subseteq Promise(p, p + 1, S)
    BY <1>2, <2>1 DEF RunAt
  <2>4. Promise(p, p + 1, S) \subseteq Promise(p + 1, p + 1, S)
    BY <1>1, <2>1, <2>2, PromiseKept
  <2> QED BY <2>1, <2>3, <2>4, BlockEnds
<1>6. locals_input[s] \subseteq S
  BY <1>3, <1>4, <1>5 DEF RunGraph, Claims
<1>7. PICK q \in Units : /\ q = BlockStart(s) /\ BlockOf(q) = s
                         /\ Out(s) \subseteq Promise(q, blocks[s].end_index, S)
  BY <1>4, <1>6, EnterPromise
<1>8. nesting[q] = nesting[p]
  BY <1>1, <1>4, <1>7, NestFacts
<1>9. Guarded(Len(K), p, q, S)
  <2>1. SUFFICES ASSUME NEW i \in 1 .. Len(K), nesting[p][i].try
                 PROVE  /\ locals_input[blocks[EhOf(nesting[p][i].setup)].branch] \subseteq S
                        /\ BlockOf(q) \in Body(EhOf(nesting[p][i].setup))
    BY DEF Guarded
  <2>2. PICK eb : eb = EhOf(nesting[p][i].setup)
    OBVIOUS
  <2>3. Guards(eb, i, p, S, K) /\ eb \in EhBlocks
    BY <1>1, <2>1, <2>2, TryPlace
  <2>4. b \in Body(eb) /\ locals_input[blocks[eb].branch] \subseteq S
    BY <1>2, <2>3 DEF Guards
  <2>5. s \in Body(eb)
    BY <1>3, <1>4, <2>3, <2>4, BodyJumpsOn
  <2> QED BY <1>7, <2>2, <2>4, <2>5
<1>10. StackFits(q, S, K)
  <2>1. Stays(Len(K), p, q, K, K) /\ Len(K) \in 0 .. Len(K)
    BY <1>1, <1>8 DEF Stays
  <2>2. Fits(Len(K), q, S, K)
    BY <1>1, <1>9, <2>1, StackMoves
  <2> QED BY <1>1, <1>8, <2>2 DEF StackFits
<1> QED BY <1>1, <1>6, <1>7, <1>10 DEF RunAt

\* An exception goes to the handler of a try block that is in place.
LEMMA Unwinds ==
  ASSUME Compilable, RunGraph, NEW p, NEW S, NEW D, NEW K, RunAt(p, S, D, K),
         NEW top \in 1 .. Len(K), nesting[p][top].try, NEW h, h = K[top][2],
         NEW K2, K2 = Append(SubSeq(K, 1, top - 1), <<"EXCEPT_HANDLER", Nil>>)
  PROVE  RunAt(BlockStart(h), S, locals_input[h], K2)
<1>1. /\ CodeOK /\ Layout /\ Fields /\ p \in Units /\ S \subseteq Local /\ StackFits(p, S, K)
      /\ Len(K) \in Nat /\ K \in Seq(Slots) /\ Len(K) = Len(nesting[p])
  BY CompilableFacts DEF RunGraph, RunAt, StackFits
<1>2. PICK eb : eb = EhOf(nesting[p][top].setup)
  OBVIOUS
<1>3. /\ Guards(eb, top, p, S, K) /\ eb \in EhBlocks /\ SetupUnit(eb) \in Units
      /\ SetupUnit(eb) = nesting[p][top].setup
  <2>1. Guards(eb, top, p, S, K) /\ eb \in EhBlocks /\ SetupUnit(eb) \in Units
    BY <1>1, <1>2, TryPlace
  <2> QED BY <2>1 DEF Guards
<1>4. PICK u \in Units : u = SetupUnit(eb) /\ u = nesting[p][top].setup
  BY <1>3
<1>5. PICK c \in CodeBlocks : /\ c = blocks[eb].eh_setup_block /\ u = LastUnit(c)
                              /\ isTryBlockSetup(TailOp(c)) /\ TailOp(c) = Op(u)
                              /\ Jumps(Op(u))
  BY <1>1, <1>3, <1>4, Opcodes DEF Fields, SetupUnit, TailOp
<1>6. h \in CodeBlocks /\ BlockStart(h) = Destination(code, u) /\ h = blocks[eb].branch
  <2>1. h = blocks[eb].branch
    BY <1>3 DEF Guards
  <2> QED BY <1>1, <1>3, <1>4, <1>5, <2>1 DEF Fields, LeadsTo, SetupUnit
<1>7. locals_input[h] \subseteq S
  BY <1>3, <1>6 DEF Guards
<1>8. PICK q \in Units : /\ q = BlockStart(h) /\ BlockOf(q) = h
                         /\ Out(h) \subseteq Promise(q, blocks[h].end_index, S)
  BY <1>6, <1>7, EnterPromise
<1>9. PICK m \in 0 .. Len(K) : m = top - 1 /\ top = m + 1 /\ m \in Nat
  BY <1>1
<1>10. PICK e \in Entries : e = [try |-> FALSE, setup |-> u] /\ ~e.try
  <2>1. [try |-> FALSE, setup |-> u] \in Entries
    BY DEF Entries
  <2> QED BY <2>1
<1>11. /\ nesting[u] \in Seq(Entries) /\ Len(nesting[u]) = m
       /\ \A j \in 1 .. m : nesting[u][j] = nesting[p][j]
  BY <1>3, <1>4, <1>9, NestFacts DEF Guards
<1>12. nesting[q] = Append(nesting[u], e)
  BY <1>5, <1>6, <1>8, <1>10, NestFacts
<1>13. /\ Len(nesting[q]) = m + 1 /\ nesting[q][m + 1] = e
       /\ \A j \in 1 .. m : nesting[q][j] = nesting[p][j]
  BY <1>9, <1>11, <1>12
<1>14. PICK slot \in Slots : slot = <<"EXCEPT_HANDLER", Nil>>
  BY DEF Slots
<1>15. /\ K2 \in Seq(Slots) /\ Len(K2) = m + 1 /\ K2[m + 1] = slot
       /\ \A j \in 1 .. m : K2[j] = K[j]
  <2>1. PICK front : front = SubSeq(K, 1, m)
    OBVIOUS
  <2>2. front \in Seq(Slots) /\ Len(front) = m /\ \A j \in 1 .. m : front[j] = K[j]
    BY <1>1, <1>9, <2>1, Prefix
  <2>3. K2 = Append(front, slot)
    BY <1>9, <1>14, <2>1
  <2>4. /\ Append(front, slot) \in Seq(Slots) /\ Len(Append(front, slot)) = Len(front) + 1
        /\ \A j \in 1 .. Len(front) : Append(front, slot)[j] = front[j]
        /\ Append(front, slot)[Len(front) + 1] = slot
    BY <2>2, AppendProperties
  <2> QED BY <2>2, <2>3, <2>4
<1>16. Guarded(m, p, q, S)
  <2>1. SUFFICES ASSUME NEW i \in 1 .. m, nesting[p][i].try
                 PROVE  /\ locals_input[blocks[EhOf(nesting[p][i].setup)].branch] \subseteq S
                        /\ BlockOf(q) \in Body(EhOf(nesting[p][i].setup))
    BY DEF Guarded
  <2>2. PICK fb : fb = EhOf(nesting[p][i].setup)
    OBVIOUS
  <2>3. i \in 1 .. Len(K) /\ i \in 1 .. top - 1
    BY <1>1, <1>9
  <2>4. Guards(fb, i, p, S, K) /\ fb \in EhBlocks
    BY <1>1, <2>1, <2>2, <2>3, TryPlace
  <2>5. locals_input[blocks[fb].branch] \subseteq S
    BY <2>4 DEF Guards
  <2>6. c \in Body(fb)
    BY <1>3, <1>5, <2>1, <2>2, <2>3 DEF Guards
  <2>7. h \in Body(fb)
    BY <1>5, <1>6, <2>4, <2>6, BodyJumpsOn
  <2> QED BY <1>8, <2>2, <2>5, <2>7
<1>17. Fits(m, q, S, K2)
  <2>1. Stays(m, p, q, K, K2)
    BY <1>13, <1>15 DEF Stays
  <2> QED BY <1>1, <1>16, <2>1, StackMoves
<1>18. StackFits(q, S, K2)
  <2>1. \A i \in 1 .. m + 1 : i \in 1 .. m \/ i = m + 1
    BY <1>9
  <2>2. Fits(m + 1, q, S, K2)
    BY <1>10, <1>13, <1>14, <1>15, <1>17, <2>1 DEF Fits
  <2> QED BY <1>13, <1>15, <2>2 DEF StackFits
<1> QED BY <1>1, <1>7, <1>8, <1>18 DEF RunAt

\* No instruction changes what a place of the run means.
LEMMA RunRigid ==
  ASSUME RunGraph, UNCHANGED <<code, block_num, try_block_num, blocks, locals_kept, locals_set,
                               locals_ever_deleted, signature, locals_input>>
  PROVE  RunGraph' /\ \A p, S, D, K : RunAt(p, S, D, K)' <=> RunAt(p, S, D, K)
<1>1. /\ Layout' /\ Fields' /\ SetupsCut' /\ CodeBlocks' = CodeBlocks /\ AllBlocks' = AllBlocks
      /\ EhBlocks' = EhBlocks /\ \A b : BlockStart(b)' = BlockStart(b)
      /\ \A v : BlockOf(v)' = BlockOf(v)
  BY GraphRigid DEF RunGraph
<1>2. /\ \A eb, V, K : Covers(eb, V, K)' <=> Covers(eb, V, K)
      /\ \A eb, K : Accounted(eb, K)' <=> Accounted(eb, K)
      /\ \A eb : SetupUnit(eb)' = SetupUnit(eb)
  BY WalkRigid
<1>3. \A lo, hi : /\ TouchedIn(lo, hi)' = TouchedIn(lo, hi)
                  /\ DeletedLast(lo, hi)' = DeletedLast(lo, hi)
  BY UnitsRigid
<1>4. SummaryTypes' /\ Summaries' /\ AllAccounted'
  <2>1. SummaryTypes'
    BY <1>1 DEF RunGraph, SummaryTypes
  <2>2. Summaries'
    BY <1>1, UnitsRigid DEF RunGraph, Summaries
  <2>3. AllAccounted'
    BY <1>1, <1>2 DEF RunGraph, AllAccounted
  <2> QED BY <2>1, <2>2, <2>3
<1>5. \A b : Out(b)' = Out(b)
  BY <1>1, <1>3 DEF Out
<1>6. Claims'
  BY <1>1, <1>5 DEF RunGraph, Claims, Parameters, TailOp, LastUnit, Op
<1>7. nesting' = nesting /\ \A eb : Body(eb)' = Body(eb)
  BY <1>2, NestingRigid DEF Body
<1>8. \A u : EhOf(u)' = EhOf(u)
  BY <1>1, <1>2 DEF EhOf
<1>9. \A eb, i, p, S, K : Guards(eb, i, p, S, K)' <=> Guards(eb, i, p, S, K)
  BY <1>1, <1>2, <1>7, <1>8 DEF Guards
<1>10. \A p, S, K : StackFits(p, S, K)' <=> StackFits(p, S, K)
  BY <1>1, <1>7, <1>8, <1>9 DEF StackFits, Fits, Slots
<1>11. \A p, S, D, K : RunAt(p, S, D, K)' <=> RunAt(p, S, D, K)
  BY <1>1, <1>3, <1>5, <1>10 DEF RunAt, Promise, Units, py_instr_num
<1> QED BY <1>1, <1>4, <1>6, <1>11 DEF RunGraph

LEMMA Largest ==
  ASSUME NEW m \in Nat, NEW T \in SUBSET (1 .. m), T # {}
  PROVE  Max(T) \in T
<1> DEFINE above == {n \in Nat : \A y \in T : y <= n}
           least == Min(above)
<1>1. above \in SUBSET Nat /\ m \in above
  OBVIOUS
<1>2. least \in above /\ \A n \in above : least <= n
  BY <1>1, Smallest
<1>3. PICK n \in Nat : n = least /\ \A y \in T : y <= n
  BY <1>2
<1>4. n \in T
  <2>1. SUFFICES ASSUME n \notin T PROVE FALSE
    OBVIOUS
  <2>2. PICK y \in T : TRUE
    OBVIOUS
  <2>3. n - 1 \in above
    BY <1>3, <2>1, <2>2
  <2> QED BY <1>2, <1>3, <2>3
<1> QED BY <1>3, <1>4 DEF Max

\* What an instruction does, short of ending the run.
LEMMA ExecuteMoves ==
  ASSUME Compilable, RunGraph, phase = "run", Execute, phase' = "run",
         RunAt(pc, bound, defined, blockstack)
  PROVE  \E p2, S2, D2, K2 : /\ RunAt(p2, S2, D2, K2)
                             /\ p2 = pc' /\ S2 = bound' /\ D2 = defined' /\ K2 = blockstack'
<1>1. PICK p, S, D, K : /\ p = pc /\ S = bound /\ D = defined /\ K = blockstack
                        /\ RunAt(p, S, D, K)
  OBVIOUS
<1>2. PICK p2, S2, D2, K2 : p2 = pc' /\ S2 = bound' /\ D2 = defined' /\ K2 = blockstack'
  OBVIOUS
<1>3. SUFFICES RunAt(p2, S2, D2, K2)
  BY <1>2
<1>4. /\ p \in Units /\ D \subseteq S /\ S \subseteq Local /\ K \in Seq(Slots)
      /\ Len(K) = Len(nesting[p]) /\ Len(K) \in Nat
      /\ \A v \in Units : Op(v) \in FastOps => oparg(code, v) \in Local
  BY <1>1, CompilableFacts DEF RunAt, StackFits
<1>5. CASE Raise
  <2>1. S2 = S /\ Unwind
    BY <1>1, <1>2, <1>5 DEF Raise
  <2> DEFINE tries == {i \in DOMAIN K : K[i][1] = "SETUP_FINALLY"}
  <2>2. tries # {}
    BY <1>1, <2>1 DEF Unwind
  <2>3. PICK top \in tries : top = Max(tries)
    <3>1. tries \in SUBSET (1 .. Len(K))
      BY <1>4
    <3> QED BY <1>4, <2>2, <3>1, Largest
  <2>4. PICK h : h = K[top][2]
    OBVIOUS
  <2>5. /\ p2 = BlockStart(h) /\ D2 = locals_input[h]
        /\ K2 = Append(SubSeq(K, 1, top - 1), <<"EXCEPT_HANDLER", Nil>>)
    BY <1>1, <1>2, <2>1, <2>2, <2>3, <2>4 DEF Unwind, EnterBlock
  <2>6. top \in 1 .. Len(K) /\ nesting[p][top].try
    <3>1. top \in 1 .. Len(K) /\ K[top][1] = "SETUP_FINALLY"
      BY <1>4, <2>3
    <3>2. ~nesting[p][top].try => K[top] = <<"EXCEPT_HANDLER", Nil>>
      BY <1>1, <3>1 DEF RunAt, StackFits, Fits
    <3> QED BY <3>1, <3>2
  <2> QED BY <1>1, <2>1, <2>4, <2>5, <2>6, Unwinds
<1>6. CASE Complete
  <2>1. /\ ~isTerminator(Op(p)) /\ ~isTryBlockSetup(Op(p)) /\ Op(p) \notin Leaving
        /\ Op(p) \notin FastOps /\ S2 = S /\ K2 = K /\ D2 = ClaimedNext(p, D) /\ p2 = p + 1
    BY <1>1, <1>2, <1>6, Opcodes
    DEF Complete, Ordinary, Leaving, FastOps, Advance, ClaimedNext, Op
  <2>2. Makes(p, S, S)
    BY <2>1 DEF Makes, FastOps
  <2> QED BY <1>1, <1>4, <2>1, <2>2, Advances
<1>7. CASE LoadFast
  <2> DEFINE x == oparg(code, p)
  <2>1. /\ Op(p) = "LOAD_FAST" /\ x \in D \cup S
        /\ S2 = S /\ K2 = K /\ D2 = ClaimedNext(p, D \cup {x}) /\ p2 = p + 1
    BY <1>1, <1>2, <1>7 DEF LoadFast, Running, Advance, ClaimedNext, Op
  <2>2. ~isTerminator(Op(p)) /\ ~isTryBlockSetup(Op(p)) /\ Op(p) \notin Leaving
    BY <2>1 DEF isTerminator, isTryBlockSetup, Leaving
  <2>3. x \in S /\ D \cup {x} \subseteq S
    BY <1>4, <2>1
  <2>4. Makes(p, S, S)
    BY <2>1, <2>3 DEF Makes, FastOps
  <2> QED BY <1>1, <1>4, <2>1, <2>2, <2>3, <2>4, Advances
<1>8. CASE StoreFast
  <2> DEFINE x == oparg(code, p)
  <2>1. /\ Op(p) = "STORE_FAST"
        /\ S2 = S \cup {x} /\ K2 = K /\ D2 = ClaimedNext(p, D \cup {x}) /\ p2 = p + 1
    BY <1>1, <1>2, <1>8 DEF StoreFast, Running, Advance, ClaimedNext, Op
  <2>2. ~isTerminator(Op(p)) /\ ~isTryBlockSetup(Op(p)) /\ Op(p) \notin Leaving
    BY <2>1 DEF isTerminator, isTryBlockSetup, Leaving
  <2>3. D \cup {x} \subseteq S2 /\ S2 \subseteq Local
    BY <1>4, <2>1 DEF FastOps
  <2>4. Makes(p, S, S2)
    BY <2>1 DEF Makes, FastOps
  <2> QED BY <1>1, <1>4, <2>1, <2>2, <2>3, <2>4, Advances
<1>9. CASE DeleteFast
  <2> DEFINE x == oparg(code, p)
  <2>1. /\ Op(p) = "DELETE_FAST"
        /\ S2 = S \ {x} /\ K2 = K /\ D2 = ClaimedNext(p, D \ {x}) /\ p2 = p + 1
    BY <1>1, <1>2, <1>9 DEF DeleteFast, Running, Advance, ClaimedNext, Op
  <2>2. ~isTerminator(Op(p)) /\ ~isTryBlockSetup(Op(p)) /\ Op(p) \notin Leaving
    BY <2>1 DEF isTerminator, isTryBlockSetup, Leaving
  <2>3. D \ {x} \subseteq S2 /\ S2 \subseteq Local
    BY <1>4, <2>1
  <2>4. Makes(p, S, S2)
    BY <2>1 DEF Makes, FastOps
  <2> QED BY <1>1, <1>4, <2>1, <2>2, <2>3, <2>4, Advances
<1>10. CASE Jump
  <2>1. /\ isAbsoluteJmp(Op(p)) \/ isRelativeJump(Op(p))
        /\ S2 = S /\ K2 = K
    BY <1>1, <1>2, <1>10 DEF Jump, Op
  <2>2. /\ Jumps(Op(p)) /\ ~isTryBlockSetup(Op(p)) /\ Op(p) \notin Leaving
        /\ Op(p) \notin FastOps
    BY <2>1 DEF Jumps, isTryBlockSetup, isRelativeJump, isAbsoluteJmp, Leaving, FastOps
  <2>3. CASE EnterBlock(blocks[BlockOf(pc)].branch)
    <3>1. PICK s : s = blocks[BlockOf(p)].branch
      OBVIOUS
    <3>2. p2 = BlockStart(s) /\ D2 = locals_input[s]
      BY <1>1, <1>2, <2>3, <3>1 DEF EnterBlock
    <3> QED BY <1>1, <2>1, <2>2, <3>1, <3>2, JumpsTo
  <2>4. CASE ~isTerminator(code[pc].op) /\ Advance(defined)
    <3>1. /\ ~isTerminator(Op(p)) /\ D2 = ClaimedNext(p, D) /\ p2 = p + 1
      BY <1>1, <1>2, <2>4 DEF Advance, ClaimedNext, Op
    <3>2. Makes(p, S, S)
      BY <2>2 DEF Makes, FastOps
    <3> QED BY <1>1, <1>4, <2>1, <2>2, <3>1, <3>2, Advances
  <2> QED BY <1>10, <2>3, <2>4 DEF Jump
<1>11. CASE SetupFinally
  <2>1. /\ isTryBlockSetup(Op(p)) /\ S2 = S /\ D2 = ClaimedNext(p, D) /\ p2 = p + 1
        /\ K2 = Append(K, <<"SETUP_FINALLY", blocks[BlockOf(p)].branch>>)
    BY <1>1, <1>2, <1>11 DEF SetupFinally, Advance, ClaimedNext, Op
  <2>2. ~isTerminator(Op(p)) /\ Op(p) \notin Leaving /\ Op(p) \notin FastOps
    BY <2>1 DEF isTerminator, isTryBlockSetup, Leaving, FastOps
  <2>3. Makes(p, S, S)
    BY <2>2 DEF Makes, FastOps
  <2> QED BY <1>1, <1>4, <2>1, <2>2, <2>3, Advances
<1>12. CASE PopBlock
  <2>1. /\ Op(p) \in Leaving /\ S2 = S /\ D2 = ClaimedNext(p, D) /\ p2 = p + 1
        /\ K2 = SubSeq(K, 1, Len(K) - 1)
    BY <1>1, <1>2, <1>12 DEF PopBlock, Running, Advance, ClaimedNext, Op
  <2>2. ~isTerminator(Op(p)) /\ ~isTryBlockSetup(Op(p)) /\ Op(p) \notin FastOps
    BY <2>1 DEF isTerminator, isTryBlockSetup, Leaving, FastOps
  <2>3. Makes(p, S, S)
    BY <2>2 DEF Makes, FastOps
  <2> QED BY <1>1, <1>4, <2>1, <2>2, <2>3, Advances
<1>13. CASE Return
  BY <1>13 DEF Return
<1> QED BY <1>5, <1>6, <1>7, <1>8, <1>9, <1>10, <1>11, <1>12, <1>13 DEF Execute

LEMMA ExecuteKeeps ==
  ASSUME Compilable, RunGraph, phase = "run", Execute, phase' = "run",
         RunAt(pc, bound, defined, blockstack)
  PROVE  (RunGraph /\ RunAt(pc, bound, defined, blockstack))'
<1>1. UNCHANGED static /\ UNCHANGED <<code, block_num, try_block_num, blocks, locals_kept,
        locals_set, locals_ever_deleted, signature, locals_input>>
  BY DEF Execute, Raise, Complete, LoadFast, StoreFast, DeleteFast, Jump, SetupFinally,
         PopBlock, Return, static, analysis, flowVars
<1>2. PICK p2, S2, D2, K2 : /\ RunAt(p2, S2, D2, K2)
                            /\ p2 = pc' /\ S2 = bound' /\ D2 = defined' /\ K2 = blockstack'
  BY ExecuteMoves
<1>3. RunGraph' /\ RunAt(p2, S2, D2, K2)'
  BY <1>1, <1>2, RunRigid
<1> QED BY <1>2, <1>3

\* Two exception blocks with the same handler are one: the handler's first unit is
\* nested in what set its try block up.
LEMMA OneHandlerEach ==
  ASSUME Compilable, RunGraph, NEW eb \in EhBlocks, NEW fb \in EhBlocks,
         blocks[eb].branch = blocks[fb].branch
  PROVE  eb = fb
<1>1. /\ CodeOK /\ Layout /\ Fields
  BY CompilableFacts DEF RunGraph
<1>2. ASSUME NEW x \in EhBlocks
      PROVE  /\ SetupUnit(x) \in Units
             /\ nesting[BlockStart(blocks[x].branch)] =
                  Append(nesting[SetupUnit(x)], [try |-> FALSE, setup |-> SetupUnit(x)])
  <2>1. PICK c \in CodeBlocks : /\ c = blocks[x].eh_setup_block /\ SetupUnit(x) = LastUnit(c)
                                /\ isTryBlockSetup(TailOp(c))
    BY <1>1 DEF Fields, SetupUnit
  <2>2. PICK u \in Units : u = SetupUnit(x) /\ isTryBlockSetup(Op(u)) /\ Jumps(Op(u))
    BY <1>1, <2>1, Blocks, Opcodes DEF TailOp
  <2>3. BlockStart(blocks[x].branch) = Destination(code, u)
    BY <1>1, <2>1, <2>2 DEF Fields, LeadsTo
  <2> QED BY <2>2, <2>3, NestFacts
<1>3. PICK u \in Units, v \in Units : u = SetupUnit(eb) /\ v = SetupUnit(fb)
  BY <1>2
<1>4. PICK e \in Entries, f \in Entries :
        e = [try |-> FALSE, setup |-> u] /\ f = [try |-> FALSE, setup |-> v]
        /\ e.setup = u /\ f.setup = v
  <2>1. [try |-> FALSE, setup |-> u] \in Entries /\ [try |-> FALSE, setup |-> v] \in Entries
    BY DEF Entries
  <2> QED BY <2>1
<1>5. PICK s \in Seq(Entries), t \in Seq(Entries) :
        s = nesting[u] /\ t = nesting[v] /\ Append(s, e) = Append(t, f)
  <2>1. nesting[u] \in Seq(Entries) /\ nesting[v] \in Seq(Entries)
    BY NestFacts
  <2>2. Append(nesting[u], e) = Append(nesting[v], f)
    BY <1>2, <1>3, <1>4
  <2> QED BY <2>1, <2>2
<1>6. /\ Len(Append(s, e)) = Len(s) + 1 /\ Append(s, e)[Len(s) + 1] = e
      /\ Len(Append(t, f)) = Len(t) + 1 /\ Append(t, f)[Len(t) + 1] = f
      /\ Len(s) \in Nat /\ Len(t) \in Nat
  BY AppendProperties
<1>7. e = f
  <2>1. Len(s) = Len(t)
    BY <1>5, <1>6
  <2> QED BY <1>5, <1>6, <2>1
<1> QED BY <1>3, <1>4, <1>7, EhOfIs

-----------------------------------------------------------------------------
(* The whole life of a function.                                           *)

\* The invariant: what each pass has made of the graph, of the summaries and of
\* the claims, and in the end where the run is.
LocalsInv ==
  /\ Compilable
  /\ phase \in {"scan", "create", "link", "parsed"} =>
       IInv /\ BranchInv /\ eh_calls = <<>> /\ blockstack = <<>>
  /\ phase = "intra" =>
       GraphBuilt /\ SummaryTypes /\ IntraInv /\ eh_calls = <<>> /\ blockstack = <<>>
  /\ phase = "eh" => EhGraph /\ EhInv /\ blockstack = <<>>
  /\ phase = "flow" => EhGraph /\ AllAccounted /\ FlowInv /\ blockstack = <<>>
  /\ phase = "run" => RunGraph /\ RunAt(pc, bound, defined, blockstack)

LEMMA InitLocals == Compilable /\ InitCompile => LocalsInv
<1>1. SUFFICES ASSUME Compilable, InitCompile PROVE LocalsInv
  OBVIOUS
<1>2. IInv /\ BranchInv /\ phase = "scan"
  BY <1>1, InitOK DEF InitCompile, InitParse, BranchInv, Compilable
<1> QED BY <1>1, <1>2 DEF LocalsInv, InitCompile

\* The first unit is in no body, and the parameters are assigned.
LEMMA RunStarts ==
  Compilable /\ RunGraph /\ pc = 0 /\ bound = Parameters(signature)
    /\ defined = locals_input[0] /\ blockstack = <<>>
  => RunAt(pc, bound, defined, blockstack)
<1>1. SUFFICES ASSUME Compilable, RunGraph, NEW p, p = 0, NEW S, S = Parameters(signature),
                      NEW D, D = locals_input[0], NEW K, K = <<>>
               PROVE  RunAt(p, S, D, K)
  OBVIOUS
<1>2. CodeOK /\ Layout
  BY <1>1, CompilableFacts DEF RunGraph
<1>3. PICK b \in CodeBlocks : b = 0 /\ BlockStart(b) = 0
  BY <1>2, BlockSets DEF BlockStart
<1>4. D \subseteq S /\ S \subseteq Local
  BY <1>1 DEF RunGraph, Claims, Parameters
<1>5. p \in Units /\ BlockOf(p) = b /\ Out(b) \subseteq Promise(p, blocks[b].end_index, S)
  BY <1>1, <1>3, <1>4, EnterPromise
<1>6. nesting[p] = <<>>
  BY <1>1, <1>5, NestFacts
<1>7. StackFits(p, S, K)
  <2>1. K \in Seq(Slots) /\ Len(K) = 0 /\ Len(nesting[p]) = 0
    BY <1>1, <1>6
  <2> QED BY <2>1 DEF StackFits, Fits
<1> QED BY <1>4, <1>5, <1>7 DEF RunAt

LEMMA RunStartsThen ==
  (Compilable /\ RunGraph /\ pc = 0 /\ bound = Parameters(signature)
     /\ defined = locals_input[0] /\ blockstack = <<>>)'
  => RunAt(pc, bound, defined, blockstack)'
BY RunStarts, PTL

LEMMA FlowStutters ==
  ASSUME EhGraph, AllAccounted, FlowInv, Compilable,
         UNCHANGED <<code, block_num, try_block_num, blocks, locals_kept, locals_set,
                     locals_ever_deleted, signature, entry_locals, locals_input,
                     worklist_link, worklist_head>>
  PROVE  (EhGraph /\ AllAccounted /\ FlowInv)'
<1>1. EhGraph'
  BY EhGraphRigid DEF EhGraph, SummaryTypes
<1>2. AllAccounted'
  <2>1. EhBlocks' = EhBlocks
    BY GraphRigid
  <2> QED BY <2>1, WalkRigid DEF AllAccounted
<1>3. Worklist!vars' = Worklist!vars
  BY DEF Worklist!vars, AllBlocks
<1>4. Worklist!IInv' /\ Worklist!SettledOffList'
  BY <1>3, WorklistTurns DEF FlowInv
<1>5. Parameters(signature)' = Parameters(signature)
  BY DEF Parameters
<1> QED BY <1>1, <1>2, <1>4, <1>5 DEF FlowInv

LEMMA NothingMoves ==
  ASSUME LocalsInv, UNCHANGED vars
  PROVE  LocalsInv'
<1>1. /\ UNCHANGED <<code, phase, cursor, is_boundary, block_num, try_block_num, handler_num>>
      /\ UNCHANGED <<blocks, exception_block_index, signature, locals_kept, locals_set>>
      /\ UNCHANGED <<locals_ever_deleted, visited_eh_block, eh_calls, entry_locals>>
      /\ UNCHANGED <<locals_input, worklist_link, worklist_head>>
      /\ UNCHANGED <<pc, bound, defined, blockstack>> /\ UNCHANGED parseVars
  BY DEF vars, parseVars, analysis, flowVars, runVars
<1>2. Compilable'
  BY <1>1, CompilableRigid DEF LocalsInv
<1>3. CASE phase \in {"scan", "create", "link", "parsed"}
  <2>1. IInv /\ BranchInv
    BY <1>3 DEF LocalsInv
  <2>2. IInv'
    BY <1>1, <2>1, StepKeeps
  <2>3. BranchInv'
    BY <1>1, <2>1, <2>2, BranchStep
  <2> QED BY <1>1, <1>2, <1>3, <2>2, <2>3 DEF LocalsInv
<1>4. CASE phase = "intra"
  <2>1. GraphBuilt /\ SummaryTypes /\ IntraInv
    BY <1>4 DEF LocalsInv
  <2>2. GraphBuilt' /\ AllBlocks' = AllBlocks /\ CodeBlocks' = CodeBlocks /\ EhBlocks' = EhBlocks
    BY <1>1, <2>1, GraphRigid DEF GraphBuilt
  <2>3. SummaryTypes'
    BY <1>1, <2>1, <2>2 DEF SummaryTypes
  <2>4. IntraInv'
    BY <1>1, <2>1, <2>2, UnitsRigid DEF IntraInv, py_instr_num
  <2> QED BY <1>1, <1>2, <1>4, <2>2, <2>3, <2>4 DEF LocalsInv
<1>5. CASE phase = "eh"
  <2>1. EhGraph /\ EhInv /\ Compilable
    BY <1>5 DEF LocalsInv
  <2>2. EhGraph'
    BY <1>1, <2>1, EhGraphRigid DEF EhGraph, SummaryTypes
  <2>3. /\ AllBlocks' = AllBlocks /\ EhBlocks' = EhBlocks /\ CodeBlocks' = CodeBlocks
        /\ \A b : BlockStart(b)' = BlockStart(b)
    BY <1>1, GraphRigid
  <2>4. \A eb : Walking(eb)' <=> Walking(eb)
    <3>1. \A eb : Visited(eb)' = Visited(eb)
      BY <1>1, <2>3 DEF Visited
    <3>2. \A b : Waiting(b)' <=> Waiting(b)
      BY <1>1 DEF Waiting
    <3> QED BY <1>1, <2>3, <3>1, <3>2, WalkRigid, NestingRigid, UnitsRigid DEF Walking
  <2>5. EhInv'
    BY <1>1, <2>1, <2>3, <2>4, WalkRigid DEF EhInv
  <2> QED BY <1>1, <1>2, <1>5, <2>2, <2>5 DEF LocalsInv
<1>6. CASE phase = "flow"
  <2>1. EhGraph /\ AllAccounted /\ FlowInv /\ Compilable
    BY <1>6 DEF LocalsInv
  <2>2. (EhGraph /\ AllAccounted /\ FlowInv)'
    BY <1>1, <2>1, FlowStutters
  <2> QED BY <1>1, <1>2, <1>6, <2>2 DEF LocalsInv
<1>7. CASE phase = "run"
  <2>1. PICK p, S, D, K : p = pc /\ S = bound /\ D = defined /\ K = blockstack
    OBVIOUS
  <2>2. RunGraph /\ RunAt(p, S, D, K)
    BY <1>7, <2>1 DEF LocalsInv
  <2>3. RunGraph' /\ RunAt(p, S, D, K)'
    BY <1>1, <2>2, RunRigid
  <2>4. p = pc' /\ S = bound' /\ D = defined' /\ K = blockstack'
    BY <1>1, <2>1
  <2>5. RunAt(pc, bound, defined, blockstack)'
    BY <2>3, <2>4
  <2> QED BY <1>1, <1>2, <1>7, <2>3, <2>5 DEF LocalsInv
<1>8. CASE phase \notin {"scan", "create", "link", "parsed", "intra", "eh", "flow", "run"}
  BY <1>1, <1>2, <1>8 DEF LocalsInv
<1> QED BY <1>3, <1>4, <1>5, <1>6, <1>7, <1>8

LEMMA CompileKeeps ==
  ASSUME LocalsInv, Compile
  PROVE  LocalsInv'
<1>1. Compilable /\ Compilable'
  BY CompilableRigid DEF LocalsInv, Compile, Parse, ParseNext, Scan, EndScan, Create, EndCreate,
     Link, EndLink, StartIntra, Intra, EndIntra, VisitBody, analyzeEHBlock, StartFlow, FlowStep,
     StartRun, parseVars
<1>2. CASE Parse
  <2>1. phase \in {"scan", "create", "link"} /\ ParseNext
        /\ UNCHANGED <<eh_calls, blockstack>>
    BY <1>2 DEF Parse, ParseNext, Scan, EndScan, Create, EndCreate, Link, EndLink,
                analysis, runVars
  <2>2. IInv /\ BranchInv /\ eh_calls = <<>> /\ blockstack = <<>>
    BY <2>1 DEF LocalsInv
  <2>3. IInv' /\ BranchInv'
    BY <2>1, <2>2, StepKeeps, BranchStep
  <2>4. phase' \in {"scan", "create", "link", "parsed"}
    BY <2>3 DEF IInv
  <2> QED BY <1>1, <2>1, <2>2, <2>3, <2>4 DEF LocalsInv
<1>3. CASE StartIntra
  <2>1. phase = "parsed" /\ phase' = "intra" /\ UNCHANGED <<eh_calls, blockstack>>
    BY <1>3 DEF StartIntra, runVars
  <2>2. GraphBuilt /\ eh_calls = <<>> /\ blockstack = <<>>
    BY <2>1, ParsedGraph DEF LocalsInv, GraphBuilt
  <2>3. (GraphBuilt /\ SummaryTypes /\ IntraInv)'
    BY <1>1, <1>3, <2>2, StartIntraMakes
  <2> QED BY <1>1, <2>1, <2>2, <2>3 DEF LocalsInv
<1>4. CASE Intra
  <2>1. phase = "intra" /\ phase' = "intra" /\ UNCHANGED <<eh_calls, blockstack>>
    BY <1>4 DEF Intra, runVars
  <2>2. GraphBuilt /\ SummaryTypes /\ IntraInv /\ eh_calls = <<>> /\ blockstack = <<>>
    BY <2>1 DEF LocalsInv
  <2>3. (GraphBuilt /\ SummaryTypes /\ IntraInv)'
    BY <1>1, <1>4, <2>2, IntraKeeps
  <2> QED BY <1>1, <2>1, <2>2, <2>3 DEF LocalsInv
<1>5. CASE EndIntra
  <2>1. phase = "intra" /\ phase' = "eh" /\ UNCHANGED <<eh_calls, blockstack>>
    BY <1>5 DEF EndIntra, analysis, runVars
  <2>2. GraphBuilt /\ SummaryTypes /\ IntraInv /\ eh_calls = <<>> /\ blockstack = <<>>
    BY <2>1 DEF LocalsInv
  <2>3. (EhGraph /\ EhInv)'
    BY <1>1, <1>5, <2>2, EndIntraStarts
  <2> QED BY <1>1, <2>1, <2>2, <2>3 DEF LocalsInv
<1>6. CASE VisitBody
  <2>1. phase = "eh" /\ phase' = "eh" /\ UNCHANGED blockstack
    BY <1>6 DEF VisitBody, runVars
  <2>2. EhGraph /\ EhInv /\ blockstack = <<>>
    BY <2>1 DEF LocalsInv
  <2>3. (EhGraph /\ EhInv)'
    BY <1>1, <1>6, <2>2, VisitBodyKeeps
  <2> QED BY <1>1, <2>1, <2>2, <2>3 DEF LocalsInv
<1>7. CASE analyzeEHBlock
  <2>1. phase = "eh" /\ phase' \in {"eh", "rejected"} /\ UNCHANGED blockstack
    BY <1>7 DEF analyzeEHBlock, runVars
  <2>2. EhGraph /\ EhInv /\ blockstack = <<>>
    BY <2>1 DEF LocalsInv
  <2>3. CASE phase' = "rejected"
    BY <1>1, <2>3 DEF LocalsInv
  <2>4. CASE phase' = "eh"
    <3>1. (EhGraph /\ EhInv)'
      BY <1>1, <1>7, <2>2, <2>4, analyzeEHBlockKeeps
    <3> QED BY <1>1, <2>1, <2>2, <2>4, <3>1 DEF LocalsInv
  <2> QED BY <2>1, <2>3, <2>4
<1>8. CASE StartFlow
  <2>1. phase = "eh" /\ phase' = "flow" /\ UNCHANGED blockstack
    BY <1>8 DEF StartFlow, runVars
  <2>2. EhGraph /\ EhInv /\ blockstack = <<>>
    BY <2>1 DEF LocalsInv
  <2>3. (EhGraph /\ AllAccounted /\ FlowInv)'
    BY <1>1, <1>8, <2>2, StartFlowMakes
  <2> QED BY <1>1, <2>1, <2>2, <2>3 DEF LocalsInv
<1>9. CASE FlowStep
  <2>1. phase = "flow" /\ phase' = "flow" /\ UNCHANGED blockstack
    BY <1>9 DEF FlowStep, parseVars, runVars
  <2>2. EhGraph /\ AllAccounted /\ FlowInv /\ blockstack = <<>>
    BY <2>1 DEF LocalsInv
  <2>3. (EhGraph /\ AllAccounted /\ FlowInv)'
    BY <1>1, <1>9, <2>2, FlowStepKeeps
  <2> QED BY <1>1, <2>1, <2>2, <2>3 DEF LocalsInv
<1>10. CASE StartRun
  <2>1. /\ phase = "flow" /\ phase' = "run" /\ pc' = 0 /\ bound' = Parameters(signature)
        /\ defined' = locals_input[0]
        /\ UNCHANGED <<blockstack, signature, locals_input>>
    BY <1>10 DEF StartRun, flowVars
  <2>2. EhGraph /\ AllAccounted /\ FlowInv /\ blockstack = <<>>
    BY <2>1 DEF LocalsInv
  <2>3. RunGraph'
    BY <1>1, <1>10, <2>2, StartRunMakes
  <2>4. bound' = Parameters(signature)' /\ defined' = locals_input'[0] /\ blockstack' = <<>>
    BY <2>1, <2>2 DEF Parameters
  <2>5. RunAt(pc, bound, defined, blockstack)'
    BY <1>1, <2>1, <2>3, <2>4, RunStartsThen
  <2> QED BY <1>1, <2>1, <2>3, <2>5 DEF LocalsInv
<1> QED BY <1>2, <1>3, <1>4, <1>5, <1>6, <1>7, <1>8, <1>9, <1>10 DEF Compile

LEMMA RunKeeps ==
  ASSUME LocalsInv, Execute
  PROVE  LocalsInv'
<1>1. UNCHANGED <<code, signature>> /\ phase = "run" /\ phase' \in {"run", "returned"}
  BY DEF Execute, Raise, Unwind, Complete, LoadFast, StoreFast, DeleteFast, Jump, SetupFinally,
         PopBlock, Return, Running, static
<1>2. Compilable /\ Compilable'
  BY <1>1, CompilableRigid DEF LocalsInv
<1>3. RunGraph /\ RunAt(pc, bound, defined, blockstack)
  BY <1>1 DEF LocalsInv
<1>4. CASE phase' = "returned"
  BY <1>2, <1>4 DEF LocalsInv
<1>5. CASE phase' = "run"
  <2>1. (RunGraph /\ RunAt(pc, bound, defined, blockstack))'
    BY <1>1, <1>2, <1>3, <1>5, ExecuteKeeps
  <2> QED BY <1>2, <1>5, <2>1 DEF LocalsInv
<1> QED BY <1>1, <1>4, <1>5

LEMMA StepLocals == LocalsInv /\ [Next]_vars => LocalsInv'
<1>1. SUFFICES ASSUME LocalsInv, [Next]_vars PROVE LocalsInv'
  OBVIOUS
<1>2. CASE Compile
  BY <1>1, <1>2, CompileKeeps
<1>3. CASE Execute
  BY <1>1, <1>3, RunKeeps
<1>4. CASE UNCHANGED vars
  BY <1>1, <1>4, NothingMoves
<1> QED BY <1>1, <1>2, <1>3, <1>4 DEF Next

\* The invariant that all that follows rests on: every pass leaves the graph, the
\* summaries and the claims as the next relies on them, and the run stays where
\* the claims hold and the block stack is what the code's nesting says.
THEOREM LocalsInvariant == CompileSpec => []LocalsInv
BY InitLocals, StepLocals, PTL DEF CompileSpec

\* The tests that were dropped were not needed: whatever the running code takes
\* for assigned is assigned, in every code the compiler might emit.
THEOREM DroppedTestsSafe == CompileSpec => []DefinedIsBound
<1>1. LocalsInv => DefinedIsBound
  BY DEF LocalsInv, RunAt, DefinedIsBound
<1> QED BY <1>1, LocalsInvariant, PTL

\* No handler is in place whose analysis missed a block that runs under it: the
\* walk over a try block's body visits all that the run may reach before the
\* try block is left.
THEOREM HandlersAccounted == CompileSpec => []BodyAccounted
<1>1. LocalsInv => BodyAccounted
  <2>1. SUFFICES ASSUME LocalsInv, phase = "run", NEW i \in DOMAIN blockstack, NEW eb \in EhBlocks,
                        blockstack[i] = <<"SETUP_FINALLY", blocks[eb].branch>>
                 PROVE  locals_kept[eb] \cap locals_ever_deleted[BlockOf(pc)] = {}
    BY DEF BodyAccounted, EhBlocks
  <2>2. Compilable /\ RunGraph /\ RunAt(pc, bound, defined, blockstack)
    BY <2>1 DEF LocalsInv
  <2>3. /\ pc \in Units /\ StackFits(pc, bound, blockstack) /\ i \in 1 .. Len(blockstack)
        /\ CodeOK /\ Layout
    BY <2>1, <2>2, CompilableFacts DEF RunAt, StackFits, RunGraph
  <2>4. nesting[pc][i].try
    <3>1. ~nesting[pc][i].try => blockstack[i] = <<"EXCEPT_HANDLER", Nil>>
      BY <2>3 DEF StackFits, Fits
    <3> QED BY <2>1, <3>1
  <2>5. PICK fb : fb = EhOf(nesting[pc][i].setup)
    OBVIOUS
  <2>6. /\ fb \in EhBlocks /\ BlockOf(pc) \in Body(fb)
        /\ blockstack[i] = <<"SETUP_FINALLY", blocks[fb].branch>>
    <3>1. Guards(fb, i, pc, bound, blockstack)
      BY <2>2, <2>3, <2>4, <2>5, TryPlace
    <3> QED BY <3>1 DEF Guards
  <2>7. fb = eb
    BY <2>1, <2>2, <2>6, OneHandlerEach
  <2>8. PICK b \in CodeBlocks : b = BlockOf(pc)
    BY <2>3, BlockOfUnit
  <2>9. locals_kept[eb] \cap EverDeleted(BlockStart(b), blocks[b].end_index) = {}
    BY <2>2, <2>6, <2>7, <2>8, BodyCovers DEF Covers
  <2> QED BY <2>2, <2>8, <2>9 DEF RunGraph, Summaries
<1> QED BY <1>1, LocalsInvariant, PTL

\* The analysis of the locals begins where its own proofs assume it does: with a
\* well-formed graph, every block in the list, and the claims of the entry mask.
THEOREM WorklistStartsWell == CompileSpec => FlowStartsWell
<1>1. LocalsInv /\ [Next]_vars => [phase # "flow" /\ phase' = "flow" => Flow!Init']_vars
  <2>1. SUFFICES ASSUME LocalsInv, Next, phase # "flow", phase' = "flow" PROVE Flow!Init'
    OBVIOUS
  <2>2. StartFlow /\ phase = "eh"
    <3>1. ~Parse
      <4>1. SUFFICES ASSUME Parse PROVE FALSE
        OBVIOUS
      <4> QED BY <2>1, <4>1 DEF Parse, ParseNext, Scan, EndScan, Create, EndCreate, Link, EndLink,
                  LocalsInv, IInv
    <3>2. ~Execute
      BY <2>1 DEF Execute, Raise, Unwind, Complete, LoadFast, StoreFast, DeleteFast, Jump,
         SetupFinally, PopBlock, Return, Running
    <3> QED BY <2>1, <3>1, <3>2 DEF Next, Compile, StartIntra, Intra, EndIntra, VisitBody,
         analyzeEHBlock, StartFlow, FlowStep, StartRun
  <2>3. Compilable /\ EhGraph /\ EhInv
    BY <2>1, <2>2 DEF LocalsInv
  <2> QED BY <2>2, <2>3, StartFlowMakes
<1> QED BY <1>1, LocalsInvariant, PTL DEF CompileSpec, FlowStartsWell
=============================================================================
