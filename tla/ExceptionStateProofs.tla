------------------------ MODULE ExceptionStateProofs ------------------------
(***************************************************************************)
(* Proof that the exception the caller handles is back when a function has *)
(* left its handlers, however deep they were nested.                       *)
(*                                                                         *)
(* OutsideRestored is not inductive: it says nothing while a handler is    *)
(* entered.  OutsideSaved does: the outermost handler has it saved.        *)
(***************************************************************************)
EXTENDS ExceptionState, SequenceTheorems, TLAPS

Block == [handler : BOOLEAN, saved : Handled]

\* Positions of the handlers entered.
Handlers == {i \in 1 .. Len(blocks) : blocks[i].handler}

Outermost(i) == i \in Handlers /\ \A j \in Handlers : i <= j

OutsideSaved ==
  /\ Handlers = {} => handled = outside
  /\ \A i \in Handlers : Outermost(i) => blocks[i].saved = outside

IInv == TypeOK /\ OutsideSaved

-----------------------------------------------------------------------------
\* What the actions do to the blocks: all but the last stay, or one is put after
\* the rest.
LEMMA RestIs ==
  ASSUME TypeOK, blocks # <<>>
  PROVE  /\ Rest \in Seq(Block) /\ Len(Rest) = Len(blocks) - 1
         /\ \A i \in 1 .. Len(Rest) : Rest[i] = blocks[i]
         /\ Top \in Block
         /\ Len(blocks) \in Nat \ {0}
<1>1. blocks \in Seq(Block)
  BY DEF TypeOK, Block
<1>2. Len(blocks) \in Nat \ {0} /\ \A i \in 1 .. Len(blocks) : blocks[i] \in Block
  BY <1>1
<1>3. /\ SubSeq(blocks, 1, Len(blocks) - 1) \in Seq(Block)
      /\ Len(SubSeq(blocks, 1, Len(blocks) - 1)) = Len(blocks) - 1
      /\ \A i \in 1 .. Len(blocks) - 1 : SubSeq(blocks, 1, Len(blocks) - 1)[i] = blocks[i]
  <2> DEFINE k == Len(blocks) - 1
  <2>1. k \in Nat /\ \A i \in 1 .. k : blocks[i] \in Block
    BY <1>2
  <2> HIDE DEF k
  <2>2. /\ SubSeq(blocks, 1, k) \in Seq(Block)
        /\ Len(SubSeq(blocks, 1, k)) = IF 1 <= k THEN k - 1 + 1 ELSE 0
        /\ \A i \in 1 .. k - 1 + 1 : SubSeq(blocks, 1, k)[i] = blocks[1 + i - 1]
    BY <2>1, SubSeqProperties
  <2>3. Len(SubSeq(blocks, 1, k)) = k /\ \A i \in 1 .. k : SubSeq(blocks, 1, k)[i] = blocks[i]
    BY <2>1, <2>2
  <2> QED BY <2>2, <2>3 DEF k
<1> QED BY <1>2, <1>3 DEF Top, Rest

LEMMA AppendIs ==
  ASSUME NEW s \in Seq(Block), NEW b \in Block
  PROVE  /\ Append(s, b) \in Seq(Block) /\ Len(Append(s, b)) = Len(s) + 1
         /\ \A i \in 1 .. Len(s) : Append(s, b)[i] = s[i]
         /\ Append(s, b)[Len(s) + 1] = b
OBVIOUS

LEMMA InitialState == Init => IInv
<1> SUFFICES ASSUME Init PROVE IInv
  OBVIOUS
<1>1. Handlers = {}
  BY DEF Init, Handlers
<1>2. TypeOK
  BY DEF Init, TypeOK, Handled
<1> QED BY <1>1, <1>2 DEF Init, IInv, OutsideSaved

\* Types are kept by every step.
LEMMA TypeStep == TypeOK /\ [Next]_vars => TypeOK'
<1> SUFFICES ASSUME TypeOK, [Next]_vars PROVE TypeOK'
  OBVIOUS
<1> USE DEF Block
<1>1. CASE EnterTry
  <2>1. Try \in Block
    BY DEF Try, Handled
  <2> QED BY <1>1, <2>1, AppendIs DEF EnterTry, TypeOK
<1>2. CASE LeaveTry
  BY <1>2, RestIs DEF LeaveTry, TypeOK
<1>3. CASE \E e \in Exc : Raise(e)
  BY <1>3 DEF Raise, TypeOK, Handled
<1>4. CASE Catch
  <2>1. Handler(handled) \in Block
    BY DEF Handler, TypeOK
  <2> QED BY <1>4, <2>1, RestIs, AppendIs DEF Catch, TypeOK, Handled
<1>5. CASE LeaveHandler
  BY <1>5, RestIs DEF LeaveHandler, TypeOK
<1>6. CASE UNCHANGED vars
  BY <1>6 DEF vars, TypeOK
<1> QED BY <1>1, <1>2, <1>3, <1>4, <1>5, <1>6 DEF Next

\* The outermost handler keeps what the caller was handling.
LEMMA SavedStep == IInv /\ [Next]_vars => OutsideSaved'
<1> SUFFICES ASSUME IInv, [Next]_vars PROVE OutsideSaved'
  OBVIOUS
<1> USE DEF IInv
<1>1. CASE EnterTry
  <2>1. Try \in Block /\ ~Try.handler
    BY DEF Try, Handled, Block
  <2>2. /\ Len(blocks') = Len(blocks) + 1 /\ Len(blocks) \in Nat
        /\ \A i \in 1 .. Len(blocks) : blocks'[i] = blocks[i]
        /\ ~blocks'[Len(blocks) + 1].handler
    BY <1>1, <2>1, AppendIs DEF EnterTry, TypeOK, Block
  <2>3. Handlers' = Handlers
    BY <2>2 DEF Handlers
  <2>4. \A i \in Handlers : blocks'[i] = blocks[i]
    BY <2>2 DEF Handlers
  <2> QED BY <1>1, <2>3, <2>4 DEF EnterTry, OutsideSaved, Outermost
<1>2. CASE LeaveTry
  <2>1. /\ Len(blocks') = Len(blocks) - 1 /\ Len(blocks) \in Nat \ {0}
        /\ \A i \in 1 .. Len(blocks) - 1 : blocks'[i] = blocks[i]
        /\ ~blocks[Len(blocks)].handler
    BY <1>2, RestIs DEF LeaveTry, Top
  <2>2. Handlers' = Handlers
    BY <2>1 DEF Handlers
  <2>3. \A i \in Handlers : blocks'[i] = blocks[i]
    BY <2>1 DEF Handlers
  <2> QED BY <1>2, <2>2, <2>3 DEF LeaveTry, OutsideSaved, Outermost
<1>3. CASE \E e \in Exc : Raise(e)
  BY <1>3 DEF Raise, OutsideSaved, Outermost, Handlers
<1>4. CASE Catch
  <2> DEFINE n == Len(blocks)
  <2>1. Handler(handled) \in Block /\ Handler(handled).handler /\ Handler(handled).saved = handled
    BY DEF Handler, TypeOK, Block
  <2>2. /\ Len(blocks') = n /\ n \in Nat \ {0}
        /\ \A i \in 1 .. n - 1 : blocks'[i] = blocks[i]
        /\ blocks'[n].handler /\ blocks'[n].saved = handled
        /\ ~blocks[n].handler
    BY <1>4, <2>1, RestIs, AppendIs DEF Catch, Top
  <2> HIDE DEF n
  <2>3. Handlers' = Handlers \cup {n} /\ n \notin Handlers
    BY <2>2 DEF Handlers, n
  <2>4. \A i \in Handlers : i \in Nat /\ i < n /\ blocks'[i] = blocks[i]
    BY <2>2, <2>3 DEF Handlers, n
  <2>5. ASSUME NEW i \in Handlers', Outermost(i)' PROVE blocks'[i].saved = outside
    <3>1. CASE Handlers = {}
      BY <2>2, <2>3, <3>1 DEF OutsideSaved
    <3>2. CASE Handlers # {}
      <4>1. i \in Handlers
        BY <2>2, <2>3, <2>4, <2>5, <3>2 DEF Outermost
      <4>2. Outermost(i)
        BY <2>3, <2>5, <4>1 DEF Outermost
      <4> QED BY <2>4, <4>1, <4>2 DEF OutsideSaved
    <3> QED BY <3>1, <3>2
  <2> QED BY <1>4, <2>3, <2>5 DEF Catch, OutsideSaved
<1>5. CASE LeaveHandler
  <2> DEFINE n == Len(blocks)
  <2>1. /\ Len(blocks') = n - 1 /\ n \in Nat \ {0}
        /\ \A i \in 1 .. n - 1 : blocks'[i] = blocks[i]
        /\ blocks[n].handler /\ handled' = blocks[n].saved
    BY <1>5, RestIs DEF LeaveHandler, Top
  <2> HIDE DEF n
  <2>2. Handlers' = Handlers \ {n} /\ n \in Handlers
    BY <2>1 DEF Handlers, n
  <2>3. \A i \in Handlers' : i \in Nat /\ i < n /\ blocks'[i] = blocks[i]
    BY <2>1, <2>2 DEF Handlers, n
  <2>4. Handlers' = {} => handled' = outside
    <3> SUFFICES ASSUME Handlers' = {} PROVE handled' = outside
      OBVIOUS
    <3>1. Outermost(n)
      BY <2>1, <2>2 DEF Outermost
    <3> QED BY <2>1, <2>2, <3>1 DEF OutsideSaved
  <2>5. ASSUME NEW i \in Handlers', Outermost(i)' PROVE blocks'[i].saved = outside
    <3>1. Outermost(i)
      BY <2>1, <2>2, <2>3, <2>5 DEF Outermost
    <3> QED BY <2>2, <2>3, <3>1 DEF OutsideSaved
  <2> QED BY <1>5, <2>4, <2>5 DEF LeaveHandler, OutsideSaved
<1>6. CASE UNCHANGED vars
  BY <1>6 DEF vars, OutsideSaved, Outermost, Handlers
<1> QED BY <1>1, <1>2, <1>3, <1>4, <1>5, <1>6 DEF Next

\* Blocks and exceptions keep their types.
THEOREM TypeCorrect == Spec => []TypeOK
<1>1. Init => TypeOK
  BY InitialState DEF IInv
<1> QED BY <1>1, TypeStep, PTL DEF Spec

\* When no handler is entered, the exception being handled is the caller's: what
\* the unwinder and POP_EXCEPT restore adds up, for any nesting.
THEOREM CallersExceptionRestored == Spec => []OutsideRestored
<1>1. IInv /\ [Next]_vars => IInv'
  BY TypeStep, SavedStep DEF IInv
<1>2. IInv => OutsideRestored
  <2> SUFFICES ASSUME IInv, \A i \in 1 .. Len(blocks) : ~blocks[i].handler
               PROVE  handled = outside
    BY DEF OutsideRestored
  <2> QED BY DEF IInv, OutsideSaved, Handlers
<1> QED BY InitialState, <1>1, <1>2, PTL DEF Spec
=============================================================================
