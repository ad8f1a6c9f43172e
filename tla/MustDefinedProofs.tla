------------------------- MODULE MustDefinedProofs -------------------------
(***************************************************************************)
(* Proofs about MustDefined, for any control-flow graph and any locals.    *)
(***************************************************************************)
EXTENDS MustDefined, TLAPS

\* What Process(b) does to a block's claim, with the case split made once.
LEMMA ProcessInput ==
  ASSUME NEW b \in Block, NEW s \in Block, TypeOK, Process(b)
  PROVE  /\ input'[s] = IF s \in Successors(b)
                          THEN input[s] \cap Output(b, input[b]) ELSE input[s]
         /\ input'[s] \subseteq input[s]
BY DEF TypeOK, Process

\* The variables of the graph, and what is defined from them alone, are rigid.
LEMMA GraphRigid ==
  ASSUME UNCHANGED graph
  PROVE  /\ Block' = Block
         /\ GraphOK' <=> GraphOK
         /\ \A b : Successors(b)' = Successors(b)
         /\ \A b, X : Output(b, X)' = Output(b, X)
         /\ \A X : Solution(X)' <=> Solution(X)
<1>1. Block' = Block
  BY DEF graph, Block
<1>2. \A b : Successors(b)' = Successors(b)
  BY <1>1 DEF graph, Successors
<1>3. \A b, X : Output(b, X)' = Output(b, X)
  BY DEF graph, Output
<1>4. \A X : Solution(X)' <=> Solution(X)
  BY <1>1, <1>2, <1>3 DEF graph, Solution
<1>5. GraphOK' <=> GraphOK
  BY <1>1 DEF graph, GraphOK
<1> QED BY <1>1, <1>2, <1>3, <1>4, <1>5

\* Every state is well typed: claims are sets of locals, pending blocks blocks.
LEMMA TypeInit == Init => TypeOK
BY DEF Init, TypeOK, GraphOK

LEMMA TypeStep == TypeOK /\ [Next]_vars => TypeOK'
<1> SUFFICES ASSUME TypeOK, [Next]_vars PROVE TypeOK'
  OBVIOUS
<1>1. CASE Next
  <2>1. PICK b \in Block : Process(b)
    BY <1>1 DEF Next
  <2>2. UNCHANGED graph
    BY <2>1 DEF Process
  <2>3. GraphOK' /\ Block' = Block
    BY <2>2, GraphRigid DEF TypeOK
  <2>4. input' \in [Block -> SUBSET Local]
    BY <2>1 DEF Process, TypeOK
  <2>5. pending' \in SUBSET Block
    BY <2>1 DEF Process, TypeOK, Successors
  <2> QED BY <2>3, <2>4, <2>5 DEF TypeOK
<1>2. CASE UNCHANGED vars
  BY <1>2, GraphRigid DEF vars, graph, TypeOK
<1> QED BY <1>1, <1>2

THEOREM TypeCorrect == Spec => []TypeOK
BY TypeInit, TypeStep, PTL DEF Spec

-----------------------------------------------------------------------------
\* A block that is not pending provides what its successors claim.
LEMMA SettledInit == Init => Settled
<1> SUFFICES ASSUME Init PROVE Settled
  OBVIOUS
<1>1. 0 \in Block
  BY DEF Init, GraphOK, Block
<1>2. input[0] = entry /\ Block \ pending = {}
  BY <1>1 DEF Init
<1> QED BY <1>2 DEF Settled

LEMMA SettledStep == TypeOK /\ Settled /\ [Next]_vars => Settled'
<1> SUFFICES ASSUME TypeOK, Settled, [Next]_vars PROVE Settled'
  OBVIOUS
<1>1. CASE Next
  <2>1. PICK b \in Block : Process(b)
    BY <1>1 DEF Next
  <2>2. UNCHANGED graph
    BY <2>1 DEF Process
  <2> DEFINE out == Output(b, input[b])
  <2>3. input'[0] \subseteq entry'
    <3>1. 0 \in Block
      BY DEF TypeOK, GraphOK, Block
    <3> QED BY <3>1, <2>1, <2>2, ProcessInput DEF Settled, graph
  <2>4. ASSUME NEW a \in Block, a \notin pending', NEW s \in Block, s \in Successors(a)
        PROVE  input'[s] \subseteq Output(a, input'[a])
    <3>1. input'[s] \subseteq input[s] /\ input'[a] \subseteq input[a]
      BY <2>1, ProcessInput
    <3>2. pending' = (pending \ {b}) \cup {t \in Successors(b) : ~(input[t] \subseteq out)}
      BY <2>1 DEF Process
    \* The claim of a did not shrink, or a would be pending again.
    <3>3. input'[a] = input[a]
      <4>1. CASE a \in Successors(b)
        <5>1. input[a] \subseteq out
          BY <3>2, <4>1, <2>4
        <5> QED BY <5>1, <4>1, <2>1, ProcessInput
      <4>2. CASE a \notin Successors(b)
        BY <4>2, <2>1, ProcessInput
      <4> QED BY <4>1, <4>2
    <3>4. CASE a = b
      <4>1. input'[s] = input[s] \cap out
        BY <3>4, <2>1, <2>4, ProcessInput
      <4> QED BY <4>1, <3>3, <3>4
    <3>5. CASE a # b
      <4>1. a \notin pending
        BY <3>2, <3>5, <2>4
      <4>2. input[s] \subseteq Output(a, input[a])
        BY <4>1, <2>4 DEF Settled
      <4> QED BY <4>2, <3>1, <3>3
    <3> QED BY <3>4, <3>5
  <2>5. \A a \in Block \ pending' : \A s \in Successors(a) :
          input'[s] \subseteq Output(a, input'[a])
    BY <2>4 DEF Successors
  <2>6. /\ Block' = Block
        /\ \A a : Successors(a)' = Successors(a)
        /\ \A a : Output(a, input[a])' = Output(a, input'[a])
    BY <2>2, GraphRigid DEF graph, Output
  <2> QED BY <2>3, <2>5, <2>6 DEF Settled
<1>2. CASE UNCHANGED vars
  <2>1. UNCHANGED graph
    BY <1>2 DEF vars, graph
  <2> QED BY <1>2, <2>1, GraphRigid DEF vars, Settled
<1> QED BY <1>1, <1>2

LEMMA DoneIsSolution == TypeOK /\ Settled => SoundWhenDone
BY DEF TypeOK, Settled, SoundWhenDone, Solution

\* When no block is pending, every local claimed at a block is assigned on
\* every edge into it.
THEOREM Sound == Spec => []SoundWhenDone
<1>1. TypeOK /\ Settled /\ [Next]_vars => (TypeOK /\ Settled)'
  BY TypeStep, SettledStep
<1> QED BY TypeInit, SettledInit, DoneIsSolution, <1>1, PTL DEF Spec

-----------------------------------------------------------------------------
\* No step takes from a block a local that some sound answer claims there.
LEMMA KeepsInit == Init => KeepsEverySolution
<1> SUFFICES ASSUME Init, NEW X \in [Block -> SUBSET Local], Solution(X), NEW b \in Block
             PROVE  X[b] \subseteq input[b]
  BY DEF KeepsEverySolution
<1>1. CASE b = 0
  BY <1>1 DEF Init, Solution
<1>2. CASE b # 0
  BY <1>2 DEF Init
<1> QED BY <1>1, <1>2

LEMMA KeepsStep == TypeOK /\ KeepsEverySolution /\ [Next]_vars => KeepsEverySolution'
<1> SUFFICES ASSUME TypeOK, KeepsEverySolution, [Next]_vars PROVE KeepsEverySolution'
  OBVIOUS
<1>1. CASE Next
  <2>1. PICK b \in Block : Process(b)
    BY <1>1 DEF Next
  <2>2. UNCHANGED graph
    BY <2>1 DEF Process
  <2>3. ASSUME NEW X \in [Block -> SUBSET Local], Solution(X), NEW s \in Block
        PROVE  X[s] \subseteq input'[s]
    <3>1. X[b] \subseteq input[b] /\ X[s] \subseteq input[s]
      BY <2>3 DEF KeepsEverySolution
    <3>2. CASE s \in Successors(b)
      <4>1. X[s] \subseteq Output(b, X[b])
        BY <2>3, <3>2 DEF Solution
      <4>2. Output(b, X[b]) \subseteq Output(b, input[b])
        BY <3>1 DEF Output
      <4> QED BY <4>1, <4>2, <3>1, <3>2, <2>1, ProcessInput
    <3>3. CASE s \notin Successors(b)
      BY <3>1, <3>3, <2>1, ProcessInput
    <3> QED BY <3>2, <3>3
  <2> QED BY <2>2, <2>3, GraphRigid DEF KeepsEverySolution
<1>2. CASE UNCHANGED vars
  <2>1. UNCHANGED graph
    BY <1>2 DEF vars, graph
  <2> QED BY <1>2, <2>1, GraphRigid DEF vars, KeepsEverySolution
<1> QED BY <1>1, <1>2

\* The analysis is exact: what it settles on contains every sound answer.
THEOREM Precise == Spec => []KeepsEverySolution
<1>1. TypeOK /\ KeepsEverySolution /\ [Next]_vars => (TypeOK /\ KeepsEverySolution)'
  BY TypeStep, KeepsStep
<1> QED BY TypeInit, KeepsInit, <1>1, PTL DEF Spec
=============================================================================
