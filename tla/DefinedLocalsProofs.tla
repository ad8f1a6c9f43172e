------------------------ MODULE DefinedLocalsProofs ------------------------
(***************************************************************************)
(* Proofs about DefinedLocals, for any control-flow graph: the intrusive   *)
(* list is a list in every state, and the loop implements MustDefined.     *)
(***************************************************************************)
EXTENDS DefinedLocals, FiniteSets, FiniteSetTheorems, TLAPS

\* The type of a list: a head and one link per block.
ListType(list) ==
  /\ list.head \in Block \cup {Nil}
  /\ list.link \in [Block -> Block \cup {Nil}]

LEMMA GraphRigid ==
  ASSUME UNCHANGED graph
  PROVE  /\ Block' = Block
         /\ GraphOK' <=> GraphOK
BY DEF graph, Block, GraphOK

\* Pushing a block gives a list again, and one more block is linked exactly
\* when the block had lost a local and was in no list.
LEMMA PushGivesList ==
  ASSUME NEW list, ListType(list), NEW n \in Nat, NEW q \in [1 .. n -> Block],
         Spells(list, q, n), NEW s, NEW out, nblock \in Nat
  PROVE  /\ ListType(Push(list, s, out))
         /\ \E m \in Nat : \E r \in [1 .. m -> Block] : Spells(Push(list, s, out), r, m)
         /\ {t \in Block : Push(list, s, out).link[t] # t} =
              {t \in Block : list.link[t] # t} \cup
              {t \in Block : t = s /\ ~(locals_input[t] \subseteq out)}
<1> DEFINE push == Push(list, s, out)
<1>0. Nil \notin Block
  BY NilAssumption DEF Block
<1>1. CASE ~(s \in Block /\ ~(locals_input[s] \subseteq out) /\ list.link[s] = s)
  <2>1. push = list
    BY <1>1 DEF Push
  <2> QED BY <2>1, <1>1
<1>2. CASE s \in Block /\ ~(locals_input[s] \subseteq out) /\ list.link[s] = s
  <2>1. /\ push.head = s
        /\ push.link = [list.link EXCEPT ![s] = list.head]
    BY <1>2 DEF Push
  <2>2. \A i \in 1 .. n : q[i] # s
    BY <1>0, <1>2 DEF Spells
  <2>3. list.head # s
    BY <2>2, <1>0, <1>2 DEF Spells
  <2>4. ListType(push)
    BY <2>1, <1>2 DEF ListType
  <2>5. \A t \in Block : push.link[t] = IF t = s THEN list.head ELSE list.link[t]
    BY <2>1, <1>2 DEF ListType
  <2> DEFINE r == [i \in 1 .. n + 1 |-> IF i = n + 1 THEN s ELSE q[i]]
  <2>6. r \in [1 .. n + 1 -> Block]
    BY <1>2
  <2>7. Spells(push, r, n + 1)
    <3>1. \A i, j \in 1 .. n + 1 : r[i] = r[j] => i = j
      BY <2>2 DEF Spells
    <3>2. ASSUME NEW i \in 1 .. n + 1
          PROVE  push.link[r[i]] = IF i = 1 THEN Nil ELSE r[i - 1]
      <4>1. CASE i = n + 1
        BY <4>1, <2>5, <1>2 DEF Spells
      <4>2. CASE i # n + 1
        <5>1. i \in 1 .. n /\ r[i] = q[i] /\ q[i] # s /\ q[i] \in Block
          BY <4>2, <2>2
        <5>2. push.link[r[i]] = list.link[q[i]]
          BY <5>1, <2>5
        <5>3. i # 1 => i - 1 \in 1 .. n + 1 /\ i - 1 # n + 1
          BY <5>1
        <5> QED BY <5>1, <5>2, <5>3 DEF Spells
      <4> QED BY <4>1, <4>2
    <3>3. push.head = IF n + 1 = 0 THEN Nil ELSE r[n + 1]
      BY <2>1
    <3>4. ASSUME NEW t \in Block, push.link[t] # t
          PROVE  \E i \in 1 .. n + 1 : r[i] = t
      <4>1. CASE t = s
        <5>1. n + 1 \in 1 .. n + 1 /\ r[n + 1] = s
          OBVIOUS
        <5> QED BY <5>1, <4>1
      <4>2. CASE t # s
        <5>1. PICK i \in 1 .. n : q[i] = t
          BY <3>4, <4>2, <2>5 DEF Spells
        <5>2. i \in 1 .. n + 1 /\ i # n + 1
          OBVIOUS
        <5> QED BY <5>1, <5>2
      <4> QED BY <4>1, <4>2
    <3> HIDE DEF r, push
    <3> QED BY <3>1, <3>2, <3>3, <3>4 DEF Spells
  <2>8. {t \in Block : push.link[t] # t} =
          {t \in Block : list.link[t] # t} \cup
          {t \in Block : t = s /\ ~(locals_input[t] \subseteq out)}
    BY <2>5, <2>3, <1>2
  <2> QED BY <2>4, <2>6, <2>7, <2>8
<1> QED BY <1>1, <1>2

\* Popping the head gives a list again, without the block popped.
LEMMA PopGivesList ==
  ASSUME NEW list, ListType(list), NEW n \in Nat, NEW q \in [1 .. n -> Block],
         Spells(list, q, n), list.head # Nil, NEW popped,
         popped = [head |-> list.link[list.head],
                   link |-> [list.link EXCEPT ![list.head] = list.head]]
  PROVE  /\ ListType(popped)
         /\ \E m \in Nat : \E r \in [1 .. m -> Block] : Spells(popped, r, m)
         /\ {t \in Block : popped.link[t] # t} =
              {t \in Block : list.link[t] # t} \ {list.head}
<1> DEFINE b == list.head
<1>1. n # 0 /\ n \in 1 .. n /\ q[n] = b /\ b \in Block
  BY DEF Spells, ListType
<1>2. popped.head = IF n = 1 THEN Nil ELSE q[n - 1]
  BY <1>1 DEF Spells
<1>3. \A t \in Block : popped.link[t] = IF t = b THEN b ELSE list.link[t]
  BY <1>1 DEF ListType
<1>4. ListType(popped)
  BY <1>1 DEF ListType
<1> DEFINE r == [i \in 1 .. n - 1 |-> q[i]]
<1>5. n - 1 \in Nat /\ r \in [1 .. n - 1 -> Block]
  BY <1>1
<1>6. \A i \in 1 .. n - 1 : i \in 1 .. n /\ q[i] # b /\ q[i] \in Block /\ r[i] = q[i]
  BY <1>1 DEF Spells
<1>7. Spells(popped, r, n - 1)
  <2>1. \A i, j \in 1 .. n - 1 : r[i] = r[j] => i = j
    BY <1>6 DEF Spells
  <2>2. \A i \in 1 .. n - 1 : popped.link[r[i]] = IF i = 1 THEN Nil ELSE r[i - 1]
    BY <1>3, <1>6 DEF Spells
  <2>3. popped.head = IF n - 1 = 0 THEN Nil ELSE r[n - 1]
    BY <1>1, <1>2
  <2>4. ASSUME NEW t \in Block, popped.link[t] # t
        PROVE  \E i \in 1 .. n - 1 : r[i] = t
    <3>1. t # b /\ list.link[t] # t
      BY <2>4, <1>3
    <3>2. PICK i \in 1 .. n : q[i] = t
      BY <3>1 DEF Spells
    <3>3. i \in 1 .. n - 1
      BY <3>1, <3>2, <1>1
    <3> QED BY <3>2, <3>3, <1>6
  <2> HIDE DEF r
  <2> QED BY <2>1, <2>2, <2>3, <2>4 DEF Spells
<1>8. {t \in Block : popped.link[t] # t} = {t \in Block : list.link[t] # t} \ {b}
  BY <1>3, <1>1
<1> QED BY <1>4, <1>5, <1>7, <1>8

-----------------------------------------------------------------------------
\* The list spelled with no bound on its length: the inductive form of ListOK.
ListInv == \E n \in Nat : \E q \in [1 .. n -> Block] : Spells(theList, q, n)

IInv == TypeOK /\ ListInv

\* A list has no block twice, so it has at most as many as there are.
LEMMA ListInvBounded == IInv => ListOK
<1> SUFFICES ASSUME IInv PROVE ListOK
  OBVIOUS
<1>1. PICK n \in Nat : \E q \in [1 .. n -> Block] : Spells(theList, q, n)
  BY DEF IInv, ListInv
<1>1a. PICK q \in [1 .. n -> Block] : Spells(theList, q, n)
  BY <1>1
<1>2. nblock \in Nat
  BY DEF IInv, TypeOK, GraphOK
<1>3. q \in Injection(1 .. n, Block)
  BY <1>1a DEF Injection, IsInjective, Spells
<1>4. /\ IsFiniteSet(1 .. n) /\ Cardinality(1 .. n) = n
      /\ IsFiniteSet(Block) /\ Cardinality(Block) = nblock
  <2>1. IsFiniteSet(0 .. nblock - 1)
        /\ Cardinality(0 .. nblock - 1) = IF 0 > nblock - 1 THEN 0 ELSE (nblock - 1) - 0 + 1
    BY <1>2, FS_Interval
  <2>2. IsFiniteSet(1 .. n) /\ Cardinality(1 .. n) = IF 1 > n THEN 0 ELSE n - 1 + 1
    BY FS_Interval
  <2> QED BY <2>1, <2>2, <1>2 DEF Block
<1>5. n <= nblock
  BY <1>3, <1>4, FS_Injection DEF ExistsInjection
<1>6. n \in 0 .. nblock
  BY <1>2, <1>5
<1> QED BY <1>1a, <1>6 DEF ListOK

LEMMA InitIInv == Init => IInv
<1> SUFFICES ASSUME Init PROVE IInv
  OBVIOUS
<1>1. nblock \in Nat /\ nblock # 0 /\ 0 \in Block
  BY DEF Init, GraphOK, Block
<1>2. TypeOK
  BY <1>1 DEF Init, TypeOK, GraphOK, next, Block
<1> DEFINE q == [i \in 1 .. nblock |-> nblock - i]
<1>3. q \in [1 .. nblock -> Block]
  BY <1>1 DEF Block
<1>4. \A i \in 1 .. nblock : q[i] = nblock - i /\ q[i] \in Block
  BY <1>3
<1>5. Spells(theList, q, nblock)
  <2>1. \A i, j \in 1 .. nblock : q[i] = q[j] => i = j
    BY <1>1, <1>4
  <2>2. \A i \in 1 .. nblock : theList.link[q[i]] = IF i = 1 THEN Nil ELSE q[i - 1]
    BY <1>1, <1>4 DEF Init, theList, next
  <2>3. theList.head = IF nblock = 0 THEN Nil ELSE q[nblock]
    BY <1>1 DEF Init, theList
  <2>4. ASSUME NEW b \in Block PROVE \E i \in 1 .. nblock : q[i] = b
    <3>1. nblock - b \in 1 .. nblock /\ nblock - (nblock - b) = b
      BY <1>1 DEF Block
    <3> QED BY <3>1, <1>4
  <2> HIDE DEF q
  <2> QED BY <2>1, <2>2, <2>3, <2>4 DEF Spells
<1> HIDE DEF q
<1>6. ListInv
  BY <1>1, <1>3, <1>5 DEF ListInv
<1> QED BY <1>2, <1>6 DEF IInv

\* One turn of the loop: the list stays a list, and the blocks in it change as
\* the abstract step says.
LEMMA TurnOfLoop ==
  ASSUME IInv, ProcessHead
  PROVE  /\ IInv'
         /\ worklist_head \in Block
         /\ worklist_head \in Listed
         /\ Listed' = (Listed \ {worklist_head}) \cup
              {s \in Successors(worklist_head) :
                 ~(locals_input[s] \subseteq block_output(worklist_head))}
<1> DEFINE b      == worklist_head
           out    == block_output(b)
           popped == [head |-> worklist_link[b],
                      link |-> [worklist_link EXCEPT ![b] = b]]
           first  == Push(popped, branch[b], out)
           second == IF fall_through[b] /\ next(b) # branch[b]
                       THEN Push(first, next(b), out) ELSE first
<1>0. Nil \notin Block
  BY NilAssumption DEF Block
<1>1. /\ b # Nil /\ b \in Block
      /\ theList' = [head |-> second.head, link |-> second.link]
      /\ locals_input' = [s \in Block |-> IF s \in Successors(b)
                                            THEN locals_input[s] \cap out
                                            ELSE locals_input[s]]
      /\ UNCHANGED graph
  BY DEF ProcessHead, IInv, TypeOK, theList
<1>2. nblock \in Nat /\ ListType(theList) /\ theList.head = b
  BY DEF IInv, TypeOK, GraphOK, ListType, theList
<1>3. PICK n \in Nat : \E q \in [1 .. n -> Block] : Spells(theList, q, n)
  BY DEF IInv, ListInv
<1>3a. PICK q \in [1 .. n -> Block] : Spells(theList, q, n)
  BY <1>3
<1>4. b \in Listed
  <2>1. n # 0 /\ n \in 1 .. n /\ q[n] = b
    BY <1>1, <1>2, <1>3a DEF Spells
  <2>2. theList.link[b] # b
    BY <2>1, <1>0, <1>1, <1>3a DEF Spells
  <2> QED BY <2>2, <1>1 DEF Listed, theList
<1>5. /\ ListType(popped)
      /\ \E m \in Nat : \E r \in [1 .. m -> Block] : Spells(popped, r, m)
      /\ {t \in Block : popped.link[t] # t} = {t \in Block : theList.link[t] # t} \ {b}
  <2>1. popped = [head |-> theList.link[theList.head],
                  link |-> [theList.link EXCEPT ![theList.head] = theList.head]]
    BY DEF theList
  <2> QED BY <2>1, <1>1, <1>2, <1>3a, PopGivesList
<1>6. /\ ListType(first)
      /\ \E m \in Nat : \E r \in [1 .. m -> Block] : Spells(first, r, m)
      /\ {t \in Block : first.link[t] # t} =
           {t \in Block : popped.link[t] # t} \cup
           {t \in Block : t = branch[b] /\ ~(locals_input[t] \subseteq out)}
  <2> HIDE DEF popped, out
  <2> QED BY <1>2, <1>5, PushGivesList
<1>7. /\ ListType(second)
      /\ \E m \in Nat : \E r \in [1 .. m -> Block] : Spells(second, r, m)
      /\ {t \in Block : second.link[t] # t} =
           {t \in Block : first.link[t] # t} \cup
           {t \in Block : /\ fall_through[b] /\ next(b) # branch[b]
                          /\ t = next(b) /\ ~(locals_input[t] \subseteq out)}
  <2> HIDE DEF first, out
  <2>1. CASE fall_through[b] /\ next(b) # branch[b]
    <3>1. second = Push(first, next(b), out)
      BY <2>1
    <3> HIDE DEF second
    <3> QED BY <2>1, <3>1, <1>2, <1>6, PushGivesList
  <2>2. CASE ~(fall_through[b] /\ next(b) # branch[b])
    <3>1. second = first
      BY <2>2
    <3> HIDE DEF second
    <3> QED BY <2>2, <3>1, <1>6
  <2> QED BY <2>1, <2>2
<1>8. Block' = Block /\ GraphOK'
  BY <1>1, GraphRigid DEF IInv, TypeOK
<1>9. worklist_head' = second.head /\ worklist_link' = second.link
  BY DEF ProcessHead
<1>10. TypeOK'
  <2>1. locals_input' \in [Block -> SUBSET Local]
    BY <1>1 DEF IInv, TypeOK
  <2> HIDE DEF second
  <2> QED BY <2>1, <1>7, <1>8, <1>9 DEF TypeOK, ListType
<1>11. ListInv'
  <2> HIDE DEF second
  <2>0. PICK m \in Nat : \E r \in [1 .. m -> Block] : Spells(second, r, m)
    BY <1>7
  <2>1. PICK r \in [1 .. m -> Block] : Spells(second, r, m)
    BY <2>0
  <2>2. theList'.head = second.head /\ theList'.link = second.link
    BY <1>1
  <2>3. Spells(theList, r, m)'
    BY <2>1, <2>2, <1>8 DEF Spells
  <2> QED BY <2>3, <1>8 DEF ListInv
<1>12. Listed' = (Listed \ {b}) \cup
                   {s \in Successors(b) : ~(locals_input[s] \subseteq out)}
  <2> HIDE DEF second, first, popped, out
  <2>1. Listed' = {t \in Block : second.link[t] # t}
    BY <1>8, <1>9 DEF Listed
  <2>2. Listed = {t \in Block : theList.link[t] # t}
    BY DEF Listed, theList
  <2> QED BY <2>1, <2>2, <1>5, <1>6, <1>7 DEF Successors
<1> QED BY <1>1, <1>4, <1>10, <1>11, <1>12 DEF IInv

LEMMA StepIInv == IInv /\ [Next]_vars => IInv'
<1> SUFFICES ASSUME IInv, [Next]_vars PROVE IInv'
  OBVIOUS
<1>1. CASE Next
  BY <1>1, TurnOfLoop DEF Next
<1>2. CASE UNCHANGED vars
  <2>1. Block' = Block /\ GraphOK'
    BY <1>2, GraphRigid DEF vars, graph, IInv, TypeOK
  <2>2. TypeOK'
    BY <1>2, <2>1 DEF vars, IInv, TypeOK
  <2>3. ListInv'
    BY <1>2, <2>1 DEF vars, IInv, ListInv, Spells, theList
  <2> QED BY <2>2, <2>3 DEF IInv
<1> QED BY <1>1, <1>2

LEMMA IInvHolds == Spec => []IInv
BY InitIInv, StepIInv, PTL DEF Spec

\* The variables of the list only ever hold blocks, the null pointer and sets
\* of locals.
THEOREM TypeCorrect == Spec => []TypeOK
<1>1. IInv => TypeOK
  BY DEF IInv
<1> QED BY <1>1, IInvHolds, PTL

\* worklist_head and worklist_link always spell one list without repetition,
\* of exactly the blocks that do not link to themselves.
THEOREM ListCorrect == Spec => []ListOK
BY IInvHolds, ListInvBounded, PTL

-----------------------------------------------------------------------------
\* The loop implements the abstract iteration.
LEMMA InitImplements == Init => Abstract!Init
<1> SUFFICES ASSUME Init PROVE Abstract!Init
  OBVIOUS
<1>1. Abstract!GraphOK /\ Block = Abstract!Block
  BY DEF Init, GraphOK, Abstract!GraphOK, Block, Abstract!Block
<1>2. Listed = Abstract!Block
  <2>1. \A b \in Block : worklist_link[b] # b
    BY NilAssumption DEF Init, GraphOK, Block, next
  <2> QED BY <2>1, <1>1 DEF Listed
<1> QED BY <1>1, <1>2 DEF Init, Abstract!Init

LEMMA StepImplements == IInv /\ [Next]_vars => [Abstract!Next]_Abstract!vars
<1> SUFFICES ASSUME IInv, [Next]_vars PROVE [Abstract!Next]_Abstract!vars
  OBVIOUS
<1>1. CASE Next
  <2> DEFINE b == worklist_head
  <2>1. ProcessHead
    BY <1>1 DEF Next
  <2>2. /\ b \in Block /\ b \in Listed
        /\ Listed' = (Listed \ {b}) \cup
             {s \in Successors(b) : ~(locals_input[s] \subseteq block_output(b))}
    BY <2>1, TurnOfLoop
  <2>3. /\ Abstract!Block = Block
        /\ \A a : Abstract!Successors(a) = Successors(a)
        /\ Abstract!Output(b, locals_input[b]) = block_output(b)
    BY DEF Block, Abstract!Block, Successors, Abstract!Successors, next,
           block_output, Abstract!Output
  <2>4. /\ locals_input' = [s \in Block |-> IF s \in Successors(b)
                                             THEN locals_input[s] \cap block_output(b)
                                             ELSE locals_input[s]]
        /\ UNCHANGED Abstract!graph
    BY <2>1 DEF ProcessHead, graph, Abstract!graph
  <2>5. Abstract!Process(b)
    BY <2>2, <2>3, <2>4 DEF Abstract!Process
  <2> QED BY <2>2, <2>3, <2>5 DEF Abstract!Next
<1>2. CASE UNCHANGED vars
  BY <1>2 DEF vars, Abstract!vars, Listed, Block
<1> QED BY <1>1, <1>2

\* Every behaviour of the linked worklist is one of the chaotic iteration: a
\* block is processed only while it is pending, and every block that lost a
\* local is pending again, whatever the order the links put them in.
THEOREM Refinement == Spec => Implements
BY IInvHolds, InitImplements, StepImplements, PTL DEF Spec, Implements, Abstract!Spec

-----------------------------------------------------------------------------
\* What is proved of the iteration holds of the loop.
AbstractProofs == INSTANCE MustDefinedProofs WITH
  fall <- fall_through, kept <- locals_kept, set <- locals_set,
  entry <- entry_locals, input <- locals_input, pending <- Listed

LEMMA SameStep == [Abstract!Next]_Abstract!vars => [AbstractProofs!Next]_AbstractProofs!vars
<1>1. Abstract!Block = AbstractProofs!Block /\ Abstract!vars = AbstractProofs!vars
  BY DEF Abstract!Block, AbstractProofs!Block, Abstract!vars, AbstractProofs!vars
<1>2. ASSUME NEW b, Abstract!Process(b) PROVE AbstractProofs!Process(b)
  BY <1>1, <1>2 DEF Abstract!Process, AbstractProofs!Process, Abstract!graph,
     AbstractProofs!graph, Abstract!Successors, AbstractProofs!Successors,
     Abstract!Output, AbstractProofs!Output
<1> QED BY <1>1, <1>2 DEF Abstract!Next, AbstractProofs!Next, Abstract!vars, AbstractProofs!vars

LEMMA SameAbstraction == Abstract!Spec => AbstractProofs!Spec
<1>1. Abstract!GraphOK = AbstractProofs!GraphOK /\ Abstract!Block = AbstractProofs!Block
  BY DEF Abstract!GraphOK, AbstractProofs!GraphOK, Abstract!Block, AbstractProofs!Block
<1>2. Abstract!Init => AbstractProofs!Init
  BY <1>1 DEF Abstract!Init, AbstractProofs!Init
<1> QED BY <1>2, SameStep, PTL DEF Abstract!Spec, AbstractProofs!Spec

\* The invariant of the iteration, said of the links: a block that is in no list
\* provides what its successors claim.
SettledOffList ==
  /\ locals_input[0] \subseteq entry_locals
  /\ \A b \in Block : worklist_link[b] = b =>
       \A s \in Successors(b) : locals_input[s] \subseteq block_output(b)

LEMMA SettledMeans == SettledOffList <=> AbstractProofs!Settled
BY DEF SettledOffList, AbstractProofs!Settled, Listed, Block, AbstractProofs!Block, Successors,
       AbstractProofs!Successors, next, block_output, AbstractProofs!Output

LEMMA InitSettled == Init => SettledOffList
<1>1. Init => \A b \in Block : worklist_link[b] # b
  BY NilAssumption DEF Init, GraphOK, Block, next
<1>2. Init => 0 \in Block
  BY DEF Init, GraphOK, Block
<1>3. Init => locals_input[0] = entry_locals
  BY <1>2 DEF Init
<1> QED BY <1>1, <1>3 DEF SettledOffList

LEMMA StepSettled == IInv /\ SettledOffList /\ [Next]_vars => SettledOffList'
<1>1. IInv => AbstractProofs!TypeOK
  BY DEF IInv, TypeOK, GraphOK, AbstractProofs!TypeOK, AbstractProofs!GraphOK, Block,
         AbstractProofs!Block, Listed
<1>2. IInv /\ [Next]_vars => [AbstractProofs!Next]_AbstractProofs!vars
  BY StepImplements, SameStep
<1> QED BY <1>1, <1>2, SettledMeans, AbstractProofs!SettledStep, PTL

\* A null head means that no block is in the list.
LEMMA NilHeadMeansEmpty == IInv /\ worklist_head = Nil => Listed = {}
<1> SUFFICES ASSUME IInv, worklist_head = Nil, NEW b \in Listed PROVE FALSE
  OBVIOUS
<1>1. PICK n \in Nat : \E q \in [1 .. n -> Block] : Spells(theList, q, n)
  BY DEF IInv, ListInv
<1>2. PICK q \in [1 .. n -> Block] : Spells(theList, q, n)
  BY <1>1
<1>3. n = 0
  BY <1>2, NilAssumption DEF Spells, theList, Block
<1> QED BY <1>2, <1>3 DEF Spells, Listed, theList

LEMMA SettledSound == IInv /\ SettledOffList => SoundWhenDone
BY NilHeadMeansEmpty DEF SoundWhenDone, SettledOffList, Listed

\* When the loop ends, every local claimed at a block is assigned on every edge
\* into the block.
THEOREM Sound == Spec => []SoundWhenDone
BY InitIInv, InitSettled, StepIInv, StepSettled, SettledSound, PTL DEF Spec

\* The loop gives up no local that some sound answer claims.
THEOREM Precise == Spec => []KeepsEverySolution
<1>1. AbstractProofs!KeepsEverySolution => KeepsEverySolution
  BY DEF KeepsEverySolution, AbstractProofs!KeepsEverySolution, Abstract!KeepsEverySolution,
         Abstract!Block, AbstractProofs!Block, Abstract!Solution, AbstractProofs!Solution,
         Abstract!Successors, AbstractProofs!Successors, Abstract!Output, AbstractProofs!Output
<1>2. Spec => AbstractProofs!Spec
  BY Refinement, SameAbstraction DEF Implements
<1>3. AbstractProofs!Spec => []AbstractProofs!KeepsEverySolution
  BY AbstractProofs!Precise
<1> QED BY <1>1, <1>2, <1>3, PTL
=============================================================================
