------------------------- MODULE StackHeightsProofs -------------------------
(***************************************************************************)
(* Proofs about StackHeights, for any balanced control-flow graph: the     *)
(* heights are right, the assertions of the loop never fail, and every     *)
(* block control can reach gets its height.                                *)
(***************************************************************************)
EXTENDS StackHeights, TLAPS

PassType(pass) ==
  /\ pass.head \in Block \cup {Nil}
  /\ pass.link \in [Block -> Block \cup {Nil}]
  /\ pass.height \in [Block -> (0 .. co_stacksize) \cup {Unset}]

\* The list as the sequence of its n blocks, its end first.  Block 0 is always
\* at its end, where its link is Nil as if it were done; so the links of the
\* others in the list are blocks.
Spells(pass, q, n) ==
  /\ \A i, j \in 1 .. n : q[i] = q[j] => i = j
  /\ \A i \in 1 .. n : pass.link[q[i]] = IF i = 1 THEN Nil ELSE q[i - 1]
  /\ n > 0 => q[1] = 0
  /\ pass.head = IF n = 0 THEN Nil ELSE q[n]
  /\ \A b \in Block : pass.link[b] \notin {b, Nil} => \E i \in 1 .. n : q[i] = b

IsList(pass) == \E n \in Nat : \E q \in [1 .. n -> Block] : Spells(pass, q, n)

Right(pass) ==
  \A b \in Block : b = 0 \/ pass.link[b] # b => pass.height[b] = true_height[b]

\* A pass under way: block 0 has been worked on.
PassInv(pass) == PassType(pass) /\ IsList(pass) /\ Right(pass) /\ pass.link[0] = Nil

thePass == [head |-> worklist_head, link |-> worklist_link, height |-> initial_stack_height]

\* Blocks that are done have told all their successors.
Closed == \A b \in Block : worklist_link[b] = Nil =>
            \A e \in Edges(b) : worklist_link[e[1]] # e[1]

Fresh == worklist_head = 0 /\ worklist_link = [b \in Block |-> b] /\ Right(thePass)

IInv == TypeOK /\ (Fresh \/ (PassInv(thePass) /\ Closed))

LEMMA GraphFacts ==
  ASSUME GraphOK
  PROVE  /\ nblock \in Nat /\ 0 \in Block /\ Nil \notin Block /\ Block \subseteq Nat
         /\ \A b \in Block : fall_through[b] => b + 1 \in Block
<1>1. nblock \in Nat \ {0} /\ ~fall_through[nblock - 1]
  BY DEF GraphOK
<1>2. 0 \in Block /\ Block \subseteq Nat
  BY <1>1 DEF Block
<1>3. Nil \notin Block
  BY HeightAssumption DEF Block
<1>4. ASSUME NEW b \in Block, fall_through[b] PROVE b + 1 \in Block
  <2>1. b # nblock - 1
    BY <1>1, <1>4
  <2> QED BY <2>1, <1>1 DEF Block
<1> QED BY <1>1, <1>2, <1>3, <1>4

LEMMA GraphRigid ==
  ASSUME UNCHANGED graph
  PROVE  /\ Block' = Block
         /\ GraphOK' <=> GraphOK
         /\ \A b : Edges(b)' = Edges(b)
BY DEF graph, Block, GraphOK, Edges

\* Looking at a successor: it is listed if it was not found, with its height.
LEMMA VisitKeeps ==
  ASSUME GraphOK, NEW pass, PassInv(pass), NEW s \in Block \cup {Nil}, NEW height,
         s # Nil => height = true_height[s],
         pass.head # Nil \/ s = Nil \/ pass.link[s] # s,
         NEW r, r = Visit(pass, s, height)
  PROVE  /\ PassInv(r)
         /\ \A t \in Block : r.link[t] # t <=> pass.link[t] # t \/ t = s
         /\ \A t \in Block : r.link[t] = Nil <=> pass.link[t] = Nil
         /\ pass.head # Nil => r.head # Nil
<1>0. 0 \in Block /\ Nil \notin Block
  BY GraphFacts
<1>1. CASE s = Nil \/ pass.link[s] # s
  <2>1. r = pass
    BY <1>1 DEF Visit
  <2> QED BY <2>1, <1>1, <1>0
<1>2. CASE s # Nil /\ pass.link[s] = s
  <2>1. /\ r.head = s
        /\ r.link = [pass.link EXCEPT ![s] = pass.head]
        /\ r.height = [pass.height EXCEPT ![s] = height]
    BY <1>2 DEF Visit
  <2>2. s \in Block /\ s # 0 /\ pass.head # Nil /\ PassType(pass) /\ Right(pass)
    BY <1>0, <1>2 DEF PassInv
  <2>3. \A t \in Block : /\ r.link[t] = IF t = s THEN pass.head ELSE pass.link[t]
                         /\ r.height[t] = IF t = s THEN height ELSE pass.height[t]
    BY <2>1, <2>2 DEF PassType
  <2>4. PassType(r)
    <3>1. height \in 0 .. co_stacksize
      BY <2>2, <1>0 DEF GraphOK
    <3> QED BY <3>1, <2>1, <2>2 DEF PassType
  <2>5. Right(r)
    BY <2>2, <2>3, <1>0 DEF Right
  <2>6. PICK n \in Nat : \E q \in [1 .. n -> Block] : Spells(pass, q, n)
    BY DEF PassInv, IsList
  <2>7. PICK q \in [1 .. n -> Block] : Spells(pass, q, n)
    BY <2>6
  <2>8. n # 0 /\ n \in 1 .. n /\ 1 \in 1 .. n /\ pass.head = q[n]
    BY <2>7, <2>2 DEF Spells
  <2>9. \A i \in 1 .. n : q[i] \in Block /\ q[i] # s
    <3>1. ASSUME NEW i \in 1 .. n, q[i] = s PROVE FALSE
      <4>1. pass.link[q[i]] = IF i = 1 THEN Nil ELSE q[i - 1]
        BY <2>7 DEF Spells
      <4>2. CASE i = 1
        BY <4>1, <4>2, <3>1, <1>2
      <4>3. CASE i # 1
        <5>1. i - 1 \in 1 .. n /\ q[i - 1] = q[i]
          BY <4>1, <4>3, <3>1, <1>2
        <5>2. i - 1 = i
          BY <5>1, <2>7 DEF Spells
        <5> QED BY <5>2
      <4> QED BY <4>2, <4>3
    <3> QED BY <3>1
  <2>10. pass.head # s /\ pass.head \in Block
    BY <2>8, <2>9
  <2> DEFINE p == [i \in 1 .. n + 1 |-> IF i = n + 1 THEN s ELSE q[i]]
  <2>11. p \in [1 .. n + 1 -> Block]
    BY <2>2
  <2>12. Spells(r, p, n + 1)
    <3>1. \A i, j \in 1 .. n + 1 : p[i] = p[j] => i = j
      BY <2>9, <2>7 DEF Spells
    <3>2. ASSUME NEW i \in 1 .. n + 1
          PROVE  r.link[p[i]] = IF i = 1 THEN Nil ELSE p[i - 1]
      <4>1. CASE i = n + 1
        <5>1. i # 1 /\ i - 1 = n /\ n \in 1 .. n + 1 /\ n # n + 1
          BY <4>1, <2>8
        <5>2. p[i] = s /\ p[i - 1] = q[n]
          BY <5>1, <4>1
        <5> QED BY <5>1, <5>2, <2>3, <2>2, <2>8
      <4>2. CASE i # n + 1
        <5>1. i \in 1 .. n /\ p[i] = q[i] /\ q[i] # s /\ q[i] \in Block
          BY <4>2, <2>9
        <5>2. r.link[p[i]] = pass.link[q[i]]
          BY <5>1, <2>3
        <5>3. i # 1 => i - 1 \in 1 .. n + 1 /\ i - 1 # n + 1
          BY <5>1
        <5> QED BY <5>1, <5>2, <5>3, <2>7 DEF Spells
      <4> QED BY <4>1, <4>2
    <3>3. r.head = IF n + 1 = 0 THEN Nil ELSE p[n + 1]
      BY <2>1
    <3>4. p[1] = 0
      <4>1. 1 \in 1 .. n + 1 /\ 1 # n + 1 /\ q[1] = 0
        BY <2>7, <2>8 DEF Spells
      <4> QED BY <4>1
    <3>5. ASSUME NEW t \in Block, r.link[t] \notin {t, Nil}
          PROVE  \E i \in 1 .. n + 1 : p[i] = t
      <4>1. CASE t = s
        <5>1. n + 1 \in 1 .. n + 1 /\ p[n + 1] = s
          OBVIOUS
        <5> QED BY <5>1, <4>1
      <4>2. CASE t # s
        <5>1. PICK i \in 1 .. n : q[i] = t
          BY <3>5, <4>2, <2>3, <2>7 DEF Spells
        <5>2. i \in 1 .. n + 1 /\ i # n + 1
          OBVIOUS
        <5> QED BY <5>1, <5>2
      <4> QED BY <4>1, <4>2
    <3> HIDE DEF p
    <3> QED BY <3>1, <3>2, <3>3, <3>4, <3>5 DEF Spells
  <2>13. IsList(r)
    <3> HIDE DEF p
    <3> QED BY <2>11, <2>12 DEF IsList
  <2>14. r.link[0] = Nil
    BY <2>2, <2>3, <1>0 DEF PassInv
  <2>15. \A t \in Block : /\ r.link[t] # t <=> pass.link[t] # t \/ t = s
                          /\ r.link[t] = Nil <=> pass.link[t] = Nil
    BY <2>3, <2>10, <1>2, <1>0
  <2>16. r.head # Nil
    BY <2>1, <2>2, <1>0
  <2> QED BY <2>4, <2>5, <2>13, <2>14, <2>15, <2>16 DEF PassInv
<1> QED BY <1>1, <1>2

\* Taking the first block off the list.
LEMMA PopKeeps ==
  ASSUME IInv, worklist_head # Nil
  PROVE  /\ worklist_head \in Block
         /\ PassInv(popped)
         /\ initial_stack_height[worklist_head] = true_height[worklist_head]
         /\ \A t \in Block : popped.link[t] # t <=> worklist_link[t] # t \/ t = worklist_head
         /\ \A t \in Block : popped.link[t] = Nil <=>
                               worklist_link[t] = Nil \/ t = worklist_head
         /\ popped.head = Nil => worklist_link[worklist_head] = Nil /\ Closed
<1> DEFINE b == worklist_head
<1>0. GraphOK /\ 0 \in Block /\ Nil \notin Block /\ b \in Block
      /\ worklist_link \in [Block -> Block \cup {Nil}]
      /\ initial_stack_height \in [Block -> (0 .. co_stacksize) \cup {Unset}]
  BY GraphFacts DEF IInv, TypeOK
<1>1. /\ popped.head = worklist_link[b] /\ popped.height = initial_stack_height
      /\ popped.link = [worklist_link EXCEPT ![b] = Nil]
      /\ \A t \in Block : popped.link[t] = IF t = b THEN Nil ELSE worklist_link[t]
  BY <1>0 DEF popped
<1>2. PassType(popped)
  BY <1>0, <1>1 DEF PassType
<1>3. /\ \A t \in Block : popped.link[t] # t <=> worklist_link[t] # t \/ t = b
      /\ \A t \in Block : popped.link[t] = Nil <=> worklist_link[t] = Nil \/ t = b
  BY <1>0, <1>1
<1>4. CASE Fresh
  <2>1. b = 0 /\ \A t \in Block : worklist_link[t] = t
    BY <1>4 DEF Fresh
  <2>2. Right(popped)
    BY <1>4, <2>1, <1>1, <1>0 DEF Fresh, Right, thePass
  <2> DEFINE q == [i \in 1 .. 1 |-> 0]
  <2>3. q \in [1 .. 1 -> Block]
    BY <1>0
  <2>4. Spells(popped, q, 1)
    <3>1. \A i \in 1 .. 1 : i = 1 /\ q[i] = 0
      OBVIOUS
    <3>2. popped.link[0] = Nil /\ popped.head = 0
      BY <1>0, <1>1, <2>1
    <3>3. \A t \in Block : popped.link[t] \notin {t, Nil} => FALSE
      BY <1>1, <2>1
    <3> HIDE DEF q
    <3> QED BY <3>1, <3>2, <3>3 DEF Spells
  <2>5. IsList(popped)
    <3> HIDE DEF q
    <3> QED BY <2>3, <2>4 DEF IsList
  <2>6. popped.link[0] = Nil /\ popped.head # Nil
    BY <1>0, <1>1, <2>1
  <2>7. initial_stack_height[b] = true_height[b]
    BY <1>0, <1>4, <2>1 DEF Fresh, Right, thePass
  <2> QED BY <1>0, <1>2, <1>3, <2>2, <2>5, <2>6, <2>7 DEF PassInv
<1>5. CASE PassInv(thePass) /\ Closed
  <2>1. PICK n \in Nat : \E q \in [1 .. n -> Block] : Spells(thePass, q, n)
    BY <1>5 DEF PassInv, IsList
  <2>2. PICK q \in [1 .. n -> Block] : Spells(thePass, q, n)
    BY <2>1
  <2>3. /\ n # 0 /\ n \in 1 .. n /\ 1 \in 1 .. n /\ q[n] = b /\ q[1] = 0
        /\ \A i \in 1 .. n : worklist_link[q[i]] = IF i = 1 THEN Nil ELSE q[i - 1]
        /\ \A i, j \in 1 .. n : q[i] = q[j] => i = j
        /\ \A t \in Block : worklist_link[t] \notin {t, Nil} => \E i \in 1 .. n : q[i] = t
    BY <1>0, <2>2 DEF Spells, thePass
  <2>4. worklist_link[b] # b
    <3>1. CASE n = 1
      BY <3>1, <2>3, <1>0
    <3>2. CASE n # 1
      <4>1. n - 1 \in 1 .. n /\ worklist_link[b] = q[n - 1]
        BY <3>2, <2>3
      <4>2. q[n - 1] # q[n]
        BY <4>1, <2>3
      <4> QED BY <4>1, <4>2, <2>3
    <3> QED BY <3>1, <3>2
  <2>5. Right(thePass) /\ worklist_link[0] = Nil
    BY <1>5 DEF PassInv, thePass
  <2>6. initial_stack_height[b] = true_height[b]
    BY <2>4, <2>5, <1>0 DEF Right, thePass
  <2>7. Right(popped)
    BY <2>5, <2>6, <1>0, <1>1 DEF Right, thePass
  <2> DEFINE p == [i \in 1 .. n - 1 |-> q[i]]
  <2>8. n - 1 \in Nat /\ p \in [1 .. n - 1 -> Block]
    BY <2>3
  <2>9. \A i \in 1 .. n - 1 : /\ i \in 1 .. n /\ q[i] \in Block /\ q[i] # b
                              /\ p[i] = q[i]
    BY <2>3
  <2>10. Spells(popped, p, n - 1)
    <3>1. \A i, j \in 1 .. n - 1 : p[i] = p[j] => i = j
      BY <2>3, <2>9
    <3>2. \A i \in 1 .. n - 1 : popped.link[p[i]] = IF i = 1 THEN Nil ELSE p[i - 1]
      <4>1. ASSUME NEW i \in 1 .. n - 1
            PROVE  popped.link[p[i]] = IF i = 1 THEN Nil ELSE p[i - 1]
        <5>1. popped.link[p[i]] = worklist_link[q[i]]
          BY <2>9, <1>1
        <5>2. i # 1 => i - 1 \in 1 .. n - 1
          BY <2>3
        <5> QED BY <5>1, <5>2, <2>3, <2>9
      <4> QED BY <4>1
    <3>3. n - 1 > 0 => p[1] = 0
      BY <2>3, <2>9
    <3>4. popped.head = IF n - 1 = 0 THEN Nil ELSE p[n - 1]
      <4>1. CASE n = 1
        BY <4>1, <2>3, <1>1
      <4>2. CASE n # 1
        <5>1. n - 1 \in 1 .. n - 1 /\ n - 1 # 0
          BY <4>2, <2>3
        <5> QED BY <5>1, <4>2, <2>3, <2>9, <1>1
      <4> QED BY <4>1, <4>2
    <3>5. ASSUME NEW t \in Block, popped.link[t] \notin {t, Nil}
          PROVE  \E i \in 1 .. n - 1 : p[i] = t
      <4>1. t # b /\ worklist_link[t] \notin {t, Nil}
        BY <3>5, <1>1
      <4>2. PICK i \in 1 .. n : q[i] = t
        BY <4>1, <2>3
      <4>3. i \in 1 .. n - 1
        BY <4>1, <4>2, <2>3
      <4> QED BY <4>2, <4>3, <2>9
    <3> HIDE DEF p
    <3> QED BY <3>1, <3>2, <3>3, <3>4, <3>5 DEF Spells
  <2>11. IsList(popped)
    <3> HIDE DEF p
    <3> QED BY <2>8, <2>10 DEF IsList
  <2>12. popped.link[0] = Nil
    BY <2>5, <1>0, <1>1
  <2>13. popped.head = Nil => worklist_link[b] = Nil
    BY <1>1
  <2> QED BY <1>0, <1>2, <1>3, <1>5, <2>6, <2>7, <2>11, <2>12, <2>13 DEF PassInv
<1> QED BY <1>4, <1>5 DEF IInv

LEMMA InitIInv == Init => IInv
<1> SUFFICES ASSUME Init PROVE IInv
  OBVIOUS
<1>1. GraphOK /\ 0 \in Block /\ Nil \notin Block
  BY GraphFacts DEF Init
<1>2. TypeOK
  BY <1>1 DEF Init, TypeOK, GraphOK
<1>3. Fresh
  BY <1>1 DEF Init, Fresh, Right, thePass
<1> QED BY <1>2, <1>3 DEF IInv

\* One turn of the loop.
LEMMA TurnOfLoop ==
  ASSUME IInv, ProcessHead
  PROVE  IInv'
<1> DEFINE b     == worklist_head
           first == Visit(popped, branch[b], outgoing(b) + branch_stack_difference[b])
           last  == IF fall_through[b] THEN Visit(first, b + 1, outgoing(b)) ELSE first
<1>0. GraphOK /\ b # Nil /\ b \in Block /\ 0 \in Block /\ Nil \notin Block
      /\ \A t \in Block : fall_through[t] => t + 1 \in Block
  BY PopKeeps, GraphFacts DEF IInv, TypeOK, ProcessHead
<1>1. /\ worklist_head' = last.head /\ worklist_link' = last.link
      /\ initial_stack_height' = last.height
      /\ UNCHANGED graph
  BY DEF ProcessHead
<1>2. /\ PassInv(popped)
      /\ initial_stack_height[b] = true_height[b]
      /\ \A t \in Block : popped.link[t] # t <=> worklist_link[t] # t \/ t = b
      /\ \A t \in Block : popped.link[t] = Nil <=> worklist_link[t] = Nil \/ t = b
      /\ popped.head = Nil => worklist_link[b] = Nil /\ Closed
  BY <1>0, PopKeeps
<1>3. /\ branch[b] \in Block \cup {Nil}
      /\ branch[b] # Nil => outgoing(b) + branch_stack_difference[b] = true_height[branch[b]]
      /\ fall_through[b] => outgoing(b) = true_height[b + 1]
  BY <1>0, <1>2 DEF GraphOK, outgoing
<1>4. popped.head # Nil \/ branch[b] = Nil \/ popped.link[branch[b]] # branch[b]
  <2>1. ASSUME popped.head = Nil, branch[b] # Nil
        PROVE  popped.link[branch[b]] # branch[b]
    <3>1. <<branch[b], branch_stack_difference[b]>> \in Edges(b)
      BY <2>1 DEF Edges
    <3>2. worklist_link[branch[b]] # branch[b]
      BY <3>1, <2>1, <1>0, <1>2 DEF Closed
    <3> QED BY <3>2, <2>1, <1>2, <1>3
  <2> QED BY <2>1
<1>5. /\ PassInv(first)
      /\ \A t \in Block : first.link[t] # t <=> popped.link[t] # t \/ t = branch[b]
      /\ \A t \in Block : first.link[t] = Nil <=> popped.link[t] = Nil
      /\ popped.head # Nil => first.head # Nil
  BY <1>0, <1>2, <1>3, <1>4, VisitKeeps
<1>6. /\ PassInv(last)
      /\ \A t \in Block : last.link[t] # t <=>
                            first.link[t] # t \/ (fall_through[b] /\ t = b + 1)
      /\ \A t \in Block : last.link[t] = Nil <=> first.link[t] = Nil
  <2> HIDE DEF first
  <2>1. CASE fall_through[b]
    <3>1. last = Visit(first, b + 1, outgoing(b)) /\ b + 1 \in Block
      BY <2>1, <1>0
    <3>2. first.head # Nil \/ first.link[b + 1] # b + 1
      <4>1. ASSUME popped.head = Nil PROVE first.link[b + 1] # b + 1
        <5>1. <<b + 1, 0>> \in Edges(b)
          BY <2>1 DEF Edges
        <5>2. worklist_link[b + 1] # b + 1
          BY <5>1, <4>1, <1>0, <1>2 DEF Closed
        <5> QED BY <5>2, <3>1, <1>2, <1>5
      <4> QED BY <4>1, <1>5
    <3> HIDE DEF last
    <3> QED BY <3>1, <3>2, <2>1, <1>0, <1>3, <1>5, VisitKeeps
  <2>2. CASE ~fall_through[b]
    <3>1. last = first
      BY <2>2
    <3> HIDE DEF last
    <3> QED BY <3>1, <2>2, <1>5
  <2> QED BY <2>1, <2>2
<1> HIDE DEF first, last
<1>7. Block' = Block /\ GraphOK' /\ (\A t : Edges(t)' = Edges(t)) /\ true_height' = true_height
  BY <1>0, <1>1, GraphRigid DEF graph
<1>8. TypeOK'
  BY <1>1, <1>6, <1>7 DEF TypeOK, PassInv, PassType
<1>9. PassInv(thePass)'
  <2>1. thePass'.head = last.head /\ thePass'.link = last.link /\ thePass'.height = last.height
    BY <1>1 DEF thePass
  <2>2. PICK n \in Nat : \E q \in [1 .. n -> Block] : Spells(last, q, n)
    BY <1>6 DEF PassInv, IsList
  <2>3. PICK q \in [1 .. n -> Block] : Spells(last, q, n)
    BY <2>2
  <2>4. Spells(thePass, q, n)'
    BY <2>1, <2>3, <1>7 DEF Spells
  <2>5. IsList(thePass)'
    BY <2>4, <1>7 DEF IsList
  <2>6. PassType(thePass)' /\ Right(thePass)' /\ (thePass.link[0] = Nil)'
    BY <2>1, <1>6, <1>7 DEF PassInv, PassType, Right
  <2> QED BY <2>5, <2>6 DEF PassInv
<1>10. Closed'
  <2> SUFFICES ASSUME NEW t \in Block, worklist_link'[t] = Nil, NEW e \in Edges(t)
               PROVE  worklist_link'[e[1]] # e[1]
    BY <1>7 DEF Closed
  <2>1. e[1] \in Block
    BY <1>0 DEF Edges, GraphOK
  <2>2. worklist_link[t] = Nil \/ t = b
    BY <1>1, <1>2, <1>5, <1>6
  <2>3. CASE t = b
    <3>1. e[1] = branch[b] \/ (fall_through[b] /\ e[1] = b + 1)
      BY <2>3 DEF Edges
    <3> QED BY <3>1, <2>1, <1>1, <1>5, <1>6
  <2>4. CASE t # b
    <3>1. ~Fresh
      BY <2>2, <2>4, <1>0 DEF Fresh
    <3>2. worklist_link[e[1]] # e[1]
      BY <3>1, <2>2, <2>4 DEF IInv, Closed
    <3> QED BY <3>2, <2>1, <1>1, <1>2, <1>5, <1>6
  <2> QED BY <2>3, <2>4
<1> QED BY <1>8, <1>9, <1>10 DEF IInv

LEMMA StepIInv == IInv /\ [Next]_vars => IInv'
<1> SUFFICES ASSUME IInv, [Next]_vars PROVE IInv'
  OBVIOUS
<1>1. CASE Next
  BY <1>1, TurnOfLoop DEF Next
<1>2. CASE UNCHANGED vars
  <2>1. Block' = Block /\ GraphOK' /\ (\A t : Edges(t)' = Edges(t)) /\ true_height' = true_height
        /\ thePass' = thePass
    BY <1>2, GraphRigid DEF vars, graph, IInv, TypeOK, thePass
  <2>2. TypeOK' /\ Fresh' = Fresh /\ Closed' = Closed
    BY <1>2, <2>1 DEF vars, IInv, TypeOK, Fresh, Closed, Right
  <2>3. PassInv(thePass)' = PassInv(thePass)
    BY <2>1 DEF PassInv, PassType, IsList, Spells, Right
  <2> QED BY <2>2, <2>3 DEF IInv
<1> QED BY <1>1, <1>2

LEMMA IInvHolds == Spec => []IInv
BY InitIInv, StepIInv, PTL DEF Spec

\* The list only ever holds blocks and heights the frame has room for.
THEOREM TypeCorrect == Spec => []TypeOK
<1>1. IInv => TypeOK
  BY DEF IInv
<1> QED BY <1>1, IInvHolds, PTL

\* Whatever the graph, no height is ever worked out but the one the code has.
THEOREM HeightsCorrect == Spec => []HeightsRight
<1>1. IInv => HeightsRight
  BY DEF IInv, HeightsRight, Found, Fresh, PassInv, Right, thePass
<1> QED BY <1>1, IInvHolds, PTL

\* Neither of the loop's two assertions can fail on balanced code.
THEOREM NoAssertionFails == Spec => []AssertionsHold
<1>1. IInv => AssertionsHold
  <2> SUFFICES ASSUME IInv, worklist_head # Nil, NEW e \in Edges(worklist_head)
               PROVE  /\ outgoing(worklist_head) + e[2] \in 0 .. co_stacksize
                      /\ popped.link[e[1]] # e[1] =>
                           initial_stack_height[e[1]] = outgoing(worklist_head) + e[2]
    BY DEF AssertionsHold
  <2> DEFINE b == worklist_head
  <2>1. GraphOK /\ b \in Block /\ initial_stack_height[b] = true_height[b] /\ PassInv(popped)
    BY PopKeeps DEF IInv, TypeOK
  <2>2. e[1] \in Block /\ outgoing(b) + e[2] = true_height[e[1]]
    <3>1. /\ \A t \in Block : fall_through[t] => t + 1 \in Block
          /\ true_height[b] \in Int /\ stack_effect[b] \in Int
      BY <2>1, GraphFacts DEF GraphOK
    <3>2. CASE branch[b] # Nil /\ e = <<branch[b], branch_stack_difference[b]>>
      BY <3>1, <3>2, <2>1 DEF GraphOK, outgoing
    <3>3. CASE fall_through[b] /\ e = <<b + 1, 0>>
      BY <3>1, <3>3, <2>1 DEF GraphOK, outgoing
    <3> QED BY <3>2, <3>3 DEF Edges
  <2>3. popped.height = initial_stack_height
    BY DEF popped
  <2>4. popped.link[e[1]] # e[1] => initial_stack_height[e[1]] = true_height[e[1]]
    BY <2>1, <2>2, <2>3 DEF PassInv, Right
  <2>5. true_height[e[1]] \in 0 .. co_stacksize
    BY <2>1, <2>2 DEF GraphOK
  <2> QED BY <2>2, <2>4, <2>5
<1> QED BY <1>1, IInvHolds, PTL

\* When the list is empty, block 0 and every block reached from it has its height.
THEOREM EveryBlockReached == Spec => []AllReached
<1>1. IInv => AllReached
  <2> SUFFICES ASSUME IInv, worklist_head = Nil
               PROVE  LET done == {b \in Block : worklist_link[b] = Nil}
                      IN  /\ 0 \in done
                          /\ \A b \in done : \A e \in Edges(b) : e[1] \in done
    BY DEF AllReached
  <2>1. GraphOK /\ 0 \in Block /\ Nil \notin Block
        /\ \A t \in Block : fall_through[t] => t + 1 \in Block
    BY GraphFacts DEF IInv, TypeOK
  <2>2. PassInv(thePass) /\ Closed
    BY <2>1 DEF IInv, Fresh
  <2>3. PICK n \in Nat : \E q \in [1 .. n -> Block] : Spells(thePass, q, n)
    BY <2>2 DEF PassInv, IsList
  <2>4. PICK q \in [1 .. n -> Block] : Spells(thePass, q, n)
    BY <2>3
  <2>5. n = 0
    BY <2>1, <2>4 DEF Spells, thePass
  <2>6. \A b \in Block : worklist_link[b] \in {b, Nil}
    BY <2>4, <2>5 DEF Spells, thePass
  <2>7. worklist_link[0] = Nil
    BY <2>2 DEF PassInv, thePass
  <2>8. \A b \in Block : \A e \in Edges(b) : e[1] \in Block
    BY <2>1 DEF Edges, GraphOK
  <2> QED BY <2>1, <2>2, <2>6, <2>7, <2>8 DEF Closed
<1> QED BY <1>1, IInvHolds, PTL
=============================================================================
