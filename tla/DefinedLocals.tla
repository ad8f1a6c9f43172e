--------------------------- MODULE DefinedLocals ---------------------------
(***************************************************************************)
(* The worklist of CompileUnit::doInterBlockAnalysis, analyze_code.cpp     *)
(* lines 713-752.  Blocks are array indices, the exception blocks last, as *)
(* in the array `blocks`.  The list is intrusive: worklist_link[b] is the  *)
(* next block of the list, Nil at its end, and b itself when b is in no    *)
(* list.  A step is one turn of the do-while loop.                         *)
(***************************************************************************)
EXTENDS Integers

CONSTANTS Local, Nil

VARIABLES nblock, branch, fall_through, locals_kept, locals_set,
          entry_locals,        \* the locals the entry mask lets through
          locals_input, worklist_link, worklist_head

graph == <<nblock, branch, fall_through, locals_kept, locals_set, entry_locals>>
vars  == <<nblock, branch, fall_through, locals_kept, locals_set, entry_locals,
           locals_input, worklist_link, worklist_head>>

ASSUME NilAssumption == Nil \notin Int

Block == 0 .. nblock - 1

\* What the earlier passes leave: parseCFG the edges, the intra-block pass the
\* local sets.  The last block has no block after it to fall into.
GraphOK ==
  /\ nblock \in Nat \ {0}
  /\ branch       \in [Block -> Block \cup {Nil}]
  /\ fall_through \in [Block -> BOOLEAN]
  /\ ~fall_through[nblock - 1]
  /\ locals_kept  \in [Block -> SUBSET Local]
  /\ locals_set   \in [Block -> SUBSET Local]
  /\ entry_locals \in SUBSET Local

next(b) == b + 1

Successors(b) == {s \in Block : s = branch[b] \/ (fall_through[b] /\ s = next(b))}

output_without_set(b) == locals_input[b] \cap locals_kept[b]

block_output(b) == (locals_input[b] \cap locals_kept[b]) \cup locals_set[b]

InitWithoutEnd ==
  /\ GraphOK
  /\ worklist_link = [b \in Block |-> IF b = nblock - 1 THEN b ELSE next(b)]
  /\ worklist_head = 0
  /\ locals_input  = [b \in Block |-> IF b = 0 THEN entry_locals ELSE Local]

\* Linking every block in array order; everything is assumed assigned except at
\* the first block, where only what the entry mask lets through is.
Init ==
  /\ GraphOK
  /\ worklist_link = [b \in Block |-> IF b = nblock - 1 THEN Nil ELSE next(b)]
  /\ worklist_head = 0
  /\ locals_input  = [b \in Block |-> IF b = 0 THEN entry_locals ELSE Local]

PushUnconditionally(list, s, out) ==
  IF s \in Block /\ list.link[s] = s
    THEN [head |-> s, link |-> [list.link EXCEPT ![s] = list.head]]
    ELSE list

PushTwice(list, s, out) ==
  IF s \in Block /\ ~(locals_input[s] \subseteq out)
    THEN [head |-> s, link |-> [list.link EXCEPT ![s] = list.head]]
    ELSE list

PushWhenLinkIsNil(list, s, out) ==
  IF s \in Block /\ ~(locals_input[s] \subseteq out) /\ list.link[s] = Nil
    THEN [head |-> s, link |-> [list.link EXCEPT ![s] = list.head]]
    ELSE list

\* The list <<head, link>> with block s pushed in front when it must be: s is a
\* successor that lost a local and that is in no list.
Push(list, s, out) ==
  IF s \in Block /\ ~(locals_input[s] \subseteq out) /\ list.link[s] = s
    THEN [head |-> s, link |-> [list.link EXCEPT ![s] = list.head]]
    ELSE list

\* Unlinking the block only after its successors were looked at.
ProcessHeadUnlinkingLate ==
  LET b      == worklist_head
      out    == block_output(b)
      list   == [head |-> worklist_link[b], link |-> worklist_link]
      first  == Push(list, branch[b], out)
      second == IF fall_through[b] /\ next(b) # branch[b]
                  THEN Push(first, next(b), out) ELSE first
  IN  /\ worklist_head # Nil
      /\ worklist_head' = second.head
      /\ worklist_link' = [second.link EXCEPT ![b] = b]
      /\ locals_input'  = [s \in Block |-> IF s \in Successors(b)
                                             THEN locals_input[s] \cap out
                                             ELSE locals_input[s]]
      /\ UNCHANGED graph

\* One turn of the loop.  The block is unlinked before its successors are
\* looked at, so that a block that is its own successor can be linked again.
ProcessHead ==
  LET b      == worklist_head
      out    == block_output(b)
      popped == [head |-> worklist_link[b],
                 link |-> [worklist_link EXCEPT ![b] = b]]
      first  == Push(popped, branch[b], out)
      second == IF fall_through[b] /\ next(b) # branch[b]
                  THEN Push(first, next(b), out) ELSE first
  IN  /\ worklist_head # Nil
      /\ worklist_head' = second.head
      /\ worklist_link' = second.link
      /\ locals_input'  = [s \in Block |-> IF s \in Successors(b)
                                             THEN locals_input[s] \cap out
                                             ELSE locals_input[s]]
      /\ UNCHANGED graph

Next == ProcessHead

Spec == Init /\ [][Next]_vars

FairSpec == Spec /\ WF_vars(Next)

-----------------------------------------------------------------------------
Listed == {b \in Block : worklist_link[b] # b}

TypeOK ==
  /\ GraphOK
  /\ locals_input  \in [Block -> SUBSET Local]
  /\ worklist_link \in [Block -> Block \cup {Nil}]
  /\ worklist_head \in Block \cup {Nil}

theList == [head |-> worklist_head, link |-> worklist_link]

\* The list as the sequence of its n blocks, the last of the list first.  It
\* grows and shrinks at its end, where the head is.
Spells(list, q, n) ==
  /\ \A i, j \in 1 .. n : q[i] = q[j] => i = j
  /\ \A i \in 1 .. n : list.link[q[i]] = IF i = 1 THEN Nil ELSE q[i - 1]
  /\ list.head = IF n = 0 THEN Nil ELSE q[n]
  /\ \A b \in Block : list.link[b] # b => \E i \in 1 .. n : q[i] = b

\* The links always form one chain from worklist_head to Nil through exactly
\* the blocks that do not link to themselves: no block is lost from the list
\* while its link says it is in it, and the list has no cycle (the loop's test
\* of worklist_head is then a test that every block is settled).
ListOK == \E n \in 0 .. nblock : \E q \in [1 .. n -> Block] : Spells(theList, q, n)

\* When the loop ends every block's claim is provided by each of its
\* predecessors and, at the first block, by the entry mask.
SoundWhenDone ==
  worklist_head = Nil =>
    /\ locals_input[0] \subseteq entry_locals
    /\ \A b \in Block : \A s \in Successors(b) : locals_input[s] \subseteq block_output(b)

\* The worklist does what the chaotic iteration promises.
Abstract == INSTANCE MustDefined WITH
  fall <- fall_through, kept <- locals_kept, set <- locals_set,
  entry <- entry_locals, input <- locals_input, pending <- Listed

Implements == Abstract!Spec

\* Nothing that some sound answer claims is ever given up.
KeepsEverySolution == Abstract!KeepsEverySolution

\* A block is taken up again only when it lost a local: claims only shrink,
\* and a block enters the list only in a step that shrinks its claim.
RelistedOnlyIfSmaller ==
  [][\A b \in Block :
       /\ locals_input'[b] \subseteq locals_input[b]
       /\ (b \in Listed' /\ (b \notin Listed \/ b = worklist_head))
            => locals_input'[b] # locals_input[b]]_vars

\* The do-while loop ends.
Terminates == <>(worklist_head = Nil)
=============================================================================
