--------------------------- MODULE ExceptionState ---------------------------
(***************************************************************************)
(* What exception handling promises a function: the exception being        *)
(* handled (what sys.exc_info() reports) nests as the handlers do.  A      *)
(* handler that is entered saves the one handled outside it, and every way *)
(* out of the handler, normal or by another exception, brings that back.   *)
(* Unwinding shows that the block stack, the six values each handler has   *)
(* on the value stack and exc_info do this.                                *)
(***************************************************************************)
EXTENDS Sequences, Naturals

CONSTANTS Exc,        \* exceptions
          NoExc       \* none

VARIABLES outside,    \* the exception the caller is handling
          blocks,     \* try blocks and handlers entered, the innermost last
          handled,    \* the exception being handled
          raising     \* the exception looking for a handler

vars == <<outside, blocks, handled, raising>>

Handled == Exc \cup {NoExc}
Try     == [handler |-> FALSE, saved |-> NoExc]
Handler(e) == [handler |-> TRUE, saved |-> e]

Top  == blocks[Len(blocks)]
Rest == SubSeq(blocks, 1, Len(blocks) - 1)

Init ==
  /\ outside \in Handled
  /\ blocks = <<>> /\ handled = outside /\ raising = NoExc

EnterTry ==
  /\ raising = NoExc
  /\ blocks' = Append(blocks, Try)
  /\ UNCHANGED <<outside, handled, raising>>

LeaveTry ==
  /\ raising = NoExc
  /\ blocks # <<>> /\ ~Top.handler
  /\ blocks' = Rest
  /\ UNCHANGED <<outside, handled, raising>>

Raise(e) ==
  /\ raising = NoExc
  /\ raising' = e
  /\ UNCHANGED <<outside, blocks, handled>>

\* The innermost block is a try block: its handler takes the exception.
Catch ==
  /\ raising # NoExc
  /\ blocks # <<>> /\ ~Top.handler
  /\ blocks' = Append(Rest, Handler(handled))
  /\ handled' = raising /\ raising' = NoExc
  /\ UNCHANGED outside

\* A handler ends, or is left by an exception.
LeaveHandler ==
  /\ blocks # <<>> /\ Top.handler
  /\ blocks' = Rest
  /\ handled' = Top.saved
  /\ UNCHANGED <<outside, raising>>

Next == EnterTry \/ LeaveTry \/ (\E e \in Exc : Raise(e)) \/ Catch \/ LeaveHandler

Spec == Init /\ [][Next]_vars

-----------------------------------------------------------------------------
TypeOK ==
  /\ outside \in Handled /\ handled \in Handled /\ raising \in Handled
  /\ blocks \in Seq([handler : BOOLEAN, saved : Handled])

\* Whatever was raised and caught on the way, outside all handlers the exception
\* being handled is the caller's.
OutsideRestored ==
  (\A i \in 1 .. Len(blocks) : ~blocks[i].handler) => handled = outside
=============================================================================
