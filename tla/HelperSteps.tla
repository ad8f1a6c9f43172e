----------------------------- MODULE HelperSteps -----------------------------
(***************************************************************************)
(* The steps the runtime helpers of shared_subroutines.cpp are made of, as *)
(* far as references and the exception being raised go.  A helper is a     *)
(* sequence of steps; a branch holds the sequences it chooses from.  What  *)
(* the interpreter's own functions answer is left open: each branch on an  *)
(* answer is one anything may take.                                        *)
(***************************************************************************)
EXTENDS Integers, Sequences

Step(op, x, alts) == <<[op |-> op, x |-> x, alts |-> alts]>>

Skip == <<>>

\* A variable comes to hold a new reference, or one that stays another's.
Get(x) == Step("get", x, <<>>)
See(x) == Step("see", x, <<>>)

\* The reference count goes up or down.
Incref(x) == Step("incref", x, <<>>)
Decref(x) == Step("decref", x, <<>>)

\* The same of a variable that may be null.
Xdecref(x) == Step("xdecref", x, <<>>)

\* A reference goes to the caller or into a slot of the frame's stack (Give), or
\* to an object that keeps it (Pass).
Give(x) == Step("give", x, <<>>)
Pass(x) == Step("pass", x, <<>>)

\* The object is read, or handed to a call that only borrows it.
Use(x) == Step("use", x, <<>>)

\* The interpreter is called and may run any code.
Run == Step("run", "", <<>>)

\* An exception is set in place of any other; it is cleared.
Error == Step("error", "", <<>>)
Clear == Step("clear", "", <<>>)

\* One of the alternatives is taken; the test of _PyErr_Occurred.
Either(alts)          == Step("either", "", alts)
IfOccurred(then, not) == Step("occurred", "", <<then, not>>)

\* gotoErrorHandler; a return.
Raise  == Step("raise", "", <<>>)
Return == Step("return", "", <<>>)

\* A slot of the type of one of the operands is called; none is left to call.
Slot(side)  == Step("slot", side, <<>>)
Unsupported == Step("unsupported", "", <<>>)

-----------------------------------------------------------------------------
(* What most helpers do.                                                   *)

Fails    == Error \o Raise
Yields(x) == Give(x) \o Return

\* A call that gives a new reference; a call that answers a status.  When it
\* fails, the cleanup comes before gotoErrorHandler.
NewOr(x, cleanup) == Run \o Either(<<Error \o cleanup \o Raise, Get(x)>>)
DoesOr(cleanup)   == Run \o Either(<<Error \o cleanup \o Raise, Skip>>)

New(x) == NewOr(x, Skip)
Does   == DoesOr(Skip)

\* A dictionary lends what it finds: it is returned.  It is not there: go on.
LookUp(x) == Run \o Either(<<See(x) \o Incref(x) \o Yields(x), Fails, Skip>>)

FetchKeepingError(x) == Run \o Either(<<Get(x) \o Yields(x), Fails, Error>>)

\* The same of another mapping, which gives a new reference, or raises KeyError.
Fetch(x) == Run \o Either(<<Get(x) \o Yields(x), Fails, Error \o Clear>>)

\* The steps of Body(1), ..., Body(k) one after the other.
Each(k, Body(_)) ==
  LET upTo[i \in 0 .. k] == IF i = 0 THEN <<>> ELSE upTo[i - 1] \o Body(i)
  IN  upTo[k]

Arg(i)  == <<"arg1", "arg2", "arg3", "arg4">>[i]
Item(i) == <<"item1", "item2", "item3", "item4">>[i]

DecrefArgs(from, to) == Each(to - from + 1, LAMBDA i : Decref(Arg(from + i - 1)))
=============================================================================
