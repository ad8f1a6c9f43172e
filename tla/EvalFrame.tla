------------------------------ MODULE EvalFrame ------------------------------
(***************************************************************************)
(* Frames evaluated by several threads, some by machine code and some by   *)
(* the interpreter, with generators that any thread may resume, and        *)
(* functions compiled meanwhile.  One step is what a thread does between   *)
(* two points where it may call out, which is where the interpreter's lock *)
(* may change hands.                                                       *)
(*                                                                         *)
(* An error leaves the machine code by longjmp, to wherever tstate->cframe *)
(* points, for the frame tstate->frame, and may call out (destructors)     *)
(* before it jumps.  Generators are sent to, never thrown into: eval_func  *)
(* asserts it.                                                             *)
(*                                                                         *)
(* Nothing keeps apply off a function that is under way.  The frames it    *)
(* then harms are those it has overtaken: their machine code is freed, or  *)
(* they have no entry for the machine code to come.                        *)
(***************************************************************************)
EXTENDS Naturals, Sequences, FiniteSets

CONSTANTS
  Thread, Code, Frame,
  Generator,            \* the frames of generators
  f_code,               \* the code of each frame
  Point,                \* places in the code: handlers and points after a yield
  Result,               \* TranslatedResults: machine code in memory
  NoResult,             \* the code object has no extra data
  Dropped,              \* the code object is no more
  Interpreter, NoFrame, Garbage, None,
  MaxFailures           \* bound: how many codes' loads and results' _PyCode_SetExtra fail

Start == 0              \* the first block
Place == Point \cup {Start}

ASSUME ConstantsDistinct ==
  /\ Generator \subseteq Frame /\ f_code \in [Frame -> Code]
  /\ NoResult \notin Result /\ Dropped \notin Result \cup {NoResult} /\ Interpreter \notin Result
  /\ NoFrame \notin Frame /\ Garbage \notin Place
  /\ None \notin (Nat \X (Frame \cup {NoFrame})) \cup Code
  /\ MaxFailures \in Nat

VARIABLES
  extra,                \* the result, if any, kept in each code object
  loaded,               \* results whose memory is mapped
  object,               \* the code whose machine code each result is
  out_vec,              \* the codes whose objects are in the compiler's buffer
  f_state, f_back,
  started,              \* f_lasti is not negative
  entry,                \* b_handler of the last block-stack entry: where compiled code starts
  resume,               \* where the program has the frame go on
  cstack,               \* the evaluations under way in a thread, the innermost last
  cframe,               \* tstate->cframe: the evaluation errors jump to, 0 for none
  frame,                \* tstate->frame
  error,                \* an exception is set
  \* What happened, for the properties to speak of:
  overtaken,            \* frames that apply overtook
  failed,               \* codes whose object could not be loaded
  lost                  \* results _PyCode_SetExtra had no room for

\* The variables of code objects and of the compiler; of frames; of threads.
codes   == <<extra, loaded, object, out_vec, overtaken, failed, lost>>
frames  == <<f_state, f_back, started, entry, resume>>
tstates == <<cstack, cframe, frame, error>>
vars    == <<codes, frames, tstates>>

Init ==
  /\ extra = [c \in Code |-> NoResult] /\ loaded = {}
  /\ object = [r \in Result |-> None] /\ out_vec = {}
  /\ overtaken = {} /\ failed = {} /\ lost = {}
  /\ f_state = [f \in Frame |-> "created"]
  /\ f_back = [f \in Frame |-> NoFrame]
  /\ started = [f \in Frame |-> FALSE]
  /\ entry = [f \in Frame |-> Garbage]
  /\ resume = [f \in Frame |-> Start]
  /\ cstack = [t \in Thread |-> <<>>]
  /\ cframe = [t \in Thread |-> 0]
  /\ frame = [t \in Thread |-> NoFrame]
  /\ error = [t \in Thread |-> FALSE]

-----------------------------------------------------------------------------
Depth(t) == Len(cstack[t])
Top(t)   == cstack[t][Depth(t)]

\* Thread t has no exception to deal with; and it runs Python code.
Calm(t)    == ~error[t] /\ (cstack[t] # <<>> => Top(t).target = None)
Running(t) == Calm(t) /\ cstack[t] # <<>>

\* The thread does not run code that is gone, or another function's, or that it
\* entered at garbage: if it does, anything may happen, and it is followed no further.
Sane(t) ==
  cstack[t] # <<>> /\ Top(t).by # Interpreter =>
    /\ Top(t).by \in loaded /\ extra[f_code[Top(t).frame]] = Top(t).by
    /\ object[Top(t).by] = f_code[Top(t).frame]
    /\ Top(t).at # Garbage

-----------------------------------------------------------------------------
\* What evaluates frame f, and where machine code starts in it.
By(f)   == IF extra[f_code[f]] \in Result THEN extra[f_code[f]] ELSE Interpreter
From(f) == IF started[f] THEN entry[f] ELSE Start

\* eval_func up to the call of the machine code, and the same of the interpreter.
\* A destructor may be run with an exception set, which is put aside for it.
Evaluate(t, f) ==
  /\ entry' = IF By(f) = Interpreter THEN entry ELSE [entry EXCEPT ![f] = From(f)]
  /\ cstack' = [cstack EXCEPT ![t] = Append(@,
       [frame |-> f, by |-> By(f), previous |-> cframe[t], pending |-> error[t],
        at |-> IF By(f) = Interpreter THEN resume[f] ELSE From(f), target |-> None])]
  /\ cframe' = [cframe EXCEPT ![t] = Depth(t) + 1]
  /\ frame' = [frame EXCEPT ![t] = f]
  /\ f_back' = [f_back EXCEPT ![f] = frame[t]]
  /\ f_state' = [f_state EXCEPT ![f] = "executing"]
  /\ started' = [started EXCEPT ![f] = TRUE]
  /\ error' = [error EXCEPT ![t] = FALSE]
  /\ UNCHANGED <<codes, resume>>

\* A function is called, by the code running, by a destructor or from outside.
Call(t, f) ==
  /\ f \notin Generator /\ f_state[f] = "created"
  /\ Evaluate(t, f)

\* gen_send_ex: one that is executing is refused.
Send(t, f) ==
  /\ f \in Generator /\ f_state[f] \in {"created", "suspended"}
  /\ Evaluate(t, f)

-----------------------------------------------------------------------------
LeaveTo(t, i, state, raises, back) ==
  LET a == cstack[t][i]
  IN  /\ f_state' = [f_state EXCEPT ![a.frame] = state]
      /\ cstack' = [cstack EXCEPT ![t] = SubSeq(@, 1, i - 1)]
      /\ cframe' = [cframe EXCEPT ![t] = a.previous]
      /\ frame' = [frame EXCEPT ![t] = back]
      /\ f_back' = IF a.frame \in Generator THEN [f_back EXCEPT ![a.frame] = NoFrame] ELSE f_back
      /\ error' = [error EXCEPT ![t] = raises \/ a.pending]
      /\ UNCHANGED <<codes, started>>

LeaveKeepingFrame(t, i, state, raises) == LeaveTo(t, i, state, raises, frame[t])

\* The end of eval_func, of evaluation i of thread t.  gen_send_ex takes the frame
\* of a generator off its caller.
Leave(t, i, state, raises) == LeaveTo(t, i, state, raises, f_back[cstack[t][i].frame])

Return(t) ==
  /\ Running(t)
  /\ Leave(t, Depth(t), "returned", FALSE)
  /\ UNCHANGED <<entry, resume>>

YieldUnmarked(t, p) ==
  /\ Running(t) /\ Top(t).frame \in Generator
  /\ resume' = [resume EXCEPT ![Top(t).frame] = p]
  /\ Leave(t, Depth(t), "suspended", FALSE)
  /\ UNCHANGED entry

\* YIELD_VALUE, YIELD_FROM: machine code leaves the place to go on at in the frame.
Yield(t, p) ==
  /\ Running(t) /\ Top(t).frame \in Generator
  /\ resume' = [resume EXCEPT ![Top(t).frame] = p]
  /\ entry' = IF Top(t).by = Interpreter THEN entry
                                         ELSE [entry EXCEPT ![Top(t).frame] = p]
  /\ Leave(t, Depth(t), "suspended", FALSE)

-----------------------------------------------------------------------------
\* gotoErrorHandler: the evaluation to jump to and the frame to unwind are those
\* of the thread at this moment.
Throw(t) ==
  /\ cstack[t] # <<>> /\ Top(t).target = None
  /\ cstack' = [cstack EXCEPT ![t][Depth(t)].target =
                  IF Top(t).by = Interpreter THEN <<Depth(t), Top(t).frame>>
                                             ELSE <<cframe[t], frame[t]>>]
  /\ error' = [error EXCEPT ![t] = TRUE]
  /\ UNCHANGED <<frames, cframe, frame>>

Raise(t) == Throw(t) /\ UNCHANGED codes

Unwinding(t) == cstack[t] # <<>> /\ Top(t).target # None /\ error[t]

\* gotoUnwind, longjmp(1): whatever had been called in between is gone, and the
\* evaluation jumped to starts its code again, where the frame says.
Catch(t, p) ==
  LET i  == Top(t).target[1]
      a  == cstack[t][i]
      at == IF a.by = Interpreter THEN p ELSE entry'[a.frame]
  IN  /\ Unwinding(t)
      /\ resume' = [resume EXCEPT ![Top(t).frame] = p]
      /\ entry' = IF Top(t).by = Interpreter THEN entry
                                             ELSE [entry EXCEPT ![Top(t).target[2]] = p]
      /\ cstack' = [cstack EXCEPT ![t] =
           Append(SubSeq(@, 1, i - 1), [a EXCEPT !.target = None, !.at = at])]
      /\ error' = [error EXCEPT ![t] = FALSE]
      /\ UNCHANGED <<codes, f_state, f_back, started, cframe, frame>>

LeaveFrameStillExecuting(t) ==
  /\ Unwinding(t)
  /\ Leave(t, Top(t).target[1], "executing", TRUE)
  /\ UNCHANGED <<entry, resume>>

\* gotoUnwind, longjmp(2)
LeaveFrame(t) ==
  /\ Unwinding(t)
  /\ Leave(t, Top(t).target[1], "raised", TRUE)
  /\ UNCHANGED <<entry, resume>>

\* The code that called into Python from outside deals with the exception.
Report(t) ==
  /\ cstack[t] = <<>> /\ error[t]
  /\ error' = [error EXCEPT ![t] = FALSE]
  /\ UNCHANGED <<codes, frames, cstack, cframe, frame>>

-----------------------------------------------------------------------------
freeExtraForgotten(c) == loaded

\* freeExtra: what is still mapped once the result of code object c is freed, and
\* what is in it.
freeExtra(c) == loaded \ {extra[c]}
Unloaded(c)  == [r \in Result |-> IF r = extra[c] THEN None ELSE object[r]]

\* Frames of code c whose machine code is running and will be gone, and generators
\* of it that the interpreter began, which have no entry for machine code.
UnderWay(c) ==
  {f \in Frame : /\ f_code[f] = c
                 /\ IF entry[f] # Garbage THEN f_state[f] = "executing"
                    ELSE f \in Generator /\ f_state[f] \in {"executing", "suspended"}}

FewFailures == Cardinality(lost) + Cardinality(failed) < MaxFailures

\* _PyCode_SetExtra: what the code had is freed; or there is no room for the first
\* result it gets, which apply does not look at.
SetExtra(c, r) ==
  \/ /\ extra' = [extra EXCEPT ![c] = r]
     /\ loaded' = freeExtra(c) \cup {r}
     /\ overtaken' = overtaken \cup UnderWay(c)
     /\ UNCHANGED lost
  \/ /\ extra[c] = NoResult /\ FewFailures
     /\ loaded' = loaded \cup {r} /\ lost' = lost \cup {r}
     /\ UNCHANGED <<extra, overtaken>>

ApplyKeepingBuffer(t, c, r) ==
  /\ Calm(t) /\ extra[c] # Dropped /\ r \notin loaded
  /\ \E d \in out_vec \cup {c} : object' = [Unloaded(c) EXCEPT ![r] = d]
  /\ out_vec' = out_vec \cup {c}
  /\ SetExtra(c, r)
  /\ UNCHANGED <<failed, frames, tstates>>

\* apply: the function is compiled, loaded from the buffer, which is then emptied, and
\* the result given to the code object.  Which object is found in a buffer that had
\* one already is LLVM's choice.
Apply(t, c, r) ==
  /\ Calm(t) /\ extra[c] # Dropped /\ r \notin loaded
  /\ \E d \in out_vec \cup {c} : object' = [Unloaded(c) EXCEPT ![r] = d]
  /\ out_vec' = {}
  /\ SetExtra(c, r)
  /\ UNCHANGED <<failed, frames, tstates>>

\* emit throws: translate, which leaves the buffer as it was; or loadCode, which
\* leaves the object in it.
ApplyFails(t, c) ==
  /\ Calm(t) /\ extra[c] # Dropped
  /\ \/ UNCHANGED <<out_vec, failed>>
     \/ /\ FewFailures
        /\ out_vec' = out_vec \cup {c} /\ failed' = failed \cup {c}
  /\ \/ Throw(t)
     \/ cstack[t] = <<>> /\ UNCHANGED <<frames, tstates>>
  /\ UNCHANGED <<extra, loaded, object, overtaken, lost>>

\* The last frame and the last function of a code object are gone.
DropCode(c) ==
  /\ extra[c] # Dropped
  /\ \A f \in Frame : f_code[f] = c => f_state[f] \in {"returned", "raised"}
  /\ extra' = [extra EXCEPT ![c] = Dropped]
  /\ loaded' = freeExtra(c)
  /\ object' = Unloaded(c)
  /\ UNCHANGED <<out_vec, overtaken, failed, lost, frames, tstates>>

Step(t) ==
  \/ \E f \in Frame : Call(t, f) \/ Send(t, f)
  \/ \E p \in Point : Yield(t, p) \/ Catch(t, p)
  \/ Return(t) \/ Raise(t) \/ LeaveFrame(t) \/ Report(t)
  \/ \E c \in Code : \/ ApplyFails(t, c)
                     \/ \E r \in Result : Apply(t, c, r)

Next ==
  \/ \E t \in Thread : Sane(t) /\ Step(t)
  \/ \E c \in Code : DropCode(c)

Spec == Init /\ [][Next]_vars

-----------------------------------------------------------------------------
State == {"created", "executing", "suspended", "returned", "raised"}

Evaluation ==
  [frame : Frame, by : Result \cup {Interpreter}, previous : Nat, pending : BOOLEAN,
   at : Place \cup {Garbage}, target : (Nat \X (Frame \cup {NoFrame})) \cup {None}]

TypeOK ==
  /\ extra \in [Code -> Result \cup {NoResult, Dropped}] /\ loaded \subseteq Result
  /\ object \in [Result -> Code \cup {None}] /\ out_vec \subseteq Code
  /\ overtaken \subseteq Frame /\ failed \subseteq Code /\ lost \subseteq Result
  /\ f_state \in [Frame -> State]
  /\ f_back \in [Frame -> Frame \cup {NoFrame}]
  /\ started \in [Frame -> BOOLEAN]
  /\ entry \in [Frame -> Place \cup {Garbage}] /\ resume \in [Frame -> Place]
  /\ cstack \in [Thread -> Seq(Evaluation)]
  /\ cframe \in [Thread -> Nat]
  /\ frame \in [Thread -> Frame \cup {NoFrame}]
  /\ error \in [Thread -> BOOLEAN]

\* Where an error would jump to now, and the frame it would unwind, are those of
\* the evaluation running; so are those of an unwinding under way, whatever its
\* destructors have called since.
JumpsHome ==
  \A t \in Thread :
    /\ cframe[t] = Depth(t)
    /\ cstack[t] # <<>> => frame[t] = Top(t).frame
    /\ \A i \in 1 .. Depth(t) :
         cstack[t][i].target \in {None, <<i, cstack[t][i].frame>>}

\* Machine code under way, in any thread and at any depth, is mapped and is what its
\* code object has, though results are freed and their memory reused, but in a frame
\* that apply overtook; and it is that of its function, or of one whose object could
\* not be loaded before.
RunsLoadedCode ==
  \A t \in Thread : \A i \in 1 .. Depth(t) :
    LET a == cstack[t][i]
    IN  a.by # Interpreter =>
          \/ a.frame \in overtaken
          \/ /\ a.by \in loaded /\ a.by = extra[f_code[a.frame]]
             /\ object[a.by] \in {f_code[a.frame]} \cup failed

\* Every start of the machine code (a call, a generator resumed in whatever thread,
\* a handler after a longjmp) goes where the program has to go on; or at garbage, in
\* a generator that the interpreter began and apply overtook.
GoesOnRight ==
  \A t \in Thread : \A i \in 1 .. Depth(t) :
    LET a == cstack[t][i]
    IN  \/ a.at = resume[a.frame]
        \/ a.at = Garbage /\ a.frame \in overtaken \cap Generator

\* The frames under way are those in state executing, each evaluated once, and
\* f_back of each is the frame that called it, in the thread that runs it.
FramesChained ==
  /\ \A f \in Frame : f_state[f] = "executing" <=>
       \E t \in Thread : \E i \in 1 .. Depth(t) : cstack[t][i].frame = f
  /\ \A t, u \in Thread : \A i \in 1 .. Depth(t), j \in 1 .. Depth(u) :
       cstack[t][i].frame = cstack[u][j].frame => t = u /\ i = j
  /\ \A t \in Thread : \A i \in 1 .. Depth(t) :
       f_back[cstack[t][i].frame] = IF i = 1 THEN NoFrame ELSE cstack[t][i - 1].frame

\* The results mapped are those some code object has, which no other has, and those
\* that _PyCode_SetExtra refused: none is freed twice, nothing a code object has is
\* unmapped, and apply leaves behind no other.
LoadedOnce ==
  /\ \A r \in Result : r \in loaded <=> r \in lost \/ \E c \in Code : extra[c] = r
  /\ \A c \in Code : extra[c] \notin lost
  /\ \A c, d \in Code : extra[c] = extra[d] /\ extra[c] \in Result => c = d
=============================================================================
