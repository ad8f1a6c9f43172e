# comPyler in TLA+

comPyler turns the bytecode of a CPython 3.10 function into machine code through
LLVM, and runs it in place of CPython's interpreter loop. Its machine code drops
work the interpreter does on every instruction: the test that a local variable is
assigned, the reference counts of values that only pass through the value stack,
and the bookkeeping of the stack depth. What it drops it must have proved
unnecessary before, in three passes over the bytecode; what can go wrong is that a
pass claims something that is not so on some path. This project models those passes,
what the emitted code does with their answers, the runtime helpers it calls, and the
evaluation of frames around it.

## The system

| component | where | state | operations |
|---|---|---|---|
| control-flow graph | `analyze_code.cpp` 8-168 | `is_boundary`, `blocks`, counts | `parseCFG`, `findPyBlock` |
| argument decoding | `general_utilities.h` 276-300, `emit_block.cpp` 15-34 | none | `oparg`, the emitter's `extended_oparg` |
| intra-block analysis | `analyze_code.cpp` 170-683 | `ReversedStack`, `locals`, `redundant_loads`, the blocks' local sets and stack effects | one backward step per unit |
| exception-block analysis | `analyze_code.cpp` 685-711 | `visited_eh_block`, `locals_kept` of exception blocks | `analyzeEHBlock` |
| definite assignment | `analyze_code.cpp` 713-757 | `locals_input`, `worklist_link`, `worklist_head` | one turn of the worklist |
| stack heights | `analyze_code.cpp` 759-782 | `initial_stack_height`, the same links | one turn of the second worklist |
| emitter | `emit_block.cpp`, `compile_unit.cpp` | `abstract_stack`, `stack_height`, `vpc_to_stack_height`, `defined_locals` | one case per opcode |
| unwinding | `shared_subroutines.cpp` 54-184, 1854-1947, 2116-2178 | `f_blockstack`, `f_valuestack`, `exc_info`, `f_lasti` | `gotoErrorHandler`, `gotoUnwind`, `handle_POP_EXCEPT`, `handle_RERAISE`, ... |
| frame evaluation | `main.cpp` | the code's extra slot, `cframe`, `f_state` | `eval_func`, `apply`, `freeExtra` |
| runtime helpers | `shared_subroutines.cpp` | the references in their hands, the exception set | one function per opcode that calls into CPython |
| LLVM plumbing | `translator.*`, `shared_symbols.h` | the LLVM context, the buffer `out_vec` of object code | `Translator::compile`, `loadCode` |
| debugging tools | `debug_tool/` | none | disassembly and gdb scripts |

The passes run in the order of the table on one `CompileUnit`. They communicate
through the array `blocks` (code blocks first, then one exception block per try
statement) and through `redundant_loads`; several fields share memory (`branch` with
the branch's offset, `locals_input` with `locals_ever_deleted`, `eh_setup_block` with
`visited_eh_block`), so that the order of the passes is part of what makes them
correct. The emitted code and the runtime communicate through the frame: `f_lasti`
is stored before each instruction, and `sp_map[f_lasti]` tells the unwinder how many
stack slots hold references the code owns.

The passes and one run of a function belong to one thread, which holds the interpreter's
lock; what is concurrent there is data flow: every path through a function, and an
exception at any instruction that calls out. Frames are another matter: wherever code calls
out, another thread may call functions, resume the same generators, and compile.
The hard behaviours are
paths nobody tested through the graph, exceptions between two effects of one
instruction, nesting at its limit, generators that suspend in mid-stack, and
off-by-one at the ends of arrays and of bit sets.

What makes each component correct:

* control-flow graph: as many blocks are made as were counted, every jump leads to the
  start of the block at its destination, control enters a block only at its start, and
  the analysis reads the same arguments as the emitter;
* definite assignment, exception blocks included: no local is claimed assigned at a
  place that some path, or some exception, reaches with the local unassigned; the
  worklist loses no block and ends;
* stack values: no value is used after its last counted reference is gone, none is
  released twice, whether the instruction completes or raises, and what the emitter
  believes to be in the frame's slots is there;
* stack heights: both ways into a block, and the unwinder, find the stack as high as the
  analysis said;
* unwinding: a handler starts with the stack, the block stack and the exception state
  it was compiled for, and the resume offset does not overwrite a live block;
* frame evaluation: an error jumps to the evaluation of the frame it unwinds; a frame goes on
  where it was left, whichever thread ran it before, and machine code that runs is in memory, but in frames that
  `apply` overtook, off which nothing keeps it;
* runtime helpers: whatever the interpreter answers, a helper leaves as many references as the
  emitted code and the unwinder count on, uses no object after it may be gone, raises if and only if
  an exception is set, and asks the operands' slots in the language's order.

## Modules

| module | models | state and actions |
|---|---|---|
| `MustDefined` | what the definite-assignment analysis promises | blocks `pending` are processed in any order |
| `DefinedLocals` | the worklist, `analyze_code.cpp` 713-752 | the intrusive list; `ProcessHead` is one turn of the loop |
| `Bytecode` | opcode classes, argument decoding | operators |
| `ParseCFG` | the three passes of `parseCFG` | `Scan`, `Create`, `Link`: one unit, boundary, block per step |
| `CompiledLocals` | the passes in sequence, then the emitted code's locals | extends `ParseCFG`, instantiates `DefinedLocals`; `Intra`, `VisitBody`, `analyzeEHBlock`, ... then one action per kind of instruction |
| `StackEffects` | two tables: what each opcode does to the stack in the analysis (`Assumes`) and in the emitter (`Emits`) | operators, by family of opcodes |
| `StackValues` | a block analysed backward, emitted and run | `Analyse`; `LoadFast`, `Rotate`, ...; `Begin` and then `Complete`, `Raise`, `Exhaust` or `Suspend` |
| `StackHeights` | the second worklist, 759-782 | `ProcessHead` is one turn of the loop |
| `ExceptionState` | what exception handling promises | try blocks and handlers entered, what each handler saved, the exception being handled |
| `Unwinding` | a function that handles exceptions, run | one action per unit with an effect of its own (`SetupWith`, `PopExcept`, `Reraise`, `EndAsyncFor`, ...), `Ordinary` for the rest, and the unwinder's `LeaveHandler`, `Catch`, `LeaveFrame` |
| `HelperSteps` | the language helpers are written in: references gained and lost, calls, branches on their answers | operators that give sequences of steps |
| `OperatorHelpers`, `ObjectHelpers`, `ModuleHelpers` | the helpers: operators; names, calls, containers, unpacking, matching; exceptions, imports, `with`, asynchronous protocols | one operator per helper |
| `Helpers` | a call of a helper | runs the steps: `Gain`, `Release`, `HandOver`, `CallOut`, `SetError`, `Choose`, ... |
| `EvalFrame` | `main.cpp`, and the ends of `emit_block.cpp`'s yields and of the unwinder | `Call`, `Send`, `Yield`, `Return`, `Raise`, `Catch`, `LeaveFrame`, `Apply`, `ApplyFails`, each of some thread; `DropCode` |
| `*Proofs` | proofs about the module they extend | |
| `MC*` | the instances TLC checks | |

`MustDefined` is the abstract specification: blocks are taken up in any order, and when
none is pending the answer is the greatest one that every predecessor and the entry
provide. `DefinedLocals` implements it (property `Implements`), with `pending` mapped
to the blocks that do not link to themselves; what is promised is proved for both, and
checked for the second.

`CompiledLocals` puts the passes one after the other on a real bytecode, hands
`DefinedLocals` the graph `ParseCFG` built (`FlowStartsWell` says that its assumptions
hold then, which is where the two modules' claims meet), and runs the result with every
call free to raise. Only what concerns locals is run: whether a slot is assigned, and the
block stack.

In `StackValues` an instruction that may call out is two steps. `Begin` takes its
operands; the frame's slots still hold them, since giving up a slot does not clear it.
Then `Complete` releases what the code releases and stores results, or `Raise` ends the
block, with `sp` (the entry of `sp_map` for this unit) telling the unwinder how many
slots hold references. Object counts are explicit, so that a reference released twice,
or used after it was released, is a count too low. The value of `EmitsX` for an opcode
says which operands are popped (`pop`), handed over in place (`take`), moved to another
holder (`keep`), which of the popped are released and when, whether the call may raise,
and what is pushed.

`Unwinding` runs code whose heights are known (`Balanced`, which `StackHeights` is about).
The emitted code uses the height of each unit; the unwinder works from `f_lasti`, or from
`f_stackdepth`, or from the level of a block. One turn of `gotoUnwind`'s loop is one
action. An exception is its three objects, counted separately, so that a swap of them shows.
`ExceptionState` is what it implements (`Implements`): `Blocks` reads the nesting of handlers
off the block stack, and what each of them saved off the six values on the stack.

A helper of `shared_subroutines.cpp` is straight code with early exits, so that a module with
an action per line would be longer than the code. Instead `handle_X` is a sequence of steps:
`New("v")` is a call that gives `v` a new reference or fails, `DoesOr(cleanup)` one that
answers a status, `Either` a branch on an answer, which any answer may take, `See` a
reference that stays another's. `Helpers` runs them, one step at a time, and knows which
variables have a reference of their own and which are only `lent`; a step that may run
other code ends every loan. What a call must do is read off `StackEffects`
(`Takes`, `Pushes`): the contract of the emitted code, which `StackValues` relies on, is the
one the helpers are held to. `RightOrder` is written from the language's
rule for operators, apart from the code: the more derived type first, each slot once.

In `EvalFrame` a thread has a stack `cstack` of evaluations, the C frames of `eval_func` and of the
interpreter's loop; `cframe` and `frame` are what the thread state says. The error path
reads the thread state, not the C stack (`Raise`), and may call out before it jumps, so the
place it goes to (`target`) is decided before it is used (`Catch`, `LeaveFrame`). `entry` is
`b_handler` of the last block-stack entry, where machine code is entered; `resume` is where the
program has to go on, kept beside it to compare. A result's memory is `loaded` until freed,
and may be given to another. `Call`, `Send` and `DropCode` stand for the interpreter,
its generators (`gen_send_ex` refuses one that is executing) and the life of code objects.

`apply` may be called on any function at any moment, and what the code does not guard against happens:

* a function compiled again while frames of it run has their machine code freed (`SetExtra`);
* a generator that the interpreter began has garbage in `b_handler`, and starts there once its function is compiled;
* `_PyCode_SetExtra` answers -1, which `apply` ignores (`main.cpp:74`): the result stays mapped, and nobody holds it;
* `loadCode` throws, so that the object stays in the buffer (`compile_unit.cpp:376-377`) and the next one is put after it.
  Which of the two is found when the buffer is loaded next is LLVM's choice: `Apply` takes either.

The history variables `overtaken`, `lost` and `failed` name who was hit, and the properties say that no one else is:
only a frame that `apply` overtook runs code that is gone or starts at garbage, only a result that was refused is
left behind, only a function whose loading failed is run in place of another. A thread that runs code that is
gone, another function's, or from garbage may do anything, and is followed no further (`Sane`); the others go on.
A generator's entry is an offset in the machine code, and is used again after its function was compiled again:
this relies on LLVM laying out the same code the same way (`emit_block.cpp:863`), which is taken for granted.

A definition named like another with a suffix (`ReleasedAll`, `PushTwice`, `VisitAny`) is
the other one with a plausible mistake in it. The specifications never use these;
replacing the right definition by one must break the property it is paired with in
`PROJECT.json`, which shows that the property depends on that code.

## Runs

| run | checks | shows |
|---|---|---|
| `defined_locals` | `ListOK`, `SoundWhenDone`, `KeepsEverySolution`, `Implements`, `RelistedOnlyIfSmaller`, `Terminates` | the loop with its intrusive list implements the abstract iteration and ends |
| `parse_cfg` | `CountsAgree`, `BasicBlocks`, `BranchesResolved`, `OpargsAgree`, `Parses` | legal code is cut and linked rightly |
| `compiled_locals` | `DefinedIsBound`, `BodyAccounted`, `ResumeSlotFree`, `FlowStartsWell`, `Compiles` | no test for an unassigned local is dropped wrongly, exceptions included |
| `stack_values` | `NothingReleasedTwice`, `OperandsAlive`, `TakenAreOwned`, `MirrorsFrame`, `HeightsAgree` | the two tables agree and the counts are right on every way through a block |
| `stack_heights` | `HeightsRight`, `AssertionsHold`, `AllReached`, `Terminates` | every reachable block gets its height, although the list begins with a block marked as not listed |
| `unwinding` | `TypeOK`, `CountsExact`, `AssertionsHold`, `OutsideRestored`, `HandlerHeight`, `Implements` | handled exceptions nest as handlers do, and nothing is released twice or leaks, on every way through nested statements |
| `helpers` | `ReferencesExact`, `OnlyLiveObjects`, `RaisesOrReturns`, `SlotsInOrder` | every helper but those named below keeps its contract, whatever the interpreter answers |
| `eval_frame` | `JumpsHome`, `RunsLoadedCode`, `GoesOnRight`, `FramesChained`, `LoadedOnce` | threads that mix machine code and the interpreter find their own evaluation and frame when an error jumps, whatever is compiled meanwhile; only frames `apply` overtook are harmed by it |

Four runs are expected to fail: in each the code breaks
a property it holds to elsewhere, or an assertion of its own.

| run | property | what happens |
|---|---|---|
| `star_args` | `DefinedIsBound` | `co_flags & CO_VARARGS` is 4, not 1: locals after the parameters are taken for assigned |
| `nested_handlers` | `ResumeSlotFree` | the nesting limit counts try bodies, not the handlers around them: the last entry of the block stack is in use |
| `unpack_owned` | `NothingReleasedTwice` | too many items: the last one, in the sequence's slot, is released by the helper and by the unwinder |
| `with_reraise` | `AssertionsHold` | `RERAISE` after a `with` looks the height up for the unit that raised |

The opcodes behind these, and `GEN_START` (releases the value sent and then may raise),
`BEFORE_ASYNC_WITH` (leaves the abstract stack one value short, and `YIELD_FROM` asserts the contrary),
`IS_OP` (never pushes its result), `CONTAINS_OP` (pushes a constant it did not count),
`MATCH_CLASS` (leaves stale abstract values) and `JUMP_IF_TRUE_OR_POP`,
`JUMP_IF_FALSE_OR_POP` (emitted as if they popped on both branches), are not among the
blocks of `stack_values`; the same properties refute them. `LOAD_FAST` counts a pushed
value twice, which leaks it; that is why `NothingReleasedTwice` is an inequality.

`parse_cfg` leaves out functions that are one block jumping to its own beginning (`while True: f()` on
one line): `findPyBlock` begins its search at `block_num - 2`, unsigned (`analyze_code.cpp:58`), far outside the
array, and `BranchesResolved` fails. `CountsCorrect` and `BlocksAreBasic` include them; `BranchesCorrect` has
`~OneBlockLoop` for a hypothesis.

`handler_num` is counted as the code counts it, but no property is about it: it is the room first reserved for the
destinations of the entry's indirect jump (`compile_unit.cpp:104`), to which `YIELD_FROM` adds one that was not
counted (`emit_block.cpp:889`); the jump grows then.

`helpers` leaves out, because a property fails: the unary operators other than `not`, which
return null to code that does not look (`RaisesOrReturns`); `CALL_FUNCTION_KW` and `BUILD_STRING`,
which leak operands, and `IMPORT_FROM`, which leaks the package's name when the
module cannot be looked up (`ReferencesExact`); `CALL_FUNCTION_EX`, which passes its keywords in the place of a tuple of
arguments (`shared_subroutines.cpp:989`: a dictionary, or null, is read as a tuple), and without keywords reads the type
of a null pointer when its arguments are no sequence; and `BINARY_ADD`, which calls the slot `sq_concat` just when it is
null (`OnlyLiveObjects`). `handle_RAISE_VARARGS` has a comment that it consumes its arguments
(`shared_subroutines.cpp:1209`); it leaves them to the frame, as the emitted code expects. It also puts a `type` that is
still null into a message (1231-1233), for which CPython prints `<NULL>`: the model has the error only.
`UntestedCallsFail` is `FALSE`: `MATCH_KEYS` and `MATCH_CLASS` do not test two calls that fail only for
want of memory.

### Bounds

* Graphs (`defined_locals`, `stack_heights`): all of up to three blocks. Three are
  the fewest in which a block in the middle of the list can be relinked and two
  paths of different length meet. `defined_locals` has two locals and blocks that change at most one
  of them: with two, a block taken up again for one carries another. The theorems below
  are about graphs of any size.
* `parse_cfg`: all legal codes of up to five units, one opcode per class, arguments in
  base 2 instead of 256 so that prefixes (of jumps, the only units with an argument here) occur; five units hold a try block, its handler and a
  prefixed jump.
* `compiled_locals`: eight shapes of functions as CPython's compiler emits them (loop, try
  with handler, try with clean-up, try in a loop with a break, a try in a handler, `with`, `async for`, four
  nested tries), each of four holes with a load, a store or a deletion of a local, or a
  call; three signatures; `CO_MAXBLOCKS` is 4 and a chunk of a bit set 2 bits wide, so that
  their limits are met.
* `stack_values`: all blocks of four moves over two locals and one constant, on a stack that starts
  with none or two values; and every opcode after up to two loads, on a stack of none or
  seven. Four units are enough for a local to be loaded, stored again, and used; the argument of
  each opcode takes the values for which its effect differs. A `YIELD_FROM` may suspend again and again.
* `unwinding`: one statement nested in another, in its body or in its handler, of the kinds
  `with`, `async with`, `for`, `async for`, `try`-`except`, `try`-`finally`, with three simple statements
  innermost, with the caller handling an exception or not. Two levels are enough for a handler
  to be entered, and left by an exception, inside another handler. Five exceptions are more than a run raises and holds at
  once; the code loops in `for` and `async for` only. A value pushed is a new object here (`Given` is empty), which duplication makes several slots hold. Code is compiled as
  CPython does; `with` is there with a manager that suppresses, since the other kind is
  `with_reraise`.
* `helpers`: calls of no, one or two operands where the number varies, loops over one or two
  names or keys; a branch on an answer is free, so that every failure of every call occurs. Of operators one of
  each way to dispatch, with all types of operands (`Situations`): which of two functions or none is in
  each operand's slot, whether the right one's type is the same, derived or unrelated, which sequence
  and in-place slots there are.
* `eval_frame`: two threads, a call of one function and two generators of another, so that a generator
  can resume the other, change threads, and be compiled again while running or suspended; two results, so that both
  functions are compiled, or one of them again, and freed memory is reused; two places to go on at; `MaxFailures` is 1: one load
  or one `_PyCode_SetExtra` fails. `View` does not tell apart what is left in frames that have ended, which nobody reads.

### Fairness

One thread runs each pass to its end, so weak fairness of the next step is what a
sequential loop has; it is assumed only for the passes (`Next` of `DefinedLocals` and
`StackHeights`, `ParseNext`, `Compile`), never for the running code, which may loop. Deadlock
is not checked, since every pass, and every block, comes to an end, and so does a helper's call and a bounded set of frames.

## Proofs

`tlapm` checks them; they hold for every value of the constants and every graph.

* `MustDefinedProofs`: `Sound` from the invariant that a block which is not pending has told
  its successors all it provides (`Settled`); `Precise` from the invariant that no solution
  loses a local, which each step preserves because it only removes from a successor what
  a predecessor does not provide.
* `DefinedLocalsProofs`: the links spell a list, as a sequence that grows and shrinks at
  its end (`Spells`): `IInv` is the type invariant and the existence of that sequence. `ListOK`
  alone is not inductive with a bounded length; that the sequence has no more entries than
  there are blocks is a lemma by cardinality. From it each turn of the loop is a step of
  `MustDefined` (`Refinement`), and what is proved there carries over (`Sound`, `Precise`).
* `StackHeightsProofs`: either the pass has just begun (`Fresh`), or block 0 has been
  worked on and the list, in which a second entry for block 0 can only be the last, is
  spelled as above; every block found has its true height (`Right`), and every block done
  has found its successors (`Closed`). `TypeCorrect`, `HeightsCorrect`, `NoAssertionFails`
  and `EveryBlockReached` follow.

* `ExceptionStateProofs`: `OutsideRestored` says nothing while a handler is entered; the
  outermost handler having saved the caller's exception (`OutsideSaved`) does, and is kept by
  every step.

* `CompiledLocalsProofs`, first part, about `ParseCFG`: the counts of the first pass are cardinalities (of the boundaries, of the set-ups of
  try blocks among the units seen); in the second pass the blocks so far end at
  all the boundaries up to there (`CutUpTo`) and nothing between two boundaries sets a try block
  up (`OneMoreBlock`); so in the third pass an exception block is left for every set-up (`RoomLeft`).
  `CountsCorrect` and `BlocksAreBasic` follow, for code of any length that is as CPython's compiler emits it
  (`Emitted`). `BranchesCorrect` needs what the binary search returns: the ends of the blocks increase
  (`EndsIncrease`), so `AfterBlockEnding` says for every range what is found in it, one turn of the search
  agrees with that (`OneTurn`), and a smallest range on which the recursive function differed would be a
  counterexample to that turn (`SearchFinds`). What a block branches to, before and after it is linked, is `BranchInv`.
  `ArgumentsAgree`: no boundary is between a unit and its prefixes (`WholeUnits`), and both ways to read an argument obey
  one equation from a prefix to the next unit (`OpargIs`, `EmittedIs`); for code whose arguments are bytes (`Bytes`).
* `CompiledLocalsProofs`, second part: the passes end to end, for every code that is `Compilable`. `LocalsInv` says phase by phase
  what a pass has made and the next relies on: the graph (`Layout`, `Fields`), the summaries read as sets of the units
  seen (`SoFar`, then `Summary`), the walk over each body (`Walking`: a block visited has passed the walk on to all that
  follows it in the body, or a call for it is pending), the worklist's own invariant, whose theorems are used through
  the instance `Worklist`, and the claims along the edges of the code (`Claims`). During the run `RunAt` relates three
  things: what a block is still to do leaves assigned what its successors claim (`Promise`); the block stack is
  what the nesting of the code says (`StackFits`); and for each entry of it the block that runs, and the set-up of every
  try block inside, is among the blocks walked for that handler, and what its handler claims is assigned now
  (`Guards`). `DefinedIsBound` alone is not inductive: an exception goes to a block whose claims were made from other
  blocks' summaries, and only `Guards` carries them from the set-up through the body to the raise.
  `DroppedTestsSafe`, `HandlersAccounted` and `WorklistStartsWell` follow.
* `UnwindingProofs`: for a function of any length, `Inv(nest)` says that the handlers nest as `nest` has it around each
  unit (`Structured`), that the block stack is what `nest` says around the unit that runs, less what was unwound
  (`StackFits`: the levels, where each handler begins and at which height, and that what a handler saved, and the
  exception it was given, are still on the stack, three objects that belong together, above the level), the exact
  counts, and phase by phase what the unwinder may rely on (`Phases`: `f_stackdepth` is never below what the innermost
  block left needs, `Floor`). The run's properties are not inductive: that `POP_EXCEPT` restores the right three values
  needs that no instruction between took or moved them, which is what each entry of `nest` says it `keeps`; a value to
  be returned that is put under the saved ones (`ROT_FOUR`) moves them up one slot (`saved`). That an object is left to
  allocate follows from counts that are exact: what refers to objects are the slots, `exc_info` and the exception set
  (`Fresh`). Each action is a lemma that says what it does to the blocks and what they saved (`Quiet`, `Encloses`,
  `Leaves`, `Throws`, `Catches`, `Restores`): the steps of `ExceptionState`. From them `ImplementsExceptionState`, and with
  the theorem of `ExceptionStateProofs`, through the instance `Nesting`, `CallersExceptionBack`; `TypeCorrect`,
  `CountsStayExact`, `AssertionsNeverFail` and `HandlersEnteredRight` from the invariant. `TablesAgree`, by opcode, is
  what makes the height the analysis computes (`Assumes`) the one the emitted code has (`Emits`).
* `StackValuesProofs`: for a block of any length, begun at any height. The five properties are not inductive, even together:
  a value whose load is not counted is alive only as long as its local holds it, and whether a store to the local comes
  before the last use is in no variable of the emitter; the backward pass knew it and kept one bit, `redundant_loads`.
  `IInv` therefore has what that pass knew at every unit (`h`): the list `until` as it was there, and what the rest of the
  block does to the height. During the pass it says how `h` came about (`Analysing`); between units and inside one
  (`BetweenUnits`, `InUnit`) it relates `h` to the emitter's stack: a value that is not owned is a constant, or is
  what its local holds and goes on holding until the value is last used (`Lasting`), and every value that is owned is in
  its slot, in order, and counted there (`Backed`). Inside a unit the operands are of three kinds, popped, taken
  and kept; which of them still count, and that `sp_map` has just the slots not given up, is what makes `Complete`,
  `Raise`, `Exhaust` and `Suspend` safe. A local is deleted only where no copy of it that was not counted is on the stack
  (`DeletesBetweenStatements`, below). That the analysis and the emitter say the same of each opcode is `TablesMatch`.
  A rotation moves slots only by as many as there are owned values among those it moves; that this is the
  rotation of the whole stack, seen in the frame, is counting (`UpTo`, `Nth`). `Invariance` is `IInv`;
  `UnwinderReleasesOnce`, `RedundantLoadsSafe`, `HandedOverInPlace`, `FrameMirrored` and `BlockHeightsAgree` follow.
* `EvalFrameProofs`: for any number of threads, frames and results. `IInv` is the type invariant with:
  each evaluation knows the one before it (`Linked`), each frame is evaluated once and by what its code object has
  (`Exclusive`, `Current`), and the entry in a frame, once written, is where the frame goes on, and is written whenever
  machine code will need it, unless `apply` overtook the frame (`EntryTrusted`); what results hold is their own function's,
  or that of one whose loading failed (`Objects`). The properties alone are not inductive: a return puts back what
  its own evaluation saved, which they do not mention.

Assumed: `NilAssumption` and `HeightAssumption` (a null pointer and an unwritten height are no
block and no height), and `GraphOK`, what the earlier passes leave: proved in `CompiledLocalsProofs`
(`WorklistStartsWell`) for the first worklist; for the second that CPython's code is balanced, which is the
compiler's property, and that the block effects are right, which is proved (`BlockHeightsAgree`). What is proved
about `ParseCFG` assumes `Emitted`; `EvalFrameProofs` `ConstantsDistinct`, and follows no thread beyond `Sane`. `CompiledLocalsProofs` assumes `Compilable`:
`Emitted`, no code of one block that jumps to itself (`findPyBlock` is wrong there), that blocks nest as CPython's
compiler makes them (`Nests`, which every code of the run `compiled_locals` is checked to satisfy), locals that exist,
and no `*args` or `**kwargs`, of which `star_args` shows the entry mask wrong. `UnwindingProofs` assumes
`ObjectsDistinct`; `Enough`, that an allocation finds an object (eight more than the frame has slots, of each kind: nothing
the model leaves out holds one); and that the function is one whose handlers nest (`Compiled`), which every function of
the run `unwinding` is checked to be. `Structured` leaves out `RERAISE` with an argument, whose assertion `with_reraise`
shows to fail, and the instructions the code gets wrong (above, under Runs: `IS_OP`, `CONTAINS_OP`,
`GEN_START`, `BEFORE_ASYNC_WITH`, `MATCH_CLASS`, `UNPACK_SEQUENCE` and the jumps that keep or pop); everything else CPython's
compiler emits is in, with any number of values popped, kept or pushed, and any objects pushed (`Given`). `StackValuesProofs` assumes of the block what the compiler sees to (`Compiled`): opcodes the code
supports but those it gets wrong, which end a block only at its last unit, and an unpacking only of what was just loaded
from a local (`unpack_owned` shows why); that no unit finds fewer values than it takes or needs more than `MaxHeight`
slots (`Legal`, `NextUnit`), for any `MaxHeight`; that a local is deleted only by a `del` statement or at the end of a
handler, where the stack has no uncounted copy of it (`DeletesBetweenStatements`): neither the analysis
(`analyze_code.cpp:329-335`) nor the emitter sees to it, and `OperandsAlive` fails without it; and `NumbersAssumption`, `LocalAssumption`. In what is proved of `Unwinding`, references that
no one holds, those `LOAD_FAST` and some helpers leak, are not in `refs`: `CountsExact` is about the others.

Only model-checked: termination (liveness is out of the prover's reach); of `CompiledLocals`, that the last entry of the
block stack stays free (`ResumeSlotFree`, false beyond the instance: `nested_handlers`); and `Helpers`, whose
contract TLC checks for calls of bounded size.

## Not modelled

* What the helpers compute is CPython's semantics and stays abstract: that they may raise, and what they do
  to references and to the frame's slots, is in.
* A generator into which an exception is thrown, or which is closed or finalised while suspended: `eval_func`
  asserts that it is not asked to (`main.cpp:24`), and has no code for it.
* The interpreter's recursion check and its pending calls, which machine code does not look at; tracing, which it
  asserts to be off.
* A garbage collection that reads `f_stackdepth` of a running frame (`emit_block.cpp:869`), and the reference
  `LOAD_FAST` leaks: neither changes what the code does next.
* Blocks that control cannot reach: they keep an uninitialised height (`analyze_code.cpp:775`) and are
  emitted with it. A handler that LLVM lays out before the first block would be
  taken for none (`shared_subroutines.cpp:128`): where blocks are placed is LLVM's choice, which is left out.
* LLVM IR and its optimisation, names and debug information, the object file and its loading (beyond that it is mapped
  and freed), the tables of symbols, the memory of dynamic arrays and bit sets, the debugging tools.

## Plan

1. Done: definite assignment, the graph, stack values and heights, unwinding, the runtime helpers, frame evaluation.
   The locals are proved from the bytecode to the run.
   Unwinding is proved to nest the exceptions handled, for every function whose handlers nest.
   The counts of a block's values are proved right on every way through it, for blocks of any length.
2. Left: the helpers, whose contract is checked and not proved.
