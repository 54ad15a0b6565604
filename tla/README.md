# A verification development for the Rinha interpreter

The interpreter (`src/src`, C) reads a JSON syntax tree, compiles it in one
pass to bytecode and runs the bytecode on a stack machine. These modules
model the scanner, the compiler, the arrays it fills, the virtual machine and
the program that puts them together. TLC checks them on small instances; TLAPS
proves the safety of each for every size and every input: the virtual machine
for every certified program, the compiler for every file, the scanner for every
source. The last theorem joins compiler and machine: whatever disciplined
program the interpreter compiles itself, running it is safe.

## The system

| part | source | state | operations | interacts with |
|---|---|---|---|---|
| scanner | `scanner.c` | position, line, column, current token | `scanner_init`, `scanner_next_token` | called by the compiler; an error goes into the `Result` |
| compiler | `compiler.c`, `function.c` | the C stack of `compile_*`, one `Compiler` record per open function (variables, next slot), functions under construction | one `compile_*` per production, variables, captures, jumps | pulls tokens, emits into chunks, hands a closure to `main.c` |
| bytecode | `chunk.c`, `function.h`, `dump.c` | code bytes, constants, nonlocals, children | emit, patch, list | written by the compiler, read by the machine and by `dump` |
| virtual machine | `vm.c`, `stack.*`, `callstack.*`, `closure.c` | value stack, call stack, registers `cl`, `ip`, `slots` | one `do_*` per opcode, `vm_init`, `vm_run` | reads bytecode, creates objects, prints |
| values | `value.*`, `str.c`, `tuple.c` | immutable objects; a value is 64 bits or a structure | equality, order, conversion, tagging, printing | used by the machine and, for constants, by the compiler |
| arrays and memory | `array.c`, `chunk.c`, `function.c`, `memory.c` | capacity, count, elements | grow, append, allocate | may fail: "out of memory" |
| program | `main.c`, `result.*` | the arguments, the file, the `Result`, the exit status | `main`, `read_file`, `check`, `dump`, `run`, `panic` | calls the others in turn |

The process has one thread, writes nothing to disk and never frees an object.
There is no concurrency, recovery or messaging to model. What is hard instead:

* nothing in the machine checks the bytecode. That every read finds a cell
  that was written, every jump an instruction and every return its caller is a
  property of compiler and machine together;
* the compiler never knows the height of the stack: it counts declarations.
  Positions it remembers (slots, captures, jump offsets) are used long after
  they were made, in other functions;
* limits: bytes and words that wrap, arrays and stacks that are full, ints at
  the ends of their range, allocations that fail half way, files that are cut;
* the scanner knows no length: only the NUL keeps it inside the source;
* termination of loops over input and of recursion over data.

What makes each part correct:

* scanner: finds the longest words and whole strings, at their lines and
  columns; reads nothing behind the NUL; ends;
* compiler: takes the grammar and reports an error where it starts; asks for no
  token after the last; captured variables lead to their declaration; slots and
  entries are distinct; jumps are patched once, with the address of an
  instruction; the bytecode is well-formed; it returns;
* arrays: what was added stays, nothing is stored outside them, and a chunk
  overruns its block by no more than a known number of bytes;
* machine: reads only what was written, keeps callers' cells, returns to the
  caller, keeps the heap well-founded, reports its limits, ends;
* values: operators agree with their definition on every type, and the two
  layouts with each other; closures are used within their blocks, or a known
  number of bytes behind them;
* program: prints what the source means or reports why not, and exits with the
  status that tells which.

## Modules

| module | what it is |
|---|---|
| `Values` | values, their equality and order, C arithmetic, conversions to text (`value.*`, `str.c`, `tuple.c`) |
| `TaggedValues` | the bits of a value and the bytes of a closure |
| `VMLayout`, `LayoutProofs` | both layouts of all that a machine holds, the ranges of its ints and bools, how far it goes in the blocks of closures; the proofs |
| `Bytecode` | opcodes, operands, functions, the addresses `dump_function` lists |
| `VM` | the virtual machine: one action per `do_*`, `vm_init`, `vm_run` |
| `Certificates` | well-formed bytecode: a lower bound of the cells at each address, checked instruction by instruction |
| `VMSafety`, `VMProofs` | type invariant, safety invariants, action properties of `VM`, the inductive invariant `IInv`; the proofs |
| `Activations` | what the machine promises: every call has cells of its own |
| `VMActivations`, `ActivationProofs` | `VM` as an implementation of `Activations`; its proof |
| `MCPrograms`, `MCCertificates`, `MCVM` | an assembler and programs as `rinha dump` lists them, computed certificates, the run `vm_frames` |
| `Reference`, `MCOperators` | the operators on numbers and trees, independently; the run `vm_operators` |
| `Characters` | characters, marks and keywords, shared by the next two |
| `Lexer` | what the scanner promises, one token a step |
| `Scanner`, `MCScanner` | the scanner, one character a step; the run `scan` |
| `ScannerProofs` | proofs of its safety, and that it implements `Lexer` |
| `Arrays`, `ArraysProofs` | `function_new` and the four arrays of a function while allocations fail; the run `arrays` and the proofs |
| `Compiler` | the compiler over tokens |
| `CompilerSafety`, `CompilerProofs`, `CertifiedProofs` | type invariant, scopes, code, discipline, termination of `Compiler`; the proofs: scopes first, then code, then its certificate |
| `Language` | terms as trees, their tokens, a reference evaluator, where lets and calls stand |
| `Grammar` | a recogniser for `docs/rinha-ast.ebnf` |
| `MCTerms`, `MCCompiler`, `MCSyntax` | programs and files; the `compile_*` runs |
| `Rinha`, `MCRinha` | `main.c`: arguments, file, compiler, then machine, over one `Result`; the `rinha_*` runs |
| `RinhaSafety`, `RinhaProofs` | the machine's safety in the interpreter, for what it compiles itself, and what the exit status tells; the proofs |
| `MachineProofs` | all proofs about the machine, of its calls and of its values, for `RinhaProofs` |

Modules whose names begin with `MC`, and `Language`, `Grammar` and `Reference`,
are for TLC only, since most of them use `RECURSIVE` operators. Everything a
proof needs is in modules without them.

### How they correspond to the code

**VM.** A pointer is an index: `top` and `slots` into `stack`, `ip` into the
code of the running function, `cl` and the payload of a string, tuple or
closure into the objects of that kind, which are sequences that only grow.
Popping moves `top` and leaves the cell, as `stack_pop` does; a cell nobody
wrote holds `Uninit`, a value no instruction makes. An instruction is one step
with everything its C function does, the error paths included: `Fail` stores
the error and halts, `OutOfMemory` is possible wherever `memory_alloc` is
called (if `MemoryMayFail`), `Trap` is the signal of an integer division.
Signed overflow wraps, as in the builds; the difference in `value_compare` is
either wrapped or compared directly, since the C standard leaves it open.
Strings that an addition converts and drops are not kept.

**Activations.** The same instructions on a machine without a shared stack: the
running activation has its `cells`, each one in `callers` its own. A call takes
callee and arguments out of the caller's cells, a tail call keeps nothing but
them, a return adds its result to the cells of the caller. There are no
offsets, so nothing can overlap. How many cells there are is left open: any push
may find the stack full. `VMActivations` maps the cells from `slots` to
`top` to those of the running activation, and those from one frame's `slots` up to
the next one's to the caller's.

**TaggedValues.** `bits` is the shifts and ors of the macros that make a value,
`type`, `flags` and `payload` those that take it apart, `Wrap64` the width of
an `int64_t`. There are two builds (`TAGGED_POINTER` in `common.h`): with tagged
values, of the size of a pointer, and with a structure of 16 bytes on a 64-bit machine.
`ValueSizes` is the set of both sizes, and what depends on the size of a value takes it as
an argument. `closure_new` counts the bytes of a closure, by pointers, as
`closure.c` does; `nonlocal_end` is where a nonlocal lies, by values, as the
compiler of C lays out `Closure`.

**Scanner.** `pc` is the loop `scanner_next_token` is in: over spaces, digits,
a string, the letters of a keyword, the characters of a token to pass. A step
looks at one character; `reach` remembers the farthest one. `Lexer` takes a
whole token in a step, by a definition and not by loops; the refinement mapping
of `LexesTokens` takes the scanner's position, its token and its error, with
the step of `Lexer` where the token is found.

**Arrays.** `capacity` and `elements` of the four arrays of a function;
`at` says whether an opcode or an operand comes next, and what may be added is
what the compiler may add: an opcode, its operand, a constant, a nonlocal, a
function, and nothing after an error. Elements beyond the capacity lie behind
the block. `realloc` copies the block; whether it copies more is not known, so
that each such element may be lost.

**Compiler.** Each `compile_X` is a *script*: the tokens it consumes, the
functions it calls, the places where it emits or declares. `calls` is the C
stack of active functions, each with its position in its script, its local
variables (`token`, `count`, `jump`) and its argument `isTail`; `comps` is the
chain of `Compiler` records; `functions` holds every function made. An item of a
script is an action: `consume` (a run of tokens, up to the first that is wrong),
`keep`, `call`, `term`, `dispatch`, `emit_int`, `jump_over`, `close_function`,
`resolve_variable` and so on. Texts are compared as `strncmp` does, up to the
length of the token for keys and of the word for kinds and operators. A token
after the last one would be of the kind `behind`, for the scanner would read
behind the source then. `Undefined` is where `add_variable` writes behind its
array.

**Rinha.** The variables of both; `Machine == INSTANCE VM` takes over
`functions`, `strs` and `result` when the compiler is done and the command is
`run`. `argc`, `command` and `disk` are arbitrary: `disk` says whether the file
is missing, locked, empty or cut between `file_size` and `fread`. `stage` is the
function of `main.c` that is active, `exited` how the process has ended.

The compiler's model was compared with the program: the bytecode it emits for
the programs of `MCTerms` that compile is, byte for byte, that which `rinha
dump` lists for the same files.

Definitions named `<definition>_<slip>` are the definition with a plausible
mistake. No specification uses them: each property is checked to fail when one
of them takes the place of the definition.

## Runs

| run | shows | distinct states |
|---|---|---|
| `vm_frames` | 18 programs keep every invariant of `VMSafety`, do what they would with cells of their own for every call, print what they should and end; each value survives tagging, and closures are used within their blocks or `Missing` bytes behind | 701 |
| `vm_operators` | 13 operations × 13 × 13 operands agree with `Reference` | 20118 |
| `compile_terms` | 54 programs: scopes, code, certificates, where closures lead, which programs are rejected, the discipline of those programs | 31815 |
| `compile_syntax` | over a thousand files with one token missing or replaced: the grammar, the place of errors, no token after the last, termination | 223796 |
| `rinha_terms` | 52 programs, read, compiled and run, print what they mean, on defined cells and objects only; the process ends, with the exit status that is due | 59396 |
| `arrays` | arrays grow while allocations fail: nothing is stored outside, nothing but known bytes is lost, places fit into a byte | 254470 |
| `scan` | 16 thousand sources, character by character: no read behind the NUL, right places, the tokens of `Lexer`, termination | 133669 |
| `rinha_lets`, `rinha_calls`, `compile_scopes`, `compile_limits`, `compile_loose` | where the program and its documentation or its own checks disagree | stops at the violation |

Bounds, and why they are enough:

* `vm_frames`: 20 cells and 4 frames. `ProgramDeep(18)` just fits into the cells
  and `ProgramDeep(19)` does not, `ProgramSum(3)` just fits into the frames and
  `ProgramSum(4)` does not, and the tail-recursive programs need one frame for
  any number of calls; every allocation may fail. The
  programs cover captures at one and two levels, of locals and of nonlocals, a
  closure that captures itself, tail calls with more and with fewer arguments
  than the frame has, a tail call from the program itself, both branches of
  conditions, each error of a call, and ints at both ends of their range. An
  int64 is just wide enough for an int and its four bits. A pointer has 8 bytes and a
  value 8 or 16, the two builds on a 64-bit machine; the closures of `ProgramCaptures`
  and `ProgramCurryTail` have two nonlocals, the first number for which the block is
  short in the second build. Sizes beyond these are the proof's matter.
* `vm_operators`: `INT_MAX` is 127, and the operands include both ends of the
  range, so that sums, products and quotients overflow; two strings of which one
  begins the other, nested tuples and closures complete the types.
* `compile_terms` and `rinha_terms`: `UINT8_MAX` is 31, so that a byte still
  holds an opcode, an address fits in a word but not in a byte, and an int of
  1500 does not fit into a word. The capture programs take three uses from every
  combination of one, two or three functions away. A program with 32 functions in one
  fills the byte of their index, one with 31 parameters the array of variables.
* `compile_syntax`: each token of four files that contain every kind of term is
  removed or replaced by each of six others; tokens of the locations in the
  first file only, since `compile_location` is the same everywhere.
* `rinha_terms`: 24 cells and 5 frames, so that some programs meet a limit; a
  run that does has printed a part of what it should. As in `vm_frames`, an int64 is
  just wide enough for an int and its four bits.
* `arrays`: minimal capacities of 2, so that each array doubles twice within 9
  bytes (`CodeBound`) and 5 elements (`ArrayBound`), and a word is written across
  the end of a block with each distance to it; `UINT8_MAX` is 3, so that constants
  and nonlocals meet their limit.
* `scan`: all sequences of up to four out of eleven pieces: keywords, a beginning of
  one, a digit, a letter, an underscore, a quote, a mark, a space, a newline and a
  character of no use.

Programs in `compile_terms` and `rinha_terms` have their lets where nothing is
pending (`LetsFirst`) and calls as the value of an if or a let only at the end
of a function (`CallsLast`). Other programs are compiled wrongly; that is what
`rinha_lets` and `rinha_calls` show.

**Fairness.** Weak fairness of the next-state relation, in `VM`, `Compiler`,
`Rinha` and `Scanner`: the program is one thread that waits for nothing, so a
step that can be taken is taken. The programs of the
runs contain no endless recursion, so `Ends` and `Exits` are claims about the
machine's control and not about the programs; `Returns` and `Scans` hold for
every file and every source. `Arrays` has no fairness: the compiler need not
add anything.

**Deadlock** is checked in every run but `arrays`, which stops at its bounds or
after an error, and `scan`, where nothing follows the last token; in the others
only an ended process stutters.

### Findings

* `rinha_lets`: the slot of a let is the number of declarations so far
  (`compiler.c:132`), but its value is on top of whatever the frame holds.
  `10 - { let x = 2; x }` gives -8.
* `rinha_calls`: `compile_if` and `compile_let` pass `isTail` as true wherever
  they stand (`compiler.c:704`, `742`, `759`); a call there replaces a frame in
  which something is left to do. `let x = if (true) { f() } else { 1 };
  print(x + 1)` prints nothing.
* `compile_scopes`: the names of a let stay declared after it;
  `{ let x = 1; x } + print(x)` is accepted.
* `compile_limits`: the check for too many variables (`compiler.c:141`) lets
  through one more than the array of `compiler.c:56` holds.
* `compile_loose`: any beginning of a key, and any continuation of a kind or an
  operator, is taken (`compiler.c:34`, `277`, `542`).

`chunk_emit_word` makes room for one byte and writes two (`chunk.c:44`), and
both emitters write after the growth has failed (`chunk.c:38`). Nothing in the
repository says otherwise, so this is no divergence; `ChunkOverrun` and
`ElementsKept` say how far it goes.

## Proofs

**The virtual machine** (`VMProofs`): for every set of certified programs, every
`StackSize`, `CallstackSize`, `INT_MAX` and `UINT8_MAX`, with and without
failing memory, `VMInvariant` states `Spec => []IInv`. From it follow `VMTypes`,
`VMStackDefined`, `VMHeapDefined`, `VMTuplesWellFounded`, `VMFramesNest`,
`VMRunsListedInstructions`, and the action properties `VMCallersUntouched` and
`VMReturnsToCaller`.

Assumptions: the sizes are positive (`SizeAssumption`), a byte holds every
opcode (`ByteAssumption`), ints have a positive maximum (`IntAssumption`), and
every program has a certificate (`CertificateAssumption`). The last is what the
machine needs of the compiler, and `CompilerCertifies` proves that the compiler
provides it for disciplined programs; TLC evaluates it on the programs of `vm_frames`.

No invariant of the machine is inductive alone: that a read finds
a written cell depends on the height of the frame, that on the address, and the
height after a return on what the caller's address expects. `IInv` therefore
joins the types; the program that was loaded; that cells up to `top`, objects
and printed values are `Valid`; and `FramesNest`: the running closure stands at
an address whose certificate asks for no more cells than the frame has, and so
will each waiting caller when its callee's result is in place. There is one
lemma per instruction, over a few about the shapes steps have (`StoreKeeps`,
`JumpKeeps`, `PushKeeps`, `CallKeeps`, `StopKeeps`). A capture may read the
closure that has just been pushed (`CapturedValue`); a tail call moves
overlapping cells (`do_tail_call_keeps`); a return lands at the height that
`CanResume` promised (`do_return_keeps`).

**The machine as an implementation** (`ActivationProofs`): `VMRunsInActivations`
is `Spec => RunsInActivations`, the refinement of `Activations`, from the same
assumptions. A program cannot tell the one array, the offsets and the moved cells
from cells of its own for every call. Besides `IInv` the mapping needs `Ordered`:
the callers' `slots` and the running ones lie above each other in the
order of the calls, so that the cells of an activation end where those of the next
begin (`OwnCells`). A step of the machine is a step of `Activations` by the
action of the same name, or the stutter of an ended process. For most
instructions only the last cells differ (`ReplaceRuns`, `PushRuns`); what waits keeps
its cells, as a step writes none below the running `slots` (`WaitingStays`). The
three with proofs of their own are `do_call_runs` (the callee's cells were the
caller's last), `do_tail_call_runs` (the cells that are moved, lowest first, are
those of the call, also where the ranges overlap) and `do_return_runs` (the
result lands behind the caller's cells, in the place of the callee).

**The compiler** (`CompilerProofs`): for every set of files, from
`ByteAssumption` and `FileAssumption` (a file is a sequence of tokens whose last
is the end), `CompilerInvariant`, and from it `CompilerTypes`,
`CompilerStopsAtEnd`, `CompilerCapturesLead`, `CompilerSlotsDistinct` and
`CompilerPatchesOnlyJumps`. The invariant `CInv` has three parts, which need
each other. `TokensInv`: the end of the file is never passed, since what
a function consumes is one of the kinds in `Wanted`. `CallsInv`: the C stack and the chain
of `Compiler` records open and close in step; an activation works for the record
that its caller has on top (`Top`), one more where a `compile_function` has
opened its own (`Opened`), so that no function uses a record that is gone.
`ScopesInv`: the slots of a record were given in order, it has no more nonlocals
than variables, and its captures lead outwards, name by name. A jump is patched
by the `compile_if` that made it, whose activation remembers it until then.

**The code it emits** (in `CompilerProofs` too): from the same assumptions,
`CompilerCodeListed` and `CompilerClosuresLead`. `dump_function` finds the starts
of instructions by a sweep from address 0, which is a recursive function; the
proofs replace it by the addresses that lie in every set closed under going on to
the next instruction (`DumpIs`), and then use only that it starts at 0, goes on
while there is code and comes to no address but from another (`Sweep`). An
emission of whole instructions extends such a set (`AddedSweep`), and a byte
written where no instruction starts leaves it as it was (`PatchedWord`).
`CodeInv` is the two properties function by function, without the jumps that
still wait for an address (`Pending`), and `JumpsHeld`: only a `compile_if` that
emits remembers a jump, from its first emission to its last patch. That no two
jumps share a word follows from where instructions start.

**The certificate** (`CertifiedProofs`): `CompilerCertifies` is
`Spec /\ []Disciplined => []Certifiable`, where `Certifiable` says that what was
emitted has a certificate in the sense of `CertifiedBy`. So what the machine's
proofs assume of a program is what the compiler's prove of its output. Besides the
assumptions above it needs that texts are sequences of characters
(`TextAssumption`). The compiler promises nothing for other than disciplined
programs, as `rinha_lets` shows; `Disciplined` says what those are, where the
compiler could see it:

* `LetsLead`: while a let is compiled, nothing else of its function is pending
  but lets around it that are at their next;
* `ValuesFirst`: the value of a let does not use the name of the let, except in
  a function (where the closure captures the cell its own value will be in);
* `FewChildren`: a function has at most `UINT8_MAX + 1` children.

Calls and ifs may stand anywhere: a call wrongly compiled as a tail call loses
what is pending, but reads no cell that is not there. The programs of
`compile_terms` are disciplined, as a part of `CompiledIsCertified` in that run.

The certificate grows with the code. `CertInv` has one certificate for each function,
so far as it is emitted, and one number for each frame of the C stack: the
cells that stand under those of the term it compiles (`Covered`). At the end of the code of the
record on top there are as many cells as the frame counts on, plus what the
place of its script has left (`Heights`, with `Leaves`); at a remembered jump
there are enough for its target (`Holds`); and every slot that was given away has
its cell (`Floors`), but for that of a let whose value is still to come. Each
emission extends the certificate at its end (`AppendCovered`), a patched jump ties two
places together (`PatchCovered`), and a closed function is certified for good
(`CloseCovered`). A capture is safe
because it names a variable of the record around (`CompilerCapturesFound`) and the
slots of that record have cells where the closure is made (`Outer`).
`CompilerShape` holds the facts about frames, counts, children and constants that
the steps need.

**The interpreter** (`RinhaProofs`): compiler and machine in one process, as
`main.c` joins them. `RinhaMachineSafe` is
`RSpec /\ []Disciplined => []MachineSafe`: from `vm_init` on every cell in use and
every object holds computed values, tuples are well-founded, only listed
instructions are executed and values survive tagging. `RinhaCallersUntouched`
and `RinhaReturnsToCaller` state the two action properties of the machine for the
interpreter, and `RinhaRunsAsActivations` the refinement: whatever changes the machine of
`Activations` is the compiler, until it is done, or a step of that machine. No assumption
about programs is left, `CertificateAssumption` and `NumberAssumption` are proved; what
remains is that sizes are positive, a byte holds every opcode, an int every word and a
tagged value every int, a file is tokens and a text characters.

The machine's theorems are about a machine that is given a set of programs and their
certificates, once and for all. `Run` is that machine for the set of *all* programs that
have a certificate and whose int constants are ints (`Certifiables`), each with a
certificate of its own (`Chosen`, which depends on the functions only, as strings matter
to constants alone: `CertificatesShared`). So the certificate of `VMSafety` is a function of the program and
not of a single function, which can need another one in another program.
`SameMachine` says that the machine of `Rinha` takes the same steps, opcode by opcode, and
`MachineAssumed` that `Run` meets the assumptions of `VM` and `VMSafety`; then
every lemma about the machine holds of it (`MachineProofs`). The invariant `RInv` has two cases. `Loading`: the
machine is as a new one and the compiler's invariants hold, those of
`CertifiedProofs` among them. `Loaded`: the compiler is done, and `Run!IInv`
and `Run!NumbersInRange` hold. What is compiled is in the first case until `vm_init`,
and `HandedOver`, the step to the second, is `CompilerCertifies` on one side and
`Run!Init` on the other. `CompileSteps` says that no compiler step follows, and none
that goes on leaves an error behind. That the numbers among the constants are ints is a part of
`CompilerShape`: `to_int` lets no others through (`KnownConstant`).

`RinhaExitTells` is `RSpec => []ExitTells`, for every file, disciplined or not, every
command and every fate of the file on disk: the process succeeds only if it was used
rightly, the file was read whole and compiled, and what was run came to its end without
an error; it is killed only by a trap, and fails only if it was misused, the file could
not be read, memory for it was refused, or the compiler or the machine met an error.
`Undefined`, the overrun of `compile_limits`, is left out of account. `ExitInv` adds what
`main` has made sure of at each stage, and that a Result with an error means that the
compiler has failed or the machine has halted (`CompileSteps`, `ErrorsHalt`).
`ExitsAsMeant` contains `ExitTells`; the rest of it is about what programs mean.

**The arrays** (`ArraysProofs`): for every minimal capacity of at least 2 for
chunks and 1 for arrays and every limit (`CapacityAssumption`), `ArraysInvariant`
and from it all five properties of the run; `ATypeOK` is a part of it. The overrun has a bound because an
operand follows its opcode and nothing an error; `NoWaste`, that a block is at
most twice as large as what it holds, is why one doubling is always enough.

**The scanner** (`ScannerProofs`): for every set of sources
(`SourceAssumption`: sequences of characters, none of them the NUL).
`ScannerInvariant` says how far ahead each loop may look; `ScannerTypes`,
`ScannerReadsInside` and `ScannerPlaces` follow. `ScannerImplementsLexer` is the
refinement: what the scanner has seen on its way to a token says that it is the
one `Lexer` takes. Where a word ends is a least element, which exists since the
naturals are well-founded (`LeastElement`, `FirstExists`).

**The layouts** (`LayoutProofs`): for every width of ints and pointers that
`LayoutAssumption` admits, `ValuesSurviveTagging` and `BitsTellValuesApart`; and of
the machine, with the assumptions of `VMProofs`, `VMNumbersInRange`,
`VMLayoutsAgree`, which is `Spec => [](AddressesFit => LayoutsAgree)`, and
`VMClosureOverrun`. `NumberAssumption` adds that an operand
of `OP_INT` is an int and that the int constants of a program are; `RinhaProofs`
proves the second of what the compiler makes. Ints stay in range because sums, differences and products wrap, the one
quotient that would leave it traps, and a remainder is nearer to 0 than its
divisor. `NumbersInRange` is about all cells of the stack, the
unused ones included: it is inductive only so, since nothing in it says where
`top` is. Whether addresses fit beside the tag is no promise of the program: it
makes as many objects as memory allows. So it is a hypothesis about the state
(`AddressesFit`); on the machines the program is built for, addresses have 48 bits.

`LayoutsAgree` is about the bits of values only. `ClosureOverrun` is about the size of
closures, which is right in one build and wrong in the other: `closure_new` counts a pointer for each nonlocal after
the first (`closure.c:11`). With tagged values nothing lies behind a block. With the
structure, a closure with `k > 1` nonlocals is written
`Missing(k, size) = (size - POINTER_SIZE) * (k - 1)` bytes behind its block, 8 bytes
with two nonlocals. `LayoutAssumption` admits any size that holds a pointer, and the
theorem says for each how far the machine goes: what is written is exactly
what `closure_new` counted too little (`Blocks`), and what is read was
captured (`ReadsCaptured`), because the certificate bounds the operands of `OP_NONLOCAL`
and the indices of a child's captures by the nonlocals of the running closure.

Only model-checked: `CompiledIsCertified`, which computes a certificate by a
recursive operator where `CompilerCertifies` shows that there is one; `RejectsOnly`, the grammar and the place of errors; what operators compute and
programs print (`OperatorsAgree`, `PrintsExpected`, `RunsAsReference`) and that the
exit status is the one a program means (`ExitsAsMeant` beyond `ExitTells`), which rest on
recursion over data; and liveness under fairness, which the prover does not handle.

## Not modelled

* Text that is printed, by `value_print`, `dump_function`, usage, version and
  errors: the model keeps what is printed, not how it looks. The error for an
  unexpected operator, whose `%s` gets an opcode (`compiler.c:570`), is therefore
  listed as a hazard only.
* What happens in the build without tagged values after a closure with two or more
  nonlocals was written behind its block: C leaves it undefined. `ClosureOverrun` says
  how far that is; `VM` goes on with the values it stored, as the build with
  tagged values, the default, does. All other properties of the machine are about runs
  in which memory was not overwritten so.
* Which way two ints compare whose difference overflows (`value.c:75`): C leaves it
  undefined, `value_compare` allows both answers, and `OperatorsAgree` accepts both.
* The order in which a tail call copies its cells (`vm.c:616`): `VM` moves them at once,
  to what the order of the code, lowest cell first, gives.
* The depth of the C stack, which equality and printing of a long chain of
  tuples use up (`value.c:51`).
* `isspace` and its like on a negative `char` (`scanner.c:22`), which C leaves
  undefined: the characters above 127 count as `other`, as in the C library the
  program is built with.
* Calls of more arguments, or functions with more children, than a byte
  counts. The model wraps them as the code does, but no program of a run has
  that many, and no property says what such a call should do.
* Capacities within `Compiler`: there any emission may fail, but room is never
  short; growth is `Arrays`' matter. Likewise `Compiler` takes tokens, and
  a sequence the scanner rejects is a token of its own kind.
* Build, CI, benchmark, examples and images.

## Plan

Done in this order: `Values`, `Bytecode`, `VM` with its safety; the inductive
invariant and its proof; the operators; `Compiler`; `Grammar`; `Rinha`;
`TaggedValues`, `Arrays`, `Lexer` and `Scanner` with their proofs; the program's
arguments, file and exit status; `CompilerProofs`, first scopes, then code;
`CertifiedProofs`; `RinhaProofs`; `VMLayout` and its proof; `Activations` and the
proof that `VM` implements it; the layouts, the refinement and the exit status in the
interpreter. What is left: the operators against `Reference`, if recursion over data
comes within reach of the prover.
