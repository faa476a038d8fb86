# A verification of lispc

`lispc` compiles a small Lisp to C. It reads a program from the standard input
and prints a C program that carries its own run-time machine: a stack, a few
global registers, heap-allocated environments, and closures that pair a C
function with the environment they were made in. This directory holds TLA+
models of the compiler and of the programs it prints, TLC configurations that
check them on small instances, and proofs about each part that TLAPS checks for
all instances.

## 1. The system

Data flows one way: `main` → `tokenize` (lexer.c) → `preprocess`
(preprocessor.c) → `parse` (parser.c) → `generateC` (cgenerator.c) → C text →
a C compiler → a process.

| component | code | state it keeps | operations | what makes it correct |
|---|---|---|---|---|
| lexer | `lexer.c` | the input, one chunk buffer shared by names, numbers and strings, the token list | one step of `tokenize`'s loop, `skipComment`, `tokenizeString`, per character | the tokens are those the text spells; every input comes to an end; nothing undefined but for tokens longer than the buffer and numbers out of range |
| preprocessor, parser | `preprocessor.c`, `parser.c` | the current token; what `parsePairHelper`'s activations have read of each open list | `wrapTokenLst`; an atom, an opening, a closing bracket; the check for the end | the tree is the one the tokens spell; balanced programs are accepted |
| C generator | `cgenerator.c` 1–569, 794–815 | compile-time environments (names → addresses), the table of lambda expressions still to generate, the text printed so far | `genMain`, `genLambda`, one handler per form | each variable finds its binding, the arrays are large enough, the output keeps the conventions of the machine |
| run-time machine | `genHeader`, `cgenerator.c` 571–792, and the lines the handlers print | `stack`, `sp`, `fp`, `args`, `ret`, `r0`, `env`, `benv`, the environments, the C call stack | the lines of the output: push a literal, scan, get, set, define, branch, call, return; 18 primitives | frames stay chained, a return restores its caller, environments nest as functions did, arithmetic is exact |
| driver | `main.c`, `generator.c` | – | `compile`, which calls the four in turn | the process prints what the text says; every text is answered |
| errors | `error.c`, `dumpToken` in `lexer.c` | – | print a message, with the current token if it was unexpected, and exit | the message shows the token that is out of place; the output ends with the header |
| earlier reader | `old/lexer.c`, `old/parser.c` | a chunk and a string buffer on the C stack, the tokens, the open lists, the nodes read | the loops of `tokenize`, the parser over its tokens | it reads what the present reader does, where both accept a text |

Nothing runs concurrently and nothing is persisted. What is hard in this code
is order and agreement at a distance:

* No line of the output checks the stack or a type. `stmfd` and `ldmfd` find the
  caller's registers only because every line in between is balanced.
* A variable becomes "so many environments outwards, then that index" at
  compile time. It is right only if environments nest at run time as functions
  did at compile time, through closures that outlive their makers.
* Bodies of lambda expressions are generated after the whole of their parent,
  into tables that were sized by another walk over the source.
* `args`, `ret`, `r0` and `benv` are globals that each call overwrites.
* Chunks and strings share one buffer in the lexer.
* The brackets around a program are added to the user's tokens, and take part in
  everything the parser says about them.
* The number of operands is checked nowhere: what is missing is read from the
  call before.
* A text goes into a C literal as it is, and means there what C says.

The hazards, each with the line where it bites and the properties that would
catch it, are listed in `PROJECT.json`.

## 2. The modules

| module | models |
|---|---|
| `Code` | the text of a compiled program, as functions made of *lines*; a line stands for the few C statements one handler prints. Also the *layout* of a program: for each line a lower bound of the words in the frame, and which function's environment `r0` points to (`Annotate`), and when such notes are consistent (`WellFormed`) |
| `Words` | what a `void *` can hold, the primitives' arithmetic and comparisons |
| `Machine` | the run-time machine: one action per kind of line, and one per group of primitives |
| `FrameDiscipline` | the type invariant, the invariants and the promises of the machine, and what its primitives compute |
| `Activations` | what the machine is meant to be: one record per active call, with operands of its own; no stack, no `sp`, `fp`, `benv`, nothing saved and nothing restored |
| `Implementation` | the refinement mapping from `Machine` to `Activations` |
| `MachineProofs` | the theorems about the machine, and that it implements the activations |
| `CodeSamples`, `MCMachine` | compiled programs (the first is test/test.c line by line), and the model-checking instance |
| `Syntax` | nodes of the parse tree; a proper list is its sequence of elements |
| `CGenerator` | `generateC`: the handlers' recursion as a stack of tasks, the scan for a variable step by step |
| `GeneratedCode` | what the generator promises: scopes, table sizes, layout, whole output |
| `GeneratorProofs`, `LayoutProofs`, `OutputProofs` | facts about programs as trees, and about functions that are recursive over them, and the theorems about the generator; how the layout of a body grows; that the generator prints such a layout |
| `SourceSamples`, `MCCGenerator` | the repository's test programs and families of small programs, and the instance |
| `Evaluator` | the abstract specification of the whole: the environment model of evaluation, which src/README.md names as the guide of the implementation; no stack, no addresses: an expression has a sequence of values, and a call takes the values that came last |
| `Lispc`, `MCLispc` | `CGenerator` and `Machine` composed: compile, read by a C compiler, load, run; compared with `Evaluator` |
| `LispcProofs` | the theorems about compiled programs when they run, from those about the generator and those about the machine |
| `Lexer`, `Tokens`, `LexerProofs`, `MCLexer` | the lexer, its promises, the theorems, the instance |
| `Parser`, `Balance`, `Grammar`, `ParserProofs`, `MCParser` | the preprocessor and the parser, their promises about brackets and about the tree, the theorems, the instance |
| `Driver`, `Messages`, `MCDriver` | `Lexer`, `Parser` and `Lispc` composed, from the text to what the process prints, with the error messages; what the messages say of the text; compared with what the text says |
| `DriverProofs` | the theorems about the way from the text to the program and on to its process, from those about the lexer, the parser and compiled programs |
| `EarlierReader`, `MCEarlierReader` | the lexer and parser of `src/old`; compared with `Tokens` and `Balance` |

How they depend on each other: `Code` ← `Words` ← `Machine` ←
`FrameDiscipline` ← `Implementation`, which is also an instance of
`Activations`; `CGenerator` ← `GeneratedCode`; `Lispc` has instances of
`GeneratedCode` and `Machine`, `LispcProofs` of `OutputProofs` and `MachineProofs`;
`Driver` ← `Messages` of `Lexer`, `Parser` and `Lispc`, and `DriverProofs`, which
extends `Messages`, of `LexerProofs`, `ParserProofs` and `LispcProofs`.
`Evaluator`, `SourceSamples`, `MCDriver` and `MCEarlierReader` have `RECURSIVE`
operators, and no module with a theorem reaches them. What theorems are about
is recursive as functions are: `Regions` of `Tokens`, `Spelled` of `Grammar` and
the definitions over nodes in `CGenerator` and `GeneratedCode`.

### State and actions against the code

*Machine.* `stack`, `sp`, `fp`, `args`, `ret`, `r0`, `env`, `benv` are the C
globals. `fn` and `pc` say which line comes next, and `calls` is the C call
stack; its records also remember the caller's `fp`, `env` and `sp`, and an
environment remembers its function, both as history that no guard reads. `void *` words carry Integer,
String and Procedure objects by value, since nothing changes one once built,
and environments by index, since they are shared and changed. `proc`, `r1`,
`r2`, `r3` are left out: no statement reads one that the same line did not
write. A line whose effect C leaves undefined (`Faults`: stack overflow or
underflow, a frame word that is not one, a NULL environment, an index out of
range, an object of the wrong kind read through a pointer) moves the machine to
a state named after the reason, and nothing is claimed after that. An object
that is no Integer, read as one, gives any value of `Addresses`, never 0: the
first word of a String or Procedure is a valid pointer. Arithmetic wraps around
as the builds do; division by zero and of the least integer by -1 traps.

*CGenerator.* `tasks` is what `genRecursive` and the handlers have still to do
for the current function: the C recursion, flattened. `envs[k]` is the
compile-time environment of function `k`; `lambdas` is `lambdaExps` with
`lambdaEnvs`; `functions` is the temporary file; `stdout` the parts of the
output written so far. Each error is a final `status`, and so is `overrun`, a
write past `env->variables` or past `lambdaExps`. A task `scan` is the loop of
`genScanVariable` at one environment: `FoundVariable`, `ScanOutwards` or
`UnboundVariable`, with the lines that each prints.

*Lexer, Parser.* One action per character class and loop, and per kind of
token. Characters are named; `eof` is the byte 0xFF, which equals `EOF` once it
is in a (signed) `char`, and `nul` the byte 0, which `strchr` finds at the end of
`reservedChars`. In `Lexer` an identifier is its characters, elsewhere a name.

*Lispc.* Compilation steps until the generator is done, one step for the C
compiler and the shell (external), then steps of the process. It starts at the
parse tree. `Content` is what C takes a literal's characters for, and is left open
here; the programs of run `lispc` have plain texts, which stand for themselves.

*Driver.* `compile` as a pipeline: `Tokenize`, `TakeTokens` (which also makes a
name of an identifier's characters), `Parse`, `Generate`, `Compile`, `Start`,
`Run`. A component that stops leaves the ones behind it waiting. `Complaint` is
what is on the error stream then. Reading C is external: `IsC` says whether each
text is a literal, and guards `Start`; `Content` is what a literal stands for, by the
rules of the language for spliced lines, escapes and the terminating zero.

*Activations against Machine.* `Cut(stack, lo, hi)` is the list of operands
between two stack pointers. A waiting call's are those between the `sp` and `fp`
it will have when it goes on; the running call's are between `sp` and `fp`; a
call whose `stmfd` is still to come has none, and its environment is `benv`. Each
step of the machine is one of the activations', so that whatever `stmfd` and
`ldmfd` do to the one stack, no call loses, gains or changes an operand of another.

*EarlierReader.* Its lexer keeps chunk and string apart and accepts what the
present one does, but that a NUL byte is an opening bracket (the token's type is
never set, and 0 is that of `(`). The parser starts with lists only. A state
undefined in C is final, and named: `overrun`, `overflow`, `range`, `crash`.

### Assumptions about what is outside

The C compiler translates the output as written, with each literal read as `Content`
says, `malloc` succeeds, and a binding that was never assigned holds a word (`Unset`) that is no object. In the
lexer, memory from `malloc` is taken to be zero, for `strncpy` leaves names
unterminated and nothing is ever freed before.

## 3. The runs

| run | checks | on | result |
|---|---|---|---|
| `machine` | `TypeOK`, `LexicalScope`, `ClosuresKeepScope`, `OwnEnvironment`, `ScanOnPath`, `FrameChain`, `DepthKept`, `NoFrameFault`, `ReturnRestoresCaller`, `CallersUntouched`, `ImplementsActivations`, `Halts` | Fibonacci (the compiled test-fib.scm), two counters that share code and not state, a recursion that fills the stack | holds |
| `primitives` | `PrimitivesExact`, `ObjectsAreTrue` | a call of each of the 18 primitives with each pair from {IntMin, -7, -1, 0, 1, 2, IntMax}, and with Strings and Procedures | holds |
| `generator` | `TypeOK`, `TablesLargeEnough`, `BindingsFit`, `UnboundExactly`, `LayoutSound`, `OutputWhole`, `OutputAsExpected`, `Terminates` | the families below | holds |
| `nested_definitions` | `DefinitionAddsBinding` | `(define x (define y 1))` and two like it | violated: see 5 |
| `lispc` | `MeaningPreserved`, `MeaningfulRuns` | 2328 programs, compiled and run, of which 1352 have a meaning; 664 are calls with an operand missing, after calls that left one, 231 have operands that leave several words or none, and 108 are calls and procedures with about as many operands or parameters as `args` has room for | holds |
| `readme_list` | `ReadmeListPrints` | the list of src/README.md | violated: see 5 |
| `lexer` | `TypeOK`, `TokensOfText`, `StopsForAReason`, `LexerEnds` | all texts of up to 4 of 11 characters, and numbers and strings around their limits | holds |
| `parser` | `TypeOK`, `TreeOfText`, `AcceptedExactly`, `CallOfProgram`, `BlamesFirstMisfit` | all lists of up to 5 of 5 tokens | holds |
| `driver` | `PrintsAsWritten`, `OutputIsC`, `MisfitShown`, `Answers` | test-fib.scm (for 4), comments and strings in one another, a print of every text of up to 3 of 7 characters between quotes, and texts for every error | holds |
| `earlier_reader` | `NodesOfText`, `ListsOnly`, `StopsForTheSameReasons` | all texts of up to 4 of 10 characters, and all of 6 of `a`, `(`, `)` | holds |

The programs of `generator` and `lispc` are the repository's two test files,
closures, mutual recursion, every ordered pair of about thirty small
expressions as the body of a procedure (so that each definition, assignment,
branch, closure and call comes before and after each other), each of them
nested in each form, and, for the generator, every malformed form
and procedures whose parameters are named like forms.

Bounds, and why they are enough:

* `IntMax = 127` for `long long`: the code never uses the width, only its ends,
  which the grid of `primitives` and the numbers of `lexer` include.
* `StackSize` is 1024 in the code. 96 in `machine` and 64 in `lispc` let every
  program but the runaway one finish, and let that one reach the limit in a
  few hundred steps; 4 in `primitives` is what one call needs.
* `MaxArgs = 4` for 64 and `MaxLambdas = 16` for 1024: the samples of `lispc` have
  three to five operands and parameters, and those of `generator` with 15 and 16
  lambda expressions beside their own: both stand on either side of the limit.
* `ChunkBufferSize = 3` for 1024, so that chunks of up to four characters and strings of
  two to five, closed or not, alone or behind a chunk or string, stand on either
  side of the limit.
* Lists of five tokens, with the seven that the preprocessor adds, hold two
  levels of nesting and every bracket out of balance by up to five.
* In `driver`, `ChunkBufferSize = 16` is enough for every token but the long
  name that overruns it, and three characters between quotes hold each escape,
  an escaped backslash before the closing quote and a spliced line.
* In `earlier_reader`, `MaxChunkSize = 3` and `MaxStringSize = 2` are overrun by
  texts of four characters, and `IntMax = 11` by numbers of two digits.
* `MaxNesting` of `Evaluator` is `StackSize \div 3`: a call takes three words at
  least, so that what nests deeper has no meaning to compare with.

### Fairness

Every module has one process. `FairSpec` adds `WF_vars(Step)`: a process that
can take a step takes one, which is all that an operating system is asked for.
No action is singled out. `Halts`, `Terminates`, `LexerEnds` and `Answers` rest
on it, and the modules `Machine`, `CGenerator`, `Lexer` and `Driver` state it; the
last covers the parser as well. Programs always end here because recursion, the only way to
go back, consumes stack; a run that ends with a full stack (`overflow`) has
ended.

Every module adds a stutter in its final states, so that deadlock, which is
checked in all runs, means a state that should go on and cannot.

## 4. The proofs

Constants are arbitrary but for the named assumptions, which TLC evaluates in
the runs.

### The machine

`MachineProofs`, for every set of programs with a layout, every stack
size, number of arguments, integer width and set of texts
(`MachineAssumption`, `LayoutAssumption`):

| theorem | says |
|---|---|
| `Invariance` | `Inv`, the conjunction of all invariants, always holds |
| `TypeCorrect`, `ScopeIsLexical`, `ClosuresAreScoped`, `EnvironmentsAreOwn`, `ScansStayOnPath`, `FramesAreChained`, `OperandsAreThere` | its parts `TypeOK`, `LexicalScope`, `ClosuresKeepScope`, `OwnEnvironment`, `ScanOnPath`, `FrameChain`, `DepthKept` |
| `NoFaultOfFrames` | no underflow, no broken frame, no environment, binding or argument out of range |
| `ReturnRestores` | a return gives its caller back `fp`, `env`, `sp` |
| `CallersAreUntouched` | no step writes above the running function's operands |
| `PrimitivesAreExact`, `OnlyZeroIsFalse` | in every program, each call of a primitive computes what `PrimitivesExact` and `ObjectsAreTrue` say |

None of these is inductive alone. That a return restores the caller needs the
saved words to be where `fp` points (`FrameChain`), which needs no line to have
popped too much (`DepthKept`: the frame always holds at least the words that
the layout promises, in suspended callers too). That a variable's environment
exists needs `r0` to be on the path the layout gives (`ScanOnPath`), which needs
environments to nest as functions do (`LexicalScope`), which on entry to a
procedure needs the closure it was called through to carry an environment of its
parent (`ClosuresKeepScope`), wherever it had been stored (`OwnEnvironment`
when it was built). `Inv` is all of them together, and TLC checks each in run
`machine`.

The proof follows the actions. `LineSafe` and `NoFault` show that in a state of
`Inv` no line can have one of the excluded faults. Most actions change neither
the frames nor the environments: for them, lemmas about a push, a drop and a
step that leaves the stack alone (`AfterPush`, `AfterDrop`, `AfterKeep`) and about
the next line (`NextLine`) are put together by `OrdinaryStep`. The lines that
store into an environment use `ScopesStored`; `Environment`, `Enter`,
`CallLambda`, `Return` and `Exit` have proofs of their own. Arithmetic needs
`WrapInRange` and `QuotientInRange` only.

For the primitives, `PrimitiveCalled` says that a step at such a call is the call, or stops
for a word that cannot be read; then `QuotientInRange` (long division, with the sign
of the remainder), `WrapIsNear` (a multiple of the number of long longs) and the
order of the integers give the result, and that no object starts at
address 0 (`MachineAssumption`) its truth.

`LayoutAssumption` is the one thing the machine asks of its programs. It is not
left open: `OutputProofs` proves that what the generator prints has the layout
(`LayoutIsSound`, below), for programs whose operands all leave a word on the
stack, and `LispcProofs` puts the two together.

### The machine implements the activations

`MachineProofs` also proves `Refinement`: `Spec => ImplementsActivations`, under
the same assumptions. A few lemmas say what a push, a drop and a write elsewhere do
to a `Cut`. `Inv` gives the rest: `FrameChain` puts each waiting call's operands
above all that is written meanwhile (`WaitingKept`), and `DepthKept` makes a
popped word one of the running call's own. A line inside a function changes the
last activation only (`OnlyRunningChanges`); a call adds one, the `stmfd` on entry
is `Begin`, and a return takes the last one away, since the words that `ldmfd`
restores are the ones that the caller's record remembers.

### The generator

`GeneratorProofs`, for all programs of lists and atoms (`NodesAssumption`) and any
`MaxLambdas`:

| theorem | says |
|---|---|
| `TypeCorrect` | no handler meets a form without a part it reads; every scan is at an environment; no -1 of a failed lookup is printed |
| `RoomForBindings` | what the output binds fits the environments it allocates, as long as the compiler's own array is not overrun |
| `WholeOutput` | a rejected program leaves the header only; each procedure built has its function, enclosed by the one that builds it |
| `TablesAreLargeEnough` | what `countDefinitions` counts beforehand is enough for what is then defined, but for the three kinds of program that `TablesLargeEnough` names |
| `UnboundIsExact` | a program compiles only if it has no free name, and is rejected as unbound only if it has one |

The invariant `IInv` has three parts. `Typed`: the tasks are those the handlers can
leave. `Matched`: function `f` has environment `f` and was allocated its capacity,
and lambda expression `k` becomes function `k + 1`, enclosed by the one it was
registered in. `Printed`: a line of function `f` binds within the capacity of
environment `f` and builds only closures of lambda expressions registered in
`f`. The last is what `OutputWhole` needs while bodies are still waiting:
"waiting" turns into "printed" only at the end.

That an environment gets a capacity at all needs `countDefinitions` to give a
number, which is a recursion over nodes: see the next part.

The last two theorems compare what the handlers do, task by task, with what a
recursive definition says of the whole program. `Traced` says that each task and
each waiting lambda expression is part of the program. Then something is carried
along the tasks from the last to the first (`Path`): a state is a chain
of values, one between each two tasks, and each kind of task says how the value
behind it gives, or bounds, the one in front of it. A handler replaces the first task by
others, so it must only be shown that their chain starts and ends as that task's
link did.

* `Sized`: the value is the number of definitions still to be made
  (`Weight` of an expression: what `countDefinitions` gives, or 0 for what makes none).
  Together with the variables that the current environment has, it is at most
  the capacity. Counting is right for the body of a procedure only where the program
  is `Regular`; where it is not, nothing is claimed of the environment.
* `Resolving`: the value is what `NamesIn` gives for the rest of the function: names
  used, names defined, and names free in lambda expressions in it, in the order in which
  they are met. `Settled` says that the program has no free name if and only if the
  names used are in scope (`Within`) and those of each lambda expression that waits are
  (`Waiting`), in its environment with what is still defined there. That it is an
  equivalence gives both halves of `UnboundExactly`: at the end nothing is left to
  find, and a scan that leaves the outermost environment shows a name that is
  not there.

For the rest of the steps it is enough that those handlers that only split
expressions (`QuietStep`) keep both chains; a lookup, a definition, a procedure,
the next body and main have lemmas of their own. `NamesInvariance` needs
`RoomInvariance`, that one `Invariance`. TLC had found both to hold in
all states of run `generator` before they were proved.

### Recursion over programs

The prover cannot use an induction rule over data. `GeneratorProofs` does without:
programs are finite trees (`NodesAssumption`), so a node has a size, the number of
nodes in it, which its car and its cdr are below. `StrongInduction` is induction over
that number, written out as the choice of a least counterexample. `RecursionExists`
builds, size by size, the function that a recursive definition over nodes
describes, and `NodeRecursion` concludes that `f == [x \in NodesOf(exp) |-> ...]` has the
value at each node that its definition says, and `SameAtNode` that it does not matter
which expression it was started from. `CountDefinitionsFacts`, `MayLeaveNoneFacts`,
`ExpressionsOfFacts`, `DefinitionsFacts` and `NamesFacts` are the equations that follow, one per
definition.

### The layout of the output

`OutputProofs` proves `LayoutIsSound`, `Spec => []LayoutSound`, for all programs of
lists and atoms, any `MaxLambdas` and `MaxArgs`, and literals that the parser can make
(`ValuesAssumption`). A layout is two notes per line: how many words of the frame are
there at least, and which environment `r0` points to. What makes this hard is that
a handler prints a line long before it is known what comes after it, that an `if`
jumps behind a block whose end is not printed yet, and that the note of
`Annotate` is the least over all lines that lead to one.

The invariant `LInv`, for conventional programs:

* `Reached`: all tasks and waiting lambda expressions are expressions of the program,
  so that what `Conventional` says of its operands can be used for them.
* `Laid`, for each function: some depths `D` and block heights `h` fit all of its
  lines (`Shape`), and either it has its last line and all blocks are closed
  (`Complete`), or the tasks that are left lead there (`Going`). For the latter each
  task has a certificate (`Pending`): how many words it finds, how many blocks are
  open, and which line opened the one it closes. `Leads` says how many words each
  kind of task takes and leaves; `Does` that a handler may put lines and tasks
  in the place of one.
* `Placed`: what may stand where (an `enter` first, a `return` last, ...), with
  operands in range.
* `Owned`, for each function: along its lines `r0` is where the compiler's own scan
  stood (`Trail`), and each line that reads through `r0` finds a variable there
  (`Finds`); all but an `outer` that left the outermost environment, which makes the
  program unbound.

That the last two depend on `Printed` and `Matched` is why the induction is
over `IInv` and `LInv` together (`LayoutInvariance`). `LayoutProofs` has the part about
bodies alone: a complete shape decides the braces (`Closes` is what `Successors`
finds), the least note is at least `D`, a body that grows keeps its shape, and
so do the certificates. `OutputProofs` then has one lemma per handler.

### From the source to the process

`LispcProofs`, under `LispcAssumption` (programs are finite trees of values that the
parser can make; the machine's constants are as `MachineAssumption` says), for
`Lispc`, where generator and machine are composed:

| theorem | says |
|---|---|
| `Compiles` | `Spec => Out!Spec`: what `Lispc` does to the generator's state is what the generator's theorems are about |
| `ProcessInvariance` | no process begins before the output is complete; when a conventional program's output runs, the machine's `Inv` holds |
| `CompiledIsSafe` | such a process never underflows its stack, breaks a frame, or leaves its environments, bindings or arguments |
| `CompiledIsScoped` | its environments nest as the source nests lambda expressions (`LexicalScope`), and closures keep theirs (`ClosuresKeepScope`) |
| `CompiledCallsAreNested` | its returns restore `fp`, `env` and `sp` of the caller, and no step writes to the operands of callers |

There is no assumption about output left in these, and none about literals: they hold
for every `Content`. `Out` is an instance of `OutputProofs`. `Mach` is one of
`MachineProofs`, with all code whose notes are consistent in place of the programs
(`Layouts`). What runs is the output as C reads it (`Loaded`), while what `LayoutSound`
says is about the output as printed: reading a literal changes no line's kind and
no jump, so that the notes of the printed text are true of what is read (`LayoutRead`,
`Noted`). `Lispc` runs its code without notes: no action of the
machine reads them (`RunSteps`), so that a step of the process is a step of `Mach`.
The texts are never changed (`RunKeepsCode`), and the generator has
no step left when it is done (`DoneIsLast`), so that what `LayoutSound` says of the output
when it is loaded (`ProcessStarts`) is true of it for good. "Conventional" is as in
`LayoutSound`: all operands leave a word on the stack.

### The parser and the lexer

`ParserProofs`, for all token lists that end with their only end-of-input token
(`TextsAssumption`): `TypeCorrect`, `AcceptsExactly` (the programs accepted are
exactly those whose brackets close and are never open by less than -1) and
`BlamesMisfit` (the token shown is the first behind a list closed too early, or
the end). The invariant `Reading` says that some number `n` of the wrapped tokens
has been read, that the depth of brackets among them is the number of open
lists, and that there is a tree from the first `n > 0` with depth 0 on. Lemmas then relate depths
in the wrapped tokens with those of the program, two brackets deeper.

`ReadsTheText` proves `TreeOfText`, that the tree is what the tokens spell, and
`CallsTheProgram` proves `CallOfProgram`. `Spelled` is a recursive function over the places of
the tokens. `FromExists` shows that there is one, by an induction from the end
(`FromTheEnd`), and `FromFacts` gives its values. The parser reads forwards, and the
function is defined backwards: the invariant that joins them is `Continued`. Each open list
has read some data and will get those that the tokens still to come spell (`Completes`);
completed in this way, from the innermost outwards, the open lists are
what all of the tokens spell. A token of each kind keeps it (`DeliveredCompletes`,
`OpenedCompletes`, `ClosedCompletes`), and `SpelledInvariance` has the induction, over
`IInv`. For `CallOfProgram`, `StaysOpen` says that what is spelled from a place on ends where
the depth of the brackets falls below what it was there. A program in balance thus spells the same
inside its wrapping as alone (`BodySpelled`), and one that closes the list around it leaves
tokens behind that list, which become operands (`CallByTree`).

`LexerProofs`, for all texts and buffer sizes (`LexerAssumption`): `TypeCorrect`,
that the buffer never holds more than it has room for, that comments leave it
empty, and that the end of the input is the last token and no other.
`TokensAreOfText` and `StopsWithReason` prove what `Tokens` promises: the tokens are
those of the spans of the text (its runs of ordinary characters, its brackets and
its closed strings) in their order, and the lexer gives up only for a reason
that is in the text. Three things make this hard:

* `Regions`, the comments and strings, come from a recursive function over the
  places of the text. `FromExists` shows that there is such a function, by an
  induction downwards from the end of the text (`DownwardInduction`, the
  choice of a last counterexample); `FromFacts` gives its values and `FromBehind`
  that the regions from a place on lie behind it.
* `Spans` puts the spans in order by counting those that begin before each one,
  while the lexer appends. `TextTold` shows that a sequence of all spans in the order of
  where they begin is this function.
* A token belongs to a span only once it is known where the span ends, and the
  lexer has told nothing of it before.

The invariant `Scanned` is therefore about both the tokens and the text that is
being read. `Cut(g)` says that no region goes on across place `g`, `Told(f, ts)` that
`ts` are the tokens of the spans that begin before `f`. Then `TextAt`, `StringAt` and
`CommentAt` say of the three loops where the chunk, string or comment began, that
the text is told up to there, and that the buffer is what has been read since.
One lemma per action (`SkipCharTells`, ...) shows that it is kept, from lemmas
about what a blank, a bracket, a comment, a quote or the end of a chunk tells.

### From the text to the program

`DriverProofs`, for `Driver`, where all components are composed, with all texts and all
sizes of the lexer's buffer (`DriverAssumption`, which is the lexer's):

| theorem | says |
|---|---|
| `Tokenizes` | `Spec => Scan!Spec`: what `Driver` does to the lexer's state is what the lexer's theorems are about |
| `ReadInvariance` | the parser begins when the lexer is done, with its tokens, and the parser's invariants hold from then on; the generator begins when the parser is done, with its tree |
| `CompilesTheText` | the program that the generator is given is the one datum that the tokens told by the characters spell, inside the call the preprocessor makes (`ProgramAsWritten`) |
| `ShowsTheMisfit` | a text is refused for its brackets only, and the message shows the first token that none of them encloses (`MisfitShown`) |
| `TextIsSafe` | from the text to the process: whatever the text, if its operands all leave a word, the process that runs its output never underflows its stack, breaks a frame, or leaves its environments, bindings or arguments (`SafeFromText`) |
| `TextIsScoped`, `TextCallsAreNested` | in the same sense, what `CompiledIsScoped` and `CompiledCallsAreNested` say holds for every text |

`Scan` and `Read` are instances of `LexerProofs` and `ParserProofs`. What the parser's
proofs assume of token lists (`TextsAssumption`) is no assumption here: `Handed` are the
lists that the lexer's invariant allows, with names for identifiers, and `TextsFit` shows
that all of them are fit. `TokensTaken` says that those taken are among them. The parser's
state is not a behaviour of `Parser` from the start, since it has no text before the lexer
is done; so its invariants are carried by one induction (`ReadNext`), in which
`TakeTokens` is where its initial states come from (`ParserStarts`), and each step
of the parser is one of `Read` (`ParserRuns`). `TextWritten` then joins
`TokensOfText` and `TreeOfText`: what is parsed is what the text tells, and `BeyondFacts`
that the token the parser stopped at can be found in the text alone.

The last three add `Comp`, an instance of `LispcProofs`. Its programs are not given
beforehand here, the parser makes them. `Trees` stands for all it can make
(`TreesAssumption`): it has the atoms of texts and the name `lambda`, has the lists
of what it has, and is as `LispcAssumption` says. The finite trees over these
atoms are like that, with `NodesOf` telling the nodes of each; that set is a
`CONSTANT` because it is itself defined by induction over data. `ParserBuilds` shows that the parser
holds nothing else. `Waiting` says that generator and machine stay as they start until the
parser is done, and then the next step is `Generate`, into an initial state of
`Lispc` (`CompilerStarts`); after that each step is one of `Lispc` or leaves it alone
(`CompilerWorks`). So the rest of the behaviour, from there on, is a behaviour of `Lispc`, and
`CompiledIsSafe`, `CompiledIsScoped` and `CompiledCallsAreNested` are about it: the
temporal step says that what holds of all behaviours holds of this one, from the
state it starts in.

### Only model-checked

Liveness (`Halts`, `Terminates`, `LexerEnds`, `Answers`), which the prover does not
handle; what relates programs to `Evaluator`, whose operators are recursive in each
other and over the run (`MeaningPreserved`, `MeaningfulRuns`); what is about single
programs (`OutputAsExpected`); what relates texts to the lines the process prints
(`PrintsAsWritten`, `OutputIsC`); and run `earlier_reader`. The reference definitions of
the last three are `RECURSIVE` operators or need the C language's rules for literals,
which are recursive over each text.

## 5. What the checks show about the code

* A definition inside the value of another definition overruns the
  environment, in the compiler's array and in the output's. `countDefinitions`
  (cgenerator.c:316) does not look into a definition's value, and
  `genDefinition` (cgenerator.c:210) does not look at the size. The same holds
  for definitions outside any procedure, which the preprocessor's wrapping
  leaves only a program out of balance to make, and for definitions behind a
  variable named `lambda` or `define`, which `countDefinitions` takes for a form
  when it walks down the tail of a list (`TablesLargeEnough` names all three).
* The README's `(print (car lst)) ;0` reads the number 0 as the address of a
  text: `pPrint` (cgenerator.c:759) takes Strings only.
* One closing bracket too many is accepted, if a later opening one makes up
  for it: it ends the lambda expression the program is wrapped in, and the rest of
  the program becomes operands of its call (`AcceptedExactly`, `CallOfProgram`).
* For other programs out of balance, the message may show a bracket that the
  preprocessor added and the user never wrote, or nothing at all
  (`MisfitShown`).
* A NUL byte is read as the number 0, or cuts off the string it is in, and a
  byte 0xFF ends the input, a comment, or (as an error) a string
  (`TokensOfText`).
* A `begin` leaves the values of all its expressions on the stack, so in an
  operand it shifts the operands; a definition, an assignment, and an `if`
  without alternative whose predicate is 0, leave none. What the call then takes
  is what lies on top: with enough words, those of its own operands, from the
  first on, which `Evaluator` gives as the rule and `MeaningPreserved` and
  `MeaningfulRuns` check; with too few, words of what is around it, and such a
  program has no meaning. `LayoutSound` is stated for programs without such operands.
* A call with more operands than `args` has words writes past it, a procedure with
  more parameters reads past it; no program that has a meaning does either
  (`MeaningfulRuns`).
* `print` leaves `ret` as it was: its value is that of the call before. A program
  that is only `(print "hello")` prints, and then reads its exit status through
  the NULL in `ret` (`MeaningfulRuns`).
* A missing operand is the one that the last call with as many had:
  `(define f (lambda (x y) y)) (+ 3 4) (f 1)` gives 4 (`MeaningPreserved`, whose
  `Evaluator` states this rule).
* A text with a newline in it makes the output no C, unless a backslash is before
  it; a backslash makes an escape of the character after it, and before the
  closing quote takes the quote (`OutputIsC`, `PrintsAsWritten`).
* The earlier reader takes a NUL byte for an opening bracket, crashes on an
  unfinished string, since its message shows a token that is not set yet, writes
  one byte past its string buffer, and returns an uninitialised pointer for an
  empty program (`NodesOfText`, `StopsForTheSameReasons`).

## 6. Not modelled

* `formatter.c` and `arm32generator.c`: not in the Makefile, not called, and
  calling functions that do not exist.
* `old/cgenerator.c`, `old/arm32_generator.c` and `old/main.c`: they do not compile
  (undeclared names, functions without a body), so that there is no behaviour to
  model; `cgenerator.c` is their finished form. `old/lexer.c` and `old/parser.c` are
  complete and are modelled.
* `experiments/`: `header.c`, `experiment.c` and `out.c` do not compile, and
  `exp.c` is the header of the output with an empty `main`.
* `dumpNode`: printing for debugging only, called from nowhere.
* The wording and layout of the output.
* Memory exhaustion: compiler and output free nothing. A name that `strncpy` leaves
  without a terminator is terminated by the fresh memory behind it, which is
  assumed to be zero (`lexer.c:65`); an allocator that hands out other memory is
  not modelled.
* Numerics (`long double`): the generator rejects them, so their value is left out.

## 7. Plan

Done, in the order of importance: the machine with its proofs; the generator; both
composed and compared with the evaluator; the lexer; the parser with the
preprocessor; the activations and the refinement with its proof; the whole way from
text to printed lines; missing operands; the proofs about generator, parser and
lexer; the earlier reader; the layout of all output, and with it the machine's
theorems for the output of every conventional program; room for the definitions of
all programs, and the names that all programs leave unbound; the tokens of all texts;
the results of primitives in all programs; the tree of all token lists; compiled
programs that run, from the proofs about generator and machine; the program of a text,
from the proofs about lexer and parser; the process of a text, from those and the proofs
about compiled programs.

Left:

1. Operands without exactly one word: what the call makes of them is checked on the
   samples of run `lispc`; the theorems about compiled programs leave them out.
2. That compiled programs mean what `Evaluator` says, for all programs: model-checked
   on the families of run `lispc` only.
