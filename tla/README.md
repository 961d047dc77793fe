# WeedLang: specifications and proofs

TLA+ models of `weedc`, the WeedLang compiler (C++20, target Win64): how it
turns a file into tokens, expands macros and parses, merges imported files,
evaluates compile-time code, lays out structs and stack frames, generates code,
links executables, and drives its stages and external tools. TLC checks the
models on small instances; TLAPS proves the invariants of frames and struct
layouts for every program, of import resolution for every import graph, of the
driver for any number of compilers in one directory, and of the image layout for
every object, of tokens and of the names macros make for every text, of what
compile-time evaluation leaves and binds for programs of any nesting, and of the
code generator's stacks for every syntax tree.

`weedc` itself is one thread. What is hard about it is not locking. It is state
that several passes share and update at different times (`globalStructs`,
`stackOffsets`, the parser's and the generator's view of one struct), recursion
over user-defined graphs, hand-written scanners and matchers, a long protocol of push and pop calls whose mistakes
show only as overwritten bytes in the generated program, and a driver that
communicates with other programs through files with fixed names.

## The system

| Component | Source | State | Operations | What makes it correct |
|---|---|---|---|---|
| Types | `AST.cpp`, `AST.h`, `Codegen.cpp` 17-47 | none | size, alignment, alignUp, align16, store width | sizes and alignments both passes agree on |
| Struct layout | `Parser.cpp` 296-320, `Codegen.cpp` 132-149 | member list, `globalStructs` | place a member, register a struct | members disjoint; C's layout for foreign code |
| Frames | `Codegen.cpp`, `Codegen.h` | `ctxStack` (offsets, current and maximal offset), `globalStructs` | declare, assign, begin/end function, pushTmp, popTmp, call | storage disjoint and inside the frame; stores stay in their slot; Win64 calls |
| Code generation | `Codegen.cpp` | type stack, labels, strings, the emitted code | one visit per node kind, the loops of `visit(ProgramNode)`, library mode | the emitted code does what the program means; one type per expression; calls return to their caller |
| Imports | `Compiler.cpp` 34-141 | `visited`, the recursion's stack | recursive load | each path once, dependencies first, all or nothing |
| Driver | `Compiler.cpp` 143-351, `main.cpp`, `Lexer.cpp` 56-210, `Parser.cpp` 14-59 | options, files, child processes | the stages, internal or external | what is announced is what was built; temporary files removed |
| Lexer | `Lexer.cpp` | position, line, column | `getNextToken` | the tokens are the text; strings and asm blocks end where they should |
| Macros | `Macros.cpp` | rules, token stream | collect, match, substitute, passes | captures fit the pattern; generated names are fresh; expansion ends |
| Parser | `Parser.cpp` | token position, errors | recursive descent, `synchronize` | a tree reads back as its tokens; progress after an error |
| Comptime | `ConstantEvaluator.cpp` | environment, diagnostics | `evalExpr`, `lowerExpr`, `lowerStatement` | what is left prints what the program would; bindings respect scopes |
| PE linker | `PELinker.cpp` | sections, symbol addresses | parse, layout, thunks, relocate, emit | sections disjoint; every reference reaches its symbol |
| AST printer, `core.weed`, examples | | none | | not modelled: formatting, and programs the compiler compiles |

The driver calls the import loader, which runs lexer, macro expander and parser
on each file; the merged statements go through compile-time evaluation to the
code generator, its text to NASM (a child process), the object to the PE linker,
and the executable may be run. `Parser` and `Codegen` share struct layouts: the
parser fixes the members' offsets, and the generator derives size and alignment
from them. Everything is a direct call, apart from the external stages, which
communicate through files.

Hard behaviours: nested and repeated declarations that share mutable maps;
parameter stores that are emitted last but executed first; sizes that are no
powers of two; values kept in registers across nested expressions and calls;
matching that never goes back; recovery from syntax errors; circular and duplicate imports; failures in the middle of a load;
several compilers in one directory; tools that fail; options that stop early.
`PROJECT.json` lists each at its line, with the properties that speak of it. Where the
code is known to go wrong, the properties claim what holds around the case and name
the case as a quirk or a premise; the hazard's note says so.

## Modules

| Module | Models | Checked by |
|---|---|---|
| `WeedTypes` | type sizes, alignments, rounding | through `Frame`, `StructLayout`, `Codegen` |
| `StructLayout` | one struct definition, from parsing to registration | `MCStructLayout` |
| `Frame` | `NASMVisitor`'s storage, function by function | `MCFrame` |
| `LayoutProofs` | proofs about `StructLayout`, and about `Frame`'s storage and stores | TLAPS |
| `SyntaxTrees` | programs as the code generator gets them | through `MCCodegen` |
| `Assembly` | external: the assembly language | through `MCCodegen` |
| `Codegen` | `NASMVisitor`: the code it emits for a program | through `MCCodegen` |
| `CodegenProofs` | proofs about `Codegen` | TLAPS |
| `Machine` | external: the processor, Win64 functions, `ExitProcess` | through `MCCodegen` |
| `ProgramMeaning` | what a program does, without code | through `MCCodegen` |
| `Execution` | the three composed: compile, link and load, run | `MCCodegen` |
| `Lexer` | `getNextToken` | through `MCFrontEnd` |
| `Tokens` | groups in a token sequence, the names local to an expansion | through `MCFrontEnd` |
| `Macros` | the matcher and the substitution of `expandMacros` | through `MCFrontEnd` |
| `Parser` | the recursive descent parser | through `MCFrontEnd` |
| `Grammar` | the language the parser is for, without the parser | through `MCFrontEnd` |
| `FrontEnd` | one file from text to tree, for any matcher and parser | through `MCFrontEnd` |
| `WeedFrontEnd` | the same with WeedLang's: lexer, expansion, parser composed | `MCFrontEnd` |
| `FrontEndProofs` | proofs about `FrontEnd` | TLAPS |
| `ImportOrder` | abstract: what import resolution promises | through `MCLoader` |
| `Loader` | `loadAndParseRecursive` | `MCLoader` |
| `NumberLemmas` | lemmas about the rounding of `WeedTypes` and about least numbers, for the modules of proofs | TLAPS |
| `LoaderProofs` | proofs about `Loader` | TLAPS |
| `Driver` | `Compiler::run` and the external stages | `MCDriver` |
| `DriverProofs` | proofs about `Driver` | TLAPS |
| `Linker` | `LinkerInstance`, from object to image | `MCLinker` |
| `LinkerProofs` | proofs about the import table, the image, its references and the outcome | TLAPS |
| `WeedLang` | syntax trees and operations on values | through `MCComptime` |
| `WeedRuns` | what programs do when they run | through `MCComptime` |
| `Comptime` | `lowerComptime` | through `MCComptime` |
| `ComptimeProofs` | proofs about `Comptime` | TLAPS |
| `Lowering` | what `Comptime` does to the meaning of a program | `MCComptime` |

Operators whose comment begins with "Mutation of" are wrong on purpose: each is
a plausible bug in the definition it names, and shows that a property would
notice it. No specification uses them.

### WeedTypes and StructLayout

A type is a record of base, pointer level and array size. `TypeSize` and
`TypeAlign` keep what is peculiar in `Type::size`: the pointer level wins over
the array size, an unknown struct has size 0 but alignment 1, and an array's
size (not its element's) decides its alignment. `AlignUp` is the bit operation,
not the ideal function: it is computed from the bits of `a - 1`, so that
alignments 3, 5, 6, 7 and 0 come out as in C++.

`StructLayout` is the pair of loops that compute a layout: `AddMember` is a turn
of the parser's, `VisitMember` of the generator's, `Register` its end. Its type
invariant contains what `Frame` assumes of layouts (`LayoutOK`). Some of its names begin
with `Struct`, since `LayoutProofs` extends both modules.

### Frame

A state is what the visitor has in memory between two visits: `structs` is
`globalStructs`, and `ctxStack` has a context per function being visited, with the
slots reserved so far (`stackOffsets` is `vars`, a name's latest slot), the
temporaries in use, and the expressions that wait for operands. Offsets are
distances below `rbp - 32`, as in the code. Each declaration is an action, with
the reservation and the stores it emits; `AddParam` and `EndFunction` are the
beginning and end of `visit(FuncDefNode)`. An expression node that spills is
`OpenExpression`, some `PushTmp`, and `CloseExpression`; assignments may happen
wherever an expression may. A program is any order of actions the grammar
admits, so the model has more programs than the compiler accepts and no fewer.

`stray` is a history variable that records a store outside the slot it is meant
for. `quirks` records which of six features with known wrong code, named in the
module's head, the program has used; `StoresInSlot` and `SlotsDisjoint` name the ones they exclude, so that
they state exactly what is true of the remaining programs.

Left out: stores and loads through computed addresses (they are as good as the
program's pointers), the instructions in between, labels, the type stack; module
`Codegen` has them. The width of `int` is not modelled: offsets are natural numbers.

### Codegen, Machine, ProgramMeaning and Execution

`Codegen` is the whole visitor, for given programs: `gen` is what `NASMVisitor` has in
memory (the code emitted, type stack, contexts, label counter, the tables of
structs, functions and strings, the exception under way), and each loop of
`visit(ProgramNode)` is an action that takes one statement a turn (`Collect`, `VisitTop`,
`VisitFunction`, `VisitLibrary`) or emits what comes between them. A visit is cut where it
calls `accept`: its parts are operators that take the visitor to the one after them and
give the tasks that come next, to visit an operand and then to go on. What C++ has on its
stack is the sequence `todo`, and `Step` does the first task. So a visit has
no recursive definition, and what every visit leaves behind is an invariant of steps.

The nodes are those that lowering leaves of what the parser accepts: the right number of
children (`NodesAssumption`), and operands that are expressions (`LoweredAssumption`). The
parser also takes an asm block for an operand, which `lowerExpr` answers with a null
pointer (`ConstantEvaluator.cpp` 305): what the visitor does with it is undefined, and left
out.

`Execution` assembles and links the finished code: `LoadProgram` gives it, with labels
resolved and the strings in memory, to `Machine`, and `Run` executes an instruction a step.
It fails for a label that is defined twice (`LabelledOnce`) or nowhere (`Resolved`). Nothing
in the generator keeps the names of a program apart from its own labels, and a program may
define a function twice: one with functions `f` and `f_ret_0` cannot be assembled when the
returns of `f` jump to `wl_f_ret_0`. `LabelsDefined` therefore speaks of programs whose
functions have names apart (`NamesApart`).

`Machine` is no code of the repository: x86-64 registers of eight bytes, in which a
byte has `Radix` values, so that the width of every load, store and conversion
counts while words stay small. External functions overwrite the registers that
Win64 lets them overwrite, and log their arguments.

`ProgramMeaning` is the reference. Variables are objects, pointers are an object and
an offset, and there are no registers or frames. What no two implementations need
agree on (reading a byte nobody wrote, leaving an object) makes a program
"undefined". `quirks` collects the features for which the generator is known to
do something else, named in the module's head: for them
`DoesWhatItMeans` claims nothing, for everything else it claims the same
external calls with the same arguments in the same order, and the same end.

The quirks are differences met while modelling. An array of structs reserves the
storage of one (`Codegen.cpp` 308-316), although `docs/SYNTAX.md` shows `Point[8]`; a
function inside a function is emitted into the outer body, which runs into it
(630-666); the value of an assignment through a member, index or pointer is the
address; `||` leaves a left operand other than 0 and 1 as it is; blocks share
one scope; a result wider than its function's type stays wide. Three more
are part of the reference: calls do not check the number of arguments, the result
of an external function is an `i64`, and comparisons and divisions are signed.

Left out: escapes in string literals, the list of imports of foreign statements,
and expressions whose types the parser does not produce.

### Lexer, Tokens, Macros, Parser, Grammar, FrontEnd and WeedFrontEnd

`FrontEnd` composes the three for one file: an action per token read, per macro
definition collected, per invocation expanded, per token copied, per turn of the
parser's loop; `Lexer`, `Macros` and `Parser` define what each of them does. How a
macro's rules are read, matched and replaced, and what a turn of the parser does, are
parameters of `FrontEnd`, so that what does not depend on them can be proved; the run
gives them the operators of `Macros` and `Parser`, which `WeedFrontEnd` brings
together with the properties about them. The text is a sequence of characters, and so
is a token's value; its place stands for line and column. The lexer's loops are a
function from each place to the one a turn leads to, followed as long as it leads on
(`Loop`). The matcher's endless loop is a phase, "spinning". A parse function maps a
parser (tokens, position, errors, tree, whether an exception is under way) to another
one, with one `Then` for every call after which C++ would unwind.

Each stage has a reference that is not written after the code. `Spells`: the
characters a token stands for, so that `Tokenised` says that the tokens are the
text. `Readings`: all ways to read tokens as a pattern, without an order of
trying, so that `CapturesFit` says that what the greedy matcher accepts is one of
them. `Grammar`: which tokens are readings of a tree, so that `ReadsBack` says that
an accepted file is read in full with the documented precedence. The parser
takes any token where it expects `;` or `}` in some places: for files that are not
written after the grammar, these tokens may be others.

What the model keeps of the code's peculiarities: a capture without tokens leaves
`$ x` in the expansion; captures of a repetition inside a repetition are dropped;
the fragment `type` knows the C names, not `i8` to `u64`; `$!stringify` gives the
template's own tokens and loses the one after it; a separator may follow the last
turn; the last definition of a macro holds, for invocations before it as well
(`docs/SYNTAX.md` wants the definition first); after the pass limit
invocations are left for the parser, which accepts some of them (`x = m!();`); `x * y`
as a statement declares `y`; a string or asm block without an end is accepted.

Left out: decoding the tokens of an external tokenizer (`Driver` has the call, the
exception that malformed output causes, and the files), two reads behind the end of a
vector, which are undefined, the vertical tab, which `std::isspace` accepts and TLA+ has
no string for, and error messages.

### ImportOrder and Loader

`Loader` makes the recursion explicit: one frame per call in progress, with the
import its first loop is at and the statements collected. `LoadImport`,
`SkipImport` and `Return` are what one call does; an exception empties the stack.
The import table and the set of files that cannot be opened or parsed are chosen
at the start and do not change during a run: files are not edited while they are
compiled. A path is what `fs::absolute` returns, and two may name one file.

`ImportOrder` says what the rest of the compiler relies on and no more: needed
paths are placed one by one, each once, after its imports except in circles, the
root last; or the attempt is given up because a needed path is bad.
`Loader` is mapped to it (`Promise`): the abstract order is the lists of all
calls in progress, end to end, so that a return moves nothing.

### Driver

Processes `Procs` run in one directory. A stage is internal (one step, which may
fail) or external (write input, run tool, read output and remove both). A file's
content is abstracted to whose source it was made from and whether it still
means the same. `Init` allows an executable of an earlier build, and temporary files
that an earlier compilation left. The interleaving
is between compilers, at the granularity of file operations; a compiler that is
killed is one that takes no more steps.

Two stages decode numbers from a tool's output with `std::stoi` and `std::stoull`
(`Lexer.cpp` 167-188, `Compiler.cpp` 83-84), which throw at malformed text. `main` reports
the exception and exits, and the `fs::remove` calls further down are not reached: the
compilation fails and its temporary files stay (`Throw`). The variable `unread` remembers
the stages where this has happened until another compilation gets through them and
removes the files, and `TempsRemoved` makes an exception of these stages only. A tool that reports
success may have written malformed output. The tokens for the macro expander stand one
in a line, which a string or asm block with a line break, or a value that ends in a
blank, does not survive whatever the expander does (`OneInALine`): its rest is
skipped, dropped, or taken for a line of its own, with the exception when that does
not begin with a number. `AnnouncesItsOwn` and `RunsItsOwn` claim nothing for such
a source with `--bootstrap-macro`.

Left out: `--bootstrap-compiler` (one child process replaces the run), imports
(module `Loader`), messages, and removals that fail, in particular of a file that
is still open, which Windows refuses.

### Linker

The stages of `execute()` are actions, in order; the loops of `buildImportTable` (over
DLLs and over a DLL's functions), `layoutSections` and `applyRelocations` take a turn per
action. An object is a list of sections with
their relocations and a symbol table, as NASM writes them; names may be defined
twice, be imported as well, be unknown, or be those of the linker's own sections.
Of the bytes, the model keeps the places and sizes of sections and of the import
table's parts, the fields that relocations patch, the cells of the address tables
and the displacements in the thunks. `error` tells the ways to fail apart: the
object cannot be used, a symbol is not resolved, the entry is missing, the file
cannot be written.

`ReferencesReach` is end to end: it starts from the patched field, follows the
processor's addition, for an import also the thunk's jump, and asks what is there.
It says nothing of relocations that are not REL32, which the code passes over. Of a
name that is imported and defined it demands the import, which the code looks up
first, and of a name that is defined twice that one of the definitions is reached.

### WeedLang, Comptime, WeedRuns and Lowering

`WeedLang` has the trees of the statements and expressions that compile-time
evaluation deals with, and the operations on values, which are integers, texts and
addresses of variables. `Programs` and `Expressions` are the trees of a nesting up to
`Depth`, with the keyword `comptime` in them or without.

`Comptime` is the pass. `Eval`, `LowerExpr` and `Lower` follow `evalExpr`, `lowerExpr` and
`lowerStatement` case by case; an optional value is a set of at most one element, a
null pointer no statement. `evalExpr` and `lowerExpr` recur over expressions and are
recursive functions of them: `EvalNode` and `LowerNode` are what they do at a node.
`lowerStatement` recurs over statements, by way of `lowerStatements`, and the environment
goes through all of its calls. So the calls of `lowerStatements` that are under way, which
C++ has on its stack, are the variable `calls`, the innermost last. Each has the
statements it has not come to, what is left of those before, and what its caller will
do: drop the result, take it over, put it into a branch or a body, end a function by
going back to the environment it has kept, or evaluate the condition of a loop again.
A step lowers one statement up to the call it makes (`LowerStatement` at the top level,
`LowerNext` in a call), or is the return of a call (`ReturnList`). The properties speak of
the states between top-level statements (`Settled`).

`WeedRuns` has two things to compare with, which are no passes of the compiler: what a
program prints (`Run`), and whether the generator knows the names it uses (`Generates`).
A program as it is written joins and compares texts by their characters; a compiled
one has only their addresses, so that an operation on them has no value in the model.
`Lowering` brings the two together.

`LoweringPreserves` compares the program
with what is left of it, both executed. It excludes, each by an operator with a
name, the cases in which the pass computes something else: `NothingShadowed` (a
variable does not end a constant's binding), `BranchesBindNothing` (what a branch
binds stays bound), `BlocksAreSimple` (branches and loops in a comptime block that are
not marked themselves), `CastsFit` (casts do not truncate), `TextsComputedEarly` (an
operation on texts is left for run time), loops cut off at the
limit, and declarations skipped because their value is not constant. Dropping any
of them makes TLC find a program of at most four statements that shows the case.

The operators on integers are shared by the pass and by `Run`, so the run shows where
values are carried to and which statements are executed, not that addition adds.
Index and member expressions are lowered as dereferences are, and left out, like the
statements that are copied as they are.

## Runs

| Run | Bounds | Shows |
|---|---|---|
| `frame` | 2 names, 2 slots over 2 nested functions, nesting 3, nodes of 2 temporaries, calls of up to 7 arguments, a byte, an array of 3, a struct with two layouts, an array of 2 such structs; a program is followed to its second quirk | `TypeOK`, `SlotsDisjoint`, `FrameCoversBody`, `TempsLIFO`, `StoresInSlot`, `WordsAligned`, `CallsWellFormed` |
| `frame_tail` | one function, a one-byte parameter or constant, variables of `struct { u8 r; u8 g; u8 b; }` | violation of `StructsLeaveOthers`: zeroing a struct clears what was declared before it |
| `struct_layout` | 3 members of 11 types, names may repeat | `StructTypeOK`, `MembersDisjoint`, `MatchesC` |
| `loader` | 4 paths to 3 files, all tables with at most 2 imports per file, 4 choices of bad files | the five invariants, `Terminates`, and `ImplementsImportOrder` |
| `driver` | 2 compilers, 2 output paths, 9 kinds of command line, with and without files left by an earlier compilation | `TypeOK`, `TempsRemoved`, `AnnouncesItsOwn`, `RunsItsOwn`, `StopsWhereTold` |
| `driver_stale` | `--no-link --run`, `--emit-obj --run` | violation: a stale executable is run |
| `driver_tool` | each external stage alone | violation: a broken tool does not abort |
| `linker` | a code section and at most one other of 0, 512, 4096 or 4097 bytes; 3 symbols; 1 to 3 imports from 2 DLLs | `TypeOK`, `ImageWellFormed`, `ImportTableWellFormed`, `ReferencesReach`, `FailsExactly` |
| `comptime` | all programs of up to 4 of 36 statements, nested up to 4 deep, 2 inputs, a limit of 2 turns, casts to 2 bits, 6 turns of a loop at run time | `TypeOK`, `FunctionScopesClosed`, `LoweringPreserves` |
| `comptime_assign` | declarations and assignments only | violation: a valid assignment in a comptime block is rejected |
| `codegen` | about 330 programs, as a program and as a library; bytes of 4 values; 400 instructions, 3 calls open, 6 turns of a loop | `DoesWhatItMeans`, `ReturnsToCaller`, `StacksBalanced`, `LabelsDefined` |
| `front_end` | 594 files after the grammar, 1283 others; names 40 apart instead of 100000, 4 passes instead of 32 | `Tokenised`, `CapturesFit`, `Hygienic`, `ReadsBack`, `Advances`, `LoopsAdvance` |

Why the bounds are enough. `frame`: two slots and a temporary of an open
expression are all the pairs that `SlotsDisjoint` compares; two contexts show
that they do not interfere; an array of 3 gives the alignment that is no power of
two; a program with two quirks has left what the properties speak of, except for
those that hold of every program, and what larger instances could add to these is
covered by the proofs, as it is for all seven. `struct_layout`: an
offset depends on the cursor and the member only, and three members reach each
combination of a misaligned cursor with each alignment. `loader`: three files
and two imports give chains, diamonds, duplicates, self-imports and circles of
each length, with and without a second spelling. `driver`: properties relate a
compiler to the others' files, so two compilers show each kind of conflict; the
nine command lines have each tool and each way to stop, and a source that the lines for the macro expander cannot carry. `linker`: the sizes are
those at which rounding to 512 and 4096 changes; a symbol is defined in either
section, in both, imported, both or neither, and so is the entry, except imported;
the DLLs' parts end at offsets that need padding. `comptime`: each
statement meets each binding made before it, by each of the ways to make one, and a
use after it; four statements are what the longest of the excluded cases takes.
Turns beyond the second repeat the first two. `codegen`: each operator on
literals and variables of different widths and signs, pairs of five operators in both
nestings, casts to each type, loads, stores and comparisons through variables,
pointers, members and indices with values that spill, calls of 1 to 6 arguments
in each other and in operands, recursion, and each control structure with each way
out of it; a node's code depends on its operands only through the
type stack, `rax` and the temporaries, which two levels of operands exhaust. Of the
programs 16 are undefined and 42 use a quirk; all others are compared.
`front_end`: all pairs of binary operators with parentheses in each place, all pairs
of statements, two programs with each token left out, doubled or replaced by
each of five others, macros with each kind of fragment, repetition, separator and
nesting, invoked with fitting and with unfitting tokens, in macros too, and texts
with strings, comments and asm blocks that end early, late or not at all. With four
passes a macro that expands to itself reaches the limit, and one that doubles
reaches it with invocations left; with a stride of 40 two passes come as close to
each other's names as the code's stride lets them in a long file.

`SYMMETRY` is used only for names (`frame`) and compilers (`driver`), in runs
without liveness. Deadlock is not checked anywhere, since each of these systems
stops when its work is done, or, in `frame` and `comptime`, when its bounds are reached; `Codegen` and `FrontEnd` have
an explicit step for it instead, and are checked for deadlock.

**Fairness.** Only `Loader` has a liveness property. `FairSpec` adds
`WF_vars(Next)`: the compiler is a single thread that goes on while it can, and
file operations return. `Terminates` then says that the recursion ends for every
import graph. The front end's termination is stated by two action properties:
`Advances` says that every step moves to a later stage, a later pass or past a token, of
which there are finitely many, and `LoopsAdvance` that the loops inside a step do so too,
so that a parser stuck in its recovery would be a step that breaks it. The other modules assume no fairness, and claim no progress.

### What the violations mean

- `frame_tail`: `visit(VarDeclNode)` zeroes a struct with quadword stores,
  `off < size`, while it reserves `size` bytes. In the run a function has a parameter (or
  a constant) of one byte, and the struct of three bytes declared after it lies
  directly below: the quadword that zeroes the struct clears that byte as well. In
  `StoresInSlot` this is the quirk "tail".
- `driver_stale`: `--run` is documented to run the output of a successful build.
  With `--no-link` or `--emit-obj` there is no output, and what lies at the path is
  run. `RunsItsOwn` says when the promise holds.
- `driver_tool`: `docs/BOOTSTRAP.md` promises that a tool that is missing or fails
  aborts the compilation. Only the external parser does this.
- `comptime_assign`: in `comptime { ... }`, the target of an assignment is lowered like
  any expression. A name that has a value becomes a number, and the assignment is
  rejected with a diagnostic that asks for what it has: "a simple variable target
  and constant value".

## Proofs

`LayoutProofs` proves `Spec => []IInv` of `Frame` and, from it, all of the run's
invariants but `StoresInSlot`, for all names, types, layouts and bounds. Assumed are only the named
`ASSUME`s of `Frame`, which TLC evaluates on each run: types are records over known
struct names, struct names are not scalar names, each layout satisfies `LayoutOK`
(`RegisteredAsAssumed` proves it of those that `StructLayout` computes), and the bounds are
natural numbers.

The invariants are not inductive as they stand. Whether a reservation overlaps
an older slot depends on the current offset, so `IInv` says of every context in
`ctxStack`:

- `CtxLayout`: it is typed; each slot ends at most at the maximal offset, and words
  are aligned; the temporaries are the topmost 8-byte cells below `cur`, in order
  (`temps[k] = cur - 8 * (Len(temps) - k)`); the pending expressions' bases and
  quotas add up to no more than the temporaries there are;
- `CtxOrdered`, unless an undeclared struct has been used: slots follow each other
  in the order they were reserved, and the last ends where the temporaries begin.

The argument has three layers. Lemmas on arithmetic: `AlignUp` never goes back and
skips fewer than `a` bytes for each `a` in 1..8, rounds up to a multiple for powers
of two, and `Align16` bounds its argument. Lemmas on one context: reserving,
pushing and closing each preserve both parts. Then `StepIInv`, one step per
action. A slot keeps its place for ever, so a registry that changes under it
cannot make slots overlap; this is why `SlotsDisjoint` needs no exception for
"relayout" while `StoresInSlot` does.

The seventh, `StoresInSlot`, has the same assumptions. A store's
width is computed from the type and the registry at the time of the store, the slot
was reserved from the registry at the time of the declaration; `FInv` relates the
two. As long as a program has used no quirk, each slot of each open function has room
for its type under the present registry, and its struct's layout is known, so that
a later definition can only add to the registry and never replace what a slot was
measured with; and a parameter's name still points to the slot that the prologue
stores it to. `IInv` supplies the types and the slots' bounds, and each action's
quirks are what its stores need: without "tail" a size is a multiple of the width,
without "ptrArray" an element's address lies within the array.

`LinkerProofs` proves all five invariants of `Linker`, for all
objects, import tables and numbers and sizes of sections, by three inductive
invariants.

- `TInv`, of `buildImportTable`: what is written of each DLL is in order (lookup table,
  address table, name, function names), lies behind the DLLs before it and ends at
  most where the next part begins. At the end each DLL has all its functions, so that
  `TableApart` and `OneCell` give `ImportTableWellFormed`.
- `LInv`, of `layoutSections`: the sections behind the loop are placed well, and the next
  free addresses, which are aligned and behind the headers, are beyond all of them
  (`LayoutProgress`). Placing one more section keeps both, by `RoundUpBounds`, and at the
  loop's end this is `ImageWellFormed`; the later stages leave the sections where they
  are.
- `RInv`, of what references lead to: the object's sections come first and the
  linker's own two last, so that the search by name finds the latter even if the
  object uses their names (`SectionsOK`, `FinishedSections`); a symbol's address is in the
  section that defines it, and never 0, the mark of an unknown symbol, because
  sections lie behind the headers (`SymbolsOK`); a relocation that lies behind the loops
  has a known symbol (`Passed`), and the field it patches holds the distance to it,
  while the fields before the loops hold their addends (`FieldsOK`). This is why two
  relocations must not patch one place. At the end all relocations are behind:
  `FailsExactly` and, with `BoundAtCell` for the cells, `ReferencesReach`.

That a name that is defined has a last definition is an induction; it is done with
the library's theorem on minimal elements (`WFMin`), which speaks of sets and not of
operators. Assumed are the form of objects as NASM writes them (`ObjectsAssumption`: a
symbol's section exists, no two relocations of a section patch the same place), the
names of the linker's own sections, and of the import table (`ImportTablesAssumption`)
that its names are finitely many, have lengths, and are told apart by the order they are
sorted in. That the lists `buildImportTable` and `buildThunks` go through then have each
name once (`SortedLists`) is proved: the place of a name is the number of names up to
it, no two names have one place, and since there are as many places as names, none
stays empty.

Of `StructLayout`, `LayoutProofs` proves `StructTypeOK`, `MembersDisjoint` and `MatchesC`, for all member
types and any number of members. `SInv` relates the two halves: in the parser's list each member
begins where all before it have ended, and none reaches past the cursor; each
entry of the generator's table is that of a member it has visited, and the size
reaches to the end of all of them. The lemmas on rounding are those of the frame
(`NumberLemmas`), so that alignments that are no powers of two are included. `MatchesC` needs
`CInv` besides: each member lies where the one before it ends, rounded up, and the size
and alignment are exactly those of the members visited. `AlignUpIsRoundUp` shows that
for powers of two the bit operation finds the least multiple that C asks for, and
`WordAlign` that a scalar or pointer is aligned to its size.

`LoaderProofs` proves `TypeOK` and the run's four safety properties, for every import
graph, circular or not, any spelling of paths, and any set of bad files. None is
inductive. `LInv` says of the recursion's stack that it is a chain of imports, each
call waiting at the import the next one loads (`Calls`); of the marked paths that
each is in progress, in the list of a call in progress, or in the result, exactly
once (`Marked`, `Once`), and is needed (`Wanted`); that what is in a list has all its
imports marked (`Complete`), and each of them before it, in its own list or in that
of an outer call, unless in a circle (`Ordered`); and that nothing bad has been
passed (`Sound`). At the end `Complete` and `Marked` give `ExactlyNeeded`: the result
contains the root and is closed under imports, and what is needed is what every
such set contains. `Ordered` is the heart of `DependenciesFirst`: the list of a call is
moved as a whole to the end of its caller's, where "an outer call" may have become
"before it".

`KeepsPromise` is the refinement: every step of `Loader` is a step of `ImportOrder`, or leaves
its order and result as they are. A call that fails gives up; a return appends its path to
its own list, which is the last but becomes the end of its caller's, and so to the order;
all others keep the order. `Return` may place the path, as `ImportOrder` asks, because of `Complete`,
`Ordered` and `Once`. The mapping folds over the list of lists (`FlattenSeq`), whose definition
is recursive: the lemmas first show that there is exactly one function that the definition
asks for, by least counterexamples (`NumberLemmas`), and with it what flattening does to
the last two lists.

`DriverProofs` proves `TypeOK` and the run's four properties, for any number of compilers,
paths and command lines. `DInv` says which steps a stage can be at (`Control`), that the
options have been obeyed so far (`Route`), and, of a compiler whose files no other
one touches and whose tools work, that at each stage its program, its temporary
file and the outputs that exist by then are its own (`OwnFiles`). An action of
another compiler preserves this because it writes none of these files
(`OthersKeep`): the case that TLC sees with two compilers is the general one.
`NoTempsLeft` follows from the four ways in which a step can leave a stage's
files (`TempsOf`): outside of an external stage they are not touched; inside of one the
compiler is busy; its end removes them, or is an exception and makes the stage one of `unread`.

`FrontEndProofs` proves `Tokenised`, `Hygienic` and `Advances`, for every text over any alphabet
that has the digits and the underscore, any stride and any limit of passes, and for any
rules, matcher, replacement and parser: nothing is assumed of these parameters
(`AlphabetAssumption`, `FrontEndAssumption`).

`Tokenised` follows from `TInv`: the tokens so far are those of the text before `pos`,
each spelled up to a place behind which there is only white space until the next. The
loops of the lexer are recursive functions, so the lemmas first show that each exists,
as no turn goes back (`LoopDefined`, by `DownTo`), and then what it stops at, from the
end of the text backwards: `SkipIs`, that all white space and comments are passed and
nothing else; `QuoteIs`, that a string ends at the first quotation mark that is not
escaped, where whether a character is escaped alternates along a row of backslashes
(`EscapedStep`). `AsmEndIs` says that no brace before the end of an asm block closes
more than were opened. With them each kind of token is read as the reference spells it
(`NextTokenIs`).

`Hygienic` follows from `HInv`: recorded expansions lie behind, in an earlier pass or at
an earlier place, so that no two have the same pass and place, and each has made names
of its own number, pass times stride plus place. Up to the stride these numbers differ
(`NumbersApart`), so do their numerals (`NumeralInjective`, by a least counterexample),
and the number can be read back from the name, since no digit is an underscore
(`NumberOfName`): a local name that ends in an underscore and digits itself does no
harm.

`Advances` follows from both invariants together (`PInv`): a token that is read ends
behind its place (`TInv`), a definition or an invocation is left behind at the bracket
that closes it, which comes later (`CloseOfLater`), and when a pass ends the limit has
not been reached (`HInv`).

`CodegenProofs` proves `StacksBalanced`, for every program whose trees fulfil the two
assumptions of `Codegen`, of any depth and length, with functions in functions and
structs defined anywhere: the errors that the generator calls internal do not occur.
The property says nothing of the middle of a visit, where operands have left types
and functions are open. `CInv` does: each task moves the two stacks by what it says
(`Moves`), a visit of an expression by one type, dropping by one back, the end of a
function by one context, and the tasks that are still to do form a chain (`Chain`) from
the heights now to those between statements. A phase of a visit finds a type on the stack and
a context open (`Fits`), so that neither `popType` nor `ctx` can fail, and what it
leaves together with the tasks it adds comes to what the phase as a whole was to do
(`Gives`, one lemma per part of a visit). An operand is reached only through its
node, which is why the assumptions speak of nodes and not of programs. A type
that a member access leaves as a statement is never taken by another visit, since the
chain counts such types apart (`kept`).

`ComptimeProofs` proves `TypeOK` and `FunctionScopesClosed`, for any set of statements, nested
to any depth, over any names and literals, and any limit of turns. The assumptions are
those of `WeedLang` (`WordsAssumption`: the words include the operator `=` and the empty
word; `DepthAssumption`) and that the statements are such trees (`StatementsAssumption`).

Neither property says anything while calls are under way, and both depend on all of
them: the environment is one, whoever changes it, and what a call returns becomes a
part of another statement. `CInv` says of `calls` (`StackOK`) that each call has
statements of one nesting less than its caller, that what it has lowered so far has no
mark, and that the statement its caller will complete has none in its other parts
(`Shell`). Of the environment (`Scoped`) it says that, as long as no function body is among the
calls, what is bound is named outside of functions, and so is everything that the
statements still to come bind; once there is one, nothing is said of the environment, but
the outermost body's caller has kept one for which it holds. The lemmas are one per
operation on `calls` (`PushOK`, `TopOK`, `LeaveOK`, `TakeOK`, `PopOK`), and one per part
of `lowerStatement`; a comptime loop is no induction, since each of its turns is a
call.

What `Eval`, `LowerExpr` and `Named` are is not known from their definitions: a recursive
function is chosen, and that there is one to choose has to be proved. The lemmas `EvalIs`,
`LowerIs` and `NamedIs` do so nesting by nesting (`FromZero`, by a least counterexample), and
the trees of each nesting are made of those of the one before (`ExpressionsAre`,
`ProgramsAre`). From there `LowerLeaves` shows that a lowered expression has no mark at any
depth, `LowerTyped` that it is an expression still, `EvalValues` that what has a value has
a number or a text, and `NamesKept` that lowering an assignment's target invents no name:
with bindings known to the pass the target stays the variable it was or stops being
one.

Only model-checked, and why. Of `Execution`: `DoesWhatItMeans`, `ReturnsToCaller` and
`LabelsDefined`, which compare the code with the recursive `Meaning` of a program, or are
about programs that `Meaning` calls defined. Of `Lowering`: `LoweringPreserves`, which
compares two executions, by definitions that recur over programs and inputs. Of
`WeedFrontEnd`: what it says of the matcher and the parser (`CapturesFit`, `ReadsBack`,
`LoopsAdvance`), whose definitions recur over patterns and tokens. And liveness.

## Not modelled

The AST printer formats trees and keeps no state. `core.weed` and the examples are
programs that the system compiles. Of the modelled components these parts are left
out: of the driver, `--bootstrap-compiler`, which hands the whole run to another
program, and removals that fail; of the lexer, decoding what an external tokenizer
writes (`examples/bootstrap_tokenizer.weed` is one), apart from its failure; of
compile-time evaluation, the node kinds that are copied as others here are, and declarations
without an initialiser, which are copied, or dropped where they are marked
`comptime`, and bind nothing. The widths of the compiler's own integers are not modelled,
so the overflow of a huge array's size is not; nor is the removal of a file that is
still open.
