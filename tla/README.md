# A verification project for the Alkyl compiler

TLA+ models of the parts of the Alkyl compiler (`src/src`, `src/include`) whose
correctness depends on long sequences of steps: the hash map and the arena that
everything else is built on, and the way of a program from its tokens through
parsing, analysis, lowering, checking and optimisation to its execution, in the
compiler or after it. TLC checks the models on small instances, TLAPS proves the
properties of the data structures, of the lowering, of the optimiser's control-flow
passes and of the line editor for every value of their parameters.

Contents: 1 the system, 2 the models, 3 the runs, 4 the disagreements found,
5 the proofs, 6 bounds and fairness, 7 what is not modelled, 8 plan.

## 1. The system

The compiler is one sequential C program. A run of it is a pipeline:

    lexer -> parser -> semantic -> alir (lowering) -> alick (check)
          -> optlir (optimise) -> alick (check again) -> a back end -> linker

`driver/main.c` calls the parts in this order and stops at the first error.
The parts communicate by data structures alone: the token array, the tree of
`ASTNode`, the symbol tables, and the `AlirModule` (functions made of labelled
blocks of instructions), all allocated in one arena and indexed by string hash
maps. The only places where control comes back into an earlier part are the
compile-time blocks `@meta { }`: the lowering lowers the block as a function of its
own, executes it in the MetaVM and parses and lowers the text the block emitted.

| component | state it keeps | operations | what makes it correct |
|---|---|---|---|
| hash map (`common/hashmap.c`) | dense array of entries, index table, size, capacity | put, intern, inc, get, has, iterate, resize, remove | a lookup gives what was stored last, no key twice, iteration in insertion order, probes end |
| arena and interner (`common/arena.c`) | chain of blocks, current block; interner table | alloc, strdup, reset, free | regions do not overlap, equal strings have equal pointers |
| lexer (`lexer/`) | position, keyword tables | next token | total, positions exact |
| parser (`parser/`) | token cursor, macros and their expansions, error state | one function per construct | the tree is the one written, nothing is dropped in silence, errors are told, parsing ends |
| C headers (`parser/c_parser.c`) | token cursor, names of types | one function per kind of declaration | every declaration of the header is there, in order; one that is not understood costs no other |
| imports (`parser/link.c`) | files read, stack of imports | read a file or header, link what it says | what a file says stands where the import stood, once, and what followed still follows |
| emitter (`parser/emitter.c`) | indentation | one case per kind of node | what it writes is read as the same tree |
| semantic (`semantic/`) | scopes, symbols with their marks, loop depth | declare, look up, choose an overload, check a statement | names resolve to the right scope, calls to the right function with the right arguments; an accepted program keeps the promises of its marks |
| lowering (`alir/`) | current function and block, stack of loop targets, deferred statements, label counters | one function per statement | the blocks do what the statements say; one terminator per block; labels unique |
| flux (`alir/flux.c`) | context structure, list of resume points | lower a generator, yield, drive it in a for | a resumed generator continues where it yielded, with its variables |
| MetaVM (`metalir/`) | register frame, heap, status | execute a function at compile time | frames do not mix, errors reach the caller |
| alick (`alick/`) | error count, per-block maps | check control flow, types, memory | a malformed function never reaches a back end |
| optlir (`optlir/`) | the blocks being rewritten, per-pass maps | passes of levels 0 to 3 | behaviour unchanged, function well formed after each pass, passes end |
| back ends (`codegen_*`, `mlir/`) | maps from labels and temporaries to values | translate each instruction | each label is one block |
| driver, prompt, language server (`driver/`) | options, line buffer and history, request arena | parse options, run pipeline, edit a line, serve requests | verdicts stop the pipeline; an item that fails changes nothing; requests do not leak into one another |

Nothing runs concurrently and nothing is persisted, so there are no
interleavings, lost messages or crashes to model. The difficulty is in order and
in staleness: state cached and used after it was invalidated (predecessor
counts, label counters, interned pointers after a reset), a statement that ends
a block before others are emitted into it, an operation that works alone and
fails after a particular history (a remove followed by a put, a resize between
two insertions), limits of tables, and passes iterated until nothing changes.
`PROJECT.json` lists each such hazard at its line with the property that covers
it, or the reason why none does.

## 2. The models

### Hash map: `HashMap`, `StringMap`

`HashMap` is `common/hashmap.c` with the structure of the source: a dense array
`entries` in insertion order and a table `indices` of places in it, probed by the
perturbed sequence of the code (`PerturbProbe`; `perturb >>= 5`, width 32). State:
`capacity`, `size`, `indices`, `entries`, and `phase`, which splits a resize
into its loop iterations so that every partially rebuilt index is a state. The
functions `put`, `put_n`, `intern` and `inc` differ in the value they store
(`FreshValue`, `UpdatedValue`) and share `Call`, which either updates a match,
appends to a free slot, or first begins a resize; `Get` and `Has` are operators
with the code's probing, not lookups in a set. `Hash` is a constant function, so
that runs can choose collisions and proofs hold for any. `Remove` is a separate
action and `SpecWithRemove` a separate specification, because what `remove`
does breaks the map (section 4) and no other code calls it.

`StringMap` is the promise of the header: a partial function from keys to values.
`HashMap` implements it under a mapping that reads the dense array
(`ImplementsStringMap`).

### Arena and interner: `Arena`

The chain of blocks with the current block, allocation with its slow path
(`NextFits`, `NewBlock`), and the interner as a linear-probing table of pointers
into the blocks. `mem` is what memory holds now: writing a region destroys what
it overlaps. `held` is what callers still believe in. The growth of the interner
is split into its iterations (`BeginGrow`, `Rehash`, `EndGrow`). `Reset` has the
guard under which the language server calls it (nothing interned in that arena);
`SpecAnyReset` has the reset of the driver, without it.

### The control flow of a function: `Statements`, `Alir`, `Lowering`, `Optlir`, `Compile`

`Statements` holds the tree the parser builds (constructors are named after the
statements; `Cases` is the splitting of a case with several values that
`parse_switch` does) and a reference meaning: an operator that, given what is left
to execute, says which observable events may come next (`Expects`) and what is
left after one of them (`Observed`). The meaning is that of the language as its
documentation describes it, not of the lowering; it is the specification the
rest is held against. Events are calls (`a`, `b`, `d`), outcomes of run-time
conditions, returning, panicking, and hanging silently.

`Alir` is the intermediate form: blocks with a label and a sequence of
instructions, `alick_check_cfg` as `Accepted`, and an execution of the blocks
(`Offers`, `After`) with the same events. `Function` is the set of all functions
of that form, of any size and with any labels and operands.

`Lowering` is `alir_gen_stmt` and the functions it calls. The recursion of the C
code is a stack of tasks `todo`: a statement to lower, an instruction to emit, a
block to enter, a loop target to push or pop; one step takes one task. A
task list is exactly the order of the calls in the source function, so that the
blocks come out in the source's order with the source's labels. The labels of a
switch's tests are numbered in the source (`switch_check_<i>`); they are the constant
`CheckHint`, as many as a run needs. State besides
`todo` and `blocks`: the `current` block, the label counters `uses`, the stack
`loops`, the list `defers`, and `closing` once the function ends.

`Optlir` has the control-flow passes of `optlir_optimize`: each step removes
unreachable blocks, redirects one empty block, folds branches, merges one pair
of blocks, or begins the next round. It is a specification of its own (`OptSpec`)
of the passes on any function that alick accepts (`OptInit`), about which the proofs are.

`Handled` says which statements the lowering handles: those whose code the rest of the
pipeline takes. Section 4 has the others.

`Compile` composes them as `driver/main.c` does. It extends `Optlir`, takes its
actions `BeginPasses` and `Pass` as they are, and instantiates `Lowering` on the same
`blocks`. After the last check the function is executed
in lock step with the reference meaning of its statements: both take each
observable event, and `SameBehaviour` says that at every point they offer the
same. This is bisimulation, stronger than equal outputs of some test runs: it covers
every outcome of every run-time condition at every visit.

| code | model |
|---|---|
| `alir_gen_stmt`, one case of its switch | `LowerX` in `Lowering` |
| recursion, `while (s) { gen; s = s->next; }` | tasks pushed on `todo` |
| `ctx->current_block->tail` is a terminator | `Terminated(blocks[current])` |
| `push_loop` / `pop_loop` | `PushLoop` / `PopLoop`, `loops` |
| `alir_add_block`, `label_map` | `NewLabels`, `uses` |
| `alick_check_module` in `main.c` at 315 and 355 | `Check`, `Recheck` |
| `optlir_optimize` is called | `BeginPasses`, from `pass` = "waiting" |
| the passes of `optlir_optimize` by level | `pass`, `EndForward`, `EndMerge` |

### Values and memory: `DataValues`, `DataCode`, `DataLowering`, `Values`

`DataValues` has integers and pointers, arithmetic, and what the functions do that a
program calls. `DataCode` has statements over them, over objects and arrays, and what
they mean: an operator that executes a body on an input and collects its calls
and its result. `DataLowering` is `alir_gen_expr`, `alir_gen_addr` and the
statements around them: operators that take the generator's context (values,
blocks, symbols, counters) and return it with what was emitted and the value of
the expression. Values are objects that instructions point to, as in the code,
because a pass that turns a temporary into a constant does it in the object,
for all instructions at once, while other passes compare temporaries by number.
Integers and truth values are told apart, as the compiler casts between them: the
semantic analysis makes a truth value in a comparison or a sum an integer, a
declaration and an assignment cast to the type of what is set, and `&&` and `||` make
the integer of their operands a truth value (`Matched`). A cast keeps the value, as in
`metalir/eval_misc.c`; what the code generators make of an integer cast to a truth
value is not modelled.

`Values` lowers one statement per step and then takes the function through the
passes in the order of `optlir_optimize`, each a step: removal of unused
functions (`RemoveUnused`), store-to-load forwarding (`Mem2Reg`), constant
propagation with its identities (`Propagate`), dead stores one by one, evaluation of pure
calls, dead allocations, further rounds at level 3, unused functions again. At
every stage the code is executed on every input and compared with the meaning
(`SameValues`).

### Execution in the compiler: `MetaVM`, `MetaMeaning`

`MetaVM` is the interpreter: a stack of frames with registers,
objects on the heap, names that outlive an item, the status. One step is one
instruction, or one thing its driver does: the prompt (`run_repl`), the runner
of files (`run_file`) or a `@meta` block. The code an item is lowered to is a constant
(`Compiled`), of which it asks no more than `WellFormed`: jumps to blocks that are
there, and no instruction but an allocation that writes the temporary of an allocation.
`MetaMeaning` gives it the code of `DataLowering` (`CodeOf`), of which TLC finds `WellFormed` true
for every item of the run, and compares what each item prints with
what it means (`SameMeaning`); an item for which an error was reported must change nothing.
An assignment to an unknown name, or one that is not made from the old value, is a
declaration (`ImplicitLet`): its value is put into the global again, whatever the
expression came to.

### Generators: `Streams`, `Flux`

`Streams` is the promise: a loop stands for a sequence, takes its values one by one
and then is over. `Flux` lowers the bodies of the generators of a program, in their
order, as `alir_gen_flux_def` does (context fields for parameters and variables, a
state per emit, at a return the deferred statements, the value and the end, the dispatch
made last) and executes
the two functions instruction by instruction, registers holding junk at every
resumption. The program around it makes contexts, keeps them in objects, and loops
over them: a loop copies the context of its object (`Begin`, `alir_stmt_for_in`) and resumes
the copy; loops are nested, left by a break and begun again. The store that copies is
taken to copy the whole context; how a back end writes it is not modelled, nor
is a loop over a generator in the body of another, whose copy is gone after an emit.
The refinement maps what is left of a loop to the meaning of the body minus
what was taken.

### The line editor: `Editor`

`get_smart_input`: a buffer of `MaxLen` bytes with length, cursor and what is
behind the text, completion from the names in scope, several lines, and the
history. One key is one step.

### Errors and marks: `ErrorRuns`, `Semantic`

`ErrorRuns` is the reference: all runs of a program in which any division or
call that can fail may fail and any condition may go either way, each with the
promises it breaks. `Semantic` is the analysis: one pass over the functions,
one step per statement, with the stack of blocks under way (`work`), the scopes,
and the marks of functions, which are changed on the way when they are inferred.
The properties relate the two: a program without errors reported has no run that
breaks a promise.

### Names and calls: `Overloads`, `Names`

`Names` has the passes of the analysis over declarations and uses:
entering symbols into scopes (with the replacement of a symbol of the same
name), relating classes to parents and traits, the check of the declarations in
their order (a variable that holds an object and is given none gets a call of its
constructor if it needs no field), the calls, and the search for classes that contain
themselves. A constructor is looked for in the class, then in its traits, and else
the arguments are for the fields. A search is a stack of frames and each round of one
of its loops is a step, so that a search that goes round for ever is a behaviour that
does, and one that calls itself for ever comes to the end of the stack (`Overflow`). `Overloads` is `sem_resolve_overload` on a heap of argument
nodes: the nodes are chained by `next`, a default is the node of the declaration
itself, a conversion puts a cast around a node.

### The parser: `TokenStream`, `SyntaxTrees`, `Parser`, `Emitter`, `Parsing`

`TokenStream` is what the parser reads: tokens, the macros that replace them
(with the stack of expansions under way), and `eat`, which does nothing once an
error was found. A loop that makes no progress any more, or a null node that is
followed, sets `stuck`. `SyntaxTrees` has what the parser builds: the nodes, the
kinds of words the rules tell apart, and what modifiers do to a declaration.
`Parser` is the recursive descent (`core.c`, `expr.c`, `stmt.c`, `top.c`,
`modifier.c`, `modif.c`, `fragment/*.c`): one operator stands for a function of
the source or a case of one, from the state of the parser to the state and the
node. Rules call each other by name through one recursive operator, `Parse`.
`Emitter` is the way back. `Parsing` reads a program node by node, then either
what the emitter wrote or the program with its macros replaced, and compares.
Parser and emitter are recursive operators: a state machine would have to name
every place in several hundred C functions between which nothing is observed.

### C headers and imports: `CHeader`, `Imports`

`CHeader` is the reader of C declarations, in the manner of `Parser`: operators
from the reader's state (tokens left, names of types, error) to the state and a
type or nodes. It works on what the C preprocessor gives; a token is its text.
Loops of the source that no end of file ends set `stuck`. After an error the
reader resumes at the next `;` (`CRound`, `CResumed`).

`Imports` is `resolve_imports`, which `main.c` calls when the whole file is
parsed. It is about linked lists, so the nodes are put into cells with a `next`
(`Linked`), and every assignment to a `next` is one here: what a file says is
linked in front of what follows the import (`LinkedIn`), after its own imports
were replaced. Files are kept under their names and share macros and names of
types with the file that imports them. Which text a name stands for (`Files`) is
given; the search through directories is not modelled. `Parsing` replaces the
imports of a program one node per step, and reads headers one declaration per
step.

| code | model |
|---|---|
| `Parser *p` with `current_token`, `has_error`, expansions | the record `p` of `TokenStream` |
| `parse_x(p)` | `X(p)`, returning `[p, n]`, or `[p, a]` for a list |
| `parser_fail`, `parser_sync` | `Fail`, `Sync` |
| `while (...) { ... }` that `eat` cannot leave | `stuck = "hangs"` |
| `c_parse_x(p)` | `CX(h)`, returning `[h, t]` or `[h, a]` |
| `node->next`, `import_cache` | cells of `links.heap`, `links.read` |
| `SemSymbol`, `SemScope` | `symbols`, `scopes`, by number |
| a recursive search of the analysis | a frame on `stack` |
| `AlirValue`, `AlirInst` | `code.vals`, records in `code.blocks` |
| one pass of `optlir_optimize` | one action of `Values`, several of `Optlir` |

## 3. The runs

| run | what is explored | what it shows |
|---|---|---|
| `MCHashMap` | 4 keys, collisions chosen, a table of 4 that is full after two keys and doubles before the third, put/intern/inc | exact lookups, no duplicate keys, one slot per entry, entries never move, `StringMap` implemented |
| `MCArena` | blocks of 3 words, requests of 2 and 4 words, at most 3 blocks, resets; 2 colliding strings, interner table of 2 growing to 8 | no overlap, no overrun, one pointer per string for ever, probes end |
| `MCCompile` | a few hundred bodies at levels 0 to 3, with every statement that leaves a body (`break`, `continue`, `return`, `purge`, none) in every position of an `if`, a loop, a loop in a loop, a switch with and without leaking cases, a switch in a loop, deferred statements and a `@meta` block before and after; constant and empty loops at levels 0 and 1 | behaviour preserved; accepted once, accepted again; no lost jump; labels unique; the entry stays; the compiler ends, also on cycles of empty blocks |
| `MCValues` | every operator on operands known at once, after a pass, and never; every kind of place assigned, bumped and read; truth values and integers in one expression; what is set in one block and read in another; calls that write through a pointer; functions kept and handed on; inputs -1, 0, 2 | every stage of every level computes what the statements mean; nothing that is needed is removed |
| `MCMetaVM` | sessions at the prompt, in files and in `@meta` blocks: recursion, loops, globals changed from functions, failing items between others | printed as meant; objects of running calls apart; sessions end |
| `MCFlux` | nine generators with emits in sequence, in loops, both ways of an `if`, none, with early returns, returns with a value, and deferred statements; two loops in each other over one object, left, begun again and the object made anew in between, up to 7 such steps | `Streams` implemented; every resumption returns |
| `MCEditor` | up to 7 keys of a handful at a time, buffer of 9, history of 2 | the history holds the last different lines; the draft comes back |
| `MCSemantic` | the function `work` with 5 sets of marks and bodies of declarations, uses, fallbacks, `clean`, `untaint` and their residues, loops and branches, among five other functions | what is accepted breaks no promise |
| `MCNames` | three classes that hold each other in every way, overloads and their calls, defaults, named arguments, constructors of classes and traits, objects held by objects, namespaces, extensions | where the check gets that far exactly the circles are reported; the arguments written arrive; the exact function is chosen; the analysis ends, at the end of the stack only for a circle under a class that is counted |
| `MCParsing` | every operator in every nesting of two; programs of every declaration and statement; each of them with a token dropped or put in; macros with arguments and macros in macros; C headers of every type and declaration, whole and with a token missing; programs that import files, files that import others, headers, imports in namespaces, before, between and behind other declarations | the tree meant, told errors, no name lost, an end; emitted and read again; macros as their text; the declarations of a header kept in order; those of a file in the place of its import |

Two further runs, `MCSeveralValues` and `MCHandedOn`, end with a counterexample
(section 4). A property holds on the programs of its passing run, and the
programs it does not hold for are kept beside them in the `MC` modules under names
of their own; giving such a set to `Jobs`, `Programs` or `Sessions` shows the
counterexample. Two of them have a specification of their own instead
(`SpecWithRemove` of `HashMap`, `SpecAnyReset` of `Arena`).

## 4. Where the code and what is said of it part

The runs, with the text they contradict in `PROJECT.json`:

| run | what happens |
|---|---|
| `MCSeveralValues` | `case 2, 3:` runs its body for 3 and the default for 2 |
| `MCHandedOn` | `let f = two; apply(f)` at level 1: the store to `f` is optimised away, the second removal of unused functions counts callees and stored functions only, and `two` is removed while the call still hands it on; `HandedAtOnce` shows it for `apply(two)` |

The same models show the following (set or configuration in parentheses).

Containers: a put after a remove makes another key vanish
(`OnlyRemoveForgets` under `SpecWithRemove`; no code removes a key today); a string interned before
`arena_reset` is handed out afterwards from memory given to someone else
(`StringsKept` under `SpecAnyReset`).

Control flow (`MCCompile`): `continue` in `for i in 0..n` jumps over the increment
(`ForContinue`), and in a switch inside a loop goes nowhere
(`ContinueInSwitch`: the switch pushes a target without a place to continue);
`defer { a; b; }` runs `a` only (`DeferredBlock`); every `while once` is
rejected by alick, for the entry gets no terminator (`OnceRejected`,
`alir/fragment/generate.c:307`); `loop n { }` never reads `n` (`CountedLoop`,
`alir/stmt.c:294`) and one that is left at once is rejected (`LoopLeft`); so are a
switch without cases (`EmptySwitch`) and a deferred purge (`DeferredPurge`); at
level 2 `a; while true { b; }` becomes `a b a b ...` (`EndlessLoop`); two
blocks get one label around a `@meta` block (`MetaBetween`), and what such a block
defers is run by the function around it, at its end (`MetaDefers`, `alir/stmt.c:248`).

Values (`MCValues`): `&&` and `||` are lowered as additions
(`LogicalAnd`, `LogicalOr`); an inner variable replaces an outer one of its name for
the rest of the function (`InnerLet`); a load takes the value stored last
although a pointer has written since (`StaleLoad`); `0 - x` is taken for `x`
(`TakenFromZero`), and so is `x * 0` (`TimesNothing`); `n + 0`, when forwarding has put
the parameter itself in the place of its load, becomes temporary 0, the number an operand
that is not a temporary carries (`PlusNothing`, `optlir/local.c:335`).

MetaVM (`MCMetaVM`): `!` is evaluated only if it had a second operand
(`Negation`); negative integers are loaded unsigned (`BelowZero`); without
`main` a file's initialisers run twice (`Twice`); an assignment that fails at the
prompt overwrites its variable (`LostLet`). A function defined again at the prompt
keeps its old body (`alir/core.c:75`).

Flux (`MCFlux`): an emit inside a `for` over a range loses the counter
(`InRange`); variables of one name in nested blocks share a field (`Nested`).
Deferred statements run at a `return` only, not when the body ends without one
(`AtEnd`, `alir/flux.c:275`), and the list of deferred statements is emptied for plain functions only
(`fragment/function.c:17`), so a return also runs what the generator before has deferred
(`LeftOver`).

Editor: completion, and Tab for four blanks, leave the string without its end
(`keyboard.c:856-886`), so `DraftKept` asks for a draft whose string ended where the
text did; the test for indentation in `needs_continuation` cannot be true
(272-290); Shift+Down never enters an empty last line.

Marks and errors (`MCSemantic`): the taint of a value is that of the node, and
for a name that of its declaration is not looked at everywhere, so a tainted
variable is passed or returned as if it were sound (`ByName`); the marks of a
function that has none are inferred when its body is reached, so calls before it
are checked against others (`Forward`); a residue is checked for completeness
only if the errors of the variable are known, which `let x = f()` does not
attach; `? [E1, E2]` tests the first name.

Names and calls (`MCNames`): the node of a default belongs to the declaration, so
arguments after it are chained into every call (`DefaultBetween`); a default
field before a required one leaves an argument missing (`DefaultFirst`); only the
newest constructor is tried (`TwoConstructors`); any class argument scores full
marks for any class parameter and filled defaults add to the score
(`ClassOverload`, `LongerOverload`); the fields of an object held without a value are
counted before circles are looked for, so that a circle of parents or traits under it
ends the compiler at the end of its stack and not with the report (`Overflow`, in the
run); parents in a circle make lookups go round for ever (`ParentsInCircle`), and so does a private symbol of another file in a
namespace that is searched (`semantic/table.c:411`, `562`); a `pure` class in a
namespace is reported as containing itself (`PureInside`); a function without
parameters is lost to an overload with some, which takes its symbol (`ScanFunc`).

Parser (`MCParsing`): a syntax error in the body of a case never ends, and
neither do errors in lists of variables, enum entries, class members,
parameters and traits, because their loops do not look at the error state (`LoopJobs`,
`DeepLabels`); of a block in a case only the first statement is kept when another
statement follows (`NestedCase`); the first token of a macro's body is expanded
when the macro is defined (`CaptureJobs`); the emitter writes `else if` for an
`else` block that begins with an `if` and drops what follows (`ElseJobs`), and
nothing for a negative enum value (`MinusOne`). Read while modelling, and part of
the operators of `Parser`: `int (*x)(int)` loses its name in `parse_type`
(`parser/core.c:821`), `f x, -1` is `f(x) - 1` (`expr.c:134`), a constructor is
recognised by any suffix of the class name (`class.c:393`), `typedef` drops
`unsigned` and the taint (`core.c:550`), and a modifier block applies the
modifiers of the block only.

C headers (`MCParsing`): `extern int x, y`, a second name of a member in a
`typedef struct`, a struct nested in a plain one, and what is in
`extern "C" { }` are lost (`LostJobs`); the words of a type are known in one
order only, so `unsigned short x` loses its name and `long int` is an int
(`OrderJobs`); a damaged function with a body takes the next declaration along,
because reading resumes at the next `;` (`SwallowJobs`); a `typedef struct` or an enum that
is not closed hangs the reader (`OpenJobs`). Read while modelling, and part of the
operators of `CHeader`: the stars of a pointer are counted twice for parameters,
members and variables (`c_parser.c:796`), sizes of arrays and the names of
pointers to functions are not kept, of an enum value only a number in front is
read, and `uint16_t` is an unsigned int. `DeclarationsKept` tells a pointer from
what is none, not how many stars it has, for that reason.

Imports (`MCParsing`): a file imported twice, by two files or by itself never
ends (`AgainJobs`: the name is taken from the stack before the imports of the file are
looked at, and the list kept for it is linked to itself); the macros and types of an imported file are not
known to the file that imports it, which is parsed before (`LateJobs`; the
comment at `link.c:131` says they cross). A file that is empty or missing is an error
and leaves the import where it is; a header that is missing is none.

## 5. The proofs

`HashMapProofs` proves about `HashMap`, for every set of keys, hash function,
probe parameters and sequence of calls: `TypeOK`, `KeysDistinct`, `LookupExact`,
`OneSlotEach`, `EntriesKeepPlace` and the refinement `ImplementsStringMap`. The
properties are not inductive: that a lookup finds its key after a resize needs to
know that every slot on the probe path before the key's slot was occupied when
the key was put there, and still is. The inductive invariant says, for each entry
already in the index, that it has a slot on its own probe path with no free slot
before it. Slots are only ever filled between two resizes, so a step can only
strengthen this for other entries, and a resize re-establishes it one entry at a time. That a free slot
is always met follows from counting: at most two thirds of the slots are in
use and the probe sequence visits all of them (an assumption on `Probe`, which
TLC evaluates for the probe of the code).

`ArenaProofs` proves `TypeOK`, `HeldIntact` and `NoOverrun` for every block
size, set of requests and bound on blocks, and any strings. The invariant adds
that a held region lies below `used` in its block, that blocks behind the
current one in the chain are unused since the last reset, and that block
identifiers are distinct; a new region starts at `used`, so it overlaps nothing held.

The same module goes on from there with the string interner: `Canonical` (equal
strings are one pointer, for ever) and `ProbeEnds`, for all strings, hashes and
table sizes. Neither is inductive. A second pointer for a known string would be
made by a probe that meets an unused slot too early; so the invariant says of
every used slot that all slots before it on the probe path of its string are used
(`AllReached`), and that every string handed out is in the table or in the part of
the old table that a growth has still to move (`AllInterned`), in one place only (`NoTwins`).
That a slot stays free follows from the count of the used ones (`Counted`) and
the load limit of one half, provided that a table has at least two slots: the
code's first has 1024 (`FirstSlots > 1`).

`OptlirProofs` and `OptlirMeaning` are about the control-flow passes
of the optimiser on every function that alick accepts whose labels are unique and
whose entry nothing jumps to, at every level and for any number of rounds
(`OptSpec`). That the functions the lowering makes are such functions is what
`CompileProofs` shows, further down.

- `OptlirProofs`: what was accepted stays accepted (`StaysAccepted`), labels stay
  unique, the entry stays the first block (`EntryStays`). The inductive invariant
  `OptInv` holds these together, because each needs the others: that the blocks that are
  kept name no block that was removed needs the search to have found the block of every
  label, of which there must be one; that a block that is taken over can be removed needs
  that no third block names it, which the code concludes from a single edge in its
  predecessor list; and that the entry is not taken over itself, that it is not a
  forwarded block, for then its label would be lost. `EntryJumps` is what is left
  of "no jump to the entry": a jump there arises only when the entry takes over a
  loop. The search (`Reachable`) and the copying (`Kept`) are recursive functions; they are
  treated as runs of as many steps as there are blocks (`Iteration`), and that the
  search is complete after so many is a counting argument (`ReachableIsClosed`).
- `OptlirMeaning`: every step of every pass leaves a function that is bisimilar to the
  one before (`PassesKeepBehaviour`): from corresponding places both offer the
  same calls, tests and ends, and a step of one leads to corresponding places again.
  One exception is part of the statement: a block with code of its own that takes over
  a block that jumps to itself (`TakesLoop`) repeats that code with the loop. It is the
  fault that `EndlessLoop` shows in `MCCompile` (section 4), and the proof shows that it is
  the only one in these passes.
- `OptlirMeaning` also: the passes end (`PassesEnd`). Every step makes `Measure` smaller in
  the lexicographic order: rounds left, passes left in the round, then blocks that can
  still be forwarded or merged, then whether the sweep has to be repeated, then what is
  left of the sweep. The crucial lemma is that redirecting makes no other block one that
  can be forwarded (`ForwardableShrinks`): the code's `while (changed)` ends because a
  forwarded block jumps to itself afterwards, and only blocks that jump elsewhere are
  forwarded. `MCCompile` checks the liveness that follows from it (`Finishes`).

`CompileProofs` is about the whole way from the statements to the end of the passes
(`Spec` of `Compile`): for every body, of any length and nested to any depth, whose
statements are of a set `F` that the lowering handles (`Handled(F, W)`). `ProgramsHandled`
in `MCCompile` says that the statements of all bodies of the run are such a set.

- `LoweringIsAccepted` (`LoweringAccepted`): alick rejects no function that was lowered
  from such a body. A state of the lowering is a list of tasks and blocks that are half written,
  and the invariant `LowInv` relates the two. The tasks can be *read* from
  the first to the last (`Reads`): the reading keeps what is known of the block at hand (it
  is open, it has ended, nothing), the number of loops around it and the blocks
  that are still to be entered, and each task has to fit what is known before
  it (`Leads`): a bare jump is put behind open code, a block is entered when the one before has
  ended and once only, a loop is popped that was pushed. The blocks are as the reading
  takes them to be (`Written`): those to be entered are empty, the current one is open or
  has one end, and all others have one end and name blocks that are there and are not
  the entry. Every action replaces its task by a list that leads from the
  new state to what was known behind the task (`PassesGoOn`, one lemma per action). `W` are
  the statements after which the block is still open. It is needed for two generators that do
  not look whether it is: that of a counted loop, which jumps back behind its body, and
  that of `return`, which returns behind the deferred statements.
- `LabelsStayUnique`, `CompiledStaysAccepted`, `CompiledKeepsEntry` and
  `CompiledKeepsBehaviour` (`UniqueLabels`, `StaysAccepted`, `EntryStays`, and the
  bisimulation of `OptlirMeaning`) for bodies without a `@meta` block, at all
  levels, and `NoJumpIsLost` (`NoLostJump`) at levels 0 and 1. Labels are unique because
  no label has a number above the count of its hint (`Numbered`), which a `@meta`
  block resets: `MetaBetween` in section 4 is why it is left out. A
  function that is lowered completely then satisfies `OptInv`, and the theorems
  on the passes take it from there. At level 2 merging can bring a jump to the
  entry (`EndlessLoop`).

- `CompiledPassesEnd` and `CompiledJumps` at all levels: `PassesEnd` for the functions
  that were compiled, whose measure is made of natural numbers from the check of the
  lowered function on; and what remains of `NoLostJump` at levels 2 and 3: every label that is named
  is that of a block, and only the entry itself can name the entry.

`MetaVMProofs` is about the virtual machine, for every session and whatever well-formed
code its items are lowered to (`SessionAssumption`), for recursion of any depth, and for
functions that fail.

- `LocalsStayApart` (`LocalsApart`): no object that a running call has allocated belongs to
  another call. `LocalsApart` is not inductive, for a value that is returned is written
  into a register of the caller, and it could be an address that belongs to the function that
  returns: nothing in `vm_eval_flow` prevents returning one. It is harmless because the register
  is that of a call, and no call shares its temporary with an allocation. But which
  register it is the frame that ends knows (`dest`), and whether it is that of a call can
  only be seen in the caller. So the invariant relates each frame to the one below
  (`Calls`): the caller stands at a call instruction, which names the function above it
  and has the same destination. `Stack` holds that together with the place of every frame in
  its code, which `NextBlock`, jumps and calls need to find a block there, and with a bound of
  every address by the number of objects so far, from which a new one is different. The driver's
  part (`Driven`) says that functions have the code of items of the session, also those of a
  function that is defined again (`AddFunction`), so that this code is well formed; that
  the items still to be run are items of the session is an induction over the
  choice a file makes of them (`ChosenItems`, `KnownFunctions`).
- `CallsNested` states that relation of frames by itself, and `MachineTypeOK` is the type
  invariant, which the run leaves to the proof.

`EditorProofs` is about the line editor, for every buffer, indentation and history size, all
names that can be completed, any bytes in fresh memory, and every sequence of keys.

- `TextInBuffer`: the inductive invariant. `Fits` says that the buffer has its size, that
  the text with its NUL ends inside it, that no byte of the text is NUL (so the string in the
  buffer reaches at least to the end of the text), and that the cursor is in the text. Every
  key that edits has its own reason to stay inside: a bracket, a tab or a new line by its
  own comparison with `MaxLen`, a completion because `Cut` takes off what does not fit
  while it never cuts below the word that is there (`WrittenFits`), an entry of the
  history because it was a line of this buffer once (`CopiedIs`). After the line is
  entered the cursor is stale: the code leaves it behind the blanks it cut off, and so the
  invariant bounds it only while a line is read.
- `DraftComesBack` (`DraftKept`): while an entry of the history is shown, the copied string
  is a line that fits and, if the text was whole when the history was entered, is that text
  (`DraftOK`). That a copied string fits is not obvious, for it is taken from the buffer up to
  the first NUL, and that may come after the text; but the history is entered only where
  an entry begins with it.
- `HistoryIsKept` (`HistoryKept`): the ring of lines against its specification, the last
  lines of all entered that are worth keeping. `Worth` is a recursive function over the
  lines; that it grows by at most one line with each (`WorthGrows`) compares two runs of it by
  induction on their common length.

`Iterations` holds the lemmas on natural numbers, parts of sequences and recursive
functions that the proofs about the optimiser, the machine and the editor share.

Assumptions are the named `ASSUME`s of the modules (sizes are positive, the
probe covers the table, minimum capacity and first table at least 2, at least one
round, bounds on counters, no more than 63 hints for the tests of a switch, none of them
"entry"). TLC evaluates them in every run. `NameAssumption` says that the names of blocks
and events are strings, which the provers do not know of a literal.

Only model-checked: that the lowering preserves the meaning of the statements and with it
`SameBehaviour` from end to end, which is an induction over the statements; that no pass
makes a jump to the entry for the bodies of the run at levels 2 and 3 (`NoLostJump`);
that the virtual machine prints what was meant (`SameMeaning`), another induction over
statements; everything from the parser to the passes on values (`Parsing`, `Names`, `Semantic`,
`Values`), generators, and liveness. The modules for these are built on recursive operators over trees,
which the provers cannot reason about, and `CyclesReported`, `ArgumentsKept` and `ExactChosen`
hold for the programs of the run and not for all. The runs do not ask
for `TypeOK` of the arena, which holds in them.

## 6. Bounds and fairness

All bounds are constants guarded in the actions, never state constraints.

- `MinCapacity`, `MaxDoublings`, `MaxCount` (hash map): four keys double a table of 4 once;
  the bound leaves room for a second doubling, which the proofs cover and six keys
  would need; counts above 2 take no other path.
- `MaxBlocks`, `MaxSlots` (arena): three blocks give a current block with blocks
  before and behind it, the case where insertion into the middle of the chain
  matters; 8 slots are two growths.
- `MaxRounds` (control-flow passes): 5, as in the source for level 3. `Rounds`
  (passes on values): 2, enough for a pass to meet what every other has left.
- `Fuel`: in `Compile` 12 silent steps: a silent stretch of an execution visits
  each block at most once before it repeats, and no function of the runs has a
  stretch of more than 12 blocks. In `Values`, `MetaMeaning` and `Flux` it cuts off the
  reference and the execution at the same number of iterations; no program of
  the runs comes near it.
- `MaxTodo`: only bounds the type invariant of `Compile`.
- `Width` (MetaVM): 256 values of an integer, wider than any value of the runs.
- `MaxCalls`, `MaxNest` (Flux): 7 contexts made, loops begun and resumptions, so that the
  longest generator (three values) is looped over to its end, and a shorter
  one while another loop over the same object is under way.
- `MaxDepth` (names): 10 frames, more than any search of the run has that ends;
  `Ends` would fail for one that had.
- `MaxLen`, `MaxHistory`, `MaxKeys` (editor): a buffer of 9 is filled within 7
  keys, with indentation and completion, and a history of 2 drops its oldest line.
- `MaxVisits` (imports): 25 nodes looked at, more than any program of the run has after
  its imports; a list that was linked to itself exceeds it.
- `Files` (imports): three files, enough for an import in an import
  and for two imports next to each other.
- Bodies nest loops twice, expressions twice, and calls share at most two
  declarations. Each construct only sees its immediate context (the current
  block, the innermost targets, the operator above, the node before), and two
  levels give every combination of those.

Fairness: the compiler is one thread that waits for nothing, so it takes the next
step whenever it has one: weak fairness of `Lower \/ Check \/ Optimise` in
`Compile`, of `Step \/ Drive` in `MetaVM`, of `Next` in `Names`. In `Flux` only a
resume function that was called is fair (`Resume`): the program around it is
the user's, and so is the program that `Compile` executes. Deadlock is checked in
`Flux` and `Editor`; the others stop rightly when a compilation, a session or a
parse is over or a map at its bounds.

## 7. What is not modelled

The lexers, the C preprocessor and the search for files, imports as expressions, the copying of trees, casts and floating
point, strings at run time, methods and constructors in the lowering, the type
check of alick, statements with blocks of their own inside a `@meta` block and the symbols
it leaves to the function around it (`Lowering` keeps no symbols), back ends, linking, terminal and file I/O; the reasons are in
`PROJECT.json` under `components`. Two parts have no effect that a property could
be about: the reader of binary ALIR has no caller, and alick's memory check looks for
instructions with an operand that the compiler never emits. Allocation failure
is modelled where the code handles it (the first table of the interner).

The parser and the emitter are recursive operators, the analysis of marks and
names has reference operators that recurse, and `DataCode` does: modules that reach
them hold no theorem. `MetaVM` reaches `DataValues` only.

## 8. Plan

Done: hash map, arena, interner, the lowering of statements, the control-flow passes and
the line editor (checked, proved); parser, C headers, imports, analysis, optimisation of
values and generators (checked); the virtual machine (checked, its stack and memory proved).

1. Proofs: `NoLostJump` at levels 2 and 3 for bodies in which every loop can be left by
   its condition; the promise of generators (`Streams`) from `Flux`.
2. Casts written in the program, and other widths, in `Values`; constructors and methods in `DataLowering`.
3. Imports as expressions, and imports inside bodies.
