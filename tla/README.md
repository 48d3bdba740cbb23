# A TLA+ model of pocket-rust

pocket-rust compiles a subset of Rust to WebAssembly. It is a sequential
program: there are no threads, no messages and no restarts. What is hard in it
are its fixpoint iterations, and the promises one pass makes to the next: the
parser returns the program that was written, the type checker says that a match
is complete, the graph has the paths of the source, the borrow checker accepts a
function, a snapshot of what was moved goes to code generation, drops are emitted
from it, and the emitted module does what the source means. A mistake in such a
promise shows only on some path through some function, several steps and two
passes later, which is what a model checker and a prover are good at.

The project has three parts: the *front end* (lexer, parser, inference, patterns,
variances, graph builder), with proofs of the lexer and the variances, the *analyses*
of the borrow checker, with proofs of all of them, and the *back end* (monomorphisation, layout, code generation), whose output runs on a
machine and is held to the meaning of the source.

Paths below are relative to the repository root (`src/borrowck/moves.rs`).

## 1. The system

`compile` (`src/lib.rs:61`) runs, for each library crate and then for the user
crate:

    lexer -> parser -> derive -> preludes -> typeck::check -> closure_lower
          -> borrowck::check -> safeck::check

and then `codegen::emit` on everything that `mono::expand` reaches. The passes
share tables (functions, structs, enums, traits) that only grow; each pass adds
its results to the function entries. The first error of a pass ends the
compilation, except in borrowck, which collects the errors of a function.

For one function, `check_function` (`src/borrowck/mod.rs:141`) runs

    build -> regions::solve -> moves::analyze -> liveness::analyze
          -> borrows::analyze -> moves::analyze (again) -> build_moved_places

| Component | State it keeps | Operations | What makes it correct | Modelled |
|---|---|---|---|---|
| `lexer.rs`, `span.rs` | byte position, line, column, tokens | one token | longest tokens, true positions | yes, proved |
| `parser.rs`, `ast.rs`, `derive.rs` | cursor, next node id, restrictions | recursive descent, desugaring | reads back what the program says; one id per node | but for derived impls |
| `typeck/mod.rs` | substitution, scopes, obligations | unify, coerce, infer | a substitution solves what was asked; fails only if it must | `Subst`, matches, lets, captures |
| `typeck/patterns.rs` | bindings | check pattern, exhausted | accepted matches cover every value; bindings have the types of what they bind | yes |
| `typeck/variance.rs`, `lifetimes.rs` | variances per type | iterate in rounds | the least fixpoint | variances, proved |
| `typeck/traits.rs`, `methods.rs`, `dyn_safety.rs` | impl table | solve impl, probe methods | at most one impl applies | the search for an impl |
| `typeck/setup.rs`, `types.rs`, `tables.rs`, `builtins.rs` | tables | fill | append-only | types |
| `typeck/path_resolve.rs`, `use_scope.rs` | use tables | resolve a path | one meaning per path, visibility respected | no |
| `closure_lower.rs` | synthetic structs and impls | capture, replace closures, copy bodies | a lowered closure does what the closure does; `Fn` only if it mutates nothing | but for types and lifetimes of fields |
| `borrowck/build.rs` | current block, scopes, loop stack, region graph | lower each kind of expression and statement | every path of the program is a path of the graph, scopes end once | but for regions |
| `borrowck/cfg.rs` | blocks, statements, terminators, locals, region graph | read-only once built | places overlap iff one is a prefix of the other | yes |
| `borrowck/moves.rs` | worklist, state at each block end, errors, move sites, snapshot | pop, transfer a statement, commit, replay | accepted functions use no moved value; the snapshot is true | yes, proved |
| `borrowck/liveness.rs` | worklist, live-in and live-out per block | visit a block | exactly the locals that are read before being overwritten | yes, proved |
| `borrowck/borrows.rs` | worklist, active borrows with carriers, errors | pop, transfer, prune, commit | accepted functions use no broken borrow; it ends | yes, proved but for the end |
| `borrowck/regions.rs` | two reachability matrices | close, compare rows, blame | accepted iff the body has a solution for every caller | yes, proved |
| `borrowck/mod.rs` | moved places by name | check_function, build_moved_places | the snapshot of one function reaches codegen unchanged | partly |
| `safeck.rs` | one flag | walk | unsafe operations only under unsafe | no |
| `mono.rs` | worklist and table of instances; a lowering context | intern, expand, lower | every instance that is looked up is there; the lowered body means the same | but for dyn |
| `layout.rs` | none | size, flattening, addressed bindings, drop actions | every addressed binding has a slot of its own; each value is dropped once | yes |
| `codegen.rs` | wasm locals, frame, scopes, open blocks, table of addresses, string pool | lower MonoExpr | the module does what the source means, keeps its stack, stays in its memory | but for vtables and dyn |
| `wasm.rs` | byte buffers | encode sections, LEB128 | decodable, shortest form | instructions |
| `lib.rs`, `main.rs` | module tree | resolve modules, add preludes, run passes | order of the passes | no |
| `lib/std` | Vec, Box, Option, Result in the compiled language | push, pop, get, ... | ownership of elements, capacity | no |

What is left out is of three kinds: deterministic walks with no state to speak of
(safety check, filling the tables), where a model would repeat the code; lookups
over names (path resolution, method probing); and parts with state worth
modelling that are left in the plan of section 7.

### What is hard

1. *Order of a worklist.* Blocks are popped in an order that depends on what
   changed; requeueing must lose no change. Errors are reported during the
   iteration, from states that may still change, and never taken back
   (`moves.rs:257`, `borrows.rs:133`).
2. *Joins.* A status moved on one path only, or a borrow carried by different
   locals on two paths, must survive the join.
3. *Two implementations of one thing.* The snapshot for codegen is a replay by
   `apply_stmt_state_only`, not by the transfer that found the errors
   (`moves.rs:322`). Drop flags and drop actions are found by name, while the
   analysis works with locals (`layout.rs:41`, `codegen.rs:3829`). The walk that
   finds instances and the lowering that asks for them must agree on every call
   (`mono.rs:1146`). A value has two representations, flat in wasm locals and by
   bytes in memory, and every construct handles both.
4. *Dead blocks.* After `return`, `break` and `continue` the builder goes on
   in a block without predecessors, which flows into the join
   (`build.rs:2400`).
5. *In-place closure.* Floyd-Warshall in `regions.rs:80` writes the matrix it
   reads.
6. *Termination* of iterations that are not monotone: statuses go both ways
   (`moves.rs:235`), and pruning removes borrows (`borrows.rs:58`).

7. *Counting what is open.* The depth of a branch is the number of wasm blocks
   between it and its target (`codegen.rs:5287`); every construct that opens one
   shifts all jumps across it. The stack pointer is moved by prologues, by
   temporaries inside loops, and given back by every way out (`codegen.rs:1533`).
8. *Shortcuts of inference and exhaustiveness.* Unification has no occurs check
   (`typeck/mod.rs:1519`); exhaustiveness looks at one part of a product at a
   time (`typeck/patterns.rs:940`).
9. *Names as text.* The captured variables of a closure are rewritten by name in
   copies of its body (`closure_lower.rs:922`), while what counts as a use or a
   mutation was decided earlier by another walk (`typeck/mod.rs:3877`).

`PROJECT.json` lists each of these at its line, with the property that would
catch it, and those that no property covers, with the reason.

## 2. The modules

### The front end

| Module | Models | State and steps |
|---|---|---|
| `Lexer` | `tokenize` | `byte_pos`, `line`, `col`, `tokens` are the variables of the code; one action per branch of its loop: a word, a number, a string, a character, a lifetime, a comment, punctuation. The inner loops are recursive functions from the byte they stand at |
| `Parser` | the recursive descent | an operator `ParseX` is the method `parse_x`: it takes the parser state (tokens, cursor, next id, restrictions) and leaves its node on a stack. Not a state machine: parsing has no moment at which something else can happen |
| `Surface` | what the parser promises | a tree as written is put around a hole (`Wrap`), printed with the fewest parentheses, and parsed (`Read`) |
| `Unifier` | `Subst` of typeck | `bindings`, `isNumLit` are its two tables; `FreshVar`, `FreshInt`, `UnifyEq`, `Coerce`, `Merge`, `Finalize`, in any order |
| `Matching` | `check_pattern`, `check_match_exhaustive`, `pattern_is_irrefutable` | `AddArm` types one arm, as the loop of `check_match_expr` does; `CheckMatch` and `CheckLet` judge |
| `Variances` | `compute_variance` | a type is the set of its nodes, each with its head, its lifetimes and the way to it from the root; `Visit` walks one declaration against the snapshot of the round, `EndRound` compares |
| `Closures` | the captures typeck records, and `closure_lower.rs` | `Compile` records, lowers and checks again; `Call` calls the closure through one of its impls |
| `Builder` | `borrowck/build.rs` | an operator is the method of its name, from one `Builder` record to the next |
| `Lowering` | a function beside its graph | `Step`: both machines do the same event |

`Lexer`, `Unifier`, `Matching`, `Variances`, `Closures` and `Lowering` are state
machines in their own right; `Parser`, `Surface` and `Builder` are functions.
`MCFrontend` puts them together: a behaviour is about one *subject*, and the
variables of the others stand still. It extends the modules that theorems are about,
so that the run and the theorem speak of one definition, and instantiates the others. Its instances are its own, and those in
`MCTypeck` and `MCSources`.

`Closures` runs a function twice with one small evaluator: `rust` with closures
that keep hold of the variables around them, which is what the language promises,
and `ours` with the structs, the methods and the rewritten bodies of the pass. The
evaluator is part of the specification and translates no code.

### The analyses

`CfgShape` holds what every graph has: places as sequences (a local, then
fields, with `"*"` for a dereference), `IsPrefixOf`, `Overlaps`, `Succs`,
`Preds`. Two modules add statements, each with the detail its analyses tell
apart:

* `Cfg`: a statement is a sequence of *operations* on a place (move, copy,
  borrow, init, live, dead, ...), in the order the transfer of moves.rs treats
  them. `Points(cfg, b)` are the positions of a block.
* `StmtCfg`: a statement is a record of its destination, the places it reads
  and the loans it makes; `Uses`, `Kills` and `Sources` are those of
  liveness.rs and borrows.rs.

The graphs a function may have are the constant `Cfgs` of either module, with
the assumption that they are well formed. A run gives it a set of programs; a
theorem speaks of every set.

| Module | Models | One action per |
|---|---|---|
| `MoveAnalysis` | `moves::analyze`, `compute_moved_locals` | `Pop` (merge of predecessors), `Step` (one operation), `Commit` (compare, store, requeue), `StartSnapshot`, `SnapStep`, `SnapNext` (replay of a block, next block) |
| `MoveSoundness` | a run of the accepted function | `Launch`, `Exec`, `Jump`; `holes` are the leaves that hold no value |
| `DropElaboration` | `compute_drop_action`, the drop code of codegen.rs, on top of such a run | `DropLaunch`, `DropExec` (move, store, flag, scope end), `DropJump`, `Return`; `full` are the values there, `flags` the wasm locals, `faults` what went wrong |
| `Liveness` | `liveness::analyze` | `Visit`: one iteration of the loop |
| `Borrows` | `borrows::analyze` | `Pop`, `Step` (check, add, prune), `Commit` |
| `BorrowSoundness` | a run of the accepted function | `Launch`, `Exec`, `Jump`; `held` are the borrows each local's value was made from, and whether each is still intact |
| `Regions` | `regions::solve`, `diag_for_pair` | `Row` (one row of one round), `NextRound`, `DeclaredClosed`, `FullClosed`, `CheckRow`, `Accept` |

`CfgShape <- Cfg <- MoveAnalysis <- MoveSoundness <- DropElaboration` and
`CfgShape <- StmtCfg <- Liveness <- Borrows <- BorrowSoundness` are chains of
`EXTENDS`; each adds variables and leaves those below alone. The proofs are in
`MoveAnalysisProofs`, `MoveSoundnessProofs`, `DropProofs`, `BorrowProofs` (with those
about liveness) and `RegionsProofs`; those of the front end in `LexerProofs` and
`VarianceProofs`. `LoopProofs` has what all of them need of loops. The operators marked "Mutant of" are plausible mistakes in the
code, kept to show that a property notices them; no specification uses them.

Correspondence of the state:

* `work`, `cur`, `pos`, `state` of `MoveAnalysis` are the locals `work`, `b`,
  the statement index and `state` of the loop in `analyze`; `blockIn`,
  `blockOut`, `errors`, `sites` are `block_in`, `block_out`, `errors` and the
  raw move sites; `movedLocals` is `MoveSnapshot.moved_locals`. `before` is a
  history variable: the state before each operation at the latest visit.
  A move set is kept as the function from places to statuses that the sorted
  vector of the code represents.
* `liveIn`, `liveOut` are `live_in`, `live_out`. The walk of a block backwards
  is one definition, `LiveBefore`, since nothing can come in between. It and
  `MergeAll`, the fold over the predecessors, are written in closed form; the
  lemmas `LiveBeforeIsBackward` and `MergeAllIsFold` prove that they are the
  statement by statement walk and the fold of the code.
* `active` of `Borrows` is a *sequence* of entries, as in the code: the union
  keeps the first entry of an id, so the order is part of the behaviour. The
  loops over it (`UnionWith`, `UnionAll`, `CarriedBy`, `Push`) are recursive
  functions of how many elements they have seen.
* `carriers` of `Borrows` is a history variable: the borrows that were active at
  the end of any visit, each with the local that carried it. `OneCarrier` is stated
  over it.
* Every borrow expression is stored in a local whose type has a reference, or
  through a pointer (`StmtOK`): the type of `&p` is a reference type.
* The matrices of `Regions` are sets of pairs.

### The back end

`RTypes <- Instances <- MonoLower <- Layout <- Emitter <- Codegen`
is a chain of `EXTENDS` that follows the code, and `Backend` runs it on a crate:

| Module | Models | State and steps |
|---|---|---|
| `RTypes` | types, substitution, sizes and flattening; the search for an impl | operators |
| `Instances` | `MonoTable`, `expand`, the walk of a body | `table` is the intern table, `cursor` the worklist; `Expand` walks one function |
| `MonoLower` | `lower_to_mono` | an operator per kind of node, from one lowering context to the next |
| `Layout` | `compute_mono_layout` | addressed bindings, frame slots, drop actions |
| `Emitter` | `FnCtx`, loads and stores of leaves, the stack pointer, open blocks | a generator record; an operator per emitting helper |
| `Codegen` | `codegen_expr`, `codegen_pattern` (tests and bindings, flat or in memory), scopes, flags and drops, prologue and epilogue | an operator per kind of node |
| `Backend` | `emit` | `EmitFunction`, `EmitNoop`, `Start`, then `Execute` |
| `WasmMachine` (external) | the instructions that are emitted | one instruction per step, with validation on the way |
| `Reference` (a specification) | what a source program means | an evaluator that knows no frames, flags or blocks |
| `ObservedRun` | the promise to the user | `Begin`, `Show` one observed call, `Finish` |

`Promise == INSTANCE ObservedRun WITH seen <- trace, outcome <- status` is the
refinement mapping, and `ImplementsSource == Promise!Spec` says that the machine
that runs the emitted code implements the abstract run: compilation and every
instruction that shows nothing are stutters, every call of `note` and every drop
is the next one of the source, and the run ends as the source does. `MCCrates`
and `MCBackend` hold the programs.

The input of the back end is the typed AST with what typeck and borrowck recorded
at its nodes; the programs are written in that form by hand.

### What is abstracted

In the analyses: types (a local owns nothing, owns something, or has a Drop impl;
it may hold references or not), the values of conditions (a branch may go either
way), calls (their operands, and the loans of their arguments). In the builder:
constants carry no value. In the parser: spans, and the text of tokens beyond the
set they belong to. In the back end: module paths. Everywhere: the wording of
errors, and names are model values or short strings.

## 3. The runs

| Run | Instance | Shows |
|---|---|---|
| `moves_and_drops` | 35 functions, 22 of `MCPrograms` and 13 of `MCDropElaboration`; the latter and 4 of the former have flags, parameters, shadowed names, a break, a continue and returns, and are run with their drops | `TypeOK`; `FixpointReached`; `ErrorsAreFinal` (the errors collected on the way are those of the fixpoint); `NoUseAfterMove`, `UnlistedIsWhole`, `DefiniteIsMoved` over every path of the accepted ones; `NoDoubleDrop` and `DropExactlyOnce` over every path of the 17; `PresenceGrows` (a visit never forgets a moved place at a block end); `Terminates` |
| `borrows` | 23 functions, `MCBorrows` | `LiveExact`, `NoUseOfBroken` over every path, `Settles` |
| `region_verdicts` | every body with up to three edges among two signature regions, two of its own and `'static` | `VerdictCorrect`, `RejectionIsBlamed`, `Terminates` |
| `frontend` | seven subjects, `MCFrontend` | see below |
| `backend` | 9 crates, `MCCrates` | see below |

**frontend.** *Lexer*: `MaximalMunch` (no token could have been longer, and
nothing between tokens is lost), `PositionsAreTrue` (the span of each
token is the line and the column of its bytes, the sign of a builtin being one
column, after newlines inside strings and comments too). *Parser*: `Reads` (what comes out
means the tree that was printed, whatever stands around it), `Ids` (no two nodes
share an id, and every node that takes one has one below the next). *Patterns*:
`AcceptedCovers` and `RejectedMisses` hold the judgement against the values of
the type; `BindingsFit` says that what a pattern binds at run time has the type it
was given, in the mode the references that were peeled allow. *Inference*:
`AnswerSolves` (the substitution makes every accepted question true, and
literals integers), `FailsOnlyIfUnsolvable` (against a congruence closure: it
fails, or ends in a cyclic type, only if no types would do). *Variances*:
`VariancesAreLeast`, the invariant slots are those that some path of the
declarations pins, and the rounds are at most one more than the slots. *Closures*:
`CallsDoTheSame` (through every sequence of calls the lowered closure notes and
returns the same numbers and leaves the variables around it with the same values),
`FnOnlyReads` (a call through a shared reference writes to nothing that was there),
`LoweredIsAccepted` (the second check finds every name and impl). *Builder*:
`SameEvents` (source and graph do the same: locals become live, get values, are
moved, borrowed and die in the same order on every path, through breaks,
continues, returns and guards, for functions in which the operand of every `?` is
quiet, see section 4; `try_reads_once` has one in which it is not), `NamesAreTheirs` (a name in scope stands for the
local the graph uses).

**backend.** `NothingMissing` and `IndexesHold` (every index that a call carries
is that of its callee, although it is handed out before and the table still grows
during emission), `ValidCode` (each instruction finds operands of the right number
and types), `StackGivenBack` (each return leaves the stack pointer as the call
found it), `NoStrayWrite` (a store hits allocated heap or taken stack),
`ImplementsSource` (the refinement above, with its liveness). The crates cover
scopes, loops and jumps across them; owners that are dropped, moved, moved on one
path; generic functions and trait dispatch; matches on values and through
references; 64 and 128-bit arithmetic, casts and division, also by zero; indirect
calls, operators and Index on user types; sret, addressed parameters, the heap;
and panics.

and seven runs in which the code does not do what a comment in it says:

| Run | What TLC finds |
|---|---|
| `for_binding_init` | a loop body that moves its item is rejected: the binding of a for loop is never initialised in the graph |
| `always_never_moved` | a binding moved before a `return` and not on the other branch is dropped unconditionally, the return included |
| `skip_means_moved` | a binding that shadows a moved one takes its entry and is not dropped |
| `always_settles` | a borrow that two references carry in turn around a loop appears and disappears at the join for ever: the compiler does not end |
| `copies_keep_alive` | a copied reference is forgotten where two branches meet; when the original dies, a write to the borrowed place is accepted although the copy is used later |
| `try_reads_once` | `let a = g(x)?` moves `x` twice in the graph, so that the move analysis rejects the function: the operand of a `?` is lowered for its effects and again for its value, under a comment that says it is read once |
| `or_binding` | an arm `A(x) \| B(x)` reached through its second alternative reads a local that only the first one sets |

### Bounds, and why they are enough

The runs of the analyses are bounded by the programs only; there is no bound on
steps. The worklist starts with every block and the programs have up to six
blocks, which covers each shape the builder makes: straight line, if with and
without else, loops entered by fall through and left by break or by their test,
return in a branch (with the dead block behind it), nested joins. Within them the
programs combine whole moves, moves of a field, late initialisation,
reinitialisation after a move, moves on one branch, on both and in a loop,
parameters and shadowed names, and for borrows shared and mutable loans, copies,
moves of references, fields, and carriers that differ between branches. Both
accepted and rejected functions are among them, so that the guards of `Launch`
matter; a property that needed a function to be accepted would otherwise hold of
nothing.

For regions, a chain between two signature regions through both regions of the
body takes three edges, and `'static` as upper and lower end, cycles, and edges
that repeat a declared fact are all among the bodies.

For the front end: `MaxBytes = 4` and an alphabet of bytes each of which starts or
continues several tokens give every decision of the lexer with its lookahead of
two; longer files are listed where a token needs them (`\u{..}`, nested
comments). `MaxDepth = 2` contexts around an atom put every operator above, below,
left and right of every other, and conditions around braces; precedence and
restrictions are decided between a node and its neighbour. `MaxArms = 3` arms over
13 types, with two or three constructors each, `IntValues = 0..3`: a type of two
parts, an enum in an enum, references of two layers, uninhabited payloads. Three
inference variables and `MaxAsked = 3` questions suffice for a chain, a cycle, a
literal on either side, and a projection that is resolved afterwards; there are six
tables of declarations, with mutual recursion that permutes parameters. A closure has
any two of 20 statements before a sum of all it may capture, with and without `move`,
which makes 800 functions: each construct that binds a name (let, tuple, arms with
guards, or-patterns, `@`, if let, for, parameters of inner closures) comes before and
after each use, mutation and nested closure, and up to `MaxCalls = 3` calls let a
second one see what the first has written. Integer
literals are kept modulo `IntModulus`, so that a number of three digits passes it.

For the back end: numbers of 64 bits are reduced modulo `2^WideBits` with
`WideBits = 12`, so that carries between the words of a 128-bit number stay within
the integers of TLC; `PageEnd = 65536` is that of the code. Every function of a
crate is called by its entry with each input that decides a branch, and a run has
up to some thousand instructions.

### Fairness

Every specification of an analysis has weak fairness of `Next` of the *analysis*
and nothing else: an analysis is a sequential call that nothing preempts, so it
takes its next step whenever it has one. The run of the analysed function has no
fairness: it may stop at any point, and the safety properties speak of every
prefix. `Backend` has weak fairness of `Execute`: a machine that has been started
goes on, and `ImplementsSource` then says that the program ends, since its source
does. The front end needs none: its properties speak of what each step returns,
and an endless substitution is a status. `CHECK_DEADLOCK FALSE` is there where an
analysis ends, and a rejected function is not run; `backend` checks deadlock, with
`Ended` for the runs that are over.

## 4. Preconditions

Some promises hold only for functions of a certain form, and nothing in the
compiler checks that form. They are stated as predicates beside the property:

* `NoDoubleDrop`: `ExitsListed` (a break, continue or return drops bindings in
  storage, and one of which the analysis knows a move there is in the snapshot, so
  that it has a flag or is skipped), `WholeMoves` (bindings are moved as a whole),
  `FlagsKept` (no flagged binding goes without a flag, and one declared without a
  value does not read the flag of another binding).
* `DropExactlyOnce`: `Plain`, which is `ExitsListed`, `ExitsAgree` (a binding that
  the exit skips has been moved there), `WholeMoves`, `DistinctNames`,
  `FlaggedByLet` (a binding with a flag gets its value from its let), `WholeStores`
  (no binding is filled field by field) and `ScopesEnd` (the function stops, and a
  late declaration comes, outside the storage of the owners or dropping them: no
  panic, no endless scope). The run always_never_moved has the function that
  `ExitsListed` excludes, and the run skip_means_moved one without `DistinctNames`.
* `DefiniteIsMoved` leaves out bindings that are assigned field by field.
* `NoUseOfBroken`: `OneCarrier` (no borrow has had two carriers at the end of
  any visit), `NoReborrow`, `NoWriteThrough`, `NoBorrowedTest`. `Settles`:
  `OneCarrier`. The runs always_settles and copies_keep_alive have programs
  without `OneCarrier`.

* `AcceptedCovers`: `OnePartTested` (of each product the patterns test one part
  at most) and `NoTestBesideRest`. `RejectedMisses`: `NoStructRest`, `Inhabited`.
  `BindingsFit`: `PlainBindings` (no explicit `ref mut`, no name before `@` below
  a peeled reference, and no name twice).
* `SameEvents`: `QuietTries`, the operand of a `?` moves nothing that has a name,
  borrows nothing and takes no branch. `lower_expr_into` lowers it twice
  (`build.rs:1392`, `1397`), and only of such an operand can nothing tell. The run
  try_reads_once has a function without `QuietTries`. Two more things `SameEvents`
  does not tell: a jump ends no storage, in the builder (`pop_scope` works at the
  normal end of a scope only) as in the function's machine beside it, so that what
  becomes of the names a jump leaves is the subject of the drops and not of this; and
  a callee that is a local is taken before the arguments in the function's machine and
  after them in the graph, which the functions with such a call, whose arguments are
  constants, do not show.
* `FailsOnlyIfUnsolvable`: `NoProjections`, since a projection is resolved in the
  order of the questions.

The types that `Matching` looks at are closed, and `!` itself is met by wildcards
and names only. Projections over types with open variables are left out of the
questions: there the types for the check take `i32` for what is open.

The programs of `backend` keep away from what the code does not get right, or does
by other means: moves of a field out of a binding, assignment over a value that
has a drop, temporaries that have one, enums inside structs and tuples, an index
of a tuple through a reference in value position, a generic call that occurs only
in a guard, an indirect call that returns an enum, a borrow only in a let-else
block, names in or-patterns (the subject of `or_binding`), ranges and large
literals of 128 bits in patterns, struct patterns in a plain let (which the gate
before lowering refuses), and a matched enum in memory that is overwritten while a
name bound to its inner enum is in use. Section 6 says what happens with some of
these.

## 5. What is proved

TLAPS checks the following for every set of graphs: every `Cfgs` that satisfies
`CfgsOK`, for drops also `DropCfgsOK`, every `Graphs` that satisfies the assumption
of `Regions`; for the lexer every set of files that satisfies `AreFiles` (a file is a
sequence of bytes), for the variances every set of tables that satisfies `AreTables`
(no declaration has the name of a built-in type, the way to a part of a type leads
through type arguments, only a reference, a `dyn` or a declared type has lifetimes).
Nothing else is assumed. TLC evaluates the assumptions on the instances of the runs. `CfgOK` is the shape of a graph and `ScopesOK`: the storage of a local
ends at one place, since `pop_scope` (`build.rs:1187`) is the only code that ends one
and takes each name from the stack once, and the binding of a for loop opens the body
that the first iteration enters (`build.rs:2283`). `DropCfgOK` adds what scopes mean
on paths: storage ends only after it began, a flag is set after the let's store
(`build.rs:1290`, `codegen.rs:4779`), and bindings are numbered in the order of
their declarations. The statement graphs that liveness and the borrow check read have a
`CfgsOK` of their own, in `StmtCfg`: their shape, and a region of its own for every
borrow expression. Liveness is proved for every order of visits, the move analysis for
the stack discipline of the code.

**Moves** (`MoveAnalysisProofs`). `TypeCorrect`, and `FixpointCorrect`: when the
worklist is empty, the state at each block entry is the merge of what its
predecessors ended with. The invariant is `FlowInv`: a block that is not on the
worklist and not being visited ended, on its last visit, with what the transfer
makes of a merge that its predecessors have not changed since. Neither half is
inductive by itself, since a commit changes the input of the successors in the
same step as it queues them. `ErrorsCorrect`: an error reported from a state that was
later replaced is an error of the fixpoint all the same. The invariant is `GrowInv`:
the places that are marked only grow, from visit to visit of a block and from the
state kept at its end to the one on its way, although their *statuses* go both
ways; and an error depends on presence only. `PresenceOnlyGrows` is its
step. The transfer is monotone in presence since an effect marks or clears places
whatever is marked before (`ReplayEffect`, `Effect`), and the merge because it
keeps what any predecessor has.

**Soundness of moves** (`MoveSoundnessProofs`). `Soundness`: no accepted
function, on any path, reads a value that was moved or never assigned. The
argument follows the run: `RunInv` says that the analysis knows of each hole:
some entry of the state it computed for the current point stands at or above
it. A step of the function keeps it because the transfer records what the step
removes, a jump because the fixpoint's merge keeps every entry of the
predecessor. `UnlistedSound`: a binding the snapshot leaves out is whole at its
scope end. This needs `SnapInv`: the replay, which is a second implementation,
covers at each point the state of the analysis (it may know of more moves, those
through raw pointers), and every scope end it has passed with a move pending
left its binding listed. `DefiniteSound`: a binding the snapshot has as `Moved` or
`Uninit` holds nothing at its scope end. `DefiniteInv` is the converse of `RunInv`:
where the analysis is sure, every leaf is a hole. It needs that sure statuses come
from sure predecessors (`BindInv`, by the merge's maximum), and for the bindings of
for loops, whose storage clears nothing, the path of the first iteration.

**Drops** (`DropProofs`). `NoDoubleDropCorrect`: the code that is emitted for the ends
of scopes drops no value twice and none that was moved, on any path of any function
that meets the preconditions, also when bindings share a name, and with it the entry
of the snapshot and the flag. The invariant `DropInv` joins three accounts of a
binding: the memory (`full`), the holes of the analysis' run, and the flag. Within
its storage a binding is full but for its holes; with its flag set it is full. A
drop without a flag is one the snapshot does not list, which is whole by
`UnlistedIsWhole`; one with a flag is whole by the flag, even if the lookup by name
finds that of another binding: each move of either clears it, and only a declaration
that codegen met first, outside the scope of the later one, can set it (`LiveFlag`). `DropExactlyOnceCorrect`: in plain functions nothing is lost
either. `OnceInv` says that a binding is empty outside its storage, where the
analysis is sure of it (`DefiniteIsMoved`), and while its flag is clear, except
between the store of its let and the flag's setting. `SkippedIsEmpty`, the centre of
the proof, shows that these cover every binding whose drop is left out. Both theorems
hold for functions that leave scopes by break, continue and return: to leave a scope is
to end the storage of what it drops (`SpanJump`), what is dropped there without a flag
is whole (`ExitIsWhole`), since a known move would be in the snapshot, and what is
skipped is empty (`SkippedAtExit`, `ExitLeaks`).

**Liveness** (`BorrowProofs`). `LivenessExact`: the result is exactly the set
of locals that some forward path reads before overwriting them. The invariant
has two halves: *founded*, every local in a set is there because of a path (so
there are not too many), and *settled*, a block off the worklist agrees with its
successors (so there are not too few).

**Borrows** (`BorrowProofs`). `NoUseOfBrokenCorrect`: under `OneCarrier`, `NoReborrow`,
`NoWriteThrough` and `NoBorrowedTest`, no accepted function uses, on any path, a
reference whose borrow a write, a move, a read or another borrow has broken. The
invariant `Inv` is `SoundTypeOK`, the `LiveIInv` of liveness, `CheckInv` and
`RunInv`. `CheckInv` is about the worklist: a block that is not on it was visited
since its predecessors changed, and that visit saw no conflict unless `errors` says
so. It speaks of `StateAt`, the states that a visit would see *now*, and not of
what is stored, since `equal` compares regions only: a block may keep an
out-state whose carriers are those of an earlier visit. `RunInv` follows the run:
what a *live* local holds is not broken, and is active with that local as carrier
(`Covered`). A statement keeps it because a conflict with an active borrow would be
an error (`Unbroken`, `CheckStopped`), and because pruning drops only what dead
locals carry, and liveness is exact by then (`LiveAround`). A jump keeps it because the
merge has an entry of each region that the predecessor ended with, and with one carrier
for each region it is the same entry; this is where copies_keep_alive fails. Each
premise is used: `JumpRun` has no proof without `OneCarrier`, nor `ExecRun` without
`NoReborrow`. `SoundTypeCorrect` says also that no block is on the
worklist twice. `OutStatesOnlyGrow`: while every borrow has one carrier, the state
stored at the end of a block never loses a borrow or its carrier. `GrowInv` says that
what is stored there is at most what a visit would store now; statements and pruning
are monotone (`WithNewGrows`, `WalkGrows`), and so is the merge, but only when each
region has one entry (`MergeGrows`): without `OneCarrier` TLC has a counterexample. It
is the safety half of `Settles`; what it leaves open is that a commit may store the same
entries in another number, since the code compares lengths too.

**Regions** (`RegionsProofs`). `ClosuresAreCorrect`: both in-place closures are
the least preorders over their edges, for any number of regions. The invariant
`RoundInv` compares the matrix with `start`, its value when the round began: in
round k the rows done hold `start`'s cells and those through k, which is true
although row k itself may have been rewritten, because it is rewritten to
itself. `VerdictIsCorrect`: a function is accepted exactly if the body's
lifetimes can be chosen for every choice of the caller that the declared facts
allow; the proof takes, for a pair that is not implied, the caller whose regions
hold one program point exactly if they are reachable from it, and for the
converse the extension given by reachability. `RejectionsAreBlamed`: the pair of
a rejection has a required edge on its chain.

**Lexer** (`LexerProofs`). `TokensAreLongest`: for every file, no token could have
been longer, and what lies between two tokens is blanks and comments.
`SpansAreTrue`: each token's line and column are those of its first byte.
The invariant `LexIInv` has two parts beside the types and the properties. `Located`
says that the line and the column *of the lexer* are true of the byte it stands at;
the span of a token is only a copy of them, so without it nothing is known of the
next. `Longest` speaks of the *byte* after a token, not of the next token: whether
two tokens touch is decided when the second is read, one step too late. Each branch
of the loop either moves over bytes that hold no newline, and the column grows by
their number (`MovedIsTrue`), or runs one of the two inner loops that count lines
themselves: `StringEnds` and `CommentEnds` show by induction along the loop that the
counters they hand back are true where they stop. That no newline hides in a word, a
number, an escape or a character of several bytes is a lemma each; a character of several bytes
needs that a continuation byte is none. The one column of a builtin's sign is in
the definition of the true column, as the code has it.

**Variances** (`VarianceProofs`). `LeastVariances`: when the rounds end, the slots
marked invariant are the least set that holds what stands under `&mut` and is closed
under the declarations, whatever their number and recursion, in whatever order a
round visits them; and the rounds were at most one more than the slots.
`VarIInv` is the argument. `NoneTooMany`: what is marked is in every closed set,
since a walk that marks a slot shows why (`WalkIsKnown`). `VisitedMarked`: a declaration
that this round has visited has its marks, those *of the snapshot*, since a walk reads
the variances as the round found them; `SettledIsWhole`: a round without a
change has therefore visited all of them with the final table. `RoundsCounted`: each round
before this one has added a slot. `PositionIsInvariant` is the lemma on types: the
position that `Compose` computes down a type is invariant exactly if some step on the
way is.

**Loops** (`LoopProofs`). What a recursive function over 0..n computes is proved for any
length: it is a sequence whose values are found by induction for a set (`Least`,
`Induction`, `Iteration`), which is derived from the library's theorem that strict
inclusion of finite sets is well-founded.

## 6. What is only model-checked, and what is not modelled

* *Termination* (`Terminates`, `Settles`, `AlwaysSettles`, and the liveness in
  `ImplementsSource`): liveness under fairness is beyond the proof system.
* `NoUseOfBroken` without its preconditions does not hold; copies_keep_alive has the
  program. That the borrow worklist ends (`Settles`) is liveness,
  and only checked; that what it computes grows is proved.
* `DropExactlyOnce` without `Plain`, and `NoDoubleDrop` without its preconditions, do
  not hold; the findings and the list below say what the code does there.
* The parser, patterns, inference, closures, the graph builder and the back end:
  checked only. Their operators are recursive over syntax trees and types, in modules
  that declare RECURSIVE operators, which the prover does not reach; and what a
  definition computes by recursion over a tree needs an induction over data. What a
  *loop* computes is within reach (`LoopProofs`), and a type that is only walked is a
  set of nodes in `Variances`, with no recursion left.
* The programs of the analyses were lowered by hand after `build.rs`; that the
  builder makes graphs of this kind with the paths of the source is what
  `frontend` shows on programs of its own.

Not modelled:

* Of closures: the types, lifetimes and type parameters of the struct and its impls,
  constants and jumps in a body, and writes through a captured exclusive reference
  (`*p = e`). The model records a function's names as such; `FnOnlyReads` leaves out
  closures that `call_mut` a captured closure, and `LoweredIsAccepted` those that call
  one by its bare name: for both the code does not do it (see below). After this pass a
  closure is a struct with an impl, which the back end treats as any other.
* `dyn`: vtables and their calls, object safety.
* Name resolution, use scopes, visibility, preludes; method probing and coherence;
  lifetime elision; the expression checker beyond `Subst`, matches and lets.
* Safety check; the impls that `derive` writes; module sections and LEB128.
* The standard library, as compiled code.

Met while reading, and not the subject of a run:

* Flags are looked up by name (`codegen.rs:3829`), only parameters and lets get one
  (`codegen.rs:1619`, `4779`, `4873`), and none leaves the list when its scope ends.
  A pattern's binding that is moved on some paths has none: the lookup panics
  (`codegen.rs:1936`), or finds the flag of another binding of that name. The proof
  of `NoDoubleDrop` failed at this, and `FlagsKept` excludes it.
* A binding that is declared without a value, `let x: P;`, and then assigned field by
  field keeps its entry `Uninit`, and is never dropped; `WholeStores` excludes it.
* A flagged binding that is declared without a value starts with a clear flag that no
  assignment sets (`codegen.rs:4869` says so): it leaks. `FlaggedByLet` excludes it.
* The bindings of a let-else are in the list of locals while its else block is emitted
  (`codegen.rs:4923`): a return there drops them although they hold nothing yet.
  `ExitsListed` asks for bindings in storage, which excludes it.
* `moves.rs:38` says entries are pairwise non-prefix; `mark` after a field move
  keeps both.
* `moves.rs:130` describes a widening to Moved where the code widens to
  MaybeMoved.
* The replay (`moves.rs:364`) does not exempt moves through raw pointers, which
  the transfer does.
* Temporaries have no storage end and are never dropped.
* `cfg.rs` says `Local(0)` is the return slot; `lower_return` does not assign
  it.
* `borrows.rs:5` describes pruning by liveness after each statement; the first
  statement of a block still sees borrows whose carrier is live only on the
  other branch.
* `closure_lower.rs:775` says that a shadowed captured name is rewritten wrongly; the
  copy tracks shadowing since, and `CallsDoTheSame` shows it does.
* `typeck/methods.rs:1329` says a call that takes `&mut` of a captured variable makes
  it a mutation; the `call_mut` of a captured closure returns before that
  (`methods.rs:766`). Together with writes through a captured exclusive reference,
  which are no mutation either, closures that mutate get the `Fn` impl.
* A captured closure that is called by its bare name (`typeck/mod.rs:7278`) is not
  recorded as captured; the second check does not find it.
* The second check of a closure's body starts from an empty use scope
  (`typeck/mod.rs:467`): what the function sees by `use` is not seen there.
* An inner `move` closure that mutates its copy makes the outer one take the variable
  by exclusive reference, and lose its `Fn` impl.
* The initialisers of the struct literal carry node id 0 (`closure_lower.rs:455`), and
  `mono.rs:1986` and `build.rs:1453` look up constants by node id: if node 0 of the
  function is the use of a constant, the captured variable is replaced by it.

## 7. Plan

In order of importance. Modules that a theorem is to be proved about declare no
RECURSIVE operator, have their parameters as constants with named assumptions,
and state invariants as conjunctions of named parts.

1. *Done*: the analyses of borrowck, and drops; the lexer, the parser, patterns
   and exhaustiveness, inference variables, variances, closures, the graph builder;
   monomorphisation, layout, code generation, and the refinement of the source's
   meaning.
2. `Dataflow`: chaotic iteration over a worklist, as an abstract specification
   with a transfer and a merge; `Liveness`, `MoveAnalysis` and `Borrows`
   implement it under a refinement mapping. Theorem: each step maps to a step
   or a stutter.
3. Vtables; constants in closures.
4. `Vec` of the standard library on the bump heap.
5. Use scopes, globs and visibility; method probing. LEB128.

Theorems worth proving next: a bound on the visits of the borrow worklist under
`OneCarrier`, from `OutStatesOnlyGrow` and the same for an out-state's length, which the
code compares too (an entry may be there twice); and `BindingsFit` for one pattern, with patterns as sets of nodes like the types of
`Variances`.

## 8. Running

    tlc -config MCMovesAndDrops.cfg MCDropElaboration
    tlc -config MCFrontend.cfg MCFrontend
    tlc -config MCBackend.cfg MCBackend
    tlapm MoveSoundnessProofs.tla
    tlapm LexerProofs.tla

`PROJECT.json` lists every run with its module and configuration, the source
lines each definition models, the mutant that shows each property can fail, the
hazards, and the findings.
