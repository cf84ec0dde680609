# The cminus-f compiler in TLA+

TLA+ models, TLC runs and TLAPS proofs for the compiler in this repository: a
single-threaded C++ program that translates cminus-f, a small C dialect, to an
SSA intermediate representation (lightir), optimises it and prints LLVM IR or
x86-64 assembly. Nothing runs concurrently and nothing is persisted; what is
hard is the interplay of data structures that several passes update in turn:
use lists, dominator tables, stacks of current values, register maps, lists of
instructions that are filled out of order. The models keep that control and
abstract names, constants, formatting and arithmetic.

Paths below are relative to the repository root; `PROJECT.json` gives the
lines of every definition.

## Inventory

| component | state | operations | interacts with | what makes it correct |
|---|---|---|---|---|
| Lexer, parser (`src/parser`) | flex/bison automata, tree of productions | `parse`, one `node(...)` per production | builds the tree the AST is made of | the tree of a program's structure; which structure a text has is the generated automata's work |
| AST (`src/common/ast.cpp`, `include/ast.hpp`) | tree of nodes | `transform_node_iter`, printer | read by the builder | lists flattened in source order, optional parts kept, everything in its place |
| `CminusfBuilder`, `Scope` (`src/cminusfc/cminusf_builder.cpp`, `include/cminusf_builder.hpp`) | insert point, scopes, `expressionValue`, `varAddress`, current function | one `visit` per node | creates blocks, edges and instructions of lightir | innermost binding of a name; operands computed before use on every path; blocks end in one branch or return; branch structure of `if` and `while` |
| lightir (`src/lightir`) | use and operand lists, blocks with predecessor and successor lists, instruction lists, uniqued types | `set_operand`, `replace_all_use_with`, `remove_use_of_ops`, `delete_instr`, `Function::remove`, `set_instr_name`, ... | shared by all passes | until a value is replaced its use list names exactly the places that hold it; no operand is deleted; names are unique; operands have the types their instruction needs |
| `Dominators` (`src/optimization/Dominators.cpp`) | post order, `idom_`, frontiers, tree | `run` and its four steps | reads edges, read by `Mem2Reg` | the tables are those of the graph; assertions hold; it ends |
| `Mem2Reg` (`src/optimization/Mem2Reg.cpp`) | work lists, phis, `var_val_stack` | `generate_phi`, `re_name`, `remove_alloca` | runs `Dominators`; edits use lists and instruction lists | SSA form; every load keeps its value; assertion holds |
| `LoopSearch` (`src/optimization/LoopSearch.cpp`) | CFG copy, Tarjan's stack, `base2loop`, `loop2base`, `bb2base` | `run`, `get_parent_loop`, `get_inner_loop` | reads edges | loops and bases are those of the graph |
| `CodeGenerate` (`src/CodeGenerate`) | register maps, least-recently-used lists, slots and `stackSpace`, two instruction lists per block | one generator per instruction, `stash`, `getEmptyRegister`, ... | reads the final IR | an operand is found where the maps say; slots do not overlap; caller and callee agree on arguments; phi copies act at once |
| Stub passes (`ActiveVars`, `ConstPropagation`, `LoopInvHoist`) | - | empty `run` | - | - |
| Driver, pass manager, logging, `io` library | - | options, files, pass order | calls the rest | - |

The pipeline is `src/cminusfc/cminusfc.cpp:23-151`: parse, AST, builder, then
with the options given `Mem2Reg`, `LoopSearch` and the stubs, then the code
generator or the printer. The build type is Debug (`CMakeLists.txt:6`), so
assertions are part of the program.

## Modules

| module | models |
|---|---|
| `Cfg` | control-flow graphs, and dominance, immediate dominators, frontiers and the dominator tree *defined from the graph*: the reference |
| `Dominators` | `Dominators::run` on one function, one action per loop step or call |
| `DominatorsProofs` | theorems about `Dominators` |
| `CfgProofs` | lemmas about dominance that the proofs of `Dominators` and `Mem2Reg` share |
| `MCDominators` | graphs for TLC |
| `Mem2Reg` | `Mem2Reg::run` on one function, its dominance tables taken from `Cfg`; the completion of phis when they are printed |
| `Optimizer` | `Mem2Reg` composed with `Dominators`, as `Mem2Reg::run` composes them; implements `Mem2Reg` |
| `Mem2RegProofs` | theorems about `Mem2Reg` and `Mem2RegRun`, and that `Optimizer` implements `Mem2Reg` |
| `MCOptimizer` | graphs of seven blocks and programs on them |
| `Mem2RegRun` | what `Mem2Reg` promises: the original program and the result executed side by side, the result also as the backend's copies |
| `MCMem2Reg` | programs for TLC |
| `Operands` | abstract: instructions, their operands, replacement everywhere |
| `UseDef` | `Value`, `User` and the instruction lists, with the use lists; naming; implements `Operands` |
| `UseDefProofs`, `MCUseDef` | theorems about `UseDef`; symmetry for TLC |
| `Ast` | the nodes of the syntax tree |
| `Parser` | the tree of productions of a program, and `transform_node_iter` |
| `Ir` | types of lightir, and what each instruction's operands have to be |
| `Builder` | the visits of `CminusfBuilder`, `Scope`, and the `IRBuilder` calls they make |
| `BuilderTypes` | which programs are well typed; the properties of what is generated: operands' types, scopes, ends of blocks |
| `BuilderRun` | what the builder promises: the program and the blocks it was turned into, run on symbolic values |
| `BuilderProofs` | theorems about `Builder` |
| `MCBuilder` | programs for TLC |
| `LoopSearch` | `LoopSearch::run` on one function, and the look-ups other passes make |
| `LoopSearchProofs` | theorems about `LoopSearch` |
| `MCLoopSearch` | graphs for TLC |
| `RegisterAlloc` | the register maps and the instruction generators that use them, with the contents of registers and slots |
| `RegisterAllocProofs` | theorems about `RegisterAlloc` |
| `MCRegisterAlloc` | registers and values for TLC |
| `Frames` | stack slots, prologue and epilogue: `getAddress` and `AsmFunction::generate` |
| `FramesProofs` | theorems about `Frames` and `CallStack` |
| `CallStack` | the generated calls, prologues and epilogues when they run: `%rsp`, `%rbp`, the stack |
| `MCCallStack` | functions for TLC |

A definition whose name ends in `Bug`, `Reversed`, ... is the definition below
it with a plausible mistake. Nothing refers to it; it documents which mistake
each property detects.

### Dominators

`pc` is the phase: the depth-first walk (`dfs`), the sweeps of `create_idom`
(`sweep`, `meet`), the frontier loops (`frontier`, `run`), the tree. `stack`
holds the calls of `post_order_visit` in progress; `order` is
`reverse_post_order_` before it is reversed; `id` is `post_order_id_`; `f1`
and `f2` are the fingers of `intersect`. Predecessor and successor lists are
sets walked in any order, which covers the order the code walks them in. A
pointer that would be null is `NoBlock`.

Graphs satisfy `IsFunctionCfg`: the builder never branches to the entry, and
every block is created as the target of a branch whose edge is recorded (a
branch emitted behind a `return` in the same block keeps its edge).

### Mem2Reg

A program keeps the loads and stores of local variables. `calls` is the
recursion of `re_name`, `stacks` and `keys` are `var_val_stack` (a key stays
in the map when its vector has become empty, which is what the assertion trips
over), `subst` is the effect of `replace_all_use_with` on loads, `dead` is
`wait_delete`. The dominance tables are the reference ones of `Cfg`; `Optimizer` puts those of
`Dominators` in their place. `back()` of an empty vector is undefined in
C++; the model returns `Garbage`.

`Mem2RegRun` executes original and result along any path, one instruction, copy
or entry into a block at a time. `LoadsPreserved` compares, at each load of a
variable that has been written, the memory cell with what the load's users read
in the result. Values that are neither loads nor phis are the same in both:
`home` is the block that computes them, and each entry into it makes a new one.

`slots` is what the backend's code leaves in the values' slots:
`phiInstGenerate` turns a phi into copies, one at the end of every predecessor,
executed one after the other. `EndBlock` finds the copies of the block's
successors (`CopiesAt`), `CopyPhi` makes one. The phis of a block are in the
order of a set of pointers, so the copies are made in any order. They stand
before the branch and are made for all successors, also the ones that are not
taken. `spoiled` becomes true when a copy reads a phi that an earlier copy at
the same place has overwritten, as the exchange of two variables in a loop
makes it do, or when a block is entered in which a phi is current that was
overwritten for another successor (`Lost`), as happens behind a loop that is
left at its end. There the backend's code differs from the IR;
`CopiesSuffice` says that it differs nowhere else.

`StacksCurrent` is what `UseDef` asks of its caller: a load that has been
replaced is on no stack, so `replace_all_use_with` is never given a value
that was replaced before.

### Optimizer

`Mem2Reg::run` makes a `Dominators` object, runs it and reads its tables.
`Optimizer` extends `Mem2Reg` and instantiates `Dominators` so that `df` and
`kids` *are* `dom_frontier_` and `dom_tree_succ_blocks_`, tables an analysis
fills step by step. The refinement mapping to `Mem2Reg` substitutes, as long
as the analysis runs, the tables it is going to find; its last step must
therefore leave exactly those.

### UseDef

`uses` is `use_list_` of every value, `operand` and `arity` are `operands_` and
`num_ops_`. `set_operand` adds an entry and removes none, so the list of a
value that has been replaced is stale. The abstract module `Operands` has no
lists: replacing a value replaces it wherever it is an operand.
`ImplementsOperands` says that going through the list does the same, which
needs that the callers use no value after they replaced it (`Usable`; for
`Mem2Reg` this is `StacksCurrent`). Instructions are nodes without opcode; an
instruction without operands that stays stands for arguments, blocks and
constants. `set_instr_name` is called at any time, as the driver calls it
before the passes and each `print` calls it again.

### Ast, Parser and Ir

`ParseTree` is the tree the actions of the grammar build for a program,
`Transformed` what `transform_node_iter` makes of it. `TreeRead` says it is
the program again. Two productions lose something and are not written by the
programs: a variable or parameter of type `void`, which becomes `float`
(`ast.cpp:56`, `:117`). Names beyond 30 characters are cut when the node is
made, and literals are not told apart.

`Ir` says, for each constructor of `Instruction.cpp`, what the operands' types
have to be; `Fits` (`BuilderTypes`) gives each instruction of the builder to its constructor. `assertValid` is not called by any of them, so nothing in the
program checks it; `InstructionsFit` does, for everything the builder emits.

### RegisterAlloc

The generator's maps (`lru`, `held`, `in`) are kept next to what registers and
slots would *contain* (`reg`, `slot`) if the code emitted so far were run: a
content is the value whose result is there, or `Junk`. Each action is one
generator of `CodeGenerate.cpp`, with the register requests and look-ups in
its order. After a call and at a block's head the registers are `Junk`.
`misread` collects operands that were not found where `getPosition` said;
`lost` and `halved` remember the two ways the code can lose one. Registers of
a class are interchangeable, so the list starts in its initial order although
a later function inherits the order an earlier one left. `halved` are
pointers that were in a register at a `stash`, which saves all integer
registers with `movl`: the upper half of an address is lost
(`AsmInstruction.hpp:234`); `OperandsFound` excepts them.

### Frames and CallStack

`Frames` generates one function after the other. `space` is `stackSpace`,
`offset` is `valueToAddress`, both globals of the code. Values ask for their
slot in any order, which covers the order of blocks and instructions. `phase`
separates the instructions of the blocks, whose requests the prologue takes
into account, from the returns, which are generated after it
(`FrameFixed`). `frames` keeps what was emitted.

`CallStack` runs the emitted frames: `main` and any calls among the functions.
Addresses grow with the stack, so a slot `-8(%rbp)` is `rbp + 8` here. Each word
remembers the activation and the value it was written for; `FramesIntact`
compares. `passed` are the parameters the callee found. A call with arguments
on the stack fails twice: the callee reads them in the wrong place
(`frames_stacked`), and the `addq` after the call counts all operands beyond
six although only those without a register were pushed; `strayed` remembers the
second, and the other properties are about executions without it. The stack has
`MaxByte` bytes: a call that would leave it is not followed, nor is one whose
`%rsp` an earlier `addq` has moved below the stack's top.

### Builder

The visitor is recursive. `agenda` is what the visits in progress have still to
do, first thing first: a syntax-tree node on it is a call of `accept`, any
other item what a visit does after its children have returned (`Branch` after
the condition of an `if`, `Store` after the right-hand side of an
assignment, ...). Each action is one visit, or one such rest of a visit.
`val` and `addr` are the globals `expressionValue` and `varAddress`, `cur` the
insert point, `scope` the scopes, `code` the blocks with their instructions.
`aborted` is the assertion at the end of `typeConvert`. Values carry their
type, because the conversions depend on it, but no number.

`BuilderTypes` says which programs are well typed. The judgements `Typing` are a
set that holds, with each of its members, those its rule asks for (`Rule`): a
recursive definition of the type of an expression would be one the prover
cannot use. `Straight` are expressions that index no array, in the same way.
The rules are those of the language and what the visits take for granted; none
of the visits checks them. A name may be hidden, a function may call itself or a
library function, and numbers and comparisons convert into each other freely.

`BuilderRun` holds a small interpreter of the language, written from
`Documentations/common/cminusf.md`, and one of the blocks. Both record the
tests, stores, calls and returns a run makes, in order, with symbolic operands.
`SameBehaviour` compares the two for every sequence of outcomes of the first
`Depth` tests, when the builder is done. `GeneratedBehaviour` runs the blocks
in the order the code generator lays them out instead: branches after
everything else, returns after branches. It does not hold of a `return` inside
a conditional, whose `ret` is laid out behind the jump the conditional adds
(`CodeGenerate.cpp:80`) and never reached; it holds of programs whose blocks
end at their first `ret` (`GeneratedBehaviourIfLast`).

### LoopSearch

`calls` is the recursion of `traverse`, `stack` Tarjan's stack, `index` and
`lowlink` are those of the nodes. `index_count` is how many nodes have a
number, `onStack` is being on the stack. `succs` and `prevs` are the copy of
the edges the pass cuts, `graph` the edges themselves, from which `NaturalLoop`
and dominance define what is to be found. The sets of pointers the code walks
are walked in any order. `Parents` gives every answer `get_parent_loop` can
give, for some order of the predecessors.

## Runs

Each module has one type invariant. Those of `Mem2Reg`, `RegisterAlloc`,
`LoopSearch`, `CallStack` and `Builder` are a conjunct of an invariant of the run
(`StacksFollowCalls`, `RegisterMapsAgree`, `LoopsNest`, `FramesIntact`,
`ScopesFollowVisits`). All are proved.

| run | question | bounds, and why they are enough |
|---|---|---|
| `dominators_small` | do the assertions hold, are the tables right, whatever the graph and the order? | every graph on 4 blocks (up to renaming): joins, loops, nested and irreducible ones; more than 2 successors included because a `while` whose condition indexes an array has 4 |
| `optimizer` | do the two passes together what `Mem2Reg` does on the true tables, do both end, do sweeps only move up? | three graphs of 7 blocks with three programs each; `Ladder` needs two sweeps in some orders |
| `mem2reg` | is the result SSA and equivalent, do the backend's copies keep it so, and what of variables not written on every path? | 4 graphs with 3 blocks of 5 instruction sequences each, with the variables written in the entry or not; two nested loops with an `if`, where frontiers are iterated; 2 variables, exchanged, copied and given a value of another block, copies in every order; paths of 9 blocks go round every loop |
| `registers` | do the maps agree, is every operand found, short of the two ways an operand can be lost? | 2 integer registers and 1 float register for 4 and 2 values and the scratch values: every displacement and reuse; calls with an argument |
| `frames` | do slots, frames, arguments in registers and returns hold up, however calls nest? | four functions: every kind of value, two arrays, a global used by two of them, seven parameters in registers, eight integers; 4 calls, 3 deep |
| `usedef` | are use lists, operands and names right under every sequence of operations? | 3 instructions of at most 2 operands: one is replaced, one used, one user; a value used twice by one instruction; printings in between. The proofs have no bound |
| `builder` | is the tree read back, does every block end in a branch or return, are the conversions there, and do the blocks do what the program says? | some forty expressions in six places each under names that are hidden twice; two levels of conditionals, loops and blocks in one another; 4 tests per run go round a loop three times or take every arm |
| `loops` | are the loops, bases, innermost and parent loops those of the graph, whatever the order? | every shape of graph of 4 blocks with at most 2 successors, behind two blocks; six graphs of 6 blocks with siblings, three levels, several entries |
| `mem2reg_unassigned`, `registers_displaced`, `builder_indexed`, `frames_stacked` | findings, see below | - |

Some properties have a precondition that is the negation of a finding, so that
what remains is still checked in the same run:

* `NothingDangles` and part of `PhisComplete` speak of programs that write every
  variable in the entry block (`WrittenFirst`); `LoadsPreserved` of loads of variables that have been written.
* `CopiesSuffice` speaks of executions in which no copy has overwritten a phi
  that was still needed.
* `FramesIntact`, `ReturnsHome`, `CallsAligned` speak of executions in which
  every call popped what it had pushed.
* `OperandsFound` excepts the operands that were displaced to the wrong slot
  or halved by `stash`.
* `EveryBlockEnds` speaks of programs that test no loop on an array element
  (`LoopsTestStraight`).
* The programs of `builder` test no loop on an array element and compute
  nothing with the result of a comparison: a comparison is an `i1`, which the
  arithmetic visits take for "not an int", so `(n < 1) / 2` is divided in
  float (`cminusf_builder.cpp:356`) where `Documentations/common/cminusf.md`
  makes it the integer 0 or 1.
* `LoopsAreNatural` and `ParentsEnclose` speak of reducible graphs, the
  second of loops entered by a `br` only, as the builder lays them out;
  `get_parent_loop` looks at one predecessor, which in other graphs need not
  be in the parent loop.

Fairness: `OptSpec` and `FairSpec` of `LoopSearch` ask for weak fairness of the
whole next-state relation. The program is one thread and no step waits,
so it goes on as long as it can.

TLC's `CHECK_DEADLOCK FALSE`: every model stops when its pass returns.

## Findings

* `mem2reg_unassigned`: a variable written in one branch only aborts the
  compiler at the assertion of `Mem2Reg.cpp:130`. `var_val_stack` keeps an
  entry with an empty vector, and the code takes the entry for a value.
* `registers_displaced`: `getEmptyRegister` saves a displaced register to the
  slot of the *new* value (`AsmInstruction.hpp:310`), not to that of the
  displaced one, which later reads a stale slot.
* `builder_indexed`: `visit(ASTIterationStmt&)` puts the branch on the
  condition into the block the condition *started* in
  (`cminusf_builder.cpp:215`). The test of an index has ended that block
  already, so the loop's test is lost.
* `frames_stacked`: `AsmFunction::generate` reads the arguments that are on the
  stack from `0(%rbp)` upwards (`AsmInstruction.hpp:154`), where the saved
  `%rbp` and the return address are.

## Proofs

The theorems hold for every value of the constants that satisfies the named
assumptions, which TLC evaluates on every run:

| assumption | why the code justifies it |
|---|---|
| `RootAssumption`, `BlocksAssumption` (`Cfg`) | a function has an entry block and finitely many blocks |
| `GraphsAssumption` (`Dominators`, `LoopSearch`): `IsFunctionCfg` | see *Dominators* above |
| `ProgramsAssumption` (`Mem2Reg`): `IsFunctionCfg`, `IsSsa` and `HomesDominate` | the builder names each load once and computes a value before it is used |
| `ValsAssumption` (`Mem2Reg`), `NoBlockIsNone` (`Optimizer`), `NoBlockAssumption` (`Dominators`) | the model's names for values and null differ |
| `KindAssumption`, `RegsAssumption` (`RegisterAlloc`) | every value has a class; each class has registers, none in two lists or twice in one |
| `FunctionsAssumption` (`Frames`), `UsersAssumption` (`UseDef`) | array lengths and operand counts are numbers; instructions are not other values |
| `TypingAssumption` (`BuilderTypes`): every program satisfies `ProgramRule`, every judgement its `Rule` | the visits take it for granted, see *Builder*; `Programs` may hold any number of programs of any size |
| `StraightAssumption` (`BuilderTypes`) | `Straight` holds only expressions that index no array |
| `StackAssumption` (`CallStack`) | there is a `main`; the numbers of registers, of calls and of bytes of the stack are numbers |

Paths do not occur in the proofs. That x reaches y is that y is in every set
that holds x and is closed under the edges; that d dominates x, that the
blocks without d closed from the entry need not hold x. An argument "along a
path" is one of such sets, and an argument by induction looks at the least
number with a counterexample. `LeastNatural` states that once, through
`NatLessThanWellFounded`: the library's induction theorems take the statement
as a parameter, which the provers cannot instantiate. `CfgProofs` shows from it
that dominance is an order, that the dominators of a block are a chain, that
the immediate dominator exists and is unique, and how the edges bound it.

### DominatorsProofs

For every graph, every finite set of blocks and every order of the walks.

* `TypeCorrect`: `Spec => []TypeOK`.
* `InductiveInvariant`: `Spec => []IInv`. The invariants are not inductive
  alone. During the walk, the stack is a path, numbers agree with positions
  in `order`, and every block but the entry that is numbered has a
  predecessor that is on the stack or has a greater number (`LaterPred`). So
  in reverse post order each block has a predecessor that the sweep has
  treated (`PredProcessed`). During `intersect`, the fingers never fall below
  where they started, so the candidate is numbered after the swept block.
  `AssertsNeverFail`, `RunnerSafe`, `DominatorsClimb` follow.
* `TablesAreRight`: `Spec => []ResultsCorrect`. No entry is ever too high: what
  dominates a block stays on the chain of its entries, for the fingers stop
  at the first block that is on both chains (`NotAbove`,
  `FingersNotAbove`). When a sweep has changed nothing, no entry is too low: each is on
  the chain of every predecessor (`SweepFixed`), so the blocks for which
  an entry does not dominate would be closed under the edges. The frontier loops and the tree
  then read true immediate dominators (`RunnerInv`, `FrontierInv`,
  `TreeInv`).
* `SweepsRaise`: `Spec => IdomOnlyRises`. `RiseInv` follows the first sweep: the entries dominate along
  the edges that go down in post order (`ForwardIdom`), no common ancestor of
  a block's treated predecessors is below its entry (`BelowMeet`), and the
  fingers pass none (`FingersBelow`). Chains then only lose blocks
  (`ForwardChains` for the blocks a sweep is past), so the next meet is not
  lower.

### Mem2RegProofs

For every program, every order of the work lists and of the walk of the
dominator tree. One invariant (`PassInv`) in five layers, each used by the next:

* `StackDiscipline`: `Spec => []StacksFollowCalls`. The blocks not yet entered are those below a child
  still to visit; the calls in progress are a branch of the tree; a block's
  pushes are those `re_name` is going to pop, so a stack's height is the
  number of pushes of the calls in progress.
* `NothingStale`: `Spec => []StacksCurrent`. The name of a load not met yet stands for itself only, and
  nothing else stands for it, so what is pushed is never replaced
  afterwards. This is what `UseDef` asks of its caller (`Usable`).
* `SsaForm`: `Spec => []DefsDominateUses`. What is on a stack was pushed by a call in progress, hence by a
  block that dominates the current one.
* `OperandsComplete`: `Spec => []PhisComplete`. A phi's operand from a predecessor is missing only if no
  definition of its variable dominates that predecessor: otherwise one of
  the calls in progress has pushed one.
* `NoneLeft`: `Spec => []NothingDangles`. With every variable written first in the entry, no stack is empty
  when it is read, so every load is replaced.
* `Implementation`: `OptSpec => ImplementsMem2Reg`. Steps of the analysis are stutters except for its
  last, which leaves the tables that `TablesAreRight` describes
  (`TablesFound`), the ones the mapping already showed.
  `SweepsRaise` carries `SweepsOnlyRaise` over to the composition.

### Mem2RegProofs: the execution

For every program, every path of any length and every order of the copies. A
*site* of a variable is a store of it, or line 0 of a block where it has a phi;
`Reaches` says of a site that it is the last, in the order of dominance, of those
that come before a line.

* `ReachingDefinitions`: `Spec => [](PassInv /\ ReachInv)`. The top of a stack
  is the value of the site that reaches the line `re_name` is at, whatever call
  is in progress (`StackInv`), hence what replaces a load (`LoadsInv`) and what
  a phi gets from a predecessor (`FillsInv`). For a store of a loaded value the
  load must have been treated before (`StoresDone`). When the work lists are
  empty, the frontier of every block that gives a variable a value has its phi
  (`FrontierInv`): that is the iterated frontier without a fixed point being
  mentioned.
* `RunInvariant`: `RunSpec => [](ValueInv /\ SlotInv)`. A cell that was written
  holds the value of the site that reaches the line executed (`CellsHold`). The
  hard step is the edge from a block to the next without a phi there: a site
  that reaches the end of the predecessor dominates the successor too, or the
  successor would be in its frontier (`EdgeReached`), and none is in between
  (`EdgeKeeps`). With a phi, its operand is the value at the end of the
  predecessor (`EdgeGives`). Loads and what stands for them then agree
  (`LoadsSame`), of all loads executed in blocks that dominate the current one,
  whose values no block entered since has changed. Slots agree for the values
  that are current, but for the phis of the copies made at this place
  (`SlotsHold`); a copy that was not needed any more may overwrite what it likes.
* `ValuesPreserved`: `LoadsPreserved`; `CopiesStand`: `CopiesSuffice`.

### BuilderProofs

For every set of well-typed programs, of any size and nesting.

The agenda is what the visitor has still to do, and what it finds when it gets
there is decided by visits that are not finished. So the invariant says of the
agenda that it *runs*. A description names what later visits depend on: the
types the scopes bind names to, the type of `expressionValue`, that of
`varAddress`, or "any" where nothing reads it any more. `Step` says for each kind
of item from which descriptions to which it leads: a node by its typing rule,
the rest of a visit by what it was put there for, such as `Store`, which needs a
value that converts to the type its address points to. `Runs` chains the items.
`Inv` is `Beginning`, while the global variables are declared, or `Working`: the
agenda runs from a description that matches the state (`Matches`), the scopes
bind names to addresses that exist and have the type the description says
(`ScopeOK`), and every instruction fits and uses values made before (`CodeOK`).
One lemma per action (`VisitAssignWorks`, `BranchWorks`, ...) shows that the items put in
place of the head run from what now holds to where the head led. Code only
grows, so what was said of older values stays true (`ValueStays`, `ScopeStays`).

* `CodeWellFormed`: `Spec => []TypeOK`. `ConversionsSucceed`: `ConversionsHold`,
  as an expression leaves in `expressionValue` the type its rule gives it. `InstructionsWellTyped`: `InstructionsFit`.
* `ScopesPairUp`: `ScopesFollowVisits`. `ScopeInv` counts the exits on the agenda;
  the number of scopes is one more in every state (`Counted`).
* `BlocksTerminated`: `EveryBlockEnds`, for programs that test no loop on an array
  element (`builder_indexed` shows why). `ControlInv`: a block without a
  terminator is the insert point, or the agenda comes back to it (`Covers`); the
  insert point is only moved behind a branch; while the condition of a loop is
  computed, the insert point stays in the block the loop began with, as every
  item before the loop's own is straight (`StraightItem`). One lemma per action
  describes what it does to the agenda, the code and the insert point (`Moves`),
  and `ControlMoves` shows once that such a move keeps the invariant.

### RegisterAllocProofs

For every list of registers and every set of values.

* `AllocationInvariant`: `Spec => []IInv`. The lists of each class are permutations of its registers
  (`Listed`), the two maps are inverse (`Agree`), a value's register is in its class
  (`OwnClass`), registers and slots contain the values the maps name,
  for the values that were neither displaced nor halved, and the registers
  not handed out since the last `stash` come first and are empty
  (`EmptyFirst`). One lemma per helper (`getPosition`, `getEmptyRegister`,
  a write, `stash`), then one per generator.
* `MapsAgree`: `RegisterMapsAgree`; `OperandsAreFound`: `OperandsFound`.
* `NoneDisplacedEarly`: `Spec => NoEarlyDisplacement`, an action property: no
  value loses its register before all registers of its class have been handed out.

### LoopSearchProofs

For every set of graphs of the builder's form and every order of the walks.

* `SearchInvariant`: `Spec => []IInv`. What is left of the graph is the edges among the nodes left and
  those the bases had to them (`GraphInv`); Tarjan's stack and the calls agree
  (`StackInv`, `CallsInv`), a visited node not on the stack reaches
  nothing on it (`VisitedInv`), each node on the stack is reached from the call below it and
  reaches one with the number of its `lowlink` (`TreeInv`, `LowInv`). So what is popped is a component: connected, as no proper part of it
  is closed in it, and convex, as it is the difference of two closed
  sets (`SccInv`). What was found so far nests (`LoopInv`).
* `ComponentsHaveBases`: `BaseFound`, the loop of `find_loop_base` never comes
  back without a base. In a first round a component is entered from outside, since all blocks are
  reachable; in a later one it had a base before, and its edges to the rest are kept.
* `LoopsAreNested`: `LoopsNest`; `InnermostLoops`: `InnermostFound`.
* `NaturalInvariant` adds two things to `IInv`. Whatever is connected, has
  several blocks and is finished is inside a component found (`FoundInv`: what a
  call takes from the stack is convex, so it holds such a set or misses it). And
  the bases taken out are headers, each with its natural loop, and include the
  header of every loop they are in (`NaturalInv`), so that a loop whose header is
  left is left with all its blocks and edges (`LoopLeft`).
* `LoopsFoundAreNatural`: `LoopsAreNatural`. In a reducible graph a connected set
  has a block to which only back edges lead inside, or a smallest set
  in which every block has another edge would have none that could end it; this block dominates the set
  (`EntryDominates`). So a component is inside the natural loop of that block
  (`ConnectedInLoop`), which is connected and therefore inside the component, and no other block of it can be its base
  (`ComponentIsLoop`).
* `ParentsAreNext`: `ParentsEnclose`. A block that leads only to the header is in a
  loop exactly when that loop is around (`AroundIsEntered`), so its innermost loop is the parent.

### FramesProofs

For any functions, values, kinds and array lengths and any order of
requests, of `GenSpec`, the layout:

* `FramesInvariant`: `SlotsDisjoint` needs that all slots lie within the space
  counted so far (`WithinSpace`), so that a new one, which ends beyond it with
  room for its own bytes (`GrownEnough`), meets none; `FrameFixed` needs that
  whatever a return asks for has its slot before the prologue is emitted and
  that the space stays what the prologue took (`Settled`), with one frame per
  function (`OneFrameEach`).
* `FramesTyped`, `SlotsNeverOverlap`, `FramesFixed` follow.

And for any number of functions with any parameters, any numbers of argument
registers, and every sequence of calls and returns, of `Spec`, the execution:

* `RunInvariant`. The frames of the layout are `Complete` when the code runs:
  everything the function writes has its slot inside what the prologue
  reserved, apart from the others, and what is reserved is a multiple of 16
  (`LayoutInv`). `FramesIntact` is not inductive alone: it needs that the
  frames in progress follow each other, each on the arguments and links above
  the one before, with `%rsp` at the end of the last (`FramesLinked`), and that
  activations are told apart (`CallsInOrder`). A call then writes only beyond
  `%rsp` (`FrameMemory`, in the order arguments, links, parameters, locals),
  which leaves the words below as they are (`IntactStays`). `CallsAligned` needs
  the alignment of every base in progress (`BasesAligned`), as a call with an
  even number of pushes keeps that of its caller's frame.
* `ArgumentsInRegisters`: the caller counts the arguments of one class before
  the i-th, the callee the floats or the others; the counts are the same
  (`RegistersAlike`) and differ from argument to argument (`RegistersDiffer`).
* `FramesStayIntact`, `CallsReturnHome`, `StackStaysAligned` follow; a return
  pops what the call had pushed or sets `strayed`.

### UseDefProofs

For any finite set of instructions, any other values and any number of
operands.

* `UseDefInvariant`: `UsesExact` is not inductive alone: an instruction in a
  list must have no operand that has been replaced (`NoneReplaced`), or
  deleting the instruction or replacing the operand again would act on a stale
  list; names are below the counter and distinct (`Numbered`).
* `UseDefTyped`, `UseListsExact`, `NoDeletedOperand`, `NamesStayUnique`.
* `UseListsImplementOperands`: `Spec => ImplementsOperands`, each step of
  `UseDef` is a step of `Operands` or a stutter, given the invariant.

### Only model-checked

* Termination of `Optimizer` and of `LoopSearch`: liveness is out of the
  prover's reach.
* `TreeRead`, `SameBehaviour` and `GeneratedBehaviourIfLast` of `BuilderRun`. The
  trees of productions and the two interpreters are `RECURSIVE` operators, which
  the prover cannot use, and what they compute for every program is an induction
  over data. `Parser` and `BuilderRun` are modules of their own for that
  reason: the theorems about `Builder` reach no recursion.

## Not modelled

* Lexer and parser: which productions a text has is decided by the automata
  flex and bison generate (the dangling `else`, precedence). The tree each
  production builds is modelled.
* The AST printer, the text of instructions, types, constants and
  initialisers, logging, the `io` library: input and output.
* The driver: option parsing, then one call after the other. (Without
  `-emit-llvm` it deletes the `.ll` it has written; no model depends on it.)
* The stub passes: their `run` changes nothing. `ConstFolder`,
  `Dominators::create_doms`, `User::remove_operands` and
  `BasicBlock::erase_from_parent` are never called.
* `dump_graph` of `LoopSearch`.
* Registers and frames in one model: `RegisterAlloc` takes for granted that
  slots keep their contents, which is what `Frames` and `CallStack` show.
* Modules with several function bodies in the builder: a body is built with the
  scope of the globals and the functions before it, which one function with
  globals and the four library functions has.

## Plan

The models are done, and every invariant and action property the runs check is
proved but for those listed under *Only model-checked*. What could be added is
a model of several functions in one module (see *Not modelled*), and one of
registers and frames together.
