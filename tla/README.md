# A TLA+ model of nac3

nac3 compiles a statically typed subset of Python (kernels for the ARTIQ
real-time platform, or standalone programs) to machine code through LLVM.  This
directory holds TLA+ modules of it, of two kinds.  Some model parts whose
correctness depends on an order of steps: the thread pool that generates code, the
unification table, the run-time library's slab allocator and reference counts.  The
others follow a program through the compiler's passes and set beside each what Python
does with the same program: the composer of top-level definitions, expressions,
builtin calls, a function's variables, and exceptions and `with` lowered to basic
blocks.  TLC checks them on small instances; for the pool, the slab, the reference counts
and the unification table, TLAPS proves the safety properties for every instance, and for
the composer that its tables of definitions agree, for every program.

- [The system](#the-system)
- [Modules](#modules)
- [Runs](#runs)
- [Bounds, fairness, abstractions](#bounds-fairness-abstractions)
- [Proofs](#proofs)
- [Where code and documents disagree](#where-code-and-documents-disagree)
- [What is not modelled](#what-is-not-modelled)
- [Plan](#plan)

## The system

Paths are relative to `src/`; `codegen/`, `typecheck/`, `toplevel/` stand for
directories of `nac3core/src/`, `irrt/` for `nac3core/irrt/irrt/`.

A compilation goes: parse (`nac3parser`) → register top-level definitions
(`toplevel/composer.rs`) → infer types of every function body
(`typecheck/type_inferencer` feeding `typecheck/typedef`) → generate LLVM modules
in a pool of threads (`codegen/`) → link (`nac3artiq/src/lib.rs` or
`nac3standalone/src/main.rs`).  The kernel then runs with the C++ run-time library
`irrt/` linked in.

| Component | State it keeps | Operations | What is hard | What makes it correct |
|---|---|---|---|---|
| code-generation thread pool (`codegen/mod.rs:354-510`) | FIFO channel of tasks, `task_count` with a condition variable, `panicked` flag, list of bitcode buffers, one LLVM module per worker | `create_workers`, `add_task`, `worker_thread`, the monitor threads, `wait_tasks_complete` | interleaving of workers, monitors and the main thread; Err and panic between any two steps; a condition variable | every needed instance is in exactly one delivered module; no failure passes as success; waiting ends |
| monomorphisation (`codegen/expr.rs:700-880`) | per definition, `instance_to_symbol` and `instance_to_stmt` under one `RwLock` | `gen_call`, `gen_func_instance` | check under the read lock, insertion under a later write lock | an instance is created once and queued once |
| unification table (`typecheck/unification_table.rs`) | parents, ranks, values, undo log | `find`, `unify`, `set_value`, snapshots, `get_send` | look-ups rewrite state; undo must undo them too | restoring is exact; ranks bound the forest |
| unifier (`typecheck/typedef/mod.rs`) | the table, calls, cache, at most one open snapshot | `unify`, `unify_call`, `instantiate_fun`, intersections of ranges | nested snapshots, failures deep in a recursion, calls met before their function | the table is the least congruence of what was agreed; a refusal is justified and leaves no trace |
| type inferencer, magic methods (`typecheck/type_inferencer/`, `magic_methods.rs`) | variables, defined identifiers, the return type, virtual checks left for later | a rule for each form of expression, statement and pattern; special calls | the rules and the lowering are two tables of the same operators, kept apart | an accepted construct can be generated, with the type inferred |
| function check (`typecheck/function_check.rs`) | the defined identifiers of a scope, whether it returned | `check_block` and what is below it | branches that define variables, ends of scopes | every use is definitely assigned; every path returns |
| top-level composer (`toplevel/composer.rs`, `helper.rs`, `type_annotation.rs`) | definition list, names of each module, tables of methods and fields, constructors | `register_top_level` and the steps of `start_analysis`, each a pass over the definitions | order of passes and definitions; inheritance resolved by name and by id; two parsers of annotations | a class has Python's ancestors, methods and fields; no object without a field |
| builtins (`toplevel/builtins.rs`, `codegen/builtin_fns.rs`, `numpy.rs`) | none | signatures, special rules of the inferencer, callbacks that generate code | the three are written apart; special rules do not look at the signature | what fits the signature is generated and computes what the host computes |
| statement and expression lowering (`codegen/stmt.rs`, `expr.rs`) | LLVM builder, loop/return/exception targets, variables with their static values | `gen_try`, `gen_with`, `gen_assign`, loops; a function per form of expression | finalizers on every way out, each generated twice; what the generator believes of a variable after a branch | blocks and values are what Python does; `critical` blocks balanced; counts kept |
| reference counting (`irrt/reference/`, `codegen/types/reference.rs`, `codegen/mod.rs:650-670`, `stmt.rs:148-238`) | one header per object: count, CTRC bit, type info | increment, decrement, walk of the children | recursion through objects of two allocators; host objects with count 0 | count = references; nothing dangling; freed at once |
| CTRC slab (`irrt/ctrc/`) | pages of cells with intrusive free and drop lists, a stack of pages with free cells, nesting depth | `reserve`, `pop_free`, `defer_drop`, enter and exit | lists threaded through dead objects' headers; overflow; drops that re-enter a pop | cells partitioned; promised capacity kept; no growth between entry and exit |
| host objects (`nac3artiq/src/symbol_resolver.rs`) | `global_value_ids`, globals per module | `get_obj_value` and its cases | workers of different modules share the table | each host object is defined once and declared elsewhere |
| timeline and ARTIQ code generation (`nac3artiq/src/timeline.rs`, `codegen.rs`) | `now`, `end` of nested blocks | `with parallel`, `with sequential`, RPC, write-back | nested blocks | `now` advances by the longest branch |
| run-time algorithms (`irrt/list.hpp`, `slice.hpp`, `range.hpp`, `math.hpp`, `string.hpp`, `ndarray/`) | none | pure functions on buffers | signs, emptiness, overlap | same result as Python |
| parser, linker, DWARF (`nac3parser`, `nac3binutils`) | lexer's indentation and nesting | tokenising, relocating | — | — |

Components meet in four places.  The pool calls `gen_func_impl`, which calls
`gen_call` for each call in a body, which creates instances and calls `add_task`
on the same pool from inside a worker.  Every worker owns a unifier built with
`from_shared_unifier`; types travel between them only through the shared form of
the table.  The code that `gen_assign` and `gen_func_impl` emit drives the
reference counts, and these use the slab for objects made inside `with critical`
and `malloc` for the others.  The host resolver is called from the workers while
the interpreter lock is held by the calling thread only for the time of a
resolution.

`PROJECT.json` lists all components with what is modelled of each, and under
`hazards` the places in the code that tests hardly reach, each with the properties
that cover it or the reason why none does.

## Modules

```
Compilation        abstract: request and build instances, succeed or fail
  ^ implements
WorkerRegistry     the pool, the main thread of both drivers, monitors, gen_call's locks
  PoolInvariants   inductive invariant                           MCWorkerRegistry
    WorkerRegistryProofs   counting, stopping, failures; what reaches the linker; the refinement

CellPool           abstract: a set of cells to reserve, allocate, drop
  ^ implements
CtrcPages          data structure: pages, free lists, drop lists, stack of pages
  CtrcSlab         the slab under a program with nested blocks     MCCtrcSlab
  RefCount         objects of both allocators, counts, walks       MCRefCount
  CtrcPagesProofs  intrusive lists; reserve, pop_free and defer_drop keep the slab
    CtrcSlabProofs       the slab under its clients
    RefCountHeapProofs   what each operation does to headers, fields and walks
      RefCountProofs     the program

Classes            abstract: keys in classes, a value for each, one point to go back to
  ^ implements
UnificationTable   data structure: forest, values, undo log
  TableUse         the table under any caller that keeps to the snapshot protocol
    UnificationTableProofs   walks end, restoring is exact, the refinement
  Unifier          unify and everything below it
    UnifierReference  congruence closure, properties               MCUnifier

Lowering           stmt.rs: from statements to basic blocks
PythonControl      reference: Python's statements on a stack of frames
  LoweredRun       runs blocks and reference side by side         MCLowering

TypeAnnotations    annotations and what they refer to
  Analyses         two parsers of annotations, defaults, fields assigned
  Composer         registration and start_analysis, step by step, for any analyses
    ComposerProofs the tables of definitions agree
    ComposerReference  Python's classes, with Analyses            MCComposer

ExprTyping         the rules of operators and expressions
  ExprLowering     LLVM types and meaning of the generated code
    PythonExpr     reference: Python's evaluation
      Expressions  an expression typed, generated, executed       MCExpr
    BuiltinTyping  signatures, special rules of the inferencer
      BuiltinLowering   the code of each builtin
        Builtins   a call typed and generated; what the host computes   MCBuiltins

StatementTyping    types of a function's variables
  FunctionCheck    definite assignment and return
VariableCode       slots and static values of the generator
    Variables      a body typed, checked, generated, executed beside Python   MCVariables
```

**WorkerRegistry.**  Variables: `channel` (the crossbeam channel of
`Option<CodeGenTask>`, `None` is `Stop`), `task_count` and `count_lock` (the mutex of
`task_count`), `waiting` (the main thread is parked on the condition variable),
`panicked`, `monitor[w]` (the thread that joins worker w), `instance_to_symbol` and
`def_lock` (the table of instances and the write locks of the definitions), and per
thread a program counter, its task, the calls still to generate and the instance it
is creating; `module[w]`, `errors[w]`, `buffers`.  Each statement that touches shared
state is an action: `AddTaskCount` and `AddTaskSend` are the two of `add_task`,
`CallHit`/`CallMiss` the look-up of `gen_call`, `NewInstance`/`InstanceExists` the
second look-up under the write lock, `GenOk`/`GenErr`/`GenPanic` the three ends of a
generation, `MainLock` … `MainJoin` the steps of `wait_tasks_complete`.  The constant
`RootOnMain` selects the driver: nac3standalone queues the root, nac3artiq generates
it in the main thread and pushes its own module last.

**Compilation** is what a caller may rely on: instances are requested by instances,
built when their callees are requested, and the compilation succeeds only when all
that was requested is built.  It has no threads, channel or count.

**CtrcPages** is the slab's data structure as pure operators on a record: page
stack `last_page`, per page the free and drop lists, the link of a cell stored in
its refcount word, `num_free_cells`.  `reserve`, `pop_free` and `defer_drop` are the
C++ functions.  **CtrcSlab** drives them with every program of nested critical
blocks; **CellPool** is its promise: capacity reserved on entry is available until
exit, dropping returns a cell, a failed entry changes nothing.

**RefCount** adds headers, fields and the walks.  A walk is recursive in the C++;
here its call stack is `heap.walks`, one frame per `walk_children` in progress, and a
step is one call of `refcount_decr`, so that properties are checked between any two
of them.  The program is the set of emitted operations (`Copy`, `Store`, `Release`,
constructors, entering and leaving a block), in any order.  In some initial states
`Globals` are live: objects of the host that were compiled into the kernel with a
refcount of 0.

**UnificationTable** has the table's methods as operators from tables to tables: `find`
splits the path it walks and logs each parent, `table_unify` links by rank, `restore_snapshot`
undoes the log from its end.  **TableUse** runs them in any order, with the two rules the
unifier adds (`typedef/mod.rs:684-695`, `945-948`): of nested snapshots the outermost is kept, and
it is restored or discarded at most once.  It is more general than any unifier, which also
restores only on an error.  **Classes** is the table as a caller understands it, without parents,
ranks or log.

**Unifier** translates `unify`, `unify_impl` by arms, `unify_call`,
`instantiate_fun`, `subst`, `get_intersection` and `check_var_compatibility` as
recursive operators from a unifier to a unifier, so that the path splitting of each
look-up, the log and the snapshots are all there.  A program is a set of registered
types and pairs to unify in any order, interleaved with look-ups and with moving
the unifier to another thread.  **UnifierReference** does not use the table: it
computes the congruence closure of the pairs that were agreed to from the types as
registered.

**Lowering** is the control part of `stmt.rs`.  A generator `g` is what `CodeGenContext`
keeps of it: the blocks so far (`g.code`), the block the builder is in (`g.at`), and
the targets `loop`, `ret`, `unwind` and `catch` (`loop_target`, `return_target`,
`unwind_target`, `outer_catch_clauses`).  Each operator takes a generator and returns the
one that has generated a statement.  `GenTry` and `GenWith` share `GenRegion`, since
`gen_with` is "copied and trimmed from gen_try" (`stmt.rs:2220`); its parts follow the code
in order: `RegionBody`, `RegionHandlers`, `LandingPad`, `NoMatch`, `Finalizers`.
**PythonControl** knows no blocks: a state is a stack of frames (rest of a block, loop,
try, finally, exception being handled).  **LoweredRun** executes the generated blocks,
one instruction per step, and tells the reference what each call and test did.

**Composer.**  The state is what `TopLevelComposer` and the module resolvers keep:
`defs` (`definition_ast_list`, with a DefinitionId as index), the names each module's
resolver finds, the class of a method, the type variables, and the errors of the step.
`register_top_level` is one action per item; each step of `start_analysis`
(bases, ancestors, methods and fields, inherited members, function signatures,
constructors, instances, exception constructors) is one action per definition,
in the code's order, which is where an analysis that reads a class not yet analysed
would show.  A program says of a body whether its inference succeeds, whether it
returns and which virtual checks it asks for.  **TypeAnnotations** has the definitions and
annotations, and one level of parsing an annotation.
**Composer** takes the analyses that recur over syntax as CONSTANT operators; **Analyses** defines
them: the composer's parser (`parse_ast_to_type_annotation_kinds` and
`get_type_from_type_annotation_kinds`), the symbol resolver's (`parse_type_annotation`) of the
same syntax, the values of defaults, `get_all_assigned_field`, and `Ways`, the executions of a
constructor as it is compiled.  **ComposerReference** has Python's order of classes.

**Expressions.**  `phase` goes `parsed`, then `typed`, `rejected` or `panicked` (an
assertion of the inferencer), `generated` or `stopped`, `executed`.  `Infer` is the type
rules, `Shape` the LLVM type that the generator builds or the panic or ill-typed instruction
it ends in, `Run` the meaning of the code: machine integers of the width of the type, lists
and tuples as sequences, an array by one of its elements, a float by a fraction, and the
calls made, in order.  `Py` evaluates the same tree with unbounded integers, floor division
and short circuits, and leaves a *note* where the language is documented or known to differ.

**Builtins.**  A call is a name with positional and keyword arguments.
`build_builtin_of_prim` gives its signature, `try_fold_special_call` the inferencer's own
rule for it, `gen_builtin` the LLVM type and the value of its code; `Host` is what
`interpret_demo.py` runs the demos with.

**Variables.**  A body is typed (`fold`), checked (`check_block`) and generated
(`gen_block`); `VariableCode` keeps the slot of each variable, its counter and the host object
it is known to hold, and `restore_var_assignment` after branches.  Then both the body
and the code are executed on every outcome of unknown tests: an execution is the
sequence of the values shown and how it ended.

## Runs

| Run | Config | Question | Distinct states |
|---|---|---|---|
| `pool_standalone` | `PoolStandalone.cfg` | With failures anywhere: is everything generated once and delivered, is every failure reported, is the abstract compilation implemented? | 80,868 |
| `pool_artiq` | `PoolArtiq.cfg` | The same with the root on the main thread: is its module last, do both waits end? | 33,192 |
| `pool_lost_wakeup` | `PoolLostWakeup.cfg` | Does waiting end whatever fails?  Violated: finding 1. | – |
| `slab` | `Slab.cfg` | Do the lists partition the cells, is the promise of a block kept, is the cell pool implemented? | 230,651 |
| `refcount` | `RefCount.cfg` | Are counts exact and objects freed at once, at each step of every walk, and are host objects harmless as long as the kernel does not assign them? | 906,828 |
| `unifier` | `Unify.cfg` | Is the table the least congruence, is a refusal justified and traceless, are polymorphic functions instantiated? | 74,629 |
| `lowering` | `Lowering.cfg` | Do the generated blocks call, test and end as Python does, with the right exception in each dispatcher, and would LLVM accept them? | 252,398 |
| `lowering_critical` | `LoweringCritical.cfg` | Does the exit of a block run on every way out?  Violated: finding 2. | – |
| `expressions` | `Expressions.cfg` | Can every accepted expression be generated, with the right LLVM type, and does it compute what Python computes?  Does CatSeq refuse exactly the divisions by a constant zero? | 437,403 |
| `builtins` | `Builtins.cfg` | Is the signature of a builtin what its code needs, and does the code compute what the host's function computes? | 145,884 |
| `variables` | `Variables.cfg` | Does an accepted body read no unassigned variable and return where it must, and does its code show what Python shows? | 342,210 |
| `composer` | `Composer.cfg` | Do accepted classes have Python's ancestors, methods, layout and constructors, is no field left unassigned, do the two annotation parsers agree?  Do the tables of definitions agree at every step, and does a definition keep its identity? | 4,763 |

What the properties say is written above each of them.  The ones that carry most:

- `WholeProgram`: when the compilation returns, each instance reachable from the
  root is in exactly one buffer.  Breaking it takes a loss in one worker and a
  missing report in another thread much later.
- `FailureReported`, `MainModuleLast`, `NothingBehindStop`, and `RequestsClosed`, which is only
  proved: the order in which counting, stopping, delivering and linking must happen.
- `Completes`: unless a worker panics, neither wait of the main thread misses its
  notification.
- `EveryCellOnce` (in `SlabInv`) and `CellsSurviveWalks`: each cell is in one place, also while
  `pop_free` releases the children of the cell it has just popped, which may push
  cells onto the page it is popping from.
- `PromiseKept`: a block entered with n cells gets n allocations, whatever inner blocks
  do, even when requests wrap around `size_t`.
- `RefcountExact`: at each step of each walk the count is the number of names plus
  the fields of live objects plus the fields dropped cells still owe.
- `Sound`, `MostGeneral`, `Complete`: the table against the congruence closure in
  both directions, and every refusal against a contradiction of it.
- `RollbackExact`: after a refusal every type stands for what it stood for, and the log
  is as long as before.
- `SameAsPython`: at every call, test, end of a handler and end of the function,
  the generated code is where the reference is.  A finalizer that is skipped or run
  twice, a target that is not restored, a handler out of order all break it.
- `Emitted` and `SignatureSuffices`: the type rules accept nothing that the generator, written
  apart from them, cannot generate; the gaps that exist are named in `KnownGaps`.
- `ZeroDivisorsRefused`: in the CatSeq profile a division is refused if, and only if, its
  divisor is a constant that is zero by the arithmetic the profile documents (`ProfileValue`,
  written apart from the fold).  It is about what the inferencer folds.  What the generated code
  divides by is `CatSeqDivides`, which the code violates ([below](#where-code-and-documents-disagree)).
- `NoUnboundRead`, `ReturnsChecked`: a check of the text against all executions.
- `SameUses`: a static value that outlives the branch it came from shows here, when
  an attribute of the wrong object is read.
- `FieldsInitialised`: `get_all_assigned_field`, which follows calls of methods by name, against
  all executions of the constructor, which calls them by definition.
- `DefinitionsAgree`, `DefinitionsStable`: a `DefinitionId` is an index that five tables share while
  the list behind it grows and is rewritten; a class is known by its position in the list, by its
  name in a module, by its methods and by its descendants.  An object of a class must be usable
  where one of its parent is (`ExtendsParent`): the lists are copied from the parent while other
  classes still wait for theirs, so that the order of the steps matters.

Every property of a passing run has a mutant of the code beside the definition it
changes (`\* Mutant:` …) that the property catches; `PROJECT.json` pairs them.

## Bounds, fairness, abstractions

**Pool.**  Two workers and five instances of three definitions: a diamond whose
sides are two instances of one definition and share a callee that calls itself, and
an instance nobody calls.  Two workers suffice for every race of two threads on one
instance; a third party is there with the main thread (in `pool_artiq` it generates,
too) and the monitors.  By hand the standalone configuration was also run with
three workers (459k states without failures, 2.8M with), with the same result.
`MayErr`, `MayPanic` and `BadBackend` name the instances whose generation and the
workers whose final `with_context` closure can fail; they cover the root, a middle
and the shared instance.

Fairness: `FairSpec` gives weak fairness to each thread's steps.  The justification
is the scheduler's: a runnable OS thread runs eventually.  No fairness is given to a
particular branch: which call is generated next, or whether a generation fails, is
free.  The main thread wakes only when it has been notified (`MainWake`): the condition
variable is `parking_lot`'s (`codegen/mod.rs:37`), which has no spurious wake-ups.

**Unification table.**  `TableUse` has no bounds.  `generation`, a `u32`, is a natural there: it
would take 2^32 snapshots of one table to wrap.  `update_all_with` is left out: only `subst_vars`
calls it, which has no caller.  No snapshot is open when a unifier is shared:
`get_shared_unifier` is called between modules, not from below `unify`.

**Slab.**  Two pages of three cells, blocks nested two deep, requests of one, two,
three and eight pages; `size_t` has four bits, pages of five bytes, so that
growing by three pages wraps the byte size and eight pages wrap the cell count, and
two pages are what `malloc` can give.  Three cells are enough for a list with a
middle, two pages for a page stack with more than a top, and each page can be
exhausted and come back from either list.  `malloc` may fail at any time.

**Reference counts.**  One malloc'd slot and a page of two cells, two
fields per object, three names in scope, one block deep.  Three objects in two
allocators give every shape a walk distinguishes: a child held twice by one parent,
cycles of one, two and three objects, a cell that owes the last reference to a heap
object that holds the last reference to another cell of the same page.  In half of the
initial states there are two host objects as well, one the attribute of the
other; a name that the host's program has for one takes one of the three places.
The kernel reads them, stores them in its objects and passes them on, but
assigns none of their attributes (`StoresIntoHost = FALSE`; what happens otherwise is
below).  Fairness: weak fairness of `Walk`, since a walk is straight-line code.
Counts are unbounded naturals; the 32-bit word cannot wrap with an address space of
that size.

**Unifier.**  A call of `unify` is one step: a unifier belongs to one thread.  Hash
map iterations are in a fixed order.  Five programs of 12 to 14 types, three unifications each,
in every order and also repeated, with at most one logged look-up outside of
`unify`.  Type names, field names and variable ids are members of small sets.
Literals, constant generics and error messages are left out.  The ranges in the
programs are ground.  No liveness: the operators are total, recursion of the code
that does not end would be one of TLC.

The reference ignores calls of polymorphic functions, which have no least
congruence; `CallsInstantiate` is about them, and `Complete` and `MostGeneral` are
restricted to programs without.

**Lowering.**  Sixteen shapes of statement (a `try` with the nested block in its body,
a handler, `else` or `finally`, with none, one or two handlers, a handler for
everything, with and without finalizer; `with`; both arms of `if`; loops and their
`else`), each with each of them inside, five leaves (a call that may raise either of
two exceptions, `return`, `raise`, `break`, `continue`), in a loop or not: of 2560
combinations, 1932 are programs that `Agreeing` admits.  `Agreeing` names, one conjunct
each, the constructions in which the lowering is known to differ from Python (finding 2
and the list below it), so that the run shows that at this depth there are no others.  Two
tests may come out true (`MaxTests`), so that a loop is entered, left and entered again.
Calls raise or return as they like, so finalizers also run while an exception
passes.  Statements that only compute are calls that raise nothing; `with` has one
item, whose `__enter__` does not raise.

The unwinder and `__nac3_raise`, `__nac3_resume` and `__nac3_end_catch` are not in the
repository; the model takes them as the generated code uses them: a landing pad stops what
its clauses name, and everything if it has the cleanup flag; a caller catches what
leaves the function; exceptions being handled form a stack.  An exception that a second
one replaces stays on it, which is why a bare `raise` occurs in one shape only.  The
release of locals in `finalize` and `lpad` is in RefCount.

**Composer.**  174 programs: constructors of two classes (14 bodies of the child's
by two of the parent's and two of a helper method), hierarchies of three generations
with each kind of override, generics with ranges, defaults of every form, exceptions,
two modules under the ARTIQ driver with each decorator, the CatSeq profile.  59 are
accepted (two of them with ancestors in either order), 102 end in an error and 13 in a panic.  `DefinitionsAgree` and `DefinitionsStable` are about every step of
all of them, the other properties about the accepted ones.  `MaxInline` (4) is the depth of calls inlined into a constructor before the
model takes the recursion to be endless; no other chain of calls in the programs is longer.
`FieldsInitialised` is restricted to bodies without loops and `try` and to names that
are unique, `AnnotationsAgree` to names that are not both a field and a method; the
differences outside are below.

**Expressions.**  30,000 expressions: every operator on each pair of 38 operands (names of
every type, constants, calls, and expressions of their own), comparisons and chains, boolean
operators, conditionals, subscripts, displays, calls with positional, keyword, missing and
repeated arguments, comprehensions over lists and ranges, and `//` and `%` by an operator on two
constants (`Constants`), which the CatSeq profile folds.  Types of 32 and 64 bits have
4 and 5 bits, enough for a sum, product, power or shift of the values to leave them, and for
a division at the minimum.  Three environments give every sign, zero, an empty list, and a
call that raises; two profiles.  `SameAsPython` is about evaluations without notes; the notes
are: a result out of its type's range, a quotient for which truncation and
floor differ, an exponent or a float that is not a number here, `~` of floats, an equality of
lists used as a number, an operand of a chain that Python skips and has an effect, a receiver
and an argument that both have one, a comprehension's target that shadows a variable, and a
boolean operator of three operands.

**Builtins.**  Every builtin on every one and two of 27 arguments (one or more per type,
negative, zero and halfway values, computed and loaded bools, literals), on three
integers, and ten keywords: 72,000 calls.  Floats are halves, so that rounding has ties; int64
has 6 bits.  `KnownGaps` and `Exempt` name the known disagreements.  Functions on
reals and linear algebra have types and no values.

**Variables.**  60,000 bodies: five starts, a compound statement (seven kinds of it, every
block of one or two statements, every `else`, handler or finalizer of a small set), five
ends; unpackings with and without stars, attributes of every kind of object, nested
compounds, and `with` blocks whose target has no type until a record of its attributes meets
one (`wants` holds such records).  `LoopBound` follows two iterations of a loop, on the model's assumption that
the third adds no new kind of state: the static values and the sets of assigned variables
change in the first.  Both sides cut the same executions.  `SameUses` is restricted by
`TrulyStatic`, `NoUnboundRead` by its first conjuncts: each names a known disagreement.  Globals
are never assigned in a body (the `global` statement is refused).

**Common.**  Rust's `Arc`, channel and lock types are assumed to do what they
document.  A panic unwinds to the thread's end and releases the locks it held:
`parking_lot` does not poison them.  The other threads learn of it only through the flag `panicked`
that the worker's monitor sets, which ends the compilation.
Generated LLVM code, formatting and I/O are left out.

## Proofs

Every safety property of the pool, slab and reference-count runs is a theorem, and so are
both refinements; `TypeOK` and `RequestsClosed` of the pool are proved and in no run.  The theorems about the unification table are about `TableUse`, which
no run covers; the `unifier` run checks the same operators inside the unifier
(`RollbackExact`, `ShareKeepsMeaning`).  Of the composer's run the two properties of the
definitions are theorems.  Each argument is an inductive invariant, with one lemma or step for
each action and below it one for each part of the invariant the action can disturb.

| Theorem | Statement | Module |
|---|---|---|
| `Invariance` | `Spec => []IInv` | `WorkerRegistryProofs` |
| `TypeCorrect` | `Spec => []TypeOK` | |
| `CountCorrect` | `Spec => []CountExact` | |
| `NoDuplicateInstance` | `Spec => []InstanceOnce` | |
| `StopIsLast` | `Spec => []NothingBehindStop` | |
| `FailuresReported` | `Spec => []FailureReported` | |
| `NoLateRequest` | `Spec => RequestsClosed` | |
| `DeliveryInvariance` | `Spec => []PoolInv` | |
| `LinksWholeProgram` | `Spec => []WholeProgram` | |
| `LinksMainModuleLast` | `Spec => []MainModuleLast` | |
| `PoolImplementsCompilation` | `Spec => ImplementsCompilation` | |
| `SlabInvariance` | `Spec => []SlabInv` | `CtrcSlabProofs` |
| `SlabPromise` | `Spec => []PromiseKept` | |
| `SlabImplementsCellPool` | `Spec => ImplementsCellPool` | |
| `CountingInvariance` | `~StoresIntoHost`: `Spec => []IInv` | `RefCountProofs` |
| `CountsAreExact` | `~StoresIntoHost`: `Spec => []RefcountExact` | |
| `NothingDangles` | `~StoresIntoHost`: `Spec => []NoDangling` | |
| `CellsHaveOnePlace` | `~StoresIntoHost`: `Spec => []CellsSurviveWalks` | |
| `RecursionIsBounded` | `~StoresIntoHost`, `HostAcyclic`: `Spec => []RecursionBounded` | |
| `TableInvariant` | `Spec => []Inv` | `UnificationTableProofs` |
| `FindsEnd` | `Spec => []RanksGrow(table)` | |
| `RestoreIsExact` | `Spec => []RestoreExact` | |
| `ClassesAreKept` | `Spec => ImplementsClasses` | |
| `ProbesFindValues` | `Spec => []Probed` | |
| `InvariantHolds` | `Spec => []IInv` | `ComposerProofs` |
| `ComposerDefinitionsAgree` | `Spec => []DefinitionsAgree` | |
| `ComposerDefinitionsStable` | `Spec => DefinitionsStable` | |

**Assumptions.**  `PoolAssumption`: finitely many workers and instances, distinct
constants.  `SlabAssumption`: a page has cells and bytes, and the cells of all pages
`malloc` can give are at most `SizeMax`; the requests of programs may overflow it.
`ClientAssumption` and `RefCountAssumption`: requests and the nesting bound are naturals,
the sets of addresses are disjoint and finite, host objects refer to host objects.
`ProgramsAssumption`: the statements of a program, the bases and the body of a class and the
arguments of a base are lists; `MaxInlineAssumption`: a natural.  TLC evaluates all of them
in the runs.

### The pool

For every set of workers, call graph, assignment of instances to definitions, both
drivers and every set of failures.  None of the properties is inductive alone.  `IInv` (in
`PoolInvariants`) adds, in the order the argument needs them:

- `Typed`, `Control`: a worker has a task exactly while its program counter is one of
  the labels of the loop body; the main thread has sent no `None` before the
  first wait is over.
- `Known`, `Unique`: an instance with a place (queued, being generated, in a module, about
  to be queued) has a symbol, and has one place only.  This is where the second
  look-up under the write lock is used.
- `CountExact`: preserved because each place that counts is entered by the increment
  and left by the decrement; needs `Unique`, since it counts a set of instances
  and not a bag.
- `Quiet`: after the first wait nothing is outstanding unless a worker panicked.  A
  zero of `task_count` read under the mutex means, by `CountExact`, that no worker has a
  task, and without a task nobody can request one.
- `Reported`: errors are on the worker until it panics, a panicked worker has not
  delivered; so the second wait, for one increment per worker, cannot end by count.

What reaches the linker needs more, `DeliveryInv`; `PoolInv` is both.

- `CallsKnown`: the calls of what was generated have symbols, those of a body in progress have
  one or are still to be looked up.  With `AllNeeded` the instances that have symbols
  are, in the end, those reachable from the root.
- `NothingLost`, `TaskInModule`: until something fails, an instance with a symbol is somewhere.
  `Quiet` excludes the queue and the threads when the compilation returns, so that it is
  in a module.
- `BuffersExact`: a thread that delivered has one buffer, with its module.

For the refinement every action is mapped: `NewInstance` is a request, `GenOk` a build, an
error or a panic a failure of `Compilation`, the main thread's last step its success, and
all others stutter.

### The slab

For any page size, number of pages, `size_t`, requests and program.  The lists live in the
refcount words of the cells they chain, and an intrusive list is usually read back
by recursion.  `CtrcPages` reads it as the least set that contains what the head points at and
is closed under the links (`Following`), so that the lemmas about lists need no
induction: to push, to pop the head, or to write a link elsewhere makes a closed set of a closed
set, and the least one is inside it.  That a list ends (`Ends`) says that it has a last link, and
its members are then visited once each.

`SlabInv /\ PromiseKept` is inductive.  The conjuncts of `SlabInv` need each other: that a dropped
cell is on no list (`EveryCellOnce`) makes its refcount word free to hold a link; that the
page stack holds exactly the pages with a cell (`StackExact`) makes the cell popped an available
one; `CellCountExact` makes the test in `reserve` right, which `PromiseKept` rests on.  The record
lemmas are in `CtrcPagesProofs`, about any slab that is `Good` for given owners of its
cells, so that `CtrcSlabProofs` and `RefCountHeapProofs` both use them.

### Reference counts

For any number of objects in both allocators, any number of fields, references among them
that form any graph, any nesting of blocks.  The invariant has to hold between two
calls of `refcount_decr` inside a recursion, and in the middle of one: an assignment increments
the new value, stores it, and decrements the old one, and in between the counts are off by one.  The
parts are therefore stated with a debt:

- `Structure(h, P)`: the heap is typed, walks are over objects to be freed, cells being
  recycled or host objects, no object is reclaimed by two walks, host objects are as the host
  left them, the CTRC bit tells the allocator, and the slab is `Good` with the live cells,
  those being recycled and `P` as owners.
- `Refs(h, d, x)`: `RefcountExact` and `NoDangling` for a program that holds `d` and still has to
  release one reference to `x`; `x = Null` is no debt.

`refcount_decr(h, x)` takes a heap that owes `x` to one that owes nothing (`Decr`); to advance
a walk by one field, to store or to release a local makes the debt.  A field that a walk has
passed is no longer owned, and its referent is released in the same step, so that there is no
debt between two steps.  `IInv` is `Structure(heap, {})`, `Refs(heap, held, Null)`, and that cells are recycled
in critical blocks only.  That an object with count 0 that is not being freed is a host object, which
`refcount_decr` relies on when it walks and returns, follows from it.

`RecursionIsBounded` adds `Chain`: above a walk over a host object there are only walks
over host objects further down an order of theirs.

The two hypotheses are conditions on the kernel and its host that the code does
not enforce: without `~StoresIntoHost` three of the properties fail, without `HostAcyclic` the last
(both are in the table below).  The run's initial states satisfy them.

### The unification table

For any number of keys, any values, and any sequence of calls.  `Root` and the path that `find`
splits are defined by recursion along the parents, which is well-founded when ranks grow
towards the root: `ParentInduction` and `ParentRecursion` are induction on the distance of a rank
from the largest one, and `Roots`, `RootUnique` and `Paths` are what follows about look-ups.
Path splitting skips a key, so it keeps ranks growing and roots where they are (`Splitting`); a link
goes from the lower rank to the higher, or raises the winner's (`Linking`).

What makes restoring exact is that every change is logged, in the right order.  The inductive
invariant `Inv` says of an open snapshot:

- `WellFormed`: the table and the one saved with the snapshot have typed fields and logs, the
  same number of keys, and growing ranks.
- `LoggedSince`: the log is that of the snapshot and a tail `e`; and for each key, what the
  first entry of `e` about its parent, rank or value recorded (`Original`), or the present value
  if there is none, is what it was (`Undoes`).

`LoggedSince` composes (`LoggedTransitive`), so that each operation is considered alone,
`FoldUndo` shows by induction on the log that undoing from the end leaves for each key what its
first entry recorded, and `Restoring` puts both together.  A key made after the snapshot is not
removed by restoring, so the saved table receives it as well (`AddingToBoth`).

In the refinement `find`, nested snapshots and `get_send` stutter; `table_unify` is a `Merge`
or, of one class, a stutter; `set_value` is an `Assign`, and restoring a `Return`.  That a root always
has a value, so that the `unwrap` of `probe_value` succeeds, is then proved of `Classes`, where it is
simple.  `get_send` forgets the values of all keys but the roots, and path splitting never makes a
key a root.

### The composer

For every program of either driver, and whatever the analyses that recur over syntax return:
`ParseArgument`, `ResolveClass`, `GetType` and the others are constants of `Composer`, which
`Analyses` defines and the run gives to them, and no proof assumes anything of them.  So what is
proved is what the composer's own tables and the order of its steps ensure, however an
annotation is understood.

`IInv` is, in the order the argument needs it:

- `Typed`, `BuiltinsRight`: the shape of a definition, and the builtin classes in their places,
  which `PrimId` takes for granted.
- `Tables`: `NamesTaken` (the name of every definition of the program is in `defined_names`),
  `NamesUnique`, `MethodsOwned`, `ScopesRight`.  Registration tests a name before it takes it,
  for a class and all of its methods at once; later steps add definitions without a
  name of the program only.
- `ExtensionRight`: the constructors of exceptions, made one at a time and appended together.
- `Ancestry`: `AncestorsStart` (a class with ancestors is its own first, and a class not yet reached
  by the first step has none) and `HierarchyOrdered`.  The bases of a class are looked for
  among the definitions before it; a class that is found there has been given its own
  ancestors already, so that copying them is enough.
- `MethodsRight`: `MethodsInherited`, where a method is followed from a class to the class that
  declares it through every rebuild of the list of methods: the own ones at registration, the
  parent's put in front, with those of the class in the places of the ones they override.
- `Pending`: before the members of a class are analysed, its methods are its own and have no
  signature.  Hence no signature is written twice, which is the second half of
  `DefinitionsStable`.

`SignedSoFar` builds on it: what the steps for signatures and constructors have passed without an
error is signed.  `SignaturesGiven` follows, since a step with an error is the last.

`Layout` is for `ExtendsParent`: the parent of a class is before it, so that it has its members when
the class copies them, and no later step changes the members of a parent; a class whose members
are analysed has the parent's fields and attributes in front and overrides its methods in
their places.  The constructor that a class without one is given is the method that need not be
in a descendant.

`WithBase` folds over the bases and `WithMember` over the body.  The folds are recursive functions; that
they exist and are what their equations say is shown without induction theorems, from the
least number at which they would not (`LeastNumber`, `Climb`).  The steps are of few
kinds, and each kind has its lemma: it keeps the definitions but for one field (`KeptStep`),
appends definitions (`GrowStep`), gives a class its ancestors (`AncestorsStep`) or its members
(`MembersKept`).

### Only model-checked

- Liveness (`Completes`, `WalksEnd`): the prover does not handle `ENABLED`.
- The unifier, the lowering, the expressions, the builtins and the variables, and the agreement
  of the composer with Python (`ClassesAsPython`, `FieldsInitialised`, `AnnotationsAgree`).  Their
  operators are RECURSIVE, which the prover does not support: they walk syntax trees and
  types, and what they compute for every tree is an induction out of its reach.

## Where code and documents disagree

1. **Lost wake-up** (`codegen/mod.rs:429`, run `pool_lost_wakeup`).  The monitor sets
   `panicked` and notifies without the mutex of the condition variable, both of which
   can fall between the main thread's test of the flag and its wait; the compiler
   hangs instead of failing with "tasks panicked" (`codegen/mod.rs:462`).  With the
   notification under the mutex `AlwaysEnds` holds.
2. **Exits that are skipped** (`codegen/stmt.rs:1890`, `:1912`, run `lowering_critical`).
   `docs/ctrc.md:239` promises `__nac3_ctrc_exit` on every exit path.  The landing pad of a
   `try` without `finally` has no cleanup flag: an exception that none of its clauses
   names passes over the function, and with it the finalizers around the `try`.
   When an outer `except` does name it, the dispatcher of the inner `try` branches to the
   outer one's, past the `with` between them.  The depth of the mode stays raised.

The others were seen while modelling.  For some a change of a configuration shows
the violation:

| Disagreement | Change | Violated |
|---|---|---|
| An increment skips an object with count 0, a decrement walks its children (`irrt/reference/reference.hpp:234`).  A counted object that the kernel stored into a host object is freed while the attribute refers to it, although the count is "the live reference count" (`docs/refcounting.md:27`). | `RefCount.cfg`: `StoresIntoHost = TRUE` | `RecursionBounded`, `NoDangling` and `RefcountExact` |
| A decrement of an object with count 0 walks its children and has no mark of the objects on the way (`irrt/reference/reference.hpp:234`): releasing a host object on a cycle of host objects recurses until the stack overflows. | `MCRefCount`: `HostInit` with the first field of `g2` set to `g1` | `RecursionBounded` |
| The result of an operator's method is not unified with the result of the expression (`typecheck/typedef/mod.rs:758`). | `Unify.cfg`: `Programs <- OperatorPrograms`, `INVARIANT OperatorsAreCalls` | `OperatorsAreCalls` |
| With three tries inside each other, the phi of the outer dispatcher takes the value of the middle landing pad although control may come from the innermost one (`codegen/stmt.rs:1914`); verification fails and the worker panics. | `Lowering.cfg`: `Programs <- ThreeTries` | `Verified` |
| The comment of the CatSeq profile says that `//` and `%` floor (`toplevel/composer.rs:36`); the inferencer folds constant divisors so and must refuse one that is zero (`toplevel/test.rs:786`).  `gen_int_ops` does not look at the profile and truncates (`codegen/expr.rs:344`, `:409`): `i // (1 // (-2))` is accepted, since its divisor folds to -1, and divides by 0.  The comment adds that instruction selection for the target is not part of the profile; no later stage in the repository makes up for it. | `Expressions.cfg`: `Programs <- MCDivisions`, `INVARIANT CatSeqDivides` | `CatSeqDivides` |
| A static value known when a loop or `try` is entered is used in all its iterations and copies; a variable first assigned in a branch keeps that branch's value (`codegen/stmt.rs:818-819` says that it is removed). | `Variables.cfg`: `INVARIANT StaticKept` | `StaticKept` |

Lowering of statements, besides these:

- The `else` of a `try` is generated before its targets are restored (`stmt.rs:1753`), so
  that the statement's own handlers catch its exceptions; `break` and `continue` in the `else`
  of a loop refer to that loop and not to the one around it (`:1509` before `:833`);
  an exception of `__enter__` calls `__exit__` (`:2234`); `with a, b` evaluates b before it
  enters a (`:2081`).  An exception that skips the finalizers of finding 2 skips
  `lpad`, too (`codegen/mod.rs:952`), and with it the release of the locals.
- `gen_try` restores no variable: the two copies of a `finally` block start from different
  static values.  A handler's name gets a new slot, read uninitialised after the statement if
  the handler did not run.  `raise e` of a local variable fails at code generation.
- Iteration over a tuple is inferred and panics in `gen_for`; `for .. in enumerate(f())`
  evaluates the argument twice and reads the first element of an empty list; two starred
  targets pass the inferencer and hit an assertion; so does storing to a name of a module
  that is no kernel variable.
- The function check does not look at the reads of augmented assignments and assertions,
  and takes the body and the `else` of a `while` for one scope.

Expressions and builtins:

- `a and b and c` drops `c`.  Comparing a computed with a loaded bool, `(a < b) == c`, is an
  ill-typed instruction, as are `min`, `max`, `np_minimum`, `np_any` of them.  Equality of
  lists is 0xFF, `float()` of a computed bool -1.
- `/` of two integer arrays stores floats in an array of integers; arithmetic on bool arrays
  and `==` of tuples of different types or with arrays panic; so does the inferencer for an
  operator on two arrays of different element types (`typecheck/magic_methods.rs:422`).
- All operands of a chain are evaluated; the receiver of a call after its
  arguments; a comprehension writes to a variable of the function with the name of its target.
- `//` and `%` truncate, in every profile (table above); by zero, and of the minimum by -1, they
  are undefined.
- An unsigned exponent of 2^31 or more raises `ValueError`.  A range whose length or last step
  overflows allocates too little or does not end.
- Special calls never look at the signature: keywords out of order are taken by position,
  others are dropped; `np_dot(a, x2=b)`, `float(1, 2)`, `int32()`, `np_reshape` of a number
  and `np_array` of a scalar panic; a positional M of `np_eye` and copy of `np_array` are ignored;
  `np_dot` of matrices fails an assertion; `np_max` of an empty array reads past it.

Unifier and host objects:

- A plain tuple against a vararg tuple (`typecheck/typedef/mod.rs:1208`): the comment at 1192
  says every element is compared with the vararg's element; the code compares the
  first for each, and an empty tuple is an index out of bounds.
- `get_intersection` (`typecheck/typedef/mod.rs:1826`): the arm for two plain tuples
  pairs each element with the first of the other, so that a variable
  with range {tuple[A, B]} accepts tuple[A, A] (against the comment at 1060).
- Two record variables whose field has the variable's own type
  (`typecheck/typedef/mod.rs:1043`): fields read before the recursive calls overwrite
  what these merged, an attribute use is forgotten.
- `docs/ctrc.md:171` and `:175` say that an allocation from the drop list pays for
  one level and that heap children are never recursed into; `refcount_decr` calls
  `free_heap_object` (`irrt/reference/reference.hpp:205`), which recurses.  The bound that
  does hold is `RecursionBounded`.
- `get_option_value` (`nac3artiq/src/symbol_resolver.rs:1690-1741`) declares a global
  under one name for the second reference and defines it under another; a list that
  contains itself through an object (`:1291`) is declared before it is defined with
  the same name.

Composer:

- An inherited `__init__` is checked with the methods of the child, while the compiled one calls
  those of the parent, although the comment at `toplevel/helper.rs:982-984` says that the class id
  reflects the compiler's behaviour; a call `C.m(self)` is looked up by the simple name of the class.
- The body of a loop counts as run, a handler as not run; `return`, `raise` and augmented
  assignments in a constructor panic; `obj.m()` of any other object, and an
  inherited method, are "not found"; a recursive method overflows the stack.  A class with
  fields and no `__init__` is not checked.
- Members inherited from a generic base with arguments are copied without substitution.  An override
  may have more or fewer parameters; one of a Literal type is never compatible.
- A field may use a type variable the class does not declare, if it is unbounded.  The type of a class
  constant is not compared with its annotation.
- `def f(x: f)`, `x: tuple`, `x: Kernel`, `Generic[int32]` and `Generic` of a class defined later panic;
  `virtual[int32]` panics in one parser of annotations and is a type in the other.  The two
  also differ in a name that is a field and a method, `tuple[x]`, module paths, `Auto`, several
  Literals, and the bounds of type variables.
- Under ARTIQ a class that inherits `__init__`, and an indirect exception, get no type that
  can be called; `register_module_to_cache` makes a new resolver at every use; decorators are
  checked after the registration.  Keyword-only and positional-only parameters are dropped.

## What is not modelled

- `gen_func_impl` as a whole.  Its parts are in different modules (calls and requests of
  instances, counts, blocks, variables, expressions), composed only by what they share.
- `ConcreteTypeStore`: the types are translated to it and back within one thread.
- Unifier operations that only rewrite (`get_instantiations`, `subst_vars`,
  `replace_rigid_var`) or print; literals and constant generics.
- Lambdas, virtual casts, f-strings; slices and items of arrays as targets.
- Arrays beyond one element: `codegen/types/ndarray/`, `numpy.rs` and `irrt/ndarray/` are
  loops over shapes and strides.  List slices and string comparison: loops over buffers.
- Arrays as refcounted objects: their walk is over a run-time length where the
  model's is over `NumFields`.
- Returned values, which `gen_return` does not count (`codegen/stmt.rs:2397`), and stores to a starred
  target, which count nothing (`stmt.rs:252-256`): RefCount has neither.
- Of the composer: the variables that stand for annotated types until the end of the members'
  step, their resolution and deferred evaluations (`toplevel/composer.rs:1025-1082`; an annotation has
  its type at once in the model), and the index panic of an override's check (`helper.rs:830`).
- Temporaries that are never released, which `docs/refcounting.md` lists as a limitation.
- `global_value_ids` of the ARTIQ resolver, which workers of different modules read and fill under
  two locks: the order of steps depends on when PyO3 releases the interpreter lock, which
  is not in the repository.
- The timeline and ARTIQ's code generation: calls of a library that is not in the repository.
- Grammar, ELF and DWARF processing, option parsing and I/O.

## Plan

What is left to prove is about operators that recur over syntax or types.  What could be taken out of
it as the composer's tables were:

- `RollbackExact` of the unifier, from `RestoreIsExact`: it follows for every unifier that uses
  the table as `TableUse` says.  That `unify_impl` does so is a fact about a recursion over
  types, for which the arms would have to be constants and one level of the recursion a step.
- The balance of the targets in `Lowering`: that `RegionBody` and the loops restore the targets they
  replace, with the statements inside them taken as any operator that does.
- Soundness of the function check (`NoUnboundRead`) is an induction over bodies and stays with TLC.
