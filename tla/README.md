# SPVM in TLA+

SPVM (Static Perl Virtual Machine) compiles a statically typed language with
Perl's syntax to opcodes and runs them on a virtual machine with reference
counting.  This directory models its core logic in TLA+, model-checks it with
TLC and proves theorems about it with TLAPS.  Paths below are relative to the
repository; C sources are in `lib/SPVM/Builder/src`, headers in
`lib/SPVM/Builder/include`.

## 1. The system

    source text -> tokenizer -> parser -> syntax tree -> checker
                -> opcode builder -> portable image -> runtime <-> native code

| component | files | state | operations | what makes it correct |
|---|---|---|---|---|
| Tokenizer, module loader | `spvm_toke.c` | queue of `use`, current file, package table | next token, next file | every used module is loaded once |
| Compiler driver | `spvm_compiler.c` | tables of packages, members, types | phases in order | stops at the first phase with errors |
| Parser | `yacc/spvm_yacc.y` (generated `spvm_yacc.c`) | LALR stack | reductions | grammar |
| Syntax tree | `spvm_op.c` | tree | build and rewrite constructs | each construct becomes the blocks the builder expects |
| Checker | `spvm_op_checker.c`, `spvm_type.c` | scopes of variables, types, constant pool | check a sub, assign variable indexes | an accepted program is well typed; variables do not overlap |
| Opcode builder | `spvm_opcode_builder.c` | opcodes, stacks of jumps to patch, static mortal stack | one step per tree node | jumps are patched to the right place, scopes balanced on every path |
| Portable image, exe | `spvm_portable.c`, `spvm_csource_builder_exe.c` | one memory block | lay out | sections disjoint |
| Object memory | `spvm_runtime_api.c`, `spvm_runtime_api.h` | objects, counts, weak lists, C stack | assign, release, weaken, unweaken, call, return | exact counts, no early release, no loss |
| Virtual machine | `spvm_runtime_api.c` 450-4180 | frames, program counter, mortal stack, flags | one per opcode | language semantics |
| Native calls, exceptions | `spvm_runtime_api.c` 377-448, 4292-4446, 4621 | native mortal stack, exception variable | enter and leave scope, push mortal, set exception | temporaries released once, results protected |
| Containers | `spvm_list.c`, `spvm_hash.c`, `spvm_string_buffer.c`, `spvm_constant_pool.c`, `spvm_opcode_array.c`, allocators | arrays with length and capacity | push, insert, fetch, add | a sequence, a map, a pool; every access within capacity |
| Precompiler | `spvm_csource_builder_precompile.c` | text | text generation | same behaviour as the opcodes |
| Perl binding, build tools | `SPVM.xs`, `lib/SPVM*.pm` | Perl values | conversions, builds | balanced references |
| Standard library | `lib/SPVM/*.spvm`, `lib/SPVM/*.c` | - | List, Hash, JSON, ... | data structures |

The runtime is single threaded: what makes it hard is **re-entrance**.  Dropping
a reference can free an object, whose DESTROY is ordinary SPVM code which runs
in the middle of the release, and of the assignment, the `LEAVE_SCOPE` or the
weaken that caused it.  Weak references add lists of addresses that must follow
every change of the pointers they name.  In the compiler the hard part is that
scopes, loops, switches and eval blocks are compiled in one pass with stacks of
jumps to patch, while the number of variables to release is fixed statically and
registered dynamically.

The hazards are listed, at their lines, in `PROJECT.json`.

## 2. Modules

| module | what it models | composed with |
|---|---|---|
| `ObjectMemory` | reference counts, releases, destructors, weak references | `ObjectMemory_proofs`, `ObjectCounts_proofs` (TLAPS) |
| `ScopeBuilder`, `ScopeMachine` | the opcode builder's scopes and jumps, and the machine that runs what it builds | the second extends the first; `ScopeMachine_proofs` (TLAPS) |
| `NativeCalls` | native subroutines, their mortal stack, the exception variable, destructors during all of it | `NativeCalls_proofs` (TLAPS) |
| `Calls` | registers and argument stack between subroutines, virtual machine and precompiled code mixed | the checker's indexes, the builder's pushes and both engines in one module; `Calls_proofs` (TLAPS) |
| `TypedHeap` | what types promise of objects, across checker, builder and both engines | the same in one module; `TypedHeap_proofs` (TLAPS) |
| `SymbolHash` | the compiler's hash table, as pure functions | extended by `ConstantPool`; `SymbolHash_proofs` (TLAPS) |
| `ConstantPool` | constant pools, symbol tables, switch tables, string pool, image | implements `CompiledConstants`; `ConstantPool_proofs` (TLAPS) |
| `CompiledConstants` | the abstract specification: what an opcode reads is what it was compiled to read | |
| `Numbers` | C arithmetic on the six numeric types, with their widths scaled | |
| `Expressions` | the checker on operator expressions: promotions, conversions, places | extends `Numbers` |
| `OpcodeSelection` | the opcode builder on them: temporaries, operands, an opcode for each type | extends `Expressions` |
| `OpcodeExecution` | the virtual machine's opcodes | extends `OpcodeSelection` |
| `PrecompiledC` | the C text of each opcode, and what that C does | extends `OpcodeExecution` |
| `Meaning` | what a tree means, written from the language and not from the compiler | extends `Numbers` |
| `Operators` | a statement compiled and run by either engine | extends `PrecompiledC` and `Meaning` |
| `Packages` | the module loader, and the packages, members and accessors that come of a text | |
| `PackageChecker` | types, offsets and ids; what each name refers to, and who may use it | extends `Packages` |
| `PackageImage` | the tables of the image and the runtime, members found by name, bytes of objects | extends `PackageChecker` |
| `Programs` | a program from its files through compiler, image and BEGIN blocks to the host | extends `PackageImage` |

Each `MC` module gives instances for TLC.  The order in which they were written is that of the
table: what memory safety rests on first, then what compiler and runtime must agree on, then the front
end.  What is ahead: proofs for `ScopeMachine`, references to
variables as arguments in `Calls`, value types in `TypedHeap`, strings in `Operators`.

| run | module | question, in a word |
|---|---|---|
| `memory_strong`, `memory_weak` | `MCObjectMemory` | counts and weak references (section 3) |
| `scope` | `MCScopes` | jumps and lifetimes of variables (4) |
| `native` | `MCNativeCalls` | temporaries and exceptions (5) |
| `calls` | `MCCalls` | arguments and results (6) |
| `heap` | `MCTypedHeap` | types of objects (7) |
| `constants` | `MCConstantPool` | constants, tables and texts (8) |
| `operators` | `MCOperators` | the value of a statement (9) |
| `programs` | `MCPrograms` | names, loading and layout (10) |
| `memory_weak_pair`, `scope_nested_eval`, `constants_inlined` | | violations (3, 4, 8) |

A module has one type invariant at most.  In `ScopeMachine`, `NativeCalls` and `Calls` it is a conjunct of
`MortalFits`, `HeldAlive` and `StackFits`: what these say is only meant of well typed states.

## 3. ObjectMemory

### State

| variable | code |
|---|---|
| `alive` | blocks handed out by `alloc_memory_block_zero` for objects |
| `rc` | `object->ref_count` |
| `slot` | every word that holds an object pointer: object variables of an activation, package variables, fields (or elements) of objects |
| `weak` | the slots whose pointer has its lowest bit set |
| `backref` | `object->weaken_backref_head`, as the sequence of listed addresses |
| `blocks` | `runtime->memory_blocks_count` |
| `depth` | activations of `call_sub_vm` |
| `stack` | the C call stack |

C functions that may be suspended by a DESTROY are frames of `stack`: `sub` is
`call_sub_vm` running opcodes, `leave` its way out, `assign` an `OBJECT_ASSIGN`
(or weaken) that waits for the release of the old referent before it writes, `free` a
`dec_ref_count` at work on an object (`n = 0` before the destructor, then the next
field).  C code between two points where other code can run is one step.

### Actions

| action | code |
|---|---|
| `MoveObject`, `MoveUndef`, `NewObject`, `GetField`, `SetField`, `GetPackageVar`, `SetPackageVar` | the object opcodes; each ends in `OBJECT_ASSIGN`, modelled by `ObjectAssign` |
| `WeakenField`, `UnweakenField` | `SPVM_RUNTIME_API_weaken`, `unweaken` |
| `CallFromHost`, `CallSub`, `Return`, `Croak`, `LeaveScope`, `EndSub` | call, `RETURN_*`, an uncaught exception, the release of the mortal variables, the end of the activation and the caller's assignment of the result |
| `AssignWrite` | the write of `OBJECT_ASSIGN` after `dec_ref_count` has returned |
| `FreeDestroy`, `FreeField`, `FreeBlock` | the three parts of `dec_ref_count`: DESTROY, the fields, the back references and the block |

`unweaken` is modelled as it is written: its cursor is the address of the list head in
the object, so walking the list moves the head (`AfterUnweaken`).  The freed node is
read once more after `free`; the model lets its `next` be intact or garbage
(`NoSlot`).  A weaken of null or of a weak field changes nothing.  An access through
null raises an exception, which is `Croak` (it can happen anywhere).  A block that was
freed reads as null: the allocator zeroes the block it hands out next.

### Bounds

Two objects with one or two fields, two variables, nested activations up to `MaxDepth`.
A release inside a release inside a destructor needs two objects that both have one; chains
and cycles through a field need two; a release that meets a sibling already gone needs two
fields.  Ordinary calls leave `Cardinality(Destructible)` activations free, so that a
destructor can always be called.  `MaxBackrefs` bounds the lists and `MaxCount` the counts at
which a program still weakens: with the defects of `unweaken` below, stale entries could
otherwise be added forever.  `memory_weak` keeps lists to one address, because with two the
code loses entries (`memory_weak_pair`) and a weak field can dangle.
`SelfContained` restricts destructors in the passing runs to code that touches its own variables,
reads and writes the fields of its own object only and does not store the object; Defects says
what happens otherwise.

### Runs

| run | question |
|---|---|
| `memory_strong` | with strong references and destructors: are counts exact at every step of a nested release (`RefCountExact`), is nothing lost (`NoLostObject`) or released twice (`NoReentrantFree`), is the block counter exact (`BlocksExact`), do suspended activations keep their variables (`CallerVarsStable`)? |
| `memory_weak` | with weak references, stale entries included: no strong reference dangles (`RefCountSafe`), weak fields are tracked (`WeakTracked`), and each release ends (`ReleaseEnds`) |
| `memory_weak_pair` | a violation: with two weak references to one object, `unweaken` of one loses the other |

`RefCountExact` is stated for `memory_strong` only.  With weak references a stale list
entry writes null through a counted field, which loses that count, so only
`RefCountSafe` holds (the count is never below the number of references): the object leaks,
nothing dangles.

### Fairness

`FairSpec` adds weak fairness of `Runtime`, the steps of C functions already called.  That
is what the code guarantees: they contain no wait.  The program and the host are not fair: a
program may loop in a subroutine forever, and the host may stop calling.

### Proofs

`ObjectMemory_proofs` proves, for any number of objects, fields, variables, package
variables and activations, any set of destructors and weak fields, confined or not:

- `TypeCorrect`: `Spec => []TypeOK`.
- `CallerVarsKept`: `Spec => CallerVarsStable`.

Neither is inductive as stated.  Writes go to addresses found in frames and in
back-reference lists, so the invariant is `HeapOK` (types; every listed address is a field
slot or `NoSlot`) with `depth \in Depths` and `StackOK`: the level of a frame is the number of
activations up to it, the number of activations of the whole stack is `depth`, and the
destination of a pending write or result belongs to the activation of its frame, or to its
caller, or is not a variable at all.  There is one lemma per action, over lemmas on levels
and on pushing and popping frames; `NullsListedOnly` style facts keep the writes of
`FreeBlock` away from variables.

`ObjectCounts_proofs` proves, for any number of objects, fields, variables, package variables
and activations and any set of destructors, if no field is ever weakened (`WeakFields = {}`) and
destructors are self-contained (`SelfContained = TRUE`), as in run `memory_strong`:

- `CountsExact`: `Spec => []RefCountExact`;
- `NothingLost`: `Spec => []NoLostObject`;
- `NoReentry`: `Spec => []NoReentrantFree`;
- `BlocksCounted`: `Spec => []BlocksExact`;
- `DestructorsPass`: `Spec => []DestructorCheck`, the assertion and the check of
  `dec_ref_count`, which do fail without the assumptions (Defects).

Why it holds is not local: while a release is suspended some slots still have the pointer of an object
that is no longer counted there, so the invariant must say that nobody reads them.  `CountInv` is

- `Exact`: the equation of `RefCountExact`, with a live object's count positive;
- `Shape`: which frame may be on top of which.  A free frame is on an assignment or another free
  frame, an activation on a subroutine or on the free frame whose DESTROY it is, no object is released twice, and the
  code of the host is below every release;
- `ReleaseOK`, for each free frame: whoever still refers to its object is a variable or result
  of an activation of its own DESTROY, above it.  When these have gone the count
  is 0 but for the release itself, and freeing the block leaves no reference;
- `WriteOK`, for each pending write to a field: the object that has the field is held by a variable
  of the writing activation, so it outlives the release the write waits for;
- `Cleared`: no variable is left of activations that are gone, and none but the one being released of those a
  leaving activation has passed.

The proof goes through the elementary changes of the stack (a frame pushed, replaced, popped, a slot
written: `Wrote`, `Moved`, `PushAssign`, `PushFree`, `PushSub`, `PopAssign`, `PopSub`, `PopFree`), each shown to keep `Good`, the part of
the invariant without `Cleared`; a count between two elementary changes of the same step may be off for
one object, the parameter `lax`.  `AssignGood` is `OBJECT_ASSIGN` as a whole.  Then there
is one lemma per action.

Without weak references is a real restriction: with them `RefCountExact` is false (above).  Model-checked
only: `RefCountSafe` and `WeakTracked`, and liveness, which TLAPS cannot prove under fairness.

## 4. ScopeBuilder and ScopeMachine

Releasing the object variables of a block is split between the compiler and the runtime.
The builder emits `PUSH_MORTAL v` at every declaration of an object variable (temporaries
included), counts the variables registered *statically*, and ends a block that declares any
with `LEAVE_SCOPE t`, where `t` is the count when the block was opened.  The runtime pushes
variables when it meets the opcode and releases those from `t` upwards.  Jumps make the two
heights differ; the design relies on the runtime's being cleaned by an enclosing
`LEAVE_SCOPE` before it matters.

`ScopeBuilder` builds one subroutine, an action per visit of a node of the tree by
`SPVM_OPCODE_BUILDER_build_opcode_array`; which node comes next is the program, so the
model ranges over every program of a family (`Budgets`: how many statements of each kind).
`ScopeMachine` extends it: once `END_SUB` is emitted the subroutine is called and every path
through it is run, each call returning or raising.

| variable | code |
|---|---|
| `code` | the opcodes of the subroutine: operation, variable or height, jump target, targets of a switch |
| `blocks` | `op_block_stack`, each block with its entries of `mortal_top_stack`, `last_block_base_stack`, `next_block_base_stack` and its `have_object_var_decl`; `phase` is the position in the tree |
| `mortal` | the length of `mortal_stack` |
| `pend` | the `*_opcode_rel_index_stack`s, by name, and `switch_info_stack` |
| `home` | one entry per declaration, `mortal_stack_top_max` of them |
| `pc`, `mstack`, `mtop` | `opcode_rel_index`, `mortal_stack`, `mortal_stack_top` of `call_sub_vm` |
| `held` | the object variables that are not null |
| `marks`, `want`, `scope`, `live` | ghosts: where the places of a block are, which of them a jump is meant for, the blocks an opcode is in, the variables assigned whose block is open |

A call and the exception check behind it are one opcode `CALL` (they are always adjacent), and
a croak is a call that raises.  Opcodes that neither jump nor touch object variables are left
out.  The inner `if` that `&&` and `||` build around their second operand has two
empty branches that meet again, and is left out too.  Statements after a jump in the same
block cannot be reached and are not built, except behind a label of a switch.
An overflow of `mstack` is undefined behaviour: the behaviour ends, `MortalFits` reports it.

| run | question |
|---|---|
| `scope` | five families of programs: do jumps land (`JumpsLand`), do variables live exactly as long as their block (`LiveHeld`, `DeadReleased`), do registrations fit (`MortalFits`), does every way out release everything (`ReleasedAtEnd`)? |
| `scope_nested_eval` | a violation: the end of an inner `eval` block catches the exceptions of the outer one |

The families combine two variables with `if`, `eval`, a loop and a jump; three variables in
nested blocks; a switch in or around a loop; nested conditions with `&&`, `||` and `elsif`; two
nested loops and a switch with jumps.  Two variables are what a wrong height needs (one
released for the other), one jump crossing two blocks is what a wrong patch needs, and
two loops with a jump each tell the inner base from the outer one.  In `scope`, eval blocks do not nest,
conditions and increments of loops and second operands of `&&` and `||` have no object temporaries,
and object variables in a switch are declared in blocks of its cases: `scope_nested_eval`
and Defects are what happens otherwise.  The builder only closes a switch with a case and a default
(see the hazard at `spvm_opcode_builder.c:3581`).  Only safety is stated: a loop may run forever.

### Proofs

`ScopeMachine_proofs` proves `JumpsLand` for every program the builder can be given, of any size and
nesting, in which eval blocks are not nested in each other (`JumpsLandAlways`).  That condition is the defect of
`scope_nested_eval`; object temporaries in loop conditions and declarations in switches, which the run leaves
out, are allowed.  `JumpsLand` speaks of finished subroutines only; the invariant `JumpInv` speaks of those
under construction:

- `Nested`: blocks have growing numbers along `op_block_stack`, and each kind of block is in the phases and in the
  parent it can be in: an if block in a block that waits for the false branch, a loop body in the block of its
  initialization;
- `Waiting`: how the stacks of jumps relate to the open blocks.  "if", "end", "first" and "switch" hold
  one jump for each open block of their kind, in their order (`Matched`); "last" and "next" hold a segment for each
  block they may leave, from the base it noted when it was opened (`Segmented`); the exception checks and returns are
  all meant for one block (`Collected`);
- `Settled`, for each jump: while the block it is meant for is open it is on a stack of that block, and when
  it is closed its target is that block's end (for loops: the place of the condition, of the body);
- `Ranged`, for each switch: its targets so far are opcodes of its block, or the end of the code.

What is difficult is at the end of a true block, whose jump over the false block is emitted before that block exists
(`ElseNext`: it is on "end" for the number the next block will have), and with `CloseStep`: what the end of a
block patches, from a base or the last entry of a stack, is exactly what waits for that block.  A second eval block
breaks `Collected`: its end would patch the exception checks of the first.

Model-checked only: `LiveHeld`, `DeadReleased`, `MortalFits` and `ReleasedAtEnd`, which compare the static heights
with those of a run.

## 5. NativeCalls

Native subroutines hold references in no variable the runtime knows: each new object is
pushed on one *mortal stack* of the environment, and `leave_scope` drops what was pushed since
`enter_scope`, `call_sub` doing both around every native subroutine.  The exception variable is
one word of the environment.  Both are shared with every DESTROY that runs while entries
are dropped, while an activation of the virtual machine is left, or while an exception is
replaced by its stack trace.

| variable | code |
|---|---|
| `alive`, `rc`, `blocks` | as in `ObjectMemory`, for objects without fields |
| `exc` | `env->exception_object`, which counts its object twice |
| `mortal`, `mtop` | `native_mortal_stack` (as long as its capacity) and `native_mortal_stack_top` |
| `stack` | the C call stack: `host`, `native`, `vm`, and the C functions a DESTROY suspends (`write`, `free`) |
| `raiser` | ghost: how many destructors were running when a string became the exception |

Every function with a release in its middle is cut there: `LeaveEntry` drops an entry
and `ClearEntry` writes null after the DESTROY; `AssignWrite` is the write at the end of an
`OBJECT_ASSIGN`; `SetException` drops the old exception twice and counts the new one twice.
`IfException` is `IF_EXCEPTION_RETURN` and `IF_EXCEPTION_CATCH` with the stack trace;
`NativeEnd` makes the default message after the scope of the subroutine has been left.

Run `native`: counts are exact (`CountsExact`) and nothing held is freed (`HeldAlive`) between any
two steps; an exception being handled exists and is nobody else's (`ExceptionKept`); blocks
are accounted for (`CountsExact` too); nothing is left when the host is back (`ReleasedAtHost`); no callee or
DESTROY touches the temporaries below its base, reallocation included (`CallerTempsKept`).
One destructible and one plain instance and three strings (a message, its stack trace
and one kept by somebody), three nested subroutines (a DESTROY in a native callee of a caller
with temporaries), three temporaries over a first capacity of one, so that the stack is
reallocated twice while frames hold tops into it.  One level of nesting is kept for every
live object with a destructor (`MayCall`, `MayNew`): its DESTROY can always be called.
`Noisy = FALSE`: destructors use neither `eval` nor `croak`; Defects says why.

### Proofs

`NativeCalls_proofs` proves the five properties of run `native` for every number of objects,
strings, nested subroutines and temporaries, and any first capacity of the mortal stack:

- `CountsAreExact`, `HeldStaysAllocated`, `CallersKeepTemps`, `HostFindsAllReleased`: noisy destructors or not;
- `ExceptionSurvives`: `ExceptionKept`, if destructors use neither `eval` nor `croak` (`Noisy = FALSE`);
  it is false otherwise (Defects).

The invariant of `Invariant` is `Good` and that the mortal stack is empty when the host runs.  `Good` has
types (`HeapOK`), the mortal stack within its capacity (`MortalOK`), what each frame may rely on from those below it
(`StackOK`: the tops that callers saved are in order and none is above the current top), the equation
of counts and of blocks (`Exact`) and, for each object that is being released, who may still refer to it
(`DyingOK`: the slot that lets it go and what its DESTROY called).  As in `ObjectCounts_proofs`, `lax` is the
one object whose count may be off between two elementary changes of a step.  `ExceptionSurvives`
adds `Quiet`: no frame above a release handles an exception, and whoever handles one finds the variable set.

## 6. Calls

One array of `SPVM_VALUE` carries arguments in and the result out.  The checker gives each
variable an index among those of its C type (a value type takes one per field),
`PUSH_ARG_*` writes slots, the callee copies them to its registers, `RETURN_*` overwrites the
first slots, `CALL_SUB_*` copies them to a variable of the caller.  A caller and a callee may each be
run by `call_sub_vm` or by precompiled C, and a DESTROY, with an array of its own, may run between any two of
these steps.

`frames` are the activations (statement, next argument, `call_sub_arg_stack_top`, registers), `arrays` the
C arrays on which arguments are passed, `build` says who runs each subroutine.  A word is
tagged with the activation, variable and field it was first put in, so that any mix-up is visible.
The virtual machine's registers are byte offsets in its one block
(`VmOffset`), in the order the code lays them out, so that an overlap would be seen.  Statements of a body run in any
order and any number of times (branches and loops), calls may be in eval blocks, and every
statement may raise.  Definitions with `Vm` and `Precompiled` in their names are the
two engines; what they share (who waits for whom) is written once.

Run `calls`: arguments arrive field by field (`ArgsArrive`), results in the variable
(`ResultArrives`), nothing else changes (`VariablesKept`), the stack is empty again between calls
and nothing is written past an array (`StackFits`).  Six subroutines: objects,
integers and value types of two fields of different widths in different orders,
a value type returned, an interface method, recursion, a DESTROY that calls a subroutine
on its array of one slot; four nested calls, four calls of a behaviour.  `SafeBuilds` leaves out the
builds in which precompiled code passes a value type and calls again afterwards (Defects).

Left out: references to variables, native callees, a body that passes more than 255 slots
(the code keeps the length in a byte; modelled by `ArgsAllocLength` but not reached),
a method call on undef (the process ends), and `CALL_METHOD` of a value type of longs, for which
the virtual machine has no case (modelled by `VmHasCase`, not reached).

### Proofs

`Calls_proofs` proves the four properties of run `calls` for every number of subroutines, arguments,
variables, types, fields of a value type, statements and nested calls, and every
mixture of the two engines: `NothingOverruns` (`StackFits`), `ArgumentsArrive` (`ArgsArrive`),
`ResultsArrive` (`ResultArrives`) and `VariablesAreKept` (`VariablesKept`).

`ProgramAssumption` has what the checker guarantees (`CallAgrees`, `ReturnAgrees`).  The theorems
assume in addition that the program is `Supported`, and each of its conditions excludes a case in which the code goes wrong
(Defects) or stops:

| condition of `Supported` | without it |
|---|---|
| the subroutines a DESTROY reaches (`small`) have at most one slot of arguments and of result | they write past `SPVM_VALUE args[1]` (`spvm_runtime_api.c:5221`) |
| every subroutine fits the host's stack | they write past the host's array (`SPVM_VALUE stack[255]`, `spvm_runtime_api.c:4207`) |
| fewer than 256 argument slots | the byte `args_alloc_length` wraps |
| in precompiled code, no value type is passed before another call in the text | it takes back too few slots |
| the virtual machine has a case for each opcode | the call is not made |

`MCCalls` has TLC check that the instance is `Supported`, so the run is an instance of the
theorems.

The invariant is `CallsInv`: nothing was overrun, and `Good`, which says of each activation (`FrameOK`) that
its registers exist and hold words, that its array has room for its
arguments and result (`HasRoom`), while it pushes, that the slots below the next one hold the words of the arguments before it
(`Pushing`); on entry, that the stack holds what the caller passed (`Arrived`); on the way out, that it holds
what RETURN read (`Answered`).  A DESTROY above an activation that leaves has an array of its own, which is
why `Answered` survives it.  `Linked` says of two neighbours that the
upper was called by the current statement of the lower one on the same array, or by C code on an array
behind all others.

Beneath it is the layout.  `RegistersApart`: no two words of an activation share a register, in precompiled code because
the indexes of a bank are sums of widths (`VarIdFacts`), in the virtual machine
because the areas follow one another in bytes (`OffsetFacts`) and the indexes of an area stay
below its length (`BankLength`).  `SlotFacts` says the same of argument slots.  These are facts on sums over sequences of any
length.  `Sums` is a recursive function and its facts (`SumsExist`, `SumFacts`, `SumsGrow`) are proved by the smallest counterexample
(`Least`, from the well-foundedness of `<` on the naturals), because a theorem of
induction over an operator cannot be used.

## 7. TypedHeap

Nothing at run time checks the type of an object when it is used: a field access trusts its
variable.  That trust is established by three parts: the checker's rules for assignments and
conversions, the builder's choice of an opcode (which drops a conversion, or checks a
type, or only an interface), and what each opcode of the two engines looks at.

`types` are the declared types of the variables (fixed at the start, any of `VarTypes`),
`vars`, `globals` and `heap` what they hold.  Every action is a statement `$x = ...` or a store that the
checker accepts for those types: `Move`, `Cast`, `Box`, `New`, `Fetch`, `StoreVar`, `StoreUndef`,
`GetField`, `SetField`, `GetPackageVar`, `SetPackageVar`.  Opcode `"none"` stands for an assertion
failure of the builder on something the checker accepted (a string literal converted to a class,
for one); such programs do not exist.

Run `heap`: everything holds an object of its type (`HeapTyped`), a call through an interface finds
one method of the right signature (`MethodFound`), `isa` and conversions agree
(`IsaTellsConversion`).  Two variables of any of fourteen types, up to the names of the variables, suffice, because `HeapTyped` looks at the
cells of every object against the object's *own* type: an alias at another type, the usual
way to break it, is one variable and the object.  A class with the method of an interface,
one with a method of the same name only, and an anonymous one are the cases of lookup.

### Proofs

`TypedHeap_proofs` proves the four invariants of run `heap` for every set of packages, variables,
package variables and types and any number of objects: `TypeCorrect`, `TypeSound`, `MethodsFound`
and `IsaAgrees`.  `TypesAssumption` is what they assume: packages are not named as basic types are
(the compiler demands an upper case letter), an interface has exactly one method
(`spvm_op.c:2023`), an anonymous class only its subroutine, the classes that box numbers exist.

`HeapTyped` alone is not inductive: a fetch needs that what a variable refers to is there
and is of a type that exists at run time (`string[]` does not: it is `byte[][]`; nor does
an object of an interface).  `Inv` adds that for every reference and object.  Three lemmas carry the proof:
`ConformsUp` (what the checker lets a variable take as it is conforms to the variable's type,
interfaces included), `Elements` (the cells of an array conform to the element type of any variable
that holds it, and what the checker lets in through any variable *but* `oarray` conforms to the
cells: for `oarray` the check at run time is needed), and `PutSound` (nothing that stays refers to
what goes).  Then there is one lemma per statement.  `IsaAgrees` needs no invariant: it compares the choice
of opcodes of `isa` and of a conversion.

## 8. SymbolHash, ConstantPool, CompiledConstants

`CompiledConstants` says what the compiler promises: opcodes are added one by one, each with
what it means, and what it reads is that from then on.  `ConstantPool` is how: the checker
puts values in the pool of the package it compiles and finds those already there through
symbol tables (`SymbolHash`, with its chains and its rehashing), nodes remember indexes, the
builder writes the branches of switches into the pools, the image joins the pools, readers add
a base.  The refinement mapping reads every opcode added so far through its node, from the package's pool
before the image is built and from the image afterwards; every other step (lists of ids,
branches written, packages joined) must leave all of them unchanged.  `ReadsAsCompiled` is
that specification as a property of run `constants`.

The run also checks that nothing is written past the memory allocated (`WritesFit`: pools, buffers,
entries and keys), that what is interned is found again whatever the chains and the growth
(`InternedOnce`), that the lists from which the precompiler declares ids are complete and
without duplicates (`ListsDeclare`), that both engines find the case of a switch or its default
(`SwitchFinds`), and names in the text buffer (`NamesRead`).

Bounds: two packages, four families of programs (ids, types, constants, switches) of at most three to five
references each.  Pools start at 4 words instead of 64 and the text buffer at 4
characters instead of 65,535, so that both grow several times; the hash table starts at one
bucket, as the code's, and hashes a key to the sum of its parts, so that it is rehashed twice and has
chains at each size.  Switch values from -10 to 10 around cases from -9 to 9 fall before, on, between
and after the cases of both kinds of table.  `BufferCapacity` above the longest text is an
assumption: `maybe_extend` doubles once only.  A program ends, so deadlock is not checked.

Run `constants_inlined`: a subroutine that only returns a constant is replaced by the callee's node
also in other packages, and each package writes its own index into that node.  In
`constants` such subroutines are only called in their own package.

### Proofs

`SymbolHash_proofs` takes the hash of a key to be any natural number (`Hashing`).  A table is in order
(`HashOK`) when every entry is reached from the bucket of its key along indexes that grow
(`Chained`: that the chains end is not assumed but proved), no key has two entries (`OneEach`) and entries and keys fit (`Fits`).
An insertion keeps that, with a rehash or without one, and changes what `Fetch` returns for its key and for no
other: `TableIsMap`.  Walks along chains, ends of chains and rehashing are recursive functions; that each
exists is proved by the smallest counterexample (`Least`, `WalkExists`, `RunExists`), as induction cannot be instantiated.

`ConstantPool_proofs` proves all six properties of run `constants` for any programs, any number
of packages, any capacities and any hash.  None of them is inductive: whether an opcode reads what it refers to depends on
where every step puts its words.  The invariant `Inv` says it for all of them at once:

- `KnownInv`: of every key a symbol table of a package has, the pool holds what the key stands for (`Meaning`:
  a 64 bit constant has its words in another order than its key) at the index the table gives; the
  lists have what their tables have, once;
- `UsesInv`: what the nodes of opcodes hold is the index in these tables, and for a string that of its length and its start;
- `StringsInv`, `ListsInv`: texts, and the lists of packages that are finished, are where they are looked for;
- `SwitchesInv`: the cases of a switch are those it was written with, in order, their fixed words are in the pool, the slots of
  two switches are disjoint, and those of a built switch have its branches;
- `ImageInv`: in the image each package's words are at its base.

Every word of these (`Holds`) is outside the slots that the builder writes for the branches of switches, which is why writing
them disturbs nothing (`Kept`): the bookkeeping that the code leaves implicit.  Each step then either
appends to a pool, adds to a table, or writes slots (`KeepsAll`), and one lemma per step shows it.  `Inv` holds
before the image is written as after it, so that the refinement of `CompiledConstants` needs nothing more:
before and after a step every opcode reads what it means (`AsMeant`), hence no step changes what one reads.  The exchange sort
(`CasesAreSorted`) and the binary search (`SearchFinds`) are proved for any cases.

What is assumed: `Hashing`; `Supported`, that is `AtHome` (a subroutine that returns a constant is called from
one package only, see `constants_inlined`) and `NoClash` (no array initialiser's type has the words of a 64 bit
constant's key, see Defects): the two ways in which the code is known to break the promise, and no third
was needed; `CapacityAssumption`, which the code meets with its own capacities (64 and 65,535) as long as no text
has 65,535 characters, which nothing checks; `ProgramAssumption`, the shape of programs.  TLC evaluates
the assumptions on the instance of run `constants`, where 480,000 states satisfy them and
the properties are not vacuous (each has a mutant that fails).

## 9. Operators

A statement such as `$o->{x} += $i++` goes through the checker (which inserts conversions and
rewrites), `build_opcode_array` (which finds a temporary, an opcode and operands for each
node) and one of two engines.  `Operators` composes them: `prog` is a tree with the memory it finds,
`engine` who runs it, `phase` and `code` what the compiler made of it, `pc` and `s` the run.
`Compile` is the checker and the builder, `RunOpcode` one turn of the dispatch loop of
`call_sub_vm`, `RunText` the C text of one opcode.  Registers are named by C type, variable and field, as
the operands are.

`Numbers` scales widths: byte 2 bits, short 3, int 4, long 8, float 2 and double 6 bits of mantissa (a
small half-integer range).  What matters is kept: each type has a smallest value without an
opposite, a product of two ints fits a long, a float does not hold every int, a double does, a double does not
hold every long.  Signed overflow and shifts by the width are undefined in C and are given
what a two's complement machine does where the code relies on it.

`Meaning` is independent of types chosen by the compiler: it evaluates a tree from left to right, with
exceptions.  Run `operators`:

- `ComputesAsWritten`: what was accepted does what the tree means on both engines, or raises as it
  should; what was refused has no meaning.
- `OperandsDefined`: nothing is read from the wrong bank or before it is written.  Both engines zero their
  banks, so such a read would go unnoticed at run time.
- `CodeIsTotal`: no assertion of the builder stops an accepted program.

Programs: every binary operator on every pair of types with operands at the ends of their ranges; every
kind of place (variable, element, field of an object, of a value, of an element of an array of values,
through references, package variable) as source and destination of `=`, `op=`, `++` and `--`, nested
in one another, with an index that changes; undef arrays and objects and indexes out of range; conditions.
`FieldsLength` is 2, so that the second field's offset differs from the first's.  A program ends, so
deadlock is not checked.  Left out, and described under Defects: conditions that are a plain byte or short,
`lt` on equal strings, a post-increment as the source of a nested assignment to a place that is not a variable,
assignment through `$$` to a value, and a variable that is changed later in the same expression
as an operand that reads it.

## 10. Packages, PackageChecker, PackageImage, Programs

A program starts with the name of one package.  The loader takes it from a queue of uses,
reads its file, and the parser puts what the file uses behind the others; a package is
registered when its closing brace is reduced.  When the queue is empty the checker resolves types, numbers
the packages and their members by name, lays fields out, and replaces every name in a
subroutine by a member, or by what the member would do (accessors, enumerations, constants, simple
constructors).  The image writes the tables one behind the other; the runtime and native code
find members in them by binary search, and fields by the offset found there.

`Packages` has the text of programs as data (declarations, and statements reduced to the one term that
names something outside the subroutine), `BuildPackage` for `SPVM_OP_build_package` with everything
it calls, and `LoadNext` for the loader.  `PackageChecker` is `resolve_types`, `resolve_packages`
and the part of `check` that resolves names.  `PackageImage` is `SPVM_PORTABLE_build`,
`build_runtime` and the functions of the native interface.  `Programs` is the machine:

| variable | code |
|---|---|
| `repo` | the files, and the package asked for; chosen at the start |
| `comp` | the tables of `SPVM_COMPILER`: queue, packages, members, types, errors |
| `pc`, `done` | the phase of `SPVM_COMPILER_compile`, and how far it is |
| `refs` | what the nodes of the tree refer to after the check |
| `rt` | `SPVM_RUNTIME` |
| `object` | an object of the host, byte by byte |
| `wrote` | ghost: what was last written to each field and variable, by name |

Each phase is an action (`Load` once per file, `CheckSub` once per subroutine); it stops at the
first phase with errors, as the code does.  The checker stops at the first broken
rule of a phase; the model collects all of them: which message is printed is left out.

Run `programs`:

- `LoadedOnce`: each file is read once however packages use each other, nothing else is read, and
  everything asked for is declared when types are resolved.
- `CallsBind`: whatever the order of loading, a name means what the *text* says it means (`PackageMeant`,
  `Behind`, `ConstantsSaid` read the text and not the tables): the package before imports,
  imports before the core, the member behind an accessor, the number of an enumeration; private members are
  reached by accessors only.
- `LookupsExact`: the native interface finds each member by name and signature, and none that is not there.
- `ReadsAsWritten`: a field or variable holds what was last written to it by its name, a setter or a BEGIN
  block: offsets never overlap, ids never shift between checker, image and runtime.

The programs: two packages that use each other, with fields of every width, accessors of every kind and BEGIN
blocks that set each other's variables (`Circle`); one name in the package, an import and the core, a `require`
of something there and of something absent (`Names`); value types, references and an anonymous
subroutine that captures (`Closures`); a package declared in two files (`Nested`); and 23 that break
one rule each (`Rejected`).  All contain the nine packages the compiler adds by itself.
Each byte knows its value and its place in it, so that one value beside zero (`MaxValue = 1`; BEGIN writes a
value of its own) shows every overlap and every shift.  A compilation ends and the host may stop,
so deadlock is not checked.

Left out: lexing, visibility of lexical variables, signatures of subroutines as text (they are sequences of
types), the limits of members per package, native libraries.

## 11. Defects the models show

The runs expected to fail show one each, with the line of the repository they contradict
(`findings` in `PROJECT.json`).  The following are counterexamples of the same models at other
instances; the constants to change are given (for `MCCalls` its `ASSUME` that the program is supported has to go
as well).

| instance | property | what happens |
|---|---|---|
| `MCObjectMemory_weak.cfg` | `BackrefsAreWeak` | `unweaken` ("Remove weaken back ref", `spvm_runtime_api.c:4607`) compares only nodes after the list head and removes nothing when the address is in the head: the list keeps the address of an ordinary field, which is nulled when the object dies |
| `MCObjectMemory_strong.cfg` with `SelfContained = FALSE` | `DestructorCheck` | DESTROY that stores its object leaves a count above 1; the object is freed all the same (`:5234`) |
| `MCObjectMemory_strong.cfg` with four objects and fields of other objects readable in DESTROY | `RefCountExact` | the destination of an `OBJECT_ASSIGN` holds the pointer of the object it releases until the release is over (`spvm_runtime_api.h:37`); see below |
| `MCScopes_programs.cfg` with `Budgets <- LoopsWithTemps` | `MortalFits` | an object temporary in the condition of a loop is registered by every iteration, past the end of the array (`spvm_opcode_builder.c:4672`) |
| the same with `LogicalOperators` | `LiveHeld` | a temporary in the second operand of `&&` stays registered below the variables of the true block, and an inner block's end releases a live variable (`:3710`) |
| the same with `SwitchVariables` | `LiveHeld` | variables declared directly in a switch block are counted but skipped by the jump to a later case, and object variable 0 is released (`:3885`) |
| `MCNativeCalls_scopes.cfg` with `Noisy = TRUE`, two temporaries | `ExceptionKept` | an `eval` or `croak` in a DESTROY that runs while an exception unwinds clears or replaces the exception (`spvm_runtime_api.c:5220`) |
| `MCConstantPool_programs.cfg` with the long `<<0, 9>>` in `MCTypes` | `ReadsAsCompiled` | the type of the array initialiser `["abc"]` and the constant `9L` share a key of one symbol table and not the order of their words: `9L` reads 9<<32 (`spvm_op_checker.c:229`) |
| `MCTypedHeap_programs.cfg` with invariant `ConversionOfUndef` | `ConversionOfUndef` | `CHECK_OBJECT_TYPE` and `CHECK_INTERFACE` (`spvm_runtime_api.c:2741`, `:2766`) assign the destination only for a source that is not undef: a cast of undef leaves the old object, while `t/default/lib/TestCase/Convert.spvm:42` expects undef (its variable was undef before) |
| `MCCalls_programs.cfg` with `Builds <- AllBuilds` | `ArgsArrive` | precompiled code takes back the number of arguments after a call (`spvm_csource_builder_precompile.c:3585`, `:3815`) where it pushed slots (`:3348`): after a value type of two fields the next callee reads an argument of the call before |
| the same with the body `<<Call("pick", <<1, 2>>, 2), Ret(0)>>` of `fini` | `StackFits` | a DESTROY that calls a subroutine with two argument slots: `SPVM_VALUE args[1]` on the C stack (`spvm_runtime_api.c:5221`) is also the argument stack on which it pushes, and the second slot lies beyond it |

The destructor that reads a stale destination, in full: `o->{y} = p`, `o->{x} = a`, `p->{x} = q`,
`q->{x} = o`, a variable holds `q` only, `p` has a DESTROY.  `q->{x} = undef` releases `o`: its field `x` frees
`a`, its field `y` runs DESTROY of `p`, which reads `$self->{x}->{x}`.  That is the destination of the assignment under way, it
still holds `o`, and reading `x` of `o` yields the freed `a`.  A destructor that only *reads* ends in a use
after free.  It takes four objects, so `memory_strong` with two did not show it: it was met when the
inductive invariant of `ObjectCounts_proofs` could not be proved.  `MayReadField` excludes it (replace its
definition by `TRUE` to get it back).

Found with `Operators`, whose programs leave them out:

- a plain byte or short as a condition reaches `assert(0)` (`spvm_opcode_builder.c:4290`);
- `$$value_ref = ...` has no case in the builder (`:3041`);
- `$o->{x} = $i++` used as a value reaches `assert(0)` (`spvm_op.c:1050`, `spvm_opcode_builder.c:252`);
- `$byte += $byte` is refused while `$byte += $int` is accepted: `op=` converts its result only when
  the source is wider;
- `STRING_LT` is emitted as `STRING_LE` (`spvm_opcode_builder.c:4261`);
- a value type may have 16 fields (`spvm_limit.h:11`) but four bits of an operand hold their number
  (`:928`, `:3491`), and the virtual machine reads 16 as 0 where precompiled code reads all of them;
- a variable read as an operand is read when the operator runs, after later operands that change it;
- `(my $p = $points->[1])->{x}` loses the assignment (`spvm_op_checker.c:2725`).

Read while modelling, and not in a run: `isweak` leaves its result nowhere (`spvm_runtime_api.c:3750`); a double added to a string buffer reserves 20 bytes for up to 24
characters (`spvm_string_buffer.c:285`);
an element of an `object[]` or of an array of an interface, read through an `oarray`, cannot be stored
back, because the store compares basic types exactly (`:1531`); the precompiled
method call tests for 0 where `method_sub_id` returns -1.

Found with `Programs`, which models them; its programs do not reach them or its properties except them:

- `use Foo` after a `require Foo` that failed is accepted: the failed package is in the symbol table as an
  empty one (`spvm_toke.c:112`, `:165`);
- a package declared in the file of another is not loaded from a file of its own when the other file is read
  first (`Nested`), and declared twice, an error, when it is read second: the order of the queue decides;
- the fields of a value type keep the order of the text while `field` searches by halves, so native
  code finds some and not others (`spvm_runtime_api.c:5300`); for a package without fields it reads the field
  before the first (`:5318`);
- an import of a subroutine that does not exist is no error: the call falls through to the core
  (`spvm_op_checker.c:4474`);
- a constant subroutine `sub f : long () { return 5; }` becomes an `int` constant in its callers (`:2417`).

Read while modelling, and not in a run: `pkgvar_id` and `sub_id` dereference null for a
package that is not there (`spvm_runtime_api.c:5423`, `:5495`); `method_sub_id` returns 0, which is a subroutine, for an
object without package and for an anonymous one of another signature (`:5549`); `has_interface` takes
package 0 for none (`:4261`); a basic type without package keeps package 0 in the image and is
looked up there; `build_runtime` copies its basic types at the size of the compiler's
records (`:303`), past the end of the image; a native DESTROY that is not void is reported at
the line of a block it has not (`spvm_op.c:2301`); the image keeps an offset in 16 bits, which wraps
after 8,191 fields of eight bytes (`spvm_runtime_field.h:15`); a subroutine with `(...)`
and no argument has the type of its last argument, null, read (`spvm_op_checker.c:4868`).

## 12. Proofs

| module | theorems | section |
|---|---|---|
| `ObjectMemory_proofs` | types; variables of suspended activations | 3 |
| `ObjectCounts_proofs` | counts, blocks, no lost object, no second release, without weak references | 3 |
| `ScopeMachine_proofs` | every jump lands, in subroutines without nested eval blocks | 4 |
| `NativeCalls_proofs` | all five properties of run `native` | 5 |
| `Calls_proofs` | all four properties of run `calls`, for supported programs | 6 |
| `TypedHeap_proofs` | type soundness: all four invariants of run `heap` | 7 |
| `SymbolHash_proofs` | the symbol table is a map, whatever its chains and its growth | 8 |
| `ConstantPool_proofs` | all six properties of run `constants`, the refinement of `CompiledConstants` among them, for supported programs | 8 |

All hold for every value of the constants that the `ASSUME`s of the modules and the hypotheses named
above allow, and each rests on an inductive invariant stated in its module.  TLC
evaluates the assumptions on every run, and the runs check the same properties on small instances.

Model-checked only:

- the properties of `ScopeMachine` at run time (`LiveHeld`, `DeadReleased`, `MortalFits`, `ReleasedAtEnd`): their
  invariant relates every opcode of a generated program to the heights of the stack on all paths to it, and they
  hold only without the declarations section 4 leaves out;
- `Operators`: its translation is declared RECURSIVE over expressions, which the provers do not reach;
- `Programs`: folds over packages, texts and tables.  The argument of the smallest counterexample, which
  carries `Calls_proofs` and `ConstantPool_proofs` where the data is one sequence, has not been tried on them;
- weak references (`RefCountSafe`, `WeakTracked`): what `unweaken` leaves of a list is a choice among remains
  of it, and the properties only hold with lists of one address;
- liveness (`ReleaseEnds`), which needs fairness and ENABLED.

## 13. Not modelled

- Generated and vendored code: the parser, utf8proc.
- Text generation and the file system: executable builder, build tools.  The precompiler is modelled where
  what it writes must agree with other parts (calls, types, switches, lists of ids).
- Glue that needs Perl's own semantics: `SPVM.xs` and `ExchangeAPI.pm`.  The host of the models
  makes any call they could make.
- String concatenation: `Operators` has numbers, places and conditions.
- The lexer, and which lexical variables a block sees.
- List, opcode array, allocators: arrays that double, sequences here.
- The standard library, which is sequential SPVM code.
