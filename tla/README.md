# A verification project for Nybl

Nybl is an embeddable scripting language with three engines: a tree-walking evaluator (`nybl`), a bytecode
VM (`nybl-vm`) and an ahead-of-time compiler to Rust (`nybl-compile`). This directory holds TLA+ modules for
the language, its engines and the runtime below them, TLC configurations that check them on small instances,
and TLAPS proofs of the results that matter most for every value of the constants.

Run `tlc -config X.cfg M` and `tlapm M_proof.tla` in this directory. PROJECT.json lists the runs, the line
map from definitions to code, the hazards, the findings and the theorems.

## 1. Inventory

The runtime is single-threaded. What is hard in it is not parallelism but re-entrance, and that there is
more than one of everything: Nybl code calls functions of other modules, imports modules whose bodies call
back, passes places by reference, catches errors with `try_call`, and is called by a host that may nest
other instances. State is moved, copied and restored at each of these points, and an error can leave any of
them half way. And what the tree-walker does by recursion, the VM does by jumps, slots and a stack of its
own, and the compiler to Rust by closures and blocks of Rust; the three are promised to be the same
language.

| part | state it keeps | operations | what makes it correct | modules |
| --- | --- | --- | --- | --- |
| tree-walker environments (`evaluator.rs`) | `scopes[0]`, `live_value_environments`, `live_binding_origins`, import cache | `let`, assignment, call, return, `use`, module load, failed load | each module variable has exactly one home; reads are live; failed loads leave nothing; a cycle is always seen | `ModuleStore`, `LiveEnvironments` |
| VM environments (`vm.rs`) | `frames[..].scopes[0]`, parked environments, origins | call, return, `use`, unwind | as for the walker | `VmEnvironments` |
| reference parameters (`evaluator.rs`, `vm.rs`, `ref_params.rs`) | pending write-backs, staged parameters, snapshots | preflight, snapshot, call, commit, `try_call`, fatal errors | all places are written or none; nothing staged is visible early; both engines agree | `RefCalls`, `Walker`, `Machine` |
| instances (`instance.rs`, `memory.rs`, `evaluator.rs`, `vm.rs`) | session, guard flag, memory account | load, call, call_value, prepare, batch, REPL input | no re-entry; isolation; the guard is always released; limits per operation; over budget fails fast and recovers | `Instances` |
| values (`value.rs`, `value/dict_index.rs`) | reference counts, backing storage, receipts, a dictionary's hash index | clone, mutate, drop, take, set, remove | a mutation is seen through one handle only; charges match live storage; the index finds what the entries hold | `PureValues`, `Storage`, `Dictionaries` |
| tree-walker (`evaluator.rs`) | scope stack, functions, types, signals | every statement and expression | the reference semantics | `Walker` |
| VM (`vm.rs`) | value stack, frames, slots and their free list, wraps, prepared calls | every instruction | the same behaviour as the walker; the stack is balanced on every path; an error lands at the innermost `try_call` | `Machine` |
| compiler, resolver, validator (`nybl-vm`) | slots, scopes, jumps to patch, chunks | resolve, emit, fuse, validate | a slot names one variable; jumps land where the code means what it meant; a compiled chunk is valid | `Bytecode`, `Validator` |
| lexer, parser (`lexer.rs`, `parser.rs`, `ast_visit.rs`) | position, open delimiters, nesting | tokenize, parse, refuse | what is read is what was written; recursion is bounded | `Lexer`, `Receivers`, `Parser`, `SourceText` |
| static checks (`check.rs`, `check/`) | the source-order model of types | follow declarations and imports, warn | no false advice | `StaticChecks`, `TypeNames` |
| numbers, built-ins, formatting | none | checked arithmetic, indexing, slices | numeric edges | `Values`, `Builtins` |
| AOT emitter and runtime templates (`nybl-compile`) | scopes and binding storage while emitting; the running module's bindings, active functions, types, steps, depth | emit every statement and expression; bind, look up, call, commit, iterate at run time | the emitted program behaves as the walker does | `Aot` |
| CLI, REPL, system host | session, terminal | run, compile, eval | a failed line leaves the session usable | `Instances` (a session) |

How they interact: the host calls an instance; the instance moves its session into an evaluator (walker) or
a `Vm`, runs one entry and moves it back; the engine calls the environment moves at each function call and
import; `ref` calls and `try_call` sit on top of the call mechanism; every allocation charges the memory
account of the running instance. A program's text goes through the lexer and the parser to the engines and
to the static checks; the VM adds the compiler and the validator in between; the AOT compiler emits a Rust
program whose run-time library is `runtime_templates.rs` and `nybl` itself.

## 2. Plan

1. `ModuleStore`, `LiveEnvironments`, `LiveEnvironments_proof`. **Modelled, checked and proved.**
2. `RefCalls` (both engines in lockstep), `RefCalls_proof`. **Modelled, checked and proved.**
3. `PureValues`, `Storage`, `Dictionaries`. **Modelled, checked and proved,** in `Storage_proof`,
   `StorageValues_proof` and `Dictionaries_proof`.
4. `Instances`: operations nested by the host; `Instances_proof`. **Modelled, checked and proved.**
5. `VmEnvironments`: a second refinement of `ModuleStore`; `VmEnvironments_proof`. **Modelled, checked and
   proved.**
6. `Values`, `Builtins`, `Syntax`, `Walker`, `Bytecode`, `Validator`, `Machine`, `Aot`: the language on the
   three engines. **Modelled and checked.**
7. `Lexer`, `Receivers`, `Parser`, `SourceText`; `StaticChecks`, `TypeNames`. **Modelled and checked.**

Proofs: the environments of both engines, reference calls, storage, the index of dictionaries and instances
are done. What is evaluated by `RECURSIVE` operators (items 6 and 7) stays with TLC.

## 3. Modules

| module | what it is |
| --- | --- |
| `ModuleStore` | abstract: what a program may rely on about module-level variables |
| `LiveEnvironments` | the tree-walker's environment moves and import cache; implements `ModuleStore` |
| `LiveEnvironments_proof` | its theorems |
| `VmEnvironments` | the VM's moves over the same state; implements `ModuleStore` as well |
| `VmEnvironments_proof` | what each of its moves does, and its theorems |
| `MCEnvironments`, `MCLiveEnvironments` | instances for TLC: either engine, the walker alone |
| `RefCalls` | `ref` parameters, `try_call` and errors in the walker and the VM, in lockstep |
| `RefCalls_proof` | its theorems |
| `MCRefCalls` | instances for TLC |
| `PureValues` | abstract: arrays as plain values |
| `Storage` | shared, counted, charged array storage; implements `PureValues` |
| `Sums`, `Sums_proof` | the sum of a function over a finite set, its laws, and the induction on naturals that they and other proofs use |
| `Storage_proof` | what each operation on backings does, and the theorems about them |
| `StorageValues_proof` | that `Storage` implements `PureValues` |
| `Dictionaries` | the entries of a dictionary and its hash index |
| `Dictionaries_proof` | what each operation on the table does, and the theorems about dictionaries |
| `MCStorage`, `MCAccounts` | instances for TLC; arrays and a dictionary side by side |
| `Instances` | loads, calls, batches, prepared entries and sessions, nested by host functions |
| `Instances_proof` | what each operation does to an instance and to the others, and the theorems about instances |
| `MCInstances` | three instances for TLC, and a call on its own to compare with |
| `Values`, `Builtins` | values, operators, indexing, patterns; checks before a call, built-in functions and methods |
| `Syntax` | the syntax tree and the analyses the engines make of it |
| `Walker` | the tree-walking evaluator: the reference semantics |
| `Bytecode`, `Validator` | the compiler with its slot resolution, capture analysis and fusion; the chunk validator |
| `Machine` | the virtual machine, one instruction a step |
| `Aot` | what the program emitted by the AOT compiler does |
| `Lexer`, `Receivers`, `Parser` | from characters to a tree; the check of value receivers |
| `SourceText` | how a tree is written: the reference for lexer and parser |
| `StaticChecks` | the checker's source-order model of types and its advice on matches |
| `TypeNames` | what a type's name means while a program of several modules runs: the reference for the checks |
| `MCMachine`, `MCAdvice` | the programs, and the comparisons |

Every definition that stands for code is listed with its lines in PROJECT.json under `map`. Operators
introduced by a comment `\* Mutant:` are not part of a model. They are plausible bugs, used to show that
each property can fail: PROJECT.json `mutants` says which definition each one replaces and which property
then breaks.

### 3.1 Environments

*State.* `env` and `liveOrigins` are the maps `live_value_environments` and `live_binding_origins` that all
evaluators of a session share. `scope` is `scopes[0]` of the running evaluator. `frames` is the Rust call
stack, seen as activations: a frame with `top = TRUE` is a sub-evaluator running a module body, one with
`top = FALSE` a call of a function of `mod`; `origins` is its `binding_origins`. `status` is the import
cache's slot (`absent`, `loading`, `loaded`), `exports` the origins in the cached `ModuleBindings`. `shared`
is the set of modules of which other code may hold a function value; it makes callbacks possible exactly
when the program could have passed one.

*Actions of the walker.*

| action | code |
| --- | --- |
| `Let`, `Assign` | `exec_stmt` at module top level, `set_var` |
| `Call`, `FinishCall` | `call_nybl_fn_with_refs`, before and after the body; an error takes the same path |
| `BeginLoad`, `FinishLoad`, `FailLoad` | `load_module`, `evaluate_module`, `restore_failed_module_environment` |
| `ImportLoaded`, `RefusedImport` | `exec_import` of a cached module; an import that binds nothing |

`put_live_environment` and `take_live_environment` are operators with those names (the second in two halves,
what is taken and what stays). `LiveOriginValue` and `ModuleBinding` are the two reads that fall back to a
snapshot taken at load time; the snapshot's value is the mark `Frozen`, so that a program which ever reads
one is caught.

`VmEnvironments` has the same variables and one more, `keys`, the modules with an entry in the registry, of
which the VM asks whether a frame's environment is parked. Its steps park, store and restore
(`park_active_defining_environment`, `store_frame_defining_environment`,
`restore_active_defining_environment`); `VmUnwind` pops any number of frames at once, as an error does.

*Properties.* `OneHome`: what the running scope holds is not parked as well. `ReadsAreLive`: an alias read
or a local import yields the variable itself. `ForwardedVisible`: no sequence of calls, loads and failures
takes a forwarded name away from running code. `LoadingIsOnStack`: the cache says `loading` exactly for the
bodies on the stack. `StoreSpec`: the machinery implements `ModuleStore`, where a step declares, writes,
commits or discards and nothing else. `store` is the refinement mapping: the value of each variable wherever
it is at the moment. `VmForwardingKept`: the VM keeps what the walker loses (finding 1).

### 3.2 RefCalls

*State.* `walker` and `vm` map bindings (roots, and parameters `<<frame, position>>`) to what each engine
holds there. `frames` is the common call stack: the pending write-backs (`targets`), the walker's
`ResolvedPlace.root` (`snap`), whether `try_call` made the frame (`wrap`) and the calls whose arguments are
being evaluated (`prepared`). Of such a call, `taken` is the roots that the walker has copied so far and
`late` those of them that were written since. `crossed` marks targets whose root was written directly while
the call ran, or late. `exception` ends the comparison: `stale` when a commit meets such a target, `order`
when the engines read the places of a call at different moments and that may matter, `callback` when
built-in code calls a function with a `ref` parameter, `split` when they part at a commit for another
reason.

*Actions.* `Prepare` is the preflight (arity, modes, distinct roots, before any argument is evaluated),
`Take` is the walker's `resolve_place` of one `ref` argument: its index expressions have run, its root is
copied and the place read. `Enter` is the jump: the walker passes its copies, the VM, which has evaluated
all index expressions by then, reads all roots (`call_prepared`). Before the first `Take` and, if the next
place has an index, before each other one, expressions run (`Evaluates`): they may prepare calls of their
own, use `pop`, or use `try_call` and fail. `Refuse` is a `Take` that finds its place gone while the VM
still has index expressions to evaluate. `Return` is `commit_ref_places` in the walker and
`commit_frame_write_backs` in the VM; `Fail` is `unwind_to_try_call`; `Fatal` is an error that no `try_call`
stops. `Assign` and `Pop` are the program's direct writes.

*Properties.* `EnginesAgree`: the same bindings in both engines, but for the two divergences under Findings
and the order of reading places (section 6). `StagedIsPrivate`: from the walker's copy to the return a place
keeps its value, unless an index expression of the call or code it runs writes the root by name.
`AllOrNothing` (of steps): a return writes all places or none; an error writes none, however many calls it
abandons.

### 3.3 Storage and Dictionaries

*State.* `held` is what each variable holds: a scalar or the address of a backing. `backing` has, for each
address, the fields of `ArrayData`: items, the depth recorded for each item (`child_depths`), its own depth,
the capacity, the receipt (`bytes`, `owner`) and the strong count of the `Rc`. `used` is each
`MemoryAccount`. `dropping` lists the handles that the last operation has still to drop: Rust drops them at
the end of the operation, and dropping the last handle of an array drops its items. `wasted` and `lost` are
history variables about the last operation, used only by the two documented promises that the code does not
keep.

*Actions.* `Assign`, `Copy`, `Build`, `Read` are assignment, handle copy (also by the host, from instance to
instance), literals and indexing. `Insert`, `RemoveItem`, `RemoveInto`, `Truncate` and `Turn` are the array
methods as `transactional_array_method_in` runs them: method, check of the account, undo of a push or
insert. `Write` and `WriteInner` are `v[i] = c` and `v[i][j] = c`, `Write` in both engines, since the walker
goes through clones of the binding and the VM does not. `Drop` is one step of releasing handles. Every
mutation goes through `NeedsCopy`, `Detached`, `Owned` and `Paid`: `ensure_owner` with the receipt of the
copy.

*Properties.* `DepthsAreExact` and `AccountsAreExact` relate the cached quantities to what they cache (the
strong counts are those of `std`'s `Rc`). `NothingLeaks`: there is no cycle of handles, so that what is not
reachable from a variable is being released. `WritesArePrivate` (of steps): items change only in an array
with one handle, held by a variable of the instance that pays. `ChargesStayHome` (of steps): an operation of
one instance never raises the charge of another. `ValuesSpec`: sharing cannot be observed; `PureValues` has
no notion of it.

`Dictionaries` keeps the entries (their keys; values replace one another without effect on the index) and
the open-addressing table of `DictKeyIndex`. `SetKey`, `RemoveKey` and `Clear` are `NyblDict`'s operations;
a removal shifts the entries after it, renumbers the slots and shifts the cluster back. `IndexAgrees`: for
every key, the index (writes) and the linear scan (reads) name the same entry.

### 3.4 Instances

*State.* `inst` is what each instance retains (`VmState`, `ReplSession`): whether it is loaded and running,
its step counter, its globals (`total`), what its program keeps in memory (`kept`), the public functions in
order (`abi`) and the engine's frames. `ops` is the stack of operations in progress, one per borrowed host,
with what they have still to do. `held` counts the values that the host holds of each instance. A program is
abstracted to the statements that matter to an instance (`Statement`); `CodeAssumption` says what the
parsers and compilers see to: a function ends by a `return`, the one without a value that both engines
supply if its text has none, or goes round for ever; what a function declares in its body is no entry; only
a function can call itself.

*Actions.* `Load`, `Eval` (an input at a session), `Begin` of a call, prepared call, batch or call of a
function value, `Refuse` with the reason and in the order of the code's checks; `StartCall` enters the next
argument list, `Execute` runs a statement, `Unwind` an error, `Return` and `FinishBatch` end. A call inside
a host function is an operation above the caller's: the host has the turn while the status of the innermost
operation is `host`. Re-entry of the same instance is not expressible in safe Rust (an operation borrows the
instance mutably); the guard is there for embedders that get round this, and the model lets them try.
`prepare_entry` is not guarded.

*Properties.* `GuardExact`, `AtRest` and `EntriesAreFinal` say what an instance looks like during, between
and after operations. `AsIfAlone` compares every finished call with the same call run alone in a fresh
instance with the same globals: nothing of earlier calls, failed or not, nor of other instances shows but
through the globals. `ValuesFit` and `FailFast` are about the memory limit. `OperationsEnd`: every operation
releases the instance.

### 3.5 The language on three engines

`Walker` maps a state and a statement to a state, in the walker's order of evaluation, with its scopes,
signals, step and depth counters and the staged values of `ref` parameters. `Bytecode` compiles the same
tree: `LocalResolver`'s slots, captures (`free_variables.rs`), jump patching, `fusion_floor` and the fused
instructions, place and call-site descriptions, the scope pops of `break`, `continue` and failing arms.
`Validator` refuses chunks as `validate.rs` does. `Machine` executes an instruction a step: ten actions for
the groups of instructions, each with the handlers' order of checks; calls are prepared, entered and
returned through the seven kinds of `FrameWrap`, errors unwind to the innermost `try_call`, slots come from
and go back to the free list, and the module's environment moves with the frame on top.

`Aot` is emitter and emitted program in one: while the emitter walks a body it keeps the scopes in which the
emitted code will run, so that what it decides of a name (a Rust local, a variable of the module, a lookup
by name at run time; a declared function with one site, called directly, or with several, called through the
active one; a `ref` parameter hidden by a `let` of its own) and what the decision does when the code runs
are made of one state. `scopes` are the Rust blocks; `persistent`, `refs`, `captured`, `shadowed`,
`callable` and `method` are the emitter's facts about the running callable (`binding_storage`,
`in_callable_body`, `in_non_capturing_method`); `globals`, `types`, `active` and `sites` are the module's
tables at run time. What rustc would refuse fails at its place, and nothing before it is undone. A `?` in
the emitted code is the model's `sig`. Steps are counted where the templates call `__nybl_tick`, at other
places than in the walker, so that only the outcome at the limit is compared.

*The programs.* The corpus of `MCMachine` has 1012 programs: payloads (places and write-backs, control flow,
patterns, calls, closures, errors) in ten contexts (top level, block, function on module variables, function
on its own, loop, method, `ref` parameters, lambda, below `try_call`, closure that outlives its function),
each after a prelude of declarations and before an epilogue that prints the variables; programs that a host
answers; programs that only a limit ends. A payload in a context where its names mean something else is
where engines part: slots, captures, module variables, staged parameters.

*Properties.* `SameBehaviour`: the same output and the same result on the three engines. For the emitted
program, 957 of the 1012: not compared are those where a method names a module variable (`LooksOutside`) and
those whose refusal is worded otherwise (`Worded`, see the list under Findings). The VM's compiler refuses 7
programs, so that the machine runs 1005. `ChunksAreValid`, `BlocksBalance`, `StackFits`: what the compiler
emits is balanced, on the paths the programs take. `OneEnvironment`, `ModuleVariablesStay`, `FreshSlots`:
what moves from frame to frame is neither copied, lost nor left over. `Termination`: every program ends, by
the limits if by nothing else.

### 3.6 From text to tree

`Lexer` works on characters, `Parser` on tokens, both with the code's position, nesting counter and flags
(no struct literal in a condition; line ends inside delimiters). `SourceText` is written from the grammar's
point of view: it prints a tree with the parentheses it needs and no others, in three layouts. `ReadsBack`:
reading what was printed gives the tree. `EveryTokenCounts`: a text with a token missing is refused, or its
tree prints as the rest. `DeepTextsAreRefused`: for 34 ways of nesting, depth `MaxParseDepth` is read and
more is refused. The texts are the parts of the programs and eleven trees of what only the parser knows.

### 3.7 Static checks

`StaticChecks` follows a program of several modules in source order, as `check/source_order` does: lexical
frames, aliases and what branches, loops and callables may do to them, module surfaces, circles of imports.
`TypeNames` says what the names of a match's patterns mean on every path of an execution. `NoFalseAdvice`: a
warning is about the enum that the match's patterns name whenever it runs, and about variants that none of
its arms takes. 1156 programs: each ordered pair of 17 declarations and imports, in four shapes (in a row,
inside a branch, in two branches, in nested loops), before matches at the top, in blocks, loops, functions
and lambdas, with bare and namespaced patterns, alternatives and guards.

## 4. Runs

| run | checks | instance |
| --- | --- | --- |
| `environments` | `TypeOK`, `OneHome`, `ReadsAreLive`, `ForwardedVisible`, `LoadingIsOnStack`, `VmForwardingKept`, `StoreSpec` | either engine; root and 3 modules, 1 name, 2 values, 4 frames |
| `forwarding_kept` | finds `ForwardingKept` violated | the walker, the same |
| `ref_calls` | `TypeOK`, `EnginesAgree`, `StagedIsPrivate`, `AllOrNothing` | calls two deep with 1 `ref` parameter on one array of up to 2; or one call with 2 on two arrays, the other of up to 1, with `try_call` among its arguments |
| `same_semantics`, `modes_travel` | find `SameSemantics`, `ModesTravel` violated | call depth 2, 1 `ref` parameter |
| `storage_values` | `TypeOK`, `DepthsAreExact`, `NothingLeaks`, `ValuesSpec` | 1 instance, 2 variables, 4 allocations, depth 2 |
| `storage_accounts` | `AccountsAreExact`, `WritesArePrivate`, `ChargesStayHome`, `IndexAgrees` | 2 instances, the host, 3 allocations, limit 4; or a dictionary of 5 keys with hashes 0, 7 and 14 |
| `unique_in_place`, `method_errors` | find `UniqueMutatesInPlace`, `MethodErrorsRestore` violated | as `storage_accounts` |
| `instances` | `TypeOK`, `GuardExact`, `AtRest`, `EntriesAreFinal`, `AsIfAlone`, `ValuesFit`, `FailFast`, `OperationsEnd` | a walker, a VM and a session; 4 functions, batches of 2, 4 operations |
| `programs` | the properties of 3.5 to 3.7 | 1012 programs, 133 trees, 34 nestings, 1156 programs of several modules |
| `outer_locals` | finds `NoOuterLocals` violated | one program |

*Bounds, and why they are enough.*

- Environments. Names do not interact: every operator works name by name, so one is enough; a second value
  is needed to tell an old one from a new one. Three modules besides the root give a chain of re-exports of
  length two with an importer that is neither end of it. Four frames are a body that loads a body that calls
  back into the first one's functions, which call on.
- Reference calls. Depth two is needed to forward a parameter and to abandon two calls with one error; two
  parameters are needed to write one place and fail on the other, and for an index expression of the second
  to change the root of the first after the walker copied it; the product of both is left to the proof.
  Arrays of two elements are needed for a place to vanish while its neighbour stays; one element of the
  other array gives it a place that may be gone. `MaxPending = 1` is one argument list under evaluation per
  frame; a call made to compute another's arguments comes through `try_call`, whose function may make the
  same call again.
- Storage. Four allocations are an outer array, a nested one, and a copy of each under way. Depth two has a
  nested array that is shared while its owner is copied. In the second instance depth one is enough, because
  an account does not look into items, and the limit of 4 is crossed by a second array, by growth and by a
  copy-on-write.
- Dictionaries. Hashes may be any function from the keys to {0, 7, 14}: these collide in a table of 8 slots
  (14 lands on 6), part in one of 16, and their clusters go round the end of either. Five keys make the
  table grow from 8 to 16.
- Instances. `MaxSteps` = 12 is enough for every function by itself and is crossed by recursion or a loop;
  `MaxCallDepth` = 2 is crossed by `dive`; `MaxMemory` = 3 is crossed by calls of `keep` and by values that
  the host holds, and can be left by dropping some; the VM looks at its account every third step
  (`MemoryCadence`, 256 in the code), so that a call crosses the limit between two looks. An operation begun
  or refused counts towards `MaxRequests` = 4: enough to load two instances and to call one from the other's
  call, or to load one and to make three calls, among them a batch between two others.
- Programs. Integers go up to `MaxInt` = 127 with the overflow checks of 64 bits; ranges up to 10;
  `MaxCallDepth` = 4 (64 in the code), `FreelistCap` = 2 (128) and `MaxParseDepth` = 12 (128) are crossed by
  the corpus; `MaxVmSteps` = 400 and `MaxWalkerSteps` = 75 are reached by the endless programs and no
  others. The comparison is over the programs listed, not over all programs: each payload is there for a
  construct or a crossing of two, and the contexts multiply them.
- Symmetry is used for modules other than the root, names, values, allocations and keys. None of them is
  ordered or named in a model, and only safety properties are checked under it.

Bounds of the models only: `MaxFrames`, `MaxRefs`, `MaxLength`, `MaxPending`, `MaxItems`, `MaxBatch`,
`MaxRequests` and the finite sets `Block`, `Key`. Limits of the code with a small value: `MaxDepth`
(`MAX_CALL_DEPTH`, in `Storage` `MAX_VALUE_DEPTH`), `MaxCallDepth`, `MaxSteps`, `MaxMemory`,
`MemoryCadence`, `MaxInt`, `RangeLimit`, `MaxVmSteps`, `MaxWalkerSteps`, `FreelistCap`, `MaxParseDepth`.
`Programs`, `Compile`, `Walk`, `Native`, `Reading`, `Nesting` and `Advising` are constants so that TLC
evaluates what they stand for once, before the run.

*Deadlock* is checked in every run but `instances`: there the bound on the number of operations stops the
host in the end. Elsewhere a program that has ended is a state in which the host may call again, or stutters
by an action of its own (`Ended`).

*Fairness.* `Machine` assumes that the run loop goes on: weak fairness of `Next`, written out, because a
step is possible as long as the program runs. The interpreter's loop is a plain `loop` with no waiting in
it. `Instances` assumes weak fairness of each engine for the same reason, and strong fairness of `Reply`: a
host function returns in the end, however often it calls instances before that. Strong, because each nested
operation disables the reply for a while. No fairness is assumed of `Begin`: the host need not call.
Environments, reference calls and storage state no liveness: a program may loop for ever there, and each
operation of the engine is one step.

## 5. Proofs

All theorems hold for every value of the constants under the named assumptions of the modules, which TLC
evaluates in the runs. In the environments: special marks differ from ordinary values, `Root` is a module,
some frame is allowed. In `RefCalls`: root bindings are not parameters, a plain value is not an array,
`Nothing` is neither. In `Storage`: there are finitely many variables and addresses, a scalar is not an
address, the host is not an account, `MaxDepth` is positive (`MAX_VALUE_DEPTH` is 64). In `Instances`: each
instance has an engine, the limits are naturals (the cadence of the VM's look at memory not 0), and programs
are as `CodeAssumption` says. In `Dictionaries`: hashes are naturals and literals are sequences of keys.
`ArraysAreValues` has a hypothesis of its own, `ScalarsAreAtoms`: no scalar is a sequence. `PureValues`
tells arrays from scalars by that, as the code does by the variants of `Value`. No assumption bounds how
many modules, names, values, calls, variables, arrays, items, instances, programs or nested operations there
are.

| theorem | statement |
| --- | --- |
| `LiveEnvironments_proof!Invariance` | `Spec => []IInv` |
| `TypesAreKept`, `OneHomeAlways`, `MarkersAreExact`, `ForwardedAlwaysVisible`, `ReadsAreAlwaysLive` | the invariants of `environments`, for the walker |
| `ImplementsStore` | `Spec => StoreSpec`: refinement of `ModuleStore` |
| `VmEnvironments_proof!EitherInvariance` | `Either => []EitherInv`, whichever engine runs |
| `EitherTypesAreKept`, `EitherOneHome`, `EitherMarkersAreExact`, `EitherForwardedVisible`, `EitherReadsAreLive`, `VmForwardingAlwaysKept` | the invariants of `environments`, for the specification of that run |
| `EitherImplementsStore` | `Either => StoreSpec`: both engines refine `ModuleStore` |
| `RefCalls_proof!Invariance` | `Spec => []IInv` |
| `TypesAreKept`, `EnginesAlwaysAgree`, `StagedAlwaysPrivate`, `AlwaysAllOrNothing` | the properties of `ref_calls` |
| `Storage_proof!StorageInvariance` | `Spec => []IInv` |
| `StorageTypes`, `AccountsAreAlwaysExact`, `DepthsAreAlwaysExact`, `NothingEverLeaks` | the invariants of `storage_values` and `storage_accounts` about arrays |
| `WritesAreAlwaysPrivate`, `ChargesAlwaysStayHome` | what no step of `storage_accounts` does |
| `StorageValues_proof!ArraysAreValues` | `Spec => ValuesSpec`: refinement of `PureValues`, if no scalar is a sequence |
| `Dictionaries_proof!IndexIsSound` | what the index finds is right, and half of it is empty, whatever the literals |
| `IndexAlwaysAgrees` | `IndexAgrees`, if no literal repeats a key |
| `Instances_proof!InstancesInvariance` | `Spec => []IInv` |
| `InstancesTypes`, `GuardAlwaysExact`, `RestIsAlwaysClean`, `EntriesAreAlwaysFinal` | the invariants of `instances` |
| `ValuesAlwaysFit`, `CallsAlwaysFailFast` | its action properties |

*LiveEnvironments.* `OneHome` is not inductive. A return takes the environment of a frame that may have been
suspended for long, under origins recorded then; a take under bad origins would overwrite a variable with a
forwarded one (so `Unshadowed`: who forwards a name has no variable of that name) or find nothing (so
`Anchored`: what a foreign origin names exists in a loaded module). Both have to hold of every frame and
every published map, and survive failed loads: hence `NothingBelowBody` and `AbsentIsEmpty`, which say that
only closures with no forwarding at all are left of a failed body. `ReadsAreLive` also needs `Agrees`: the
frames of a module forward a name to the variable its exports name, or not at all. The key lemmas are
`ParkedIsStore` (parking the running environment yields the abstract store) and `ResumeStore` (taking an
environment leaves the store unchanged and keeps `OneHome`). Every action but `Let` and `Assign` is a park
followed by a take; there is one lemma per action, and each also says how `store` changes, which is the step
of the refinement.

*VmEnvironments.* The walker's invariant holds of the VM too, but its frames get there differently, so each
VM step is proved as a sequence of moves (park, store a frame, restore) over states in which everything is
parked (`ParkedShape`, `EntriesIn`). `VmInv` adds what the machine relies on: the running frame has the
origins that the machine would look up for its module (`OriginsAreLookedUp`), a module without an entry in
the registry has nothing parked (`EntriesHold`), a suspended frame's module has an entry, is the running one
or is gone (`SuspendedHaveEntries`), and the running module has none, but for an empty one that a body may
find when it starts (`RunningHasNoEntry`). `ForwardingKept`, which the walker loses, is inductive here,
since the origins that a step publishes are those looked up. An error pops any number of frames: that is a
recursive function, `Popped`, and its result is proved by induction on the frames with `NatInd`. `EitherInv`
puts the two engines together: every step of either keeps it, and is a step of `ModuleStore` or a stutter.

*Storage.* `IInv` is `State(backing, used, held, dropping)`, a statement about what each operation has in
its hands, so that it can be said of the middle of an operation as well. Its parts: `Sound` (a free address
is blank, a recorded depth is the item's, a receipt is that of the capacity, and an array's count covers the
handles that arrays store, so that none stores a freed one); `Handles` (the handles of an array that no
array stores are those of variables and of `dropping`); `Books` (an account's `used` is the sum of the
receipts it owns). An operation is a chain of `ensure_owner`, copy, change, release, and `Storage_proof` has
one lemma for each link: what it does to counts and charges, given any `Sound` heap and operands that are
alive. Then it chains them, one lemma per action, each of which also gives the two action properties
(`Stepped`): that a written array had one handle, and whose account grew. `NothingLeaks` follows since depth
decreases from an array to its items: a set of arrays that hold one another would have a deepest one. Counts
are sums over arrays and over their items, hence `Sums`: a sum is what it is whatever element comes first,
which is shown through units (a sum is the number of pairs of an element and a number below its term).

*StorageValues.* The mapping, `Meaning`, unfolds what a variable holds into nested sequences, level by level
up to `MaxDepth`. A value is the same tree at every level from its recorded depth on (`SettledIs`, by
induction on the depth), so an array stands for the sequence of what its items stand for (`TreeIs`): this is
where `DepthsAreExact` is needed, since an array deeper than recorded would be cut off. A step rewrites or
frees some allocations, and any set of allocations that is closed under items and left alone stands for what
it did (`Untouched`). So each operation has to show that what it writes is `Unseen`: in no array, and held
by no variable but the one written. An allocation with a count of one has no other handle (`TargetIsUnseen`,
from the exact counts), a free one has none (`FreeIsUnseen`); hence `ensure_owner` makes a write private.
What the written array then stands for is the abstract method on trees, one lemma per method
(`MappedInsert`, `MappedRemove`, ...). An assignment through two indices writes an inner and an outer
allocation (`WritesTwo`), an insert refused for memory is undone and is a stutter (`InsertUndone`), and a
drop frees only what no variable reaches.

*Dictionaries.* That each key is found says nothing of the slots between, so it is not inductive: a removal
may break the way to a key it has nothing to do with. `SoundInv` says that no two used slots hold entries of
one key (`Distinct`), that every slot on an entry's way, round the end of the table, from its home to where
it is, is used (`Reached`), and that at most half of the slots are. The way is a relation between three
slots (`OnWay`), so that the proofs reason about order on a circle rather than about remainders. The
backward shift needs an invariant of its own (`Shifting`): after looking at `i` slots behind the removed
one, the table without its gap still has both properties for all entries but that the gap may lie on the
ways of the entries not yet looked at; the test `Keeps` decides exactly whether it lies on this one's.
Growing, filling and shifting are recursive functions, and each is proved by induction on the slots moved,
entries filled or slots passed (`NatInd`). `CompleteInv` adds that the slots hold the places of all the
entries. It needs a hypothesis: no literal repeats a key. With such a literal the code's index and entries
do disagree (section 6); the theorem without the hypothesis, `IndexIsSound`, says what remains true of those
dictionaries.

*RefCalls.* The invariant says that a target whose root nobody wrote still holds the value of the snapshot
in both engines (`SnapshotsAreFresh`), that targets are in the caller's reach and distinct (`CallsAreGood`),
that everything nameable holds something (`IsFilled`) and that arrays stay arrays (`KindsAreKept`; without
it a place could vanish by a change of kind). From these the walker's commit into its snapshot and the VM's
commit into the present root coincide. A call under way needs the same of each root that the walker has
copied, while the later arguments are evaluated: the place was in it, its root is still of the same kind,
and is the same unless it is among the `late` ones (`PreparedAreGood`). Every write marks what it makes late
in all the frames (`MarkedKeeps` says that this is enough), so that a call without late copies passes the
same in both engines (`EnterMemories`).

*Instances.* None of the invariants is inductive: that the flag of an instance is up exactly during a call
says nothing of the operations below the innermost, and that an instance at rest is clean says nothing of
one that is running. `IInv` looks at three things. Each instance by itself is `Good`: its frames are within
the depth and the budget (`Stack`), it is `Bare` between the calls of an operation as well as at rest, and
what it has declared so far is what the statements up to its place declare (`Sheds`, `Declares`), so that a
top level that is at its end has declared everything, one that goes round for ever never gets there, and a
loaded one never runs again. Each operation `Fits` its instance: a call has a guarded, loaded instance
(`Calls`), a load or an input has an unguarded one in its bottom frame (`Opens`); and where a value is about
to be handed out or a call to begin, the account is within the limit, with what the host and the batch hold.
Lastly, an instance has at most one operation; every operation but the innermost is waiting for the host, so
no step below it can happen; and an instance with none is at rest with its flag down.

A step changes one instance and the top of the stack, and there is one lemma for each way: an operation
pushed, the top one changed, the top one popped (`PushKeeps`, `TopKeeps`, `PopKeeps`). Below them are the
engines: a statement of a top level moves `Declares` on by one (`PublicNext`, with the order in which names
are listed), a statement of a function leaves what is below it. What the account carries is a sum over the
stack (`Values`, with the laws of `Sums`), which a step changes by what it adds to or takes from one batch.
A run with `IInv` as its invariant had agreed with it before it was proved. The attempt showed what the
model had left open: a function that runs off its end without a return, and one that declares an entry in
its body. The code rules both out (both engines supply the return; only a top level enters functions into
the ABI), and `CodeAssumption` says so.

*What is not proved.* `AsIfAlone` compares a call with a run of its own, which a `RECURSIVE` operator of
`MCInstances` computes. Outside the provers' reach are liveness and ENABLED (`Termination`,
`OperationsEnd`), and every fact with an operator as a parameter, in which the library states induction.
Induction over the naturals is possible even so (`NatInd`, from the fact that `<` is well-founded), and is
what sums, the unwinding of frames and the tables of dictionaries needed; nested arrays are unfolded that
way too, by their depths. Nothing is proved about `RECURSIVE` operators: the engines, compiler, lexer,
parser and checks, which recurse over trees.

## 6. Findings

Six are reproduced by a run:

1. **A closure of a failed module body can erase a loaded module's forwarding** (`forwarding_kept`, code
   bug). `call_nybl_fn_with_refs` publishes the callee's origins on return, without asking whether its
   module was loaded anew meanwhile. The VM does not (`VmForwardingKept`).
2. **The engines differ when a callee writes the root of an element it was passed** (`same_semantics`). The
   walker writes back into the root it copied at the call, and so undoes the callee's own write; the VM
   writes into the present root. The documentation promises the same semantics.
3. **Callbacks from built-in code skip the check of `ref` modes in the VM** (`modes_travel`).
4. **The walker copies unshared arrays on element assignment** (`unique_in_place`). Its resolved place holds
   clones of the binding, so the storage is never unique when it is written.
5. **A method over budget leaves its changes** (`method_errors`). Only push and insert are undone, while the
   comment promises that the binding is restored on every error.
6. **A function sees the block variables of the main program in the VM** (`outer_locals`). `lookup_var`
   searches all the scopes of the root frame; the walker's calls start from the module's scope.

Others were met while modelling. The programs of `programs` keep clear of them, so that `SameBehaviour` says
what it says about the rest:

- The order in which the places of a call are read: the walker evaluates the index expressions of one `ref`
  argument and copies its root before it goes on to the next (evaluator.rs:3734-3745), the VM evaluates
  those of all and then reads (vm.rs:3351-3422). In `f(ref rows, ref other[rows.pop()])` the walker passes
  `rows` as it was, and the return puts the popped element back; the VM passes the shorter one. If the first
  place has gone, the walker fails before the second's index expressions run, the VM after.
  docs/content/docs/functions/reference-parameters.md:178 ("evaluate index expressions and snapshot
  reference places in parameter order") does not decide between them, 279 promises the same semantics.
  `RefCalls` ends the comparison there (`order`), and no program of the corpus does it. The emitted program
  has the walker's order.
- `break` and `continue` outside a loop: the VM refuses the program, the walker fails when it gets there.
  Likewise a function or lambda that captures a `ref` parameter.
- Assigning to a function's own name inside it sets a local binding in the walker and fails in the VM.
- A read-only method on a captured root: `PrepareMethodPlace` refuses it (vm.rs:2366, 3637), the walker's
  read-only plan (evaluator.rs:1057) allows it.
- A named function with a rest parameter: the VM asks the host first (vm.rs:362), the walker only when all
  parameters are plain.
- An argument that turns a mutating receiver into a struct with a method of that name: the VM calls the
  method, the walker fails.
- The order of reasons to refuse a call: the walker looks at captured receivers and places before arity and
  modes (evaluator.rs:3198), the VM after. Some messages differ in wording ("not a function", "can't call";
  a missing root of an assignment).
- A call that names two places of one local variable: validate.rs:330 refuses the whole program when it is
  loaded, although validate.rs:24 says that "Compiler-produced chunks satisfy these invariants by
  construction"; the walker fails when the call is made. (`SharedRoots` runs only where the variable has no
  slot.)
- Batches: the VM looks at the account after every item, the walker at the end; after a failed batch the
  walker drops its values before it looks, the VM after.
- The check of value receivers (parser.rs:2910) misses `self.items.push(1)`, `self.inner.bump()` and index
  expressions of an assignment's target.
- check.rs:8 says that the checker "only warns when every relevant arm resolves to one proven runtime enum
  identity". It is wrong when an alias is reassigned in a function's body or later in the body of a loop,
  when a module's `pub { }` surface hides the enum, and when a function is called before a later declaration
  of the same name. The programs of `MCAdvice` do none of these.
- A dictionary literal with a repeated key keeps both entries and indexes the first. After `d.remove("a")`
  the second stays, and `d["a"] = 3` then adds another, which reads do not find. dict_index.rs:21 still says
  "Dictionaries do not remove keys".
- evaluator.rs:3986 says "type_bindings is NOT reset"; the call replaces them.
- The emitted program (`Aot`) parts from the walker in more places. A method body, or a function in one,
  that reads a variable of the module by name gets "variable not found" (emit.rs:2788), although
  emit.rs:1652 says that such reads "compile to the same runtime lookup error as walker/VM"; both of these
  read the variable.
- Called through `__nybl_call_value` (runtime_templates.rs:1119), a function with `ref` parameters is not
  refused when the call says no `ref`, nor as a callback of `map`;
  docs/content/docs/functions/reference-parameters.md:185 says it is. And a module variable that holds such
  a function cannot be called with `ref` in a function's body (emit.rs:6704).
- A module variable that holds a function is read after the call's arguments are evaluated; one with the
  name of a built-in is called under the built-in's arity (emit.rs:6785).
- A nested function with one declaration is called without asking the host; a lambda that calls the function
  it stands in by name asks the host and finds the latest declaration.
- `let n` over a `ref` parameter `n`: the emitted program writes back the value the parameter had before
  (emit.rs:6098), the walker the new one.
- A lambda that contains a named function which mentions a `ref` parameter's name is refused; a named
  function's name in an interpolated string is found, by the walker it is not.
- Unknown names at the top, `break` outside a loop and assignments to what is no place are refused when the
  program is compiled. An assignment to an unknown variable says "variable not found". The order of the
  reasons to refuse a call and the words for a missing `ref` target differ.

## 7. Hazards

PROJECT.json lists each hazard at the line where it bites and the properties that cover it: every one of the
40 has at least one. Where the property is one that fails (`ForwardingKept`, `ModesTravel`,
`MethodErrorsRestore`, `UniqueMutatesInPlace`), the hazard is real and the run shows it.

## 8. Not modelled

- Types, traits, methods, enum and struct declarations of imported modules in `LiveEnvironments`: they carry
  no mutable state across the environment moves. Types across modules are `TypeNames`.
- Imports, constants and `pub` surfaces in `Walker`, `Bytecode` and `Machine`; floats, string methods,
  sorting, default methods of traits and the wording of messages.
- In `Aot`: `use` with its overlays, declaration aliases and optional imports, module callables, constants,
  the native paths taken outside of the sandbox, memory checks, `NyblInstance`. What a function declared in
  a nested block of a lambda names is taken to be that block's or the module's.
- The VM's `Call`, `CallValue` and `CallMethod` family (vm.rs 3934-4273): the compiler does not emit it any
  more.
- Places deeper than one index in `RefCalls`: deeper ones are in `Walker` and `Machine`, over the programs.
- Accounts of dictionaries, structs and enum payloads, iterators and `take`: the protocol of `ensure_owner`
  and receipts is the one modelled for arrays. What a dictionary charges for its index is left out.
- In `Storage`, when an instance over its limit notices: that is the subject of `Instances`.
- In `Instances`, inspection (globals, type names), which changes nothing, and the AOT's `NyblInstance`.
- The checks for disabled built-ins, naming rules and suggestions, and the disassembler: pure functions
  whose subject is wording.
- Command line, terminal, editor tooling, the site and the bundled library: I/O, or programs of the system
  and not the system.
