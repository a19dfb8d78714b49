# EZ: a TLA+ model of the language and its runtime

EZ is a scripting language: a lexer, a parser, a type checker and a compiler turn text
into bytecode, a stack VM executes it, and a runtime offers models and instances, async
tasks, threads, channels and a cycle collector on top of reference counting; a package
manager installs libraries. This directory specifies the parts of `src/src/` in which the
order of steps, or the agreement of two representations, decides whether the program is
right, checks them with TLC on small instances, and proves the central invariants of eight
of them with TLAPS for instances of any size. Paths below are relative to `src/src/`.

## 1. The system and its parts

| Part | State | Operations | What makes it correct |
|---|---|---|---|
| Safepoint protocol (`gc/CycleCollector.*`) | `safepointRequested_`, `activeMutators_`, `parkedMutators_`, `safepointBackoff_`, two mutexes, two condition variables | start and exit of a thread, poll, park, safe regions, handshake with a 25 ms timeout, release | nobody runs bytecode while the heap is walked; the counters compared are exact; no thread stays parked |
| Cycle collector (`gc/CycleCollector.cpp`) | two generations of weak references; the object graph | `track`, minor and major collection, `clearObject`, enabling | clears only what is unreachable, finds all that is, forgets nobody |
| Futures and event loop (`runtime/EZFuture.h`, `eventloop/`) | result, callbacks; task queue, `pendingIoCount`, libuv's handles | `then`, `set`, `cancel`, `wait`; `pushTask`, `retain`, `release`, `run` | every waiter resumed exactly once; the loop ends when, and only when, nothing is left to do |
| Calls and exceptions (`vm/`) | frames, their upvalues, operand stack, try blocks, nested `run()` invocations | CALL, TAIL_CALL, RETURN, TRY_START, TRY_END, THROW, faults, natives that call back | an exception reaches the innermost handler the program wrote, with the frame, the stack and the upvalues that handler was compiled for |
| Channels, mutexes, atomics (`builtins/core/Concurrency.cpp`) | queue, flag, mutex, condition variable | `send`, `receive`, `receiveTimeout`, `tryReceive`, `close` | an atomic FIFO; no lost wakeup |
| Compiler (`compiler/`) | scopes, locals, upvalues, loops, active try statements, constants | one visit per AST node | the code does what the source means, and what the compiler knows of locals, operands and try blocks is so at run time |
| VM instructions (`vm/`) | operand stack, frames, open upvalues, global slots | some 120 opcodes | each computes what the language says, at the widths the code has |
| Models and instances (`vm/`, `runtime/objects/`) | classes, shapes, inline caches, audit logs, result caches, rows of a database | declare, read, write, call, `super`, decorators | a cache never answers differently from the lookup it replaces; a decorator's promise holds along every path |
| Rate limiter (RATELIMIT_CHECK in `vm/BytecodeVMExecute.cpp`) | a window of stamps for each name, a sweep counter, one mutex | the check that starts a call of a task with `@ratelimit` | no period admits more calls than the count, none is refused for nothing |
| Lexer, parser (`lexer/`, `parser/`) | position, nesting depth, error flags | one method per rule | precedence, line joining; error recovery ends and drops nothing |
| Type checker (`typechecker/`) | scopes, models, generic bindings | two passes over the tree | one verdict whatever the order of declarations |
| Package manager (`cli/PackageManager.h`) | library folder, archive cache, `ez.lock`, `package.ez` | install, uninstall | the four agree after each command that succeeds; nothing unverified is unpacked |
| Timers (`builtins/time/Timer.cpp`) | a detached thread per start, two atomic flags per timer state | `init`, `onTick`, `start`, `stop`, the thread's sleep and tick | no more threads than starts and stops account for; `stop()` silences |
| Bytecode, serializer | chunks | encode, decode | decoding inverts encoding |
| Security policy, permission scanner | allowed capabilities | decisions | denial does not depend on the order of options |
| Builtin library, FFI, network, GUI, CLI | mostly none of their own | wrappers of library calls | – |

How they interact: the parser's trees are checked by the type checker and compiled; the
compiler's output drives the VM; natives called by the VM call back into it through
`callFunction()`; `spawn()` creates a thread with a VM of its own that shares globals,
channels and futures with its creator; every thread registers as a mutator and answers the
collector's safepoints at LOOP instructions, in `track()` and around blocking calls; OP_AWAIT
gives the VM up to the event loop, and whoever settles the future pushes the VM's resumption
to the loop's queue. Packages are found by the compiler's `use`, which reads their directory.

What is hard: threads that start, exit or sleep while another tries to stop them;
a future settled between the test and the registration; a loop that decides to end
while a worker hands it its last task; faults that cross native frames; a collector whose
view of closures differs from what the closures own; variables that move from the stack to
the heap on every way out of a scope; finally blocks compiled once per way out; caches in
instructions that outlive what they were filled from; a parser that must recover without
spinning; and commands killed between two files. `PROJECT.json` lists these hazards line by
line with the properties that would catch them.

## 2. Modules

`MC*` modules instantiate a module for TLC (`MCCompile` and `MCFrontend` also hold the families
of programs and texts and the properties that compare two modules). Definitions keep the names of
the source; the `map` of `PROJECT.json` gives the lines of each.

### Threads, memory, control

**Safepoint** – threads with a program counter each. One critical section of
`safepointMutex_` is one action: inside it the code reads every shared atomic once,
and the only writer outside it, the compare-and-swap of `bringToSafepoint()`, can only set
the request. `mutex_` is held across a collection and so is the pc `"collecting"`. The load and
the decrement of `safepointBackoff_` are two actions. Whether `track()` crosses a threshold is a
choice, since thresholds depend on the heap and not on the protocol. `lateStart` is
a history variable: some thread has registered between another's handshake and its release.

**CycleCollector** – the object graph. A *place* is what owns a value (a stack slot, a
container's field, the `closed` member of an upvalue); `use_count()` is the
number of places that hold an object, so reference counting is a fact about places and not
a variable. `Visited` is what `traverse()` visits, which for an open upvalue is a
stack slot. Arrays, tuples, dictionaries, instances and classes are one kind of container.
`AdjustedRC`, `Marked` and `Garbage` are phases 2 and 3; `Become` is what reference counting
and phase 1 leave behind after any change.

**Async** – futures, the task queue, libuv, async tasks, worker threads and timers.
The loop thread's calls are one step each; a worker's lock, push, `uv_async_send` and release are
steps of their own, because those interleave with the loop. `asyncCallback()` and `run()` look at the
queue under the lock and at `pendingIoCount` after it, in two actions, as in the code. libuv is
external: many sends share one flag, `uv_run` delivers events until `uv_stop`.

**VMUnwind** – frames, the upvalues beside them, try blocks and nested `run()` invocations.
The operand stack is its height, kept twice as in the code (`run()`'s local
`stackTop` and `this->stackTop`). What the compiler knows of a frame (operands, enclosing try
statements) is kept beside the frame: it decides which instructions can come next, and the
run-time state is compared with it. Faults are the four kinds the code has: THROW, the
instruction budget, `runtimeError()` and a C++ exception. RETURN's loop over the try blocks is `PopTryBlocks`, which takes away the run of blocks at the end that
belong to the frame left, and no other. A fault is *raised* when it stops the machine, and *refused* when it is that of a callback that `dispatchCall()`
turned down (`RefusedCallback`): `restoreState()` then sets `running` again over the pending fault, and the frame goes on, through any instruction, until something else raises.

**Channel** implements **ChannelFIFO**, the abstract channel in which every operation is
atomic. `send()` notifies one waiter after it has released the mutex; a notified waiter
takes the mutex again in a step of its own, and may be woken for no reason.

**Timer** – `init`, `onTick`, `start` and `stop`, called by scripts and by the timer's own callback, against the detached threads that
`start()` launches. Each load and store of `running` and `stopRequested` is an action: `start()` stores one and clears the other
in two steps, `stop()` in the opposite order. A state replaced by `init()` lives while somebody holds it (`Expired` is the weak pointer).
`stops`, `races`, `quiet` and `silenced` are histories for the two properties.

### From text to result

**Syntax** – one constructor per node of the syntax tree, with the members of the C++ structs. It is what
the parser produces, the type checker and the compiler consume and the reference semantics interprets.

**Compiler** – the compiler object is a record threaded through operators named as its methods. The stack of
per-function compilers, the loop stack, the enclosing try statements with their finally blocks, the statics and the
imported modules are its fields. Instructions are tuples; a jump names its target. The widths of operands that the
compiler chooses an instruction by (`NarrowMax`, `ImmMax`, `UpvalueMax`) and those of integers (`IntBits`) are constants. `isConstant` has the folder's third
outcome besides a value and none: `BadVariantAccess`, the exception thrown on a float beside a literal that is no number, with which the compilation ends.

**Machine** – the VM executing that code: one action per group of instructions, on `stack`, `frames`, `upvalues`, `heap`,
`slots`, `tries`. An upvalue is open while it aliases a stack slot. `run()` has a `stackTop` of its own beside `this->stackTop`: `synced` is the
height of the latter, kept by exactly the instructions that sync, because a caught exception goes back to it (`Unwind`). `left` is a history: the
operands that caught exceptions left in a frame, negative when they took some. **Values** has the operators of both: truth, equality,
wrapping integers, exact fractions for floats, printing.

**Semantics** – what a program means: an interpreter of the syntax tree with cells and environments, which knows nothing of slots,
jumps, folding or fused instructions. **MCCompile** compiles each program of its families, runs it and compares.

**Lexer**, **Parser** – from lexemes to trees. Every rule of the grammar is an operator from parser to parser with the
`DepthGuard`, the error flags and the recovery (`synchronize()`) of the code. `spins` notes a loop that went round without reading a
token. **TypeChecker** – both passes, every kind of statement and expression. **Frontend** is the machine that
`runFile()` is: tokenise, one declaration per turn, then check types. **MCFrontend** prints trees as text in two layouts and reads them back.

### Objects and packages

**Objects** – the declaration of models, instances with their shapes, a cache per access site, visibility, `__getattr__` and
`__setattr__`, and the behaviours decorators attach: `@validate`, `@audited`, `@cached`, `@snapshot`, `@persist` (a
restart keeps the rows and nothing else). `Up` is what a walk along parent pointers reaches and `First` where a lookup along it stops. `rollback()` and
`load()` set one property per step (`RestoreProperty`, `LoadRow`), in any order, while `native` says what the call has still to set and nothing else runs.
`told` (what the program last assigned), `since` (the same at the last `audit_clear()`), `around` (instances written by an instruction that consults no behaviour)
and `foreign` (instances rolled back to values their own rules never met) are histories that the properties compare with. A write a cached task makes is one step with its
result: the body is `KeepBooks`. A value has a type and a text, and a rule is a set of values, since `notnull`, `minlen`, `maxlen` and `pattern` ask for the
type first. The database keeps the text alone, and `Parsed` is what `load()` guesses from it.

**RateLimiter** – `@ratelimit`, called by any number of threads. `ReadClock` and `Check` are two actions, because the code reads the
clock before it takes `registryMutex`: a thread may push a stamp older than those already there and expire windows by an old reading.
Nothing in the code bounds how old a reading gets; the constant `Stall` does, and both properties name it. `Unexpired` is the loop that
pops the front of a window, `Swept` the sweep after every `SweepEvery` admitted calls. The registry is keyed by the task's bare name, which is
`Name`. `admitted` and `refusal` are the histories.

**Packages** – `ez install` and `ez uninstall` as sequences of steps (plan, fetch, verify, guard, remove, create, unpack,
record, lock), each of which may fail; the process may be killed between any two, or half way through removing or unpacking a
directory, and a file that is being rewritten is then empty or written in part. The writes of `ez.lock` and `package.ez` fail too (`WriteFails`), at the open or
half way, and the command goes on as the code does: `unwritten` names the files that did not get what this command meant for them, and a `package.ez` of which only a part was written is
`torn` and stays so, because later commands edit the text they find. The registry is external: it publishes versions at any time, and answers a
resolution with any order of the wanted packages that puts dependencies first (`PlansFor`).

**SafepointProofs**, **CycleCollectorProofs**, **ChannelProofs**, **AsyncProofs**, **VMUnwindProofs**, **PackagesProofs**,
**TimerProofs** and **ObjectsProofs** hold the theorems, each beside the module it is named after; ObjectsProofs has those of **RateLimiter** too.

## 3. Runs

| Run | Instance | Shows |
|---|---|---|
| `safepoint` | main and two workers, back-off 1 | the counters are exact; the world is stopped during a collection unless a thread registered in the window; every request has an owner; the back-off is bounded although its test and decrement race; every attempt ends and every parked thread resumes |
| `async` | main, one async task, one worker or daemon, one timer | a waiting VM has exactly one resumption on its way; retains and releases balance; `run()` ends only when idle, and does end; a settled future keeps its outcome |
| `heap` | two containers of two fields, two closures, one upvalue, two slots | every object is in one generation; a major collection finds all garbage; none clears a reachable object while visits stand for owned references |
| `unwind` | three frames, three nested `run()`s, two try statements at once, stack of five | registered try blocks are the open try statements in order; each `run()` keeps its own frames; no bytecode executes past a raised fault |
| `channel` | three threads, two values, queue of two | `ImplementsFIFO` (refinement), no lost wakeup, sleepers are released |
| `compile` | six families of programs (below) | compiled code prints and ends as the source means; locals stay in reserved slots and statements leave the operand stack as they found it, which only caught exceptions change (`StackAsPlanned`); an open upvalue aliases a live local, one per slot; try blocks belong to live frames; every program ends |
| `objects` | eight worlds of models and access sites; one of two limited tasks and two threads | accesses answer what declarations and assignments say whatever the caches hold; audit logs account for every value; cached results are fresh; what a validated property or its row holds was accepted by its rule, or is what `load()` makes of it; no period admits more calls of a limited task than its count, and none is refused before the count is used up |
| `frontend` | some 4300 texts | written trees are read back as themselves and refused texts are refused; an accepted text is read in full and no loop of the parser spins (`RecoverySound`); the checker's verdict does not depend on the order of sibling tasks |
| `timer` | one script, three timer threads, two states, seven calls | a timer has at most one thread, and one more for each stop and each overlapping start; `stop()` silences a timer unless a start overlaps or follows it: no sleep ends in a tick, and every thread ends |
| `packages` | two packages, two versions, three commands, two faults | a successful install leaves plan and directories in agreement, and `ez.lock` and `package.ez` with them unless its own write of that file failed, whatever failed before; nothing unverified is unpacked |

**Bounds.** Three threads are one that collects (or sends), one that is stopped (or sleeps) and one that
starts, exits or competes; no step of either protocol involves more than those three roles. The back-off of 1 stands for
4096: the code compares it with zero only, and 1 makes both sides of the comparison frequent; the theorems
hold for every value. The heap is the smallest with a cycle through containers, one through a closure and
an upvalue shared by two closures. In `unwind` the try statements being executed are bounded in
total over all frames; three nested `run()`s let a callback's native call back again. A queue of two
makes order visible.

In `compile` the limits of the code are small enough to be crossed: integers have 6 bits instead of 64 (folding and execution
overflow), a one-byte slot ends at 7 instead of 255 (both forms of the load and store instructions), immediates at 3 instead of 127, captured variables
at 4 instead of 255, call depth at 6 instead of the code's limit. The families are: every way of leaving (`give`, `escape`, `skip`, `throw`, fault, falling off the
end) a try statement with catch, finally, both or nested ones, in each kind of loop, also from inside the catch; closures and recursion; constant
operands under every operator, folded and not; expressions and assignments; calls with defaults, keywords, spreads, decorators and contracts; modules that import each other.

In `objects` each world is the smallest in which one mechanism meets the others: one instruction that sees objects of three models, two shapes with the
same properties, a property that takes a task's name, cached tasks on an audited, validated model, on a subclass, and on models whose
hook takes or whose rule refuses the task's own write, and between which snapshots can be passed. A log of three entries holds two entries of one
property around one of another. The ninth world has no models: **RateLimiter** takes its place, as limited tasks share no state with instances. Its tasks may run twice in two
ticks and once in three, a reading may be one tick old, a clock of six ticks lets a window slide twice, and `Day` and `SweepEvery` (3 and 2) stand for 86400 seconds and 1000 calls: the sweep
meets windows on both sides of its age. In `frontend` the trees hold every pair of infix operators in both
shapes and every statement and its options, in two layouts, and each text is also read with a lexeme left out, doubled or changed over with the next; the nesting limit of 8 is reached
and exceeded. In `packages` app needs core, and the registry gives no checksum for app; three commands are install, a second command on what the first left,
and one that observes both, and two faults let the second command fail as well. In `timer` the script and each callback of a thread are callers;
seven calls are the start, stop and start again of one timer, the stop that must silence both its threads, and the `init()` of another state.

**Violations.** Two runs expect one. Each states what a comment or a document says, and TLC's trace shows the code doing otherwise:

| Run | Says | The trace |
|---|---|---|
| `heap_clears` | `gc/CycleCollector.h:37`: only objects referenced by their own cycle | a closure held by the local that it captures is cleared: its open upvalue makes the collector subtract the stack's own reference |
| `compile_catch` | `docs/internals/09_Exception_Handling.md:109`: the stack is reset to its height at the start of the try block | a task declares `a` and `b` in a block, throws and catches there, then assigns `p = 1`, `q = 2` and gives 2 for `p + q`: LOAD_FRAME overwrites the restored top with the height at the last sync, so the two variables are lost, the end of the block pops two locals, and the sum's operand is written over `q` |

**Fairness.** *Safepoint*: a thread inside the collector's own code goes on (weak fairness of
`Protocol`), which includes the timed wait running out; scripts owe nothing, so they may loop or sleep for ever.
*Async*: the loop thread and each worker are scheduled, and their scripts do finite work (each task,
worker and timer is created at most once); there is no fairness between individual operations of a script.
*Channel*: a thread that was woken or has a notification to make is scheduled, and the
clock goes on; nobody has to send, receive or close. *Timer*: a timer's thread is scheduled, and its callback, which makes finitely many calls, returns; scripts owe nothing. *MCCompile*: the VM goes on executing. `SettledResumes` and `ProgramEnds` except a
loop thread that blocks in `sync()` for ever (section 4).

**Deadlock** is not checked in `async` (the program ends), `frontend` (each text is read once), `packages` (commands and
faults are bounded) and `timer` (calls are bounded). In `compile` a program that has ended stutters.

## 4. Known disagreements

Beside the two runs above, these definitions state what a comment or a document says and the code does not do. No passing run
checks them; adding one to the named configuration shows the trace.

| Definition | Where | The trace |
|---|---|---|
| `NoMutatorRacesCollection` (`gc/CycleCollector.h:111`: registering under `mutex_` closes the window) | `Safepoint.cfg` | a thread registers after the handshake, before the collector takes `mutex_`, and runs during the collection |
| `NoVMLeftBehind` (`ARCHITECTURE.md:78`: reference counting prevents premature exit) | `Async.cfg`, `SPECIFICATION Spec` | `run()` looks at the queue, a worker pushes the resumption and releases, `run()` reads zero and returns |
| `SyncReturns` (`BUILTINS.md:2018`: `sync` is an alias for `await`) | `Async.cfg`, `Tasks` and `Workers` empty | it blocks the thread that would fire the timer |
| `FaultsReachTheDispatch` (`vm/BytecodeVM.cpp:385`: a recorded fault stops the dispatch, which delivers it) | `VMUnwind.cfg` | a native calls back with the wrong number of arguments, or a value that is not callable; `restoreState()` (`:834`) sets `running` again; the native returns, and its caller's next instruction executes with the fault pending. `NoCodeRunsPastAFault` is about raised faults for this reason |
| `UpvaluesBelongToFrame` (`callFunction()` restores everything, `vm/BytecodeVM.cpp:833`) | `VMUnwind.cfg` with `Closures` = {c1, c2}, `Locals` = 1, `MaxStack` = 7 | after a faulting callback `frameUpvalues` is longer than `frames` |
| `TryStackExact` under `BreakSpec` (each replayed finally pops its own try block) | `VMUnwind.cfg` | `escape` in a catch block: that entry is gone, and an enclosing one is popped. `Spec` leaves `BreakInCatch` out for this reason |
| `RunsOwnFrames` under `LimitSpec` (`vm/BytecodeVMExecute.cpp:145`: run(N) owns frames [N-1 .. back]) | `VMUnwind.cfg` with `SPECIFICATION LimitSpec` | a callback at the frame limit: no frame is pushed, `dispatchCall()` returns true, and the nested `run()` resumes its caller's frame in a handler of that frame; or a callback to a model class or an async task, which get no frame here either: the nested `run()` executes the caller's next instructions. `Spec` leaves `CallbackAtLimit` and `CallbackWithoutFrame` out for this reason |
| `EveryWriteInvalidates` (`docs/10_Decorators.md:70`: writing to any property invalidates) | `Objects.cfg` with `Worlds <- Assignments` | destructuring into `obj.p` stores by STORE_PROPERTY, which touches no result cache. `CachedResultsFresh`, `AuditAccounts` and `RulesHold` except instances so written (`around`) |
| `StackAsCompiled` (`vm/BytecodeVMExecute.cpp:3301`: the stack is restored to the exact level at the start of the try block) | `VMUnwind.cfg` with `Closures` = {c1, c2}, `Locals` = 1, `MaxDepth` = 2, `MaxStack` = 7 | after a caught fault the height of the stack is that of the last sync |
| `MeansTheSame` on `TruthPrograms` (`utils/WrapArith.h:17`: the VM and the constant folder must agree) | `CompileCatch.cfg` with `Programs <- TruthPrograms` | `not 0` is folded to true, and 0 is true at run time (`compiler/BytecodeCompilerStmt.cpp:2268`, `runtime/Value.h:299`) |
| `MeansTheSame` on `MixedPrograms` (same comment) | `CompileCatch.cfg` with `Programs <- MixedPrograms` | `0.5 < "a"` in a `try`: the folder takes the string for a float, `bad_variant_access` leaves `compile()` (`compiler/BytecodeCompilerStmt.cpp:2409`; `BytecodeCompiler.cpp:81` catches `CompilerError` only), and a program that means to catch an error does not compile. The passing families have no such pair of literals |
| `MeansTheSame` on `WideClosePrograms` (`compiler/BytecodeCompilerStmt.cpp:2004`: the ceiling on locals is the 16-bit slot, not the single byte of the narrow opcodes) | `CompileCatch.cfg` with `Programs <- WideClosePrograms` | the operand of CLOSE_UPVALUE wraps (`:1972`): leaving the scope of a captured local in slot `NarrowMax` + 1 closes the upvalue of slot 0, and its closure misses the next assignment (answers 1 for 3). The passing families stay below that slot |
| `SavedValuesLoad` (`docs/10_Decorators.md:187`: an instance carrying the saved values) | `Objects.cfg` with `Worlds <- Saved` | the string `"2"` passes `maxlen` and is saved; after a restart `load()` gives the float 2 (`vm/BytecodeVM.cpp:465`), which the rule refuses. `RulesHold` permits what `load()` makes of an accepted value, and nothing else |
| `RateBounded` for tasks of one name (`docs/10_Decorators.md:215`: caps how often a task may run; `Test/HandwrittenTests/decorator_61_ratelimit_edge.ez:26`: one task is unaffected by another's limit) | `Objects.cfg` with `Name <- OneName`, `Count <- SharedCount`, `Per <- SharedPer`, `Stall = 0` | the window's key is the bare name (`compiler/BytecodeCompiler.cpp:206`), so local tasks of one name share it: a check by the one with the shorter period pops the stamps the other still counts, which then runs more often than its count. `LimitsHold` assumes that tasks of one name have one limit |
| `StopIsFinal` (`README.md:1260`, `docs/api.md:291`: `stop()` stops the background thread) | `Timer.cfg` | stop and start within one interval: start() takes the request back before the sleeping thread sees it, and two threads tick |
| `DoneMeansRecorded` (`cli/PackageManager.h:71`: install one package and record it in `package.ez`) | `Packages.cfg` | `package.ez` cannot be opened for writing and nobody looks (`:658`); the lock is written and the command says Done. `DoneMeansInstalled` promises of a file something only when its write went through |
| `LockRecordsInstalled` (`cli/PackageManager.h`, the guard's comment: ez.lock records everything installed) | `Packages.cfg` | a later package of the plan fails: the earlier ones are unpacked and not in `ez.lock`, and the next install refuses them as the user's own |

What else the reading showed, and the models reproduce or exclude by name:

- *Compiler.* A task or lambda nested in one with `ensures` discards the outer one's `old()` values (`oldCaptures` is cleared before it is saved,
  `BytecodeCompiler.cpp:221`, `:273`); `loopStack` is not per function, so `escape` in a lambda inside a loop patches the outer chunk; `n += k` on a captured local `n` adds to a global of that
  name if there is one (`BytecodeCompilerStmt.cpp:116`); a module reserves the locals in scope at its end and not the most it ever has (`:1344`); a dictionary
  literal keeps the first of two equal keys; `x + 0` is simplified whatever `x` is. A self tail call skips the checks of arity and variadics.
- *VM.* A caught exception leaves stale operands on the stack when a call or another syncing instruction ran since the frame's own height (one more for each
  iteration of a loop), and takes operands away when none did; `LocalsReserved`, `TriesSound` and `StackBalanced` allow for exactly that through `left`. A fault in a visibility check, `new` or `super` returns from `run()` instead of unwinding to a handler; a task remembered at a site answers although the
  instance was given a property of that name since (`Shadowed`, excepted by `AccessesAnswerRight`); a model constructed with the wrong number of arguments inside a `try` is not caught there (`FaultsReachTheDispatch`); a catch body's own exception skips its finally; the least integer divided by -1 is not wrapped.
- *Decorators.* A cached task that reassigns a parameter stores under the wrong key; validation, audit, snapshots and persistence are not inherited;
  `rollback()` keeps properties that were added since, and does not persist; two instances of a persisted model share its rows; a limit of zero calls reads the front of an empty queue.
- *Parser.* `DepthGuard` leaks its count when its constructor throws; unary, power, assignment and ternary chains are not guarded; errors inside a
  template string are printed and not counted; two expressions on one line are two statements.
- *Type checker.* The operands of `and`, `or` and `??` are never checked; `Any + string` counts as string; a variable named like a task is checked against the task; generic tasks refuse typed arguments; no
  subtyping for arguments; models know their parents only in the second pass; a bare assignment in a block is scoped to the block, so `README.md`'s claim that untyped code passes does not hold of
  `task f() { give x }  x = 1  out f()`; `model A extends A` does not end.
- *Packages.* `ez install p 1.0` installs a package called `1.0` (`README.md:1534`); `uninstall` deletes a directory the user wrote; the error of `remove_all()` is overwritten, so old files stay
  beside new ones; an empty `ez.lock` or `package.ez` left by a kill is read as "no packages"; a failed write of either goes unnoticed
  (`DoneMeansRecorded`), and a `package.ez` written in part is edited by later commands and never mended.

## 5. Theorems

All hold for every value of the constants under the assumptions the modules name: finite sets of threads, workers, timers, scripts,
packages or objects, names apart, bounds in `Nat`. The sets the code itself leaves unbounded are finite at any moment, which is all the
counting arguments use. Each module first proves `Invariance` (`ObjectsInvariance` and `LimiterInvariance` in ObjectsProofs), that its inductive invariant `IInv` holds of every reachable state, with a lemma per action
where an action does more than one thing, and reads off the rest.

- **SafepointProofs.** `CountersExact` alone is not inductive: exiting threads must not drive
  `activeMutators_` to zero (`MainRegistered`), and that a collection
  runs alone needs that all others are stopped from the successful handshake on, behind a standing request or unregistered, and that only one
  thread is in a handshake (`Exclusive`, as long as no thread registered in the window). `IInv` is the conjunction
  of the type invariant, these two, `CountersExact` and `RequestHasOwner`; `WorldIsStopped` and the others follow.
  The counting argument is that a subset of a finite set as large as the set is the set. `BackoffIsBounded` needs an invariant of its own: the back-off, less
  the threads that are between its test and its decrement, stays above minus the number of threads.
- **CycleCollectorProofs.** `IInv` adds `PlacesOwned` to types and `TrackedOnce`: only slots and places owned by live objects
  hold anything, and the `closed` member of an open upvalue nothing, so use counts stay meaningful through sweeping and clearing.
  Soundness (`CollectorIsSound`) counts visits: while visits stand for owned references, a candidate with no positive adjusted count is
  held only by places that candidates visit; so the objects outside the garbage hold the roots and are closed under
  visiting, and everything reachable is among them. Completeness (`CollectorIsComplete`): a positive adjusted count means a
  holder no candidate visits, so the reachable candidates hold the seeds of the flood fill and are closed under it.
- **ChannelProofs.** `WakeupsSuffice` is inductive with the types: while somebody is blocked, the threads on their way
  to the queue are at least as many as its values. `ChannelImplementsFIFO` shows every step of `Channel` is a step of
  `ChannelFIFO` or a stutter.
- **AsyncProofs.** A yielded VM is in one place: among the callbacks of the future it awaits, in the hands of the worker that settled that future, or in
  the task queue (`Waits`). Every step moves it from one place to the next; OP_AWAIT puts it in the first, `asyncCallback()` takes it out of the last.
  `ResumedOnce` is that count, and needs that no sequence holds a VM twice and no task is queued twice (`Sound`). The tasks in the queue also say which timers
  are not armed, so that each arming retains the loop once (`RetainsAreBalanced`), and that a loop nobody retains stays so after `run()` has returned (`Idle`, for
  `ExitOnlyWhenIdle`). `FirstOutcomeStays` is the action property: a settled future keeps its outcome, whoever comes late.
- **VMUnwindProofs.** What the code is inside is written in the frames, what the VM believes in `tryStack`. `Exact` says they agree entry for entry and in order, so
  the last try block is the innermost body, and TRY_END, RETURN and a fault take away exactly what they end. For a fault that needs to know whose handlers are
  whose (`OwnRuns`): every `run()` was started on a frame of its own above those of the `run()` around it, and remembers how many there were. `IInv` is
  `TypeOK /\ Modes /\ OwnRuns /\ Exact`. `NothingRunsPastAFault` is about raised faults: a refused callback's leaves the machine running, as section 4 says, and the
  theorem holds with such callbacks at any point. The theorems are about `Spec`; `BreakSpec` and `LimitSpec`, which add the two behaviours of section 4, violate them.
- **PackagesProofs.** From the comparison of checksums to the unpacking nothing writes to the cache (`ArchiveVerified`), hence `OnlyVerified`. An install works down a
  plan that names each package once: those before the current one are in place and not touched again, those outside the plan are as they were, and `ez.lock` is as it
  was until it is rewritten with the plan merged in (`Progress`), unless that write failed and the file is in `unwritten`; hence `InstallKeepsItsPromise`. This holds for any order of the plan
  and any failed writes, of earlier commands too; that the files are always written (`DoneMeansRecorded`) is false.
- **TimerProofs.** `Accounted` counts the threads of a state together with the `start()` calls that have set `running` and not launched theirs; `running` pays for
  one. Whoever clears it while it is set is a `stop()`, which `stops` counts, or a thread on its way out; whoever sets it while it is set is in `races`. `StopHeld`: nothing
  takes back the request of a `stop()` but a `start()` begun after it, hence the action property `StopStops`.
- **ObjectsProofs, the limiter.** A window is what is left of the history: its stamps are those of the last admitted calls (`Suffix`), and every call before them is more than
  a period old (`Gone`), by expiry or by the sweep; a stamp is at most `Stall` older than its call (`History`). A call is admitted beside fewer stamps than the count, so calls that many
  places apart are a period apart (`Spaced`). `LimitsHold` assumes `OneLimit`, that tasks of one name have one limit: without it the property is false (section 4).
  The promise is that of the period shortened by `Stall`, and says nothing when a thread sleeps longer than the period between the clock and the lock. `RefusalsAreDue` needs no such assumption.
- **ObjectsProofs, the objects.** `IInv` has nine parts. `Lineage`: a model is declared after its parent, so among any models of a line one has all the others above it, and "the
  nearest that declares `x`" means something (lemmas `UpTrans`, `NewLine`). `Tables`: what MAKE_CLASS flattened into a class is what the line's declarations say; with
  `Lineage` this makes every walk of the code (`findMethod`, `classMember`, the visibility check, the hooks) the lookup of the declarations, and it is what declaring one more model
  must not disturb (`LineageGrows`, `ClassMade`). `Instances`: an instance has one value for each name of its shape, the one last told, so a shape alone says at which offset a property is.
  `Entries`: what a site's cache holds was put there by an allowed access of that class or shape; since shapes begin at their class and never change, the entry stays right for as long as it stays
  (`ShapeHits`, `ClassHits`), which is where one root shape for all models would fail. From these four, `EveryAccessRight`, one lemma per kind of access. `Books` says
  whose the log entries and results are; `EveryLogAccounts` and `EveryResultFresh` then follow one property and one result through `Assigned`, the one place where intercepted writes,
  cached tasks and `rollback()` meet (`AccountedAfter`, `FreshAfter`). `Copies` says that values on their way back, in the snapshot or in a `rollback()` half done, are permitted by the rules of
  the instance they go to unless it is in `foreign`, and those of a `load()` half done are `Parsed` from the texts of accepted values: without it `EveryRuleHolds` is not inductive. What is permitted (`Permitted`) is an accepted value or, in a persisted model, what `load()` makes of the text of one; that
  only accepted values come back (`SavedValuesLoad`) is false. `WorldsAssumption` is what is asked of programs: model names differ from `None`, a cached task does not write the property it
  reads (its write would spare its own result, `vm/BytecodeVMExecute.cpp:942`), and the models persisted in one database have the same rules (the table is keyed by property alone). The theorems are about
  `Spec` of any world: any number of models, instances, sites and values.

The type invariants of the modules are proved (`TypeCorrect`, `LimiterTypeCorrect`, and `TablesAndLayoutsAgree` for `Objects`) rather than run.

Only model-checked:

- liveness (`AttemptEnds`, `ParkedResumes`, `ProgramEnds`, `SettledResumes`, `ReleasesSleepers`, `StopSilences`, `Terminates`), which needs ENABLED of the fair actions;
- everything about `Compiler`, `Machine`, `Semantics`, `Lexer`, `Parser` and `TypeChecker`, whose operators are recursive over trees: a module that reaches a RECURSIVE operator has no SMT backend;
- the violations of sections 3 and 4.

## 6. Not modelled

- In modelled parts: `EventLoop::stop()` (nothing calls it) and the sockets' `retain()`; `awaitAll` and `awaitAny`;
  the read-only `size()` and `isClosed()` of channels, a second `init()`, mutexes and atomics; generators and
  `yield`; what the VM does once the operand stack has left its
  array, which is undefined (`Undefined` of VMUnwind stutters there). The compiler and machine leave out models (they are in **Objects**, without the stack), interfaces, async calls
  and template strings, and also optional chaining, the folding of `len`, `ord`, `chr` and `str` of constants, the limits of 255 on
  arguments and the like, and what happens when the text of an imported module does not lex or parse. **Async** spawns workers from the loop thread only, so a daemon
  that spawns a worker which holds the loop is out of sight. **Timer**'s `Wake` reads `stopRequested` and ticks in one step: a thread that has read it just before `stop()` returns may still call back
  once, which `NoTickAfterStop` does not count, as it speaks of sleeps. **Objects** identifies a class with its name, so a class whose address is reused is out of sight.
  **Lexer** starts from lexemes. **Packages** has one command at a time, and nobody edits `package.ez` by hand; accounts, publish, yank, search and info are left out.
- A receiver that copies a value while its thread counts as parked: it needs **Safepoint** composed with a heap whose reference counts are steps.
- In **Timer**: the data race on the callback's value, and the `_running` property. The serializer: bytes, no state between calls. Security policy and permission scanner: decision tables.
- The builtin library, FFI, network, GUI, CLI and packager are mostly wrappers of library and system calls.

## 7. Plan

1. `Machine`'s upvalues as a module of their own, so that `OpenUpvaluesLive` can be proved away from the recursive compiler.
2. `awaitAny` and `awaitAll` in **Async**.
3. Models compiled and executed: `Compiler` and `Machine` extended by the class instructions over **Objects**.
4. **Runtime**: `Safepoint` with a heap, for natives that touch reference counts inside a safe region.
