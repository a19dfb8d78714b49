------------------------------- MODULE Async -------------------------------
(***************************************************************************)
(* Cooperative async/await: the futures of runtime/EZFuture.h, the event   *)
(* loop of eventloop/EventLoop.cpp that runs tasks and resumes yielded     *)
(* VMs, and the operations that settle futures: async tasks on the loop    *)
(* thread, spawn() workers on their own threads, waitAsync() timers.       *)
(*                                                                         *)
(* The loop thread is the main thread.  It first runs the main script and  *)
(* then EventLoop::run().  Its own calls of pushTask() and of a future's   *)
(* callbacks are one step each; a worker's lock, push, send and release    *)
(* are separate steps, because those are what races with the loop.         *)
(* libuv is external: uv_async_send sets a flag that many sends share,     *)
(* uv_run delivers events until uv_stop.                                   *)
(***************************************************************************)
EXTENDS Naturals, Sequences, FiniteSets, SequencesExt

CONSTANTS
    MainVM,     \* the VM of the main script
    Tasks,      \* async task calls: each has a VM and a future of the same name
    Workers,    \* spawn() calls: each has a thread and a future of the same name
    Timers,     \* waitAsync() calls: each has a uv timer and a future
    None        \* "no VM", "no future"

VMs == Tasks \cup {MainVM}
Futures == Tasks \cup Workers \cup Timers

ASSUME NamesAssumption ==
    /\ MainVM \notin Futures /\ None \notin VMs \cup Futures
    /\ Tasks \cap Workers = {} /\ Tasks \cap Timers = {} /\ Workers \cap Timers = {}
ASSUME CallsAssumption == IsFiniteSet(Workers) /\ IsFiniteSet(Timers)

VARIABLES
    fut,            \* EZFuture::result / hasError
    onReady,        \* EZFuture::onReady: the VMs to resume, in order
    taskQueue,      \* EventLoop::taskQueue
    pendingIoCount,
    asyncSent,      \* a uv_async_send not yet delivered
    stopFlag,       \* uv_stop was called, uv_run has not returned yet
    pc,             \* where the loop thread is
    inUv,           \* asyncCallback was called by uv_run, not by run()
    hasTasks,       \* the local variable of asyncCallback and run()
    cur,            \* the VM the loop thread executes, or None
    vm,             \* what each VM is doing
    waitsFor,       \* the future a VM's OP_AWAIT is about
    wpc,            \* where each worker thread is
    blockedOn,      \* the future a worker's OP_AWAIT waits for
    daemons,        \* the workers spawned with daemon = true
    callbacks,      \* the callbacks a worker's set() took out of its future
    timer,          \* the state of each waitAsync() timer
    pushedAfterLook \* history: a task was pushed after run() last looked at the queue

loopVars == <<taskQueue, pendingIoCount, asyncSent, stopFlag, pc, inUv, hasTasks>>
vmVars == <<cur, vm, waitsFor>>
vars == <<fut, onReady, loopVars, vmVars, wpc, blockedOn, daemons, callbacks, timer, pushedAfterLook>>

Outcomes == {"value", "error"}
Settled(f) == fut[f] # "pending"

\* The tasks the code pushes: start an async task's VM, resume a yielded VM,
\* start a uv timer.
StartTask(a) == [kind |-> "start", of |-> a]
ResumeTask(v) == [kind |-> "resume", of |-> v]
TimerTask(t) == [kind |-> "timer", of |-> t]
ResumeAll(vs) == [i \in 1 .. Len(vs) |-> ResumeTask(vs[i])]

\* pushTask() appends under queueMutex; the caller adds the uv_async_send.
PushAll(ts) ==
    /\ taskQueue' = taskQueue \o ts
    /\ pushedAfterLook' = (pushedAfterLook \/ (ts # <<>> /\ pc \in {"exit?", "exited"}))

\* release(): decremented, clamped at zero with a warning.
Released(n) == IF n = 0 THEN 0 ELSE n - 1

----------------------------------------------------------------------------
Init ==
    /\ fut = [f \in Futures |-> "pending"]
    /\ onReady = [f \in Futures |-> <<>>]
    /\ taskQueue = <<>> /\ pendingIoCount = 0
    /\ asyncSent = FALSE /\ stopFlag = FALSE
    /\ pc = "exec" /\ inUv = FALSE /\ hasTasks = FALSE
    /\ cur = MainVM
    /\ vm = [v \in VMs |-> IF v = MainVM THEN "main" ELSE "none"]
    /\ waitsFor = [v \in VMs |-> None]
    /\ wpc = [w \in Workers |-> "none"] /\ daemons = {}
    /\ blockedOn = [w \in Workers |-> None]
    /\ callbacks = [w \in Workers |-> <<>>]
    /\ timer = [t \in Timers |-> "none"]
    /\ pushedAfterLook = FALSE

\* A future a script can hold: the call that makes it has been made.
Created(f) ==
    \/ f \in Tasks /\ vm[f] # "none"
    \/ f \in Workers /\ wpc[f] # "none"
    \/ f \in Timers /\ timer[f] # "none"

----------------------------------------------------------------------------
(* What the VM on the loop thread does.                                    *)

\* Calling an async task queues the start of its VM and yields a future.
CallAsync(a) ==
    /\ pc = "exec" /\ vm[a] = "none"
    /\ vm' = [vm EXCEPT ![a] = "queued"]
    /\ PushAll(<<StartTask(a)>>) /\ asyncSent' = TRUE
    /\ UNCHANGED <<fut, onReady, pendingIoCount, stopFlag, pc, inUv, hasTasks, cur,
                   waitsFor, wpc, callbacks, timer, daemons, blockedOn>>

\* waitAsync(): the uv timer is made by a task, and retain() is called there.
WaitAsync(t) ==
    /\ pc = "exec" /\ timer[t] = "none"
    /\ timer' = [timer EXCEPT ![t] = "queued"]
    /\ PushAll(<<TimerTask(t)>>) /\ asyncSent' = TRUE
    /\ UNCHANGED <<fut, onReady, pendingIoCount, stopFlag, pc, inUv, hasTasks, vmVars,
                   wpc, callbacks, daemons, blockedOn>>

\* waitAsync(0), from any script: the future is settled on the spot.
WaitAsyncZero(t) ==
    /\ timer[t] = "none"
    /\ pc = "exec" \/ \E w \in Workers : wpc[w] = "running" /\ pc # "failed"
    /\ timer' = [timer EXCEPT ![t] = "closed"]
    /\ fut' = [fut EXCEPT ![t] = "value"]
    /\ UNCHANGED <<onReady, loopVars, vmVars, wpc, callbacks, daemons, blockedOn,
                   pushedAfterLook>>

\* spawn(): the loop is retained before the thread exists, unless it is a daemon.
SpawnWorker(w, isDaemon) ==
    /\ pc = "exec" /\ wpc[w] = "none"
    /\ wpc' = [wpc EXCEPT ![w] = "running"]
    /\ daemons' = IF isDaemon THEN daemons \cup {w} ELSE daemons
    /\ pendingIoCount' = IF isDaemon THEN pendingIoCount ELSE pendingIoCount + 1
    /\ UNCHANGED <<fut, onReady, taskQueue, asyncSent, stopFlag, pc, inUv, hasTasks,
                   vmVars, callbacks, timer, pushedAfterLook, blockedOn>>

\* OP_AWAIT finds the future not ready and yields; a ready one is no step.
AwaitNotReady(f) ==
    /\ pc = "exec" /\ Created(f) /\ ~Settled(f) /\ f # cur
    /\ pc' = "then"
    /\ waitsFor' = [waitsFor EXCEPT ![cur] = f]
    /\ UNCHANGED <<fut, onReady, taskQueue, pendingIoCount, asyncSent, stopFlag, inUv,
                   hasTasks, cur, vm, wpc, callbacks, timer, pushedAfterLook, daemons, blockedOn>>

\* Mutant: the callback is queued without testing the future again.
AwaitThen_NoRecheck ==
    /\ pc = "then"
    /\ onReady' = [onReady EXCEPT ![waitsFor[cur]] = Append(@, cur)]
    /\ vm' = [vm EXCEPT ![cur] = "awaiting"]
    /\ cur' = None /\ pc' = "drain"
    /\ UNCHANGED <<fut, taskQueue, pendingIoCount, asyncSent, stopFlag, inUv, hasTasks,
                   waitsFor, wpc, callbacks, timer, pushedAfterLook, daemons, blockedOn>>

\* then(): under the future's mutex the callback is queued, or, the future having
\* been settled since, called at once.  Either way the VM has yielded.
AwaitThen ==
    /\ pc = "then"
    /\ LET f == waitsFor[cur] IN
       \/ /\ ~Settled(f)
          /\ onReady' = [onReady EXCEPT ![f] = Append(@, cur)]
          /\ UNCHANGED <<taskQueue, asyncSent, pushedAfterLook>>
       \/ /\ Settled(f)
          /\ PushAll(<<ResumeTask(cur)>>) /\ asyncSent' = TRUE
          /\ UNCHANGED onReady
    /\ vm' = [vm EXCEPT ![cur] = "awaiting"]
    /\ cur' = None /\ pc' = "drain"
    /\ UNCHANGED <<fut, pendingIoCount, stopFlag, inUv, hasTasks, waitsFor, wpc,
                   callbacks, timer, daemons, blockedOn>>

\* Mutant: the callbacks are called but not taken out of the future.
SettleHere_KeepsCallbacks(f, o) ==
    /\ fut' = [fut EXCEPT ![f] = IF @ = "pending" THEN o ELSE @]
    /\ PushAll(ResumeAll(onReady[f]))
    /\ asyncSent' = (asyncSent \/ onReady[f] # <<>>)
    /\ UNCHANGED onReady

\* set() / setError() called on the loop thread: the first writer's outcome
\* stays, and whoever registered is resumed by a task.
SettleHere(f, o) ==
    /\ fut' = [fut EXCEPT ![f] = IF @ = "pending" THEN o ELSE @]
    /\ onReady' = [onReady EXCEPT ![f] = <<>>]
    /\ PushAll(ResumeAll(onReady[f]))
    /\ asyncSent' = (asyncSent \/ onReady[f] # <<>>)

\* cancel(f) is setError("Cancelled"), whoever else is about to settle f.
Cancel(f) ==
    /\ pc = "exec" /\ Created(f)
    /\ SettleHere(f, "cancelled")
    /\ UNCHANGED <<pendingIoCount, stopFlag, pc, inUv, hasTasks, vmVars, wpc, callbacks,
                   timer, daemons, blockedOn>>

\* The sync() builtin (and awaitAll(), one future after the other) blocks the
\* calling thread, here the loop's own, until the future is settled.
Sync(f) ==
    /\ pc = "exec" /\ Created(f) /\ ~Settled(f)
    /\ pc' = "sync"
    /\ waitsFor' = [waitsFor EXCEPT ![cur] = f]
    /\ UNCHANGED <<fut, onReady, taskQueue, pendingIoCount, asyncSent, stopFlag, inUv,
                   hasTasks, cur, vm, wpc, callbacks, timer, pushedAfterLook, daemons, blockedOn>>

SyncReturn ==
    /\ pc = "sync" /\ Settled(waitsFor[cur])
    /\ pc' = "exec"
    /\ waitsFor' = [waitsFor EXCEPT ![cur] = None]
    /\ UNCHANGED <<fut, onReady, taskQueue, pendingIoCount, asyncSent, stopFlag, inUv,
                   hasTasks, cur, vm, wpc, callbacks, timer, pushedAfterLook, daemons, blockedOn>>

\* The VM's run ends with a result or an uncaught exception; an async task's
\* future is settled with it, the main script has none.
FinishVM(o) ==
    /\ pc = "exec"
    /\ vm' = [vm EXCEPT ![cur] = "done"]
    /\ \/ cur \in Tasks /\ SettleHere(cur, o)
       \/ /\ cur = MainVM /\ (vm[cur] = "main" => o = "value")
          /\ UNCHANGED <<fut, onReady, taskQueue, asyncSent, pushedAfterLook>>
    /\ cur' = None /\ pc' = "drain"
    /\ UNCHANGED <<pendingIoCount, stopFlag, inUv, hasTasks, waitsFor, wpc, callbacks,
                   timer, daemons, blockedOn>>

\* The main script fails before it first yields: execute() throws, run() is never
\* called and the process exits with status 70, whatever else is running.
MainFails ==
    /\ pc = "exec" /\ vm[MainVM] = "main"
    /\ pc' = "failed"
    /\ UNCHANGED <<fut, onReady, taskQueue, pendingIoCount, asyncSent, stopFlag, inUv,
                   hasTasks, vmVars, wpc, callbacks, timer, pushedAfterLook, daemons, blockedOn>>

----------------------------------------------------------------------------
(* EventLoop::run() and asyncCallback().                                   *)

\* asyncCallback takes the first task and runs it outside the lock.
RunTask ==
    /\ pc = "drain" /\ taskQueue # <<>>
    /\ LET task == Head(taskQueue) IN
       /\ taskQueue' = Tail(taskQueue)
       /\ \/ /\ task.kind \in {"start", "resume"}
             /\ vm' = [vm EXCEPT ![task.of] = "running"]
             /\ cur' = task.of /\ pc' = "exec"
             /\ waitsFor' = [waitsFor EXCEPT ![task.of] = None]
             /\ UNCHANGED <<timer, pendingIoCount>>
          \/ /\ task.kind = "timer"
             /\ timer' = [timer EXCEPT ![task.of] = "armed"]
             /\ pendingIoCount' = pendingIoCount + 1
             /\ UNCHANGED <<vmVars, pc>>
    /\ UNCHANGED <<fut, onReady, asyncSent, stopFlag, inUv, hasTasks, wpc, callbacks,
                   pushedAfterLook, daemons, blockedOn>>

QueueDrained ==
    /\ pc = "drain" /\ taskQueue = <<>>
    /\ pc' = "stop?look"
    /\ UNCHANGED <<fut, onReady, taskQueue, pendingIoCount, asyncSent, stopFlag, inUv,
                   hasTasks, vmVars, wpc, callbacks, timer, pushedAfterLook, daemons, blockedOn>>

\* The queue is looked at under queueMutex, pendingIoCount is read after the
\* lock is released: in asyncCallback, and again in run().
LookAtQueue ==
    /\ pc \in {"stop?look", "exit?look"}
    /\ hasTasks' = (taskQueue # <<>>)
    /\ pc' = IF pc = "stop?look" THEN "stop?" ELSE "exit?"
    /\ pushedAfterLook' = FALSE
    /\ UNCHANGED <<fut, onReady, taskQueue, pendingIoCount, asyncSent, stopFlag, inUv,
                   vmVars, wpc, callbacks, timer, daemons, blockedOn>>

DecideStop ==
    /\ pc = "stop?"
    /\ stopFlag' = (stopFlag \/ (~hasTasks /\ pendingIoCount = 0))
    /\ pc' = IF inUv THEN "uv" ELSE "exit?look"
    /\ hasTasks' = FALSE
    /\ UNCHANGED <<fut, onReady, taskQueue, pendingIoCount, asyncSent, inUv,
                   vmVars, wpc, callbacks, timer, pushedAfterLook, daemons, blockedOn>>

\* Mutant: run() forgets that I/O is pending and returns on an empty queue.
DecideExit_IgnoresIo ==
    /\ pc = "exit?"
    /\ pc' = IF ~hasTasks THEN "exited" ELSE "uv"
    /\ inUv' = (pc' = "uv")
    /\ hasTasks' = FALSE
    /\ UNCHANGED <<fut, onReady, taskQueue, pendingIoCount, asyncSent, stopFlag,
                   vmVars, wpc, callbacks, timer, pushedAfterLook, daemons, blockedOn>>

DecideExit ==
    /\ pc = "exit?"
    /\ pc' = IF ~hasTasks /\ pendingIoCount = 0 THEN "exited" ELSE "uv"
    /\ inUv' = (pc' = "uv")
    /\ hasTasks' = FALSE
    /\ UNCHANGED <<fut, onReady, taskQueue, pendingIoCount, asyncSent, stopFlag,
                   vmVars, wpc, callbacks, timer, pushedAfterLook, daemons, blockedOn>>

\* uv_run returns once uv_stop was called; run() goes round its loop again.
UvReturn ==
    /\ pc = "uv" /\ stopFlag
    /\ stopFlag' = FALSE /\ inUv' = FALSE /\ pc' = "drain"
    /\ UNCHANGED <<fut, onReady, taskQueue, pendingIoCount, asyncSent, hasTasks, vmVars,
                   wpc, callbacks, timer, pushedAfterLook, daemons, blockedOn>>

\* uv_run delivers the async handle's event: one for any number of sends.
UvAsync ==
    /\ pc = "uv" /\ ~stopFlag /\ asyncSent
    /\ asyncSent' = FALSE /\ pc' = "drain"
    /\ UNCHANGED <<fut, onReady, taskQueue, pendingIoCount, stopFlag, inUv, hasTasks,
                   vmVars, wpc, callbacks, timer, pushedAfterLook, daemons, blockedOn>>

\* A timer expires: its future is set and its handle is being closed.
UvTimer(t) ==
    /\ pc = "uv" /\ ~stopFlag /\ timer[t] = "armed"
    /\ timer' = [timer EXCEPT ![t] = "closing"]
    /\ SettleHere(t, "value")
    /\ UNCHANGED <<pendingIoCount, stopFlag, pc, inUv, hasTasks, vmVars, wpc, callbacks, daemons, blockedOn>>

\* Mutant: release() does not wake the loop.
UvClose_NoSend(t) ==
    /\ pc = "uv" /\ timer[t] = "closing"
    /\ timer' = [timer EXCEPT ![t] = "closed"]
    /\ pendingIoCount' = Released(pendingIoCount)
    /\ UNCHANGED <<fut, onReady, taskQueue, asyncSent, stopFlag, pc, inUv, hasTasks,
                   vmVars, wpc, callbacks, pushedAfterLook, daemons, blockedOn>>

\* The close callback releases the loop and wakes it.
UvClose(t) ==
    /\ pc = "uv" /\ timer[t] = "closing"
    /\ timer' = [timer EXCEPT ![t] = "closed"]
    /\ pendingIoCount' = Released(pendingIoCount) /\ asyncSent' = TRUE
    /\ UNCHANGED <<fut, onReady, taskQueue, stopFlag, pc, inUv, hasTasks, vmVars, wpc,
                   callbacks, pushedAfterLook, daemons, blockedOn>>

----------------------------------------------------------------------------
(* A spawn() worker on its own thread.                                     *)

Move(w, l) == wpc' = [wpc EXCEPT ![w] = l]

\* The worker's script calls waitAsync(): pushTask from another thread.
WorkerWaitAsync(w, t) ==
    /\ wpc[w] = "running" /\ timer[t] = "none"
    /\ timer' = [timer EXCEPT ![t] = "queued"]
    /\ PushAll(<<TimerTask(t)>>) /\ Move(w, "pushed")
    /\ UNCHANGED <<fut, onReady, pendingIoCount, asyncSent, stopFlag, pc, inUv, hasTasks,
                   vmVars, callbacks, daemons, blockedOn>>

\* OP_AWAIT on a worker thread blocks it, in a safe region, until the future is
\* settled.  Worker scripts wait for timers; for one another or for the main
\* script's tasks they could deadlock by themselves.
WorkerAwait(w, t) ==
    /\ wpc[w] = "running" /\ timer[t] # "none" /\ ~Settled(t)
    /\ blockedOn' = [blockedOn EXCEPT ![w] = t]
    /\ Move(w, "blocked")
    /\ UNCHANGED <<fut, onReady, loopVars, vmVars, daemons, callbacks, timer,
                   pushedAfterLook>>

WorkerAwoken(w) ==
    /\ wpc[w] = "blocked" /\ Settled(blockedOn[w])
    /\ blockedOn' = [blockedOn EXCEPT ![w] = None]
    /\ Move(w, "running")
    /\ UNCHANGED <<fut, onReady, loopVars, vmVars, daemons, callbacks, timer,
                   pushedAfterLook>>

\* uv_async_send after pushTask's or release()'s critical section.
WorkerSend(w) ==
    /\ wpc[w] \in {"pushed", "cbPushed", "released"}
    /\ asyncSent' = TRUE
    /\ Move(w, CASE wpc[w] = "pushed"   -> "running"
                 [] wpc[w] = "cbPushed" -> "callbacks"
                 [] wpc[w] = "released" -> "done")
    /\ UNCHANGED <<fut, onReady, taskQueue, pendingIoCount, stopFlag, pc, inUv, hasTasks,
                   vmVars, callbacks, timer, pushedAfterLook, daemons, blockedOn>>

\* Mutant: the outcome is stored even over an earlier one.
WorkerSettle_Overwrites(w, o) ==
    /\ wpc[w] = "running"
    /\ fut' = [fut EXCEPT ![w] = o]
    /\ callbacks' = [callbacks EXCEPT ![w] = onReady[w]]
    /\ onReady' = [onReady EXCEPT ![w] = <<>>]
    /\ Move(w, "callbacks")
    /\ UNCHANGED <<loopVars, vmVars, timer, pushedAfterLook, daemons, blockedOn>>

\* The worker's function returned or threw: set() or setError(), up to the end
\* of the critical section, in which the callbacks are taken out.
WorkerSettle(w, o) ==
    /\ wpc[w] = "running"
    /\ fut' = [fut EXCEPT ![w] = IF @ = "pending" THEN o ELSE @]
    /\ callbacks' = [callbacks EXCEPT ![w] = onReady[w]]
    /\ onReady' = [onReady EXCEPT ![w] = <<>>]
    /\ Move(w, "callbacks")
    /\ UNCHANGED <<loopVars, vmVars, timer, pushedAfterLook, daemons, blockedOn>>

\* set() runs the callbacks after the lock: each pushes a resume task.
WorkerCallback(w) ==
    /\ wpc[w] = "callbacks" /\ callbacks[w] # <<>>
    /\ PushAll(<<ResumeTask(Head(callbacks[w]))>>)
    /\ callbacks' = [callbacks EXCEPT ![w] = Tail(@)]
    /\ Move(w, "cbPushed")
    /\ UNCHANGED <<fut, onReady, pendingIoCount, asyncSent, stopFlag, pc, inUv, hasTasks,
                   vmVars, timer, daemons, blockedOn>>

\* Mutant: a daemon, which never retained the loop, releases it.
WorkerRelease_Daemon(w) ==
    /\ wpc[w] = "callbacks" /\ callbacks[w] = <<>>
    /\ pendingIoCount' = Released(pendingIoCount)
    /\ Move(w, "released")
    /\ UNCHANGED <<fut, onReady, taskQueue, asyncSent, stopFlag, pc, inUv, hasTasks,
                   vmVars, callbacks, timer, pushedAfterLook, daemons, blockedOn>>

\* The thread ends: a worker that retained the loop releases it.
WorkerRelease(w) ==
    /\ wpc[w] = "callbacks" /\ callbacks[w] = <<>>
    /\ \/ /\ w \notin daemons
          /\ pendingIoCount' = Released(pendingIoCount)
          /\ Move(w, "released")
       \/ /\ w \in daemons
          /\ Move(w, "done")
          /\ UNCHANGED pendingIoCount
    /\ UNCHANGED <<fut, onReady, taskQueue, asyncSent, stopFlag, pc, inUv, hasTasks,
                   vmVars, callbacks, timer, pushedAfterLook, daemons, blockedOn>>

----------------------------------------------------------------------------
Script ==
    \/ \E a \in Tasks : CallAsync(a)
    \/ \E t \in Timers : WaitAsync(t) \/ WaitAsyncZero(t)
    \/ \E w \in Workers, isDaemon \in BOOLEAN : SpawnWorker(w, isDaemon)
    \/ \E f \in Futures : AwaitNotReady(f) \/ Cancel(f) \/ Sync(f)
    \/ AwaitThen \/ SyncReturn
    \/ \E o \in Outcomes : FinishVM(o)
    \/ MainFails

Loop ==
    \/ RunTask \/ QueueDrained \/ LookAtQueue \/ DecideStop \/ DecideExit
    \/ UvReturn \/ UvAsync
    \/ \E t \in Timers : UvTimer(t) \/ UvClose(t)

Worker(w) ==
    /\ pc # "failed"
    /\ \/ \E t \in Timers : WorkerWaitAsync(w, t) \/ WorkerAwait(w, t)
       \/ WorkerAwoken(w) \/ WorkerSend(w)
       \/ \E o \in Outcomes : WorkerSettle(w, o)
       \/ WorkerCallback(w) \/ WorkerRelease(w)

Next == Script \/ Loop \/ \E w \in Workers : Worker(w)

\* The loop thread and every worker thread are scheduled, and their scripts do
\* finite work.
Spec == /\ Init /\ [][Next]_vars
        /\ WF_vars(Script \/ Loop)
        /\ \A w \in Workers : WF_vars(Worker(w))

----------------------------------------------------------------------------
\* The tasks the queue can hold.
Task == {StartTask(a) : a \in Tasks} \cup {ResumeTask(v) : v \in VMs}
            \cup {TimerTask(t) : t \in Timers}

LoopStates == {"exec", "then", "sync", "drain", "stop?look", "stop?", "exit?look", "exit?",
               "uv", "exited", "failed"}
VMStates == {"none", "queued", "main", "running", "awaiting", "done"}
WorkerStates == {"none", "running", "blocked", "pushed", "callbacks", "cbPushed", "released",
                 "done"}
TimerStates == {"none", "queued", "armed", "closing", "closed"}

\* Types of the state; in particular pendingIoCount never exceeds the workers and
\* timers there are.
TypeOK ==
    /\ fut \in [Futures -> {"pending", "cancelled"} \cup Outcomes]
    /\ onReady \in [Futures -> Seq(VMs)]
    /\ taskQueue \in Seq(Task)
    /\ pendingIoCount \in 0 .. Cardinality(Workers \cup Timers)
    /\ asyncSent \in BOOLEAN /\ stopFlag \in BOOLEAN
    /\ pc \in LoopStates
    /\ inUv \in BOOLEAN /\ hasTasks \in BOOLEAN
    /\ cur \in VMs \cup {None}
    /\ vm \in [VMs -> VMStates]
    /\ waitsFor \in [VMs -> Futures \cup {None}]
    /\ wpc \in [Workers -> WorkerStates]
    /\ daemons \subseteq Workers
    /\ blockedOn \in [Workers -> Timers \cup {None}]
    /\ callbacks \in [Workers -> Seq(VMs)]
    /\ timer \in [Timers -> TimerStates]
    /\ pushedAfterLook \in BOOLEAN

\* Where the resumption of VM v is recorded: in its future, in the hands of the
\* thread that settled the future, or in the task queue.
Resumptions(v) ==
    LET Times(s, x) == Cardinality({i \in 1 .. Len(s) : s[i] = x})
        Inside(F, s) == {f \in F : Times(s[f], v) > 0}
    IN  Times(taskQueue, ResumeTask(v))
        + Cardinality(Inside(Futures, onReady)) + Cardinality(Inside(Workers, callbacks))

\* A yielded VM has exactly one resumption on its way, whatever races between
\* OP_AWAIT's test, then(), set(), setError() and cancel(); a VM that is not
\* waiting has none, so it can never be resumed a second time.
ResumedExactlyOnce ==
    \A v \in VMs : Resumptions(v) = IF vm[v] = "awaiting" THEN 1 ELSE 0

\* A settled future keeps its first outcome: a result that arrives after cancel(),
\* or a cancel() after the result, changes nothing.
FirstWriterWins == [][\A f \in Futures : Settled(f) => fut'[f] = fut[f]]_fut

\* pendingIoCount counts exactly the workers and timers that retained the loop
\* and have not released it: release() never underflows, and no retain leaks.
RetainsBalanced ==
    pendingIoCount =
        Cardinality({w \in Workers \ daemons : wpc[w] \notin {"none", "released", "done"}})
        + Cardinality({t \in Timers : timer[t] \in {"armed", "closing"}})

\* run() returns only when no worker and no timer that keeps the program alive is
\* left, and, unless a task was pushed after its last look at the queue, no task.
ExitsWhenIdle ==
    pc = "exited" =>
        /\ \A w \in Workers \ daemons : wpc[w] \in {"none", "released", "done"}
        /\ \A t \in Timers : timer[t] \notin {"armed", "closing"}
        /\ pushedAfterLook \/ taskQueue = <<>>

\* The program ends: once scripts, workers and timers have done their finite
\* work the loop notices and returns, unless the loop's own thread blocks in sync().
ProgramEnds == <>(pc \in {"exited", "failed"} \/ [](pc = "sync"))

\* A VM whose future is settled, before or after OP_AWAIT registered it, is
\* resumed, unless its task reaches the queue of a loop that has ended or whose
\* thread blocks in sync(), or the process has failed.
SettledResumes ==
    \A v \in VMs :
        (vm[v] = "awaiting" /\ Settled(waitsFor[v]))
            ~> \/ vm[v] # "awaiting"
               \/ pc = "exited" /\ ResumeTask(v) \in Range(taskQueue)
               \/ pc = "failed"
               \/ [](pc = "sync")

\* ARCHITECTURE.md:78: the loop's "Reference counting to prevent premature
\* exit".  When run() returns, no VM is left waiting for a future that a worker
\* which kept the program alive had settled before it released the loop.
NoVMLeftBehind ==
    pc = "exited" =>
        \A v \in VMs, w \in Workers \ daemons :
            vm[v] = "awaiting" /\ waitsFor[v] = w => ~Settled(w)

\* BUILTINS.md:2020-2022: sync(fut) returns the future's result, "alias for await".
SyncReturns == (pc = "sync") ~> (pc # "sync")
============================================================================
