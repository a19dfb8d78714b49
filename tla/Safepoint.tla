----------------------------- MODULE Safepoint -----------------------------
(***************************************************************************)
(* The stop-the-world handshake of CycleCollector: how a thread that wants *)
(* to run the cycle collector brings every other mutator thread to a stop, *)
(* and how those threads park, sleep in safe regions, start and exit while *)
(* it does so (gc/CycleCollector.h, gc/CycleCollector.cpp "Safepoint       *)
(* protocol", the LOOP opcode, spawn()).                                   *)
(*                                                                         *)
(* Every critical section of safepointMutex_ is one action: inside it the  *)
(* code reads each shared atomic once, and the only lock-free writer, the  *)
(* CAS of bringToSafepoint, can move safepointRequested_ from FALSE to     *)
(* TRUE alone.  mutex_ is held across a whole collection, so it is the     *)
(* pc value "collecting".  What the collection does to the heap is the     *)
(* business of CycleCollector.tla; here only who runs meanwhile matters,   *)
(* so whether track() crosses a threshold is a nondeterministic choice.    *)
(***************************************************************************)
EXTENDS Integers, FiniteSets

CONSTANTS
    Main,       \* the thread the process starts with; registered from the start
    Workers,    \* the std::threads spawn() and Timer.start() may create
    Backoff     \* allocations skipped after a failed handshake (4096 in the code)

Threads == Workers \cup {Main}

ASSUME ThreadsAssumption == IsFiniteSet(Workers) /\ Main \notin Workers
ASSUME BackoffAssumption == Backoff \in Nat \ {0}

VARIABLES
    pc,                  \* where each thread is
    call,                \* the call a thread is inside: "loop", "track" or "collect"
    safepointRequested_,
    activeMutators_,
    parkedMutators_,
    safepointBackoff_,
    resumeCv_,           \* the threads blocked on the condition variable resumeCv_
    lateStart            \* history: some thread has called beginMutatorThread() between
                         \* another's successful handshake and its releaseSafepoint()

vars == <<pc, call, safepointRequested_, activeMutators_, parkedMutators_,
          safepointBackoff_, resumeCv_, lateStart>>

\* Threads that are counted in parkedMutators_.
ParkedPcs == {"parked", "safe", "leaving"}
\* A std::thread that does not exist, has not registered yet, or has unregistered.
OutsidePcs == {"unborn", "start", "dead"}
\* Between a successful bringToSafepoint() and the store of releaseSafepoint().
WindowPcs == {"lock", "collecting", "release"}
\* Inside CycleCollector, neither running bytecode nor stopping anyone.
BusyPcs == {"run", "native", "poll", "push", "backoff", "skip", "bring", "cas",
            "withdraw", "fail", "notify"}
Pcs == ParkedPcs \cup OutsidePcs \cup WindowPcs \cup BusyPcs \cup {"handshake"}

Registered == {t \in Threads : pc[t] \notin OutsidePcs}
Parked == {t \in Threads : pc[t] \in ParkedPcs}
InWindow == {t \in Threads : pc[t] \in WindowPcs}

\* mutex_ is held for longer than one step only by a running collection.
MutexFree == \A t \in Threads : pc[t] # "collecting"

Goto(t, l) == pc' = [pc EXCEPT ![t] = l]

----------------------------------------------------------------------------
Init ==
    /\ pc = [t \in Threads |-> IF t = Main THEN "run" ELSE "unborn"]
    /\ call = [t \in Threads |-> "loop"]
    /\ safepointRequested_ = FALSE
    /\ activeMutators_ = 1
    /\ parkedMutators_ = 0
    /\ safepointBackoff_ = 0
    /\ resumeCv_ = {}
    /\ lateStart = FALSE

\* spawn(): a thread running bytecode creates a std::thread and detaches it.
Spawn(t, w) ==
    /\ pc[t] = "run" /\ pc[w] = "unborn"
    /\ Goto(w, "start")
    /\ UNCHANGED <<call, safepointRequested_, activeMutators_, parkedMutators_,
                   safepointBackoff_, resumeCv_, lateStart>>

\* MutatorScope's constructor, on the new thread, under mutex_.
beginMutatorThread(w) ==
    /\ pc[w] = "start" /\ MutexFree
    /\ Goto(w, "run")
    /\ activeMutators_' = activeMutators_ + 1
    /\ lateStart' = (lateStart \/ InWindow # {})
    /\ UNCHANGED <<call, safepointRequested_, parkedMutators_, safepointBackoff_,
                   resumeCv_>>

\* MutatorScope's destructor, under mutex_.  The notification of parkedCv_ only
\* makes the collector look again; Handshake below may look at any moment.
endMutatorThread(w) ==
    /\ w # Main /\ pc[w] = "run" /\ MutexFree
    /\ Goto(w, "dead")
    /\ activeMutators_' = activeMutators_ - 1
    /\ UNCHANGED <<call, safepointRequested_, parkedMutators_, safepointBackoff_,
                   resumeCv_, lateStart>>

\* A native call that is not a marked safe region (FFI, the main thread blocked
\* in uv_run): the thread answers no safepoint until it returns.
EnterNative(t) ==
    /\ pc[t] = "run"
    /\ Goto(t, "native")
    /\ UNCHANGED <<call, safepointRequested_, activeMutators_, parkedMutators_,
                   safepointBackoff_, resumeCv_, lateStart>>

LeaveNative(t) ==
    /\ pc[t] = "native"
    /\ Goto(t, "run")
    /\ UNCHANGED <<call, safepointRequested_, activeMutators_, parkedMutators_,
                   safepointBackoff_, resumeCv_, lateStart>>

\* The LOOP opcode's poll that finds a request pending.  A poll that finds none,
\* or reads a stale FALSE, changes nothing.
pollSafepoint(t) ==
    /\ pc[t] = "run" /\ safepointRequested_
    /\ Goto(t, "poll")
    /\ call' = [call EXCEPT ![t] = "loop"]
    /\ UNCHANGED <<safepointRequested_, activeMutators_, parkedMutators_,
                   safepointBackoff_, resumeCv_, lateStart>>

\* track(): the poll before any lock is taken.
track(t) ==
    /\ pc[t] = "run"
    /\ call' = [call EXCEPT ![t] = "track"]
    /\ Goto(t, IF safepointRequested_ THEN "poll" ELSE "push")
    /\ UNCHANGED <<safepointRequested_, activeMutators_, parkedMutators_,
                   safepointBackoff_, resumeCv_, lateStart>>

\* collect(): the gc_collect() builtin.
collect(t) ==
    /\ pc[t] = "run"
    /\ call' = [call EXCEPT ![t] = "collect"]
    /\ Goto(t, "bring")
    /\ UNCHANGED <<safepointRequested_, activeMutators_, parkedMutators_,
                   safepointBackoff_, resumeCv_, lateStart>>

\* Where a thread continues when parkAtSafepoint() returns.
AfterPark(t) == IF call[t] = "track" THEN "push" ELSE "run"

\* Mutant: counted as parked before the request is tested again.
parkAtSafepoint_CountFirst(t) ==
    /\ pc[t] = "poll"
    /\ parkedMutators_' = parkedMutators_ + 1
    /\ \/ /\ ~safepointRequested_
          /\ Goto(t, AfterPark(t))
          /\ UNCHANGED resumeCv_
       \/ /\ safepointRequested_
          /\ Goto(t, "parked")
          /\ resumeCv_' = resumeCv_ \cup {t}
    /\ UNCHANGED <<call, safepointRequested_, activeMutators_, safepointBackoff_,
                   lateStart>>

\* parkAtSafepoint() up to the wait: the request is tested again under
\* safepointMutex_, because it may have been withdrawn since the poll.
parkAtSafepoint(t) ==
    /\ pc[t] = "poll"
    /\ \/ /\ ~safepointRequested_
          /\ Goto(t, AfterPark(t))
          /\ UNCHANGED <<parkedMutators_, resumeCv_>>
       \/ /\ safepointRequested_
          /\ Goto(t, "parked")
          /\ parkedMutators_' = parkedMutators_ + 1
          /\ resumeCv_' = resumeCv_ \cup {t}
    /\ UNCHANGED <<call, safepointRequested_, activeMutators_, safepointBackoff_, lateStart>>

\* A notified waiter of resumeCv_ takes safepointMutex_ again and tests the
\* predicate: it leaves the safepoint, or waits again for a later request.
Resume(t) ==
    /\ pc[t] \in {"parked", "leaving"} /\ t \notin resumeCv_
    /\ \/ /\ ~safepointRequested_
          /\ parkedMutators_' = parkedMutators_ - 1
          /\ Goto(t, IF pc[t] = "parked" THEN AfterPark(t) ELSE "run")
          /\ UNCHANGED resumeCv_
       \/ /\ safepointRequested_
          /\ resumeCv_' = resumeCv_ \cup {t}
          /\ UNCHANGED <<pc, parkedMutators_>>
    /\ UNCHANGED <<call, safepointRequested_, activeMutators_, safepointBackoff_, lateStart>>

\* GCSafeRegion's constructor: wait(), receive(), lock(), await() and the rest
\* count as parked while they block.
enterSafeRegion(t) ==
    /\ pc[t] = "run"
    /\ Goto(t, "safe")
    /\ parkedMutators_' = parkedMutators_ + 1
    /\ UNCHANGED <<call, safepointRequested_, activeMutators_, safepointBackoff_,
                   resumeCv_, lateStart>>

\* Mutant: the region is left at once, a collection in flight or not.
exitSafeRegion_Early(t) ==
    /\ pc[t] = "safe"
    /\ Goto(t, "run")
    /\ parkedMutators_' = parkedMutators_ - 1
    /\ UNCHANGED <<call, safepointRequested_, activeMutators_, safepointBackoff_,
                   resumeCv_, lateStart>>

\* GCSafeRegion's destructor: the thread stays counted until no request stands.
exitSafeRegion(t) ==
    /\ pc[t] = "safe"
    /\ \/ /\ ~safepointRequested_
          /\ Goto(t, "run")
          /\ parkedMutators_' = parkedMutators_ - 1
          /\ UNCHANGED resumeCv_
       \/ /\ safepointRequested_
          /\ Goto(t, "leaving")
          /\ resumeCv_' = resumeCv_ \cup {t}
          /\ UNCHANGED parkedMutators_
    /\ UNCHANGED <<call, safepointRequested_, activeMutators_, safepointBackoff_, lateStart>>

\* track(): the object is pushed under mutex_, and a threshold is crossed or not.
PushTracked(t) ==
    /\ pc[t] = "push" /\ MutexFree
    /\ \E want \in BOOLEAN : Goto(t, IF want THEN "backoff" ELSE "run")
    /\ UNCHANGED <<call, safepointRequested_, activeMutators_, parkedMutators_,
                   safepointBackoff_, resumeCv_, lateStart>>

\* Mutant: the test is off by one.
TestBackoff_OffByOne(t) ==
    /\ pc[t] = "backoff"
    /\ Goto(t, IF safepointBackoff_ >= 0 THEN "skip" ELSE "bring")
    /\ UNCHANGED <<call, safepointRequested_, activeMutators_, parkedMutators_,
                   safepointBackoff_, resumeCv_, lateStart>>

\* track(): the load and the decrement of safepointBackoff_ are two steps.
TestBackoff(t) ==
    /\ pc[t] = "backoff"
    /\ Goto(t, IF safepointBackoff_ > 0 THEN "skip" ELSE "bring")
    /\ UNCHANGED <<call, safepointRequested_, activeMutators_, parkedMutators_,
                   safepointBackoff_, resumeCv_, lateStart>>

SkipCollection(t) ==
    /\ pc[t] = "skip"
    /\ safepointBackoff_' = safepointBackoff_ - 1
    /\ Goto(t, "run")
    /\ UNCHANGED <<call, safepointRequested_, activeMutators_, parkedMutators_,
                   resumeCv_, lateStart>>

\* bringToSafepoint(): a sole mutator coordinates with nobody and leaves
\* safepointRequested_ as it is.
CountOthers(t) ==
    /\ pc[t] = "bring"
    /\ Goto(t, IF activeMutators_ - 1 <= 0 THEN "lock" ELSE "cas")
    /\ UNCHANGED <<call, safepointRequested_, activeMutators_, parkedMutators_,
                   safepointBackoff_, resumeCv_, lateStart>>

\* The CAS that lets one collector at a time drive a safepoint.
RequestSafepoint(t) ==
    /\ pc[t] = "cas"
    /\ safepointRequested_' = TRUE
    /\ Goto(t, IF safepointRequested_ THEN "fail" ELSE "handshake")
    /\ UNCHANGED <<call, activeMutators_, parkedMutators_, safepointBackoff_,
                   resumeCv_, lateStart>>

\* The predicate of parkedCv_.wait_for.
AllParked == \/ parkedMutators_ >= activeMutators_ - 1
             \/ activeMutators_ - 1 <= 0

Handshake(t) ==
    /\ pc[t] = "handshake" /\ AllParked
    /\ Goto(t, "lock")
    /\ UNCHANGED <<call, safepointRequested_, activeMutators_, parkedMutators_,
                   safepointBackoff_, resumeCv_, lateStart>>

\* Mutants: the request is left standing; the wait has no bound.
HandshakeTimeout_KeepsRequest(t) ==
    /\ pc[t] = "handshake" /\ ~AllParked
    /\ Goto(t, "withdraw")
    /\ UNCHANGED <<call, safepointRequested_, activeMutators_, parkedMutators_,
                   safepointBackoff_, resumeCv_, lateStart>>

HandshakeTimeout_Never(t) == FALSE

\* 25 ms went by: the predicate is evaluated a last time and the request withdrawn.
HandshakeTimeout(t) ==
    /\ pc[t] = "handshake" /\ ~AllParked
    /\ safepointRequested_' = FALSE
    /\ Goto(t, "withdraw")
    /\ UNCHANGED <<call, activeMutators_, parkedMutators_, safepointBackoff_,
                   resumeCv_, lateStart>>

WithdrawNotify(t) ==
    /\ pc[t] = "withdraw"
    /\ resumeCv_' = {}
    /\ Goto(t, "fail")
    /\ UNCHANGED <<call, safepointRequested_, activeMutators_, parkedMutators_,
                   safepointBackoff_, lateStart>>

\* bringToSafepoint() returned false: track() backs off, collect() just returns.
BringFailed(t) ==
    /\ pc[t] = "fail"
    /\ safepointBackoff_' = IF call[t] = "track" THEN Backoff ELSE safepointBackoff_
    /\ Goto(t, "run")
    /\ UNCHANGED <<call, safepointRequested_, activeMutators_, parkedMutators_,
                   resumeCv_, lateStart>>

\* mutex_ is taken; track() tests its threshold again and may find nothing to do.
LockAndCollect(t) ==
    /\ pc[t] = "lock" /\ MutexFree
    /\ \/ Goto(t, "collecting")
       \/ call[t] = "track" /\ Goto(t, "release")
    /\ UNCHANGED <<call, safepointRequested_, activeMutators_, parkedMutators_,
                   safepointBackoff_, resumeCv_, lateStart>>

\* collect_minor() or collect_major() ends and mutex_ is released.
FinishCollection(t) ==
    /\ pc[t] = "collecting"
    /\ Goto(t, "release")
    /\ UNCHANGED <<call, safepointRequested_, activeMutators_, parkedMutators_,
                   safepointBackoff_, resumeCv_, lateStart>>

\* releaseSafepoint(): the store under safepointMutex_, then, the mutex
\* released, the notification.
releaseSafepoint(t) ==
    /\ pc[t] = "release"
    /\ safepointRequested_' = FALSE
    /\ Goto(t, "notify")
    /\ UNCHANGED <<call, activeMutators_, parkedMutators_, safepointBackoff_,
                   resumeCv_, lateStart>>

\* Mutant: the notification is forgotten.
ReleaseNotify_Lost(t) ==
    /\ pc[t] = "notify"
    /\ Goto(t, "run")
    /\ UNCHANGED <<call, safepointRequested_, activeMutators_, parkedMutators_,
                   safepointBackoff_, resumeCv_, lateStart>>

ReleaseNotify(t) ==
    /\ pc[t] = "notify"
    /\ resumeCv_' = {}
    /\ Goto(t, "run")
    /\ UNCHANGED <<call, safepointRequested_, activeMutators_, parkedMutators_,
                   safepointBackoff_, lateStart>>

----------------------------------------------------------------------------
\* What a thread's script decides to do next.
Script(t) ==
    \/ \E w \in Workers : Spawn(t, w)
    \/ endMutatorThread(t)
    \/ EnterNative(t) \/ LeaveNative(t)
    \/ pollSafepoint(t) \/ track(t) \/ collect(t)
    \/ enterSafeRegion(t) \/ exitSafeRegion(t)

\* What the operating system runs to the end once a thread is inside it.
Protocol(t) ==
    \/ parkAtSafepoint(t) \/ Resume(t)
    \/ PushTracked(t) \/ TestBackoff(t) \/ SkipCollection(t)
    \/ CountOthers(t) \/ RequestSafepoint(t)
    \/ Handshake(t) \/ HandshakeTimeout(t) \/ WithdrawNotify(t) \/ BringFailed(t)
    \/ LockAndCollect(t) \/ FinishCollection(t)
    \/ releaseSafepoint(t) \/ ReleaseNotify(t)

Next ==
    \/ \E t \in Threads : Script(t) \/ Protocol(t)
    \/ \E w \in Workers : beginMutatorThread(w)

Spec == Init /\ [][Next]_vars

\* A thread inside the protocol is scheduled; a script owes nobody a step.
FairSpec == Spec /\ \A t \in Threads : WF_vars(Protocol(t))

----------------------------------------------------------------------------
\* Types of the state.  safepointBackoff_ may fall below zero: two threads can
\* both load 1 and both decrement.
TypeOK ==
    /\ pc \in [Threads -> Pcs]
    /\ call \in [Threads -> {"loop", "track", "collect"}]
    /\ safepointRequested_ \in BOOLEAN
    /\ activeMutators_ \in 1 .. Cardinality(Threads)
    /\ parkedMutators_ \in 0 .. Cardinality(Threads)
    /\ safepointBackoff_ \in Int
    /\ resumeCv_ \subseteq Threads
    /\ lateStart \in BOOLEAN

\* The two counters the handshake compares stay exact through every park, safe
\* region, start and exit, so the comparison in bringToSafepoint() means what it
\* says: parkedMutators_ counts the stopped threads, activeMutators_ the
\* registered ones.
CountersExact ==
    /\ parkedMutators_ = Cardinality(Parked)
    /\ activeMutators_ = Cardinality(Registered)

\* While a collection walks the heap, every other registered mutator is parked
\* or inside a safe region (the reason safepoints exist, CycleCollector.h:125),
\* provided no thread has ever registered between another's handshake and its
\* release.  NoMutatorRacesCollection below shows the proviso is needed.
StopTheWorld ==
    ~lateStart => \A c \in Threads : pc[c] = "collecting" =>
        \A t \in Threads \ {c} : pc[t] \in ParkedPcs \cup OutsidePcs

\* A standing request always has a thread still on its way to withdrawing it:
\* no interleaving of timeouts, releases and late requests leaves the other
\* threads parked behind a request that belongs to nobody.
RequestHasOwner ==
    safepointRequested_ => \E t \in Threads : pc[t] \in WindowPcs \cup {"handshake"}

\* The decrement race on safepointBackoff_ is bounded: it drifts below zero by
\* less than the number of threads, so it never stops collections for good and
\* never exceeds the 4096 allocations of one failed handshake.
BackoffBounded ==
    /\ safepointBackoff_ <= Backoff
    /\ safepointBackoff_ > 0 - Cardinality(Threads)

\* Every collection attempt ends: bringToSafepoint()'s wait is bounded, and
\* neither mutex_ nor a second collector can hold the thread for ever.
AttemptEnds == \A t \in Threads : (pc[t] = "bring") ~> (pc[t] = "run")

\* No lost wakeup: a thread parked at a safepoint, or waiting to leave a safe
\* region, runs again once requests stop being made.
ParkedResumes ==
    \A t \in Threads :
        []( (pc[t] \in {"parked", "leaving"} /\ []~safepointRequested_)
              => <>(pc[t] = "run") )

\* The comment on beginMutatorThread() (CycleCollector.h:111-115): registration
\* blocks until a collection in flight has finished, and a collection cannot
\* begin once a thread has registered, "closing the window where a mutator could
\* start racing mid-collection".  A thread runs bytecode only if no collection
\* is running.
NoMutatorRacesCollection ==
    \A c, t \in Threads : pc[c] = "collecting" => pc[t] # "run"
============================================================================
