------------------------------ MODULE Channel ------------------------------
(***************************************************************************)
(* Channel (builtins/core/Concurrency.cpp, runtime/EZChannel.h): a queue   *)
(* behind a mutex and a condition variable, used by any number of threads. *)
(*                                                                         *)
(* A critical section of mtx is one action; cv.wait releases mtx and the   *)
(* woken thread takes it again in an action of its own.  send() notifies   *)
(* one waiter after it has released mtx, close() all of them before.  The  *)
(* GCSafeRegion around the blocking calls is Safepoint's.                  *)
(***************************************************************************)
EXTENDS Naturals, Sequences, FiniteSets

CONSTANTS
    Threads,    \* the threads that share the channel
    Values,     \* what they send
    MaxQueue,   \* bound: values queued at once
    Nil, True, Error    \* nil, true, and a runtime error

ASSUME ThreadsAssumption == IsFiniteSet(Threads)
ASSUME ReturnsAssumption == MaxQueue \in Nat /\ Values \cap {Nil, True, Error} = {}

VARIABLES
    q, closed,
    cv,         \* the threads blocked on the condition variable
    pc,         \* "idle", "notify": send() after its critical section, or the
                \* blocking call the thread is in
    ret         \* what its last call returned

vars == <<q, closed, cv, pc, ret>>

Blocking == {"receive", "receiveTimeout"}

Init ==
    /\ q = <<>> /\ closed = FALSE /\ cv = {}
    /\ pc = [t \in Threads |-> "idle"]
    /\ ret = [t \in Threads |-> Nil]

Returns(t, x) ==
    /\ ret' = [ret EXCEPT ![t] = x]
    /\ pc' = [pc EXCEPT ![t] = "idle"]

\* The oldest value if there is one, nil otherwise.
Take(t) ==
    \/ q # <<>> /\ Returns(t, Head(q)) /\ q' = Tail(q)
    \/ q = <<>> /\ Returns(t, Nil) /\ UNCHANGED q

\* The predicate both waits test with mtx held.
Ready == q # <<>> \/ closed

----------------------------------------------------------------------------
\* Mutant: only the sender that finds the queue empty notifies.
send_NotifiesIfEmpty(t, v) ==
    /\ pc[t] = "idle" /\ Len(q) < MaxQueue
    /\ \/ closed /\ Returns(t, Error) /\ UNCHANGED q
       \/ /\ ~closed
          /\ q' = Append(q, v)
          /\ ret' = [ret EXCEPT ![t] = True]
          /\ pc' = [pc EXCEPT ![t] = IF q = <<>> THEN "notify" ELSE "idle"]
    /\ UNCHANGED <<closed, cv>>

\* send() up to the end of its critical section.
send(t, v) ==
    /\ pc[t] = "idle" /\ Len(q) < MaxQueue
    /\ \/ closed /\ Returns(t, Error) /\ UNCHANGED q
       \/ /\ ~closed
          /\ q' = Append(q, v)
          /\ ret' = [ret EXCEPT ![t] = True]
          /\ pc' = [pc EXCEPT ![t] = "notify"]
    /\ UNCHANGED <<closed, cv>>

\* cv.notify_one(): some waiter, if there is one.
SendNotify(t) ==
    /\ pc[t] = "notify"
    /\ \/ cv = {} /\ UNCHANGED cv
       \/ \E w \in cv : cv' = cv \ {w}
    /\ pc' = [pc EXCEPT ![t] = "idle"]
    /\ UNCHANGED <<q, closed, ret>>

\* receive() and receiveTimeout() up to their first wait.
receive(t, k) ==
    /\ pc[t] = "idle"
    /\ \/ Ready /\ Take(t) /\ UNCHANGED cv
       \/ /\ ~Ready
          /\ pc' = [pc EXCEPT ![t] = k]
          /\ cv' = cv \cup {t}
          /\ UNCHANGED <<q, ret>>
    /\ UNCHANGED closed

\* A notified waiter takes mtx and tests the predicate again.
Wakeup(t) ==
    /\ pc[t] \in Blocking /\ t \notin cv
    /\ \/ Ready /\ Take(t) /\ UNCHANGED cv
       \/ /\ ~Ready
          /\ cv' = cv \cup {t}
          /\ UNCHANGED <<q, pc, ret>>
    /\ UNCHANGED closed

\* std::condition_variable may wake a waiter for no reason.
SpuriousWakeup(t) ==
    /\ t \in cv
    /\ cv' = cv \ {t}
    /\ UNCHANGED <<q, closed, pc, ret>>

\* Mutant: a timeout returns nil without looking at the queue again.
Timeout_NoRecheck(t) ==
    /\ pc[t] = "receiveTimeout"
    /\ cv' = cv \ {t}
    /\ Returns(t, Nil)
    /\ UNCHANGED <<q, closed>>

\* wait_for() runs out: the predicate decides a last time, notified or not.
Timeout(t) ==
    /\ pc[t] = "receiveTimeout"
    /\ cv' = cv \ {t}
    /\ Take(t)
    /\ UNCHANGED closed

tryReceive(t) ==
    /\ pc[t] = "idle"
    /\ Take(t)
    /\ UNCHANGED <<closed, cv>>

\* Mutant: close() wakes one receiver, as send() does.
close_NotifiesOne(t) ==
    /\ pc[t] = "idle"
    /\ closed' = TRUE
    /\ \/ cv = {} /\ UNCHANGED cv
       \/ \E w \in cv : cv' = cv \ {w}
    /\ Returns(t, True)
    /\ UNCHANGED q

close(t) ==
    /\ pc[t] = "idle"
    /\ closed' = TRUE
    /\ cv' = {}
    /\ Returns(t, True)
    /\ UNCHANGED q

----------------------------------------------------------------------------
\* What the scheduler owes a thread inside a call.
Finish(t) == SendNotify(t) \/ Wakeup(t)

Next ==
    \E t \in Threads :
        \/ \E v \in Values : send(t, v)
        \/ \E k \in Blocking : receive(t, k)
        \/ tryReceive(t) \/ close(t)
        \/ SpuriousWakeup(t) \/ Finish(t) \/ Timeout(t)

Spec == Init /\ [][Next]_vars

\* Threads inside a call are scheduled, and the clock goes on; scripts owe nothing.
FairSpec == Spec /\ \A t \in Threads : WF_vars(Finish(t)) /\ WF_vars(Timeout(t))

----------------------------------------------------------------------------
\* Types of the state; whoever is blocked on the condition variable is inside a
\* blocking call.
TypeOK ==
    /\ q \in Seq(Values)
    /\ closed \in BOOLEAN
    /\ pc \in [Threads -> Blocking \cup {"idle", "notify"}]
    /\ ret \in [Threads -> Values \cup {Nil, True, Error}]
    /\ cv \subseteq {t \in Threads : pc[t] \in Blocking}

\* Threads that will look at the queue, or make a waiter look, before they stop.
Busy == {t \in Threads : pc[t] # "idle"} \ cv

\* No lost wakeup: while anybody is blocked, there are at least as many threads on
\* their way to the queue as it holds values, although send() notifies outside
\* the lock, one waiter at a time, and values are taken by others meanwhile.
\* After close() nobody is blocked.
WakeupsSuffice ==
    /\ cv # {} => Len(q) <= Cardinality(Busy)
    /\ closed => cv = {}

\* The channel as scripts see it: a thread waits while it is inside a blocking call.
FIFO == INSTANCE ChannelFIFO WITH
    queue <- q, isClosed <- closed,
    waiting <- [t \in Threads |-> IF pc[t] \in Blocking THEN pc[t] ELSE "no"]

\* The lock and the condition variable implement the atomic FIFO channel: every
\* step of Concurrency.cpp's Channel is one of its steps or none of them.
ImplementsFIFO == FIFO!SafeSpec

\* ... and keep its promises to sleepers: a queued value is handed out while
\* somebody sleeps, close() releases every receiver (BUILTINS.md "Close, waking
\* every receiver"), and receiveTimeout() returns.
ReleasesSleepers == FIFO!Fairness
============================================================================
