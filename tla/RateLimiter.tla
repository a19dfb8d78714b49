---------------------------- MODULE RateLimiter ----------------------------
(***************************************************************************)
(* @ratelimit(count, per): the prologue of a limited task                  *)
(* (RATELIMIT_CHECK in vm/BytecodeVMExecute.cpp).  The stamps of the calls *)
(* let through are kept in one registry for all threads, under the task's  *)
(* name; a check takes off the front what is older than the period,        *)
(* refuses the call when the count is still there, and now and then sweeps *)
(* the registry.                                                           *)
(*                                                                         *)
(* The clock is read before the lock is taken, so a thread may push a      *)
(* stamp that is older than the ones already there, or expire by an old    *)
(* reading.  Nothing in the code bounds how old; Stall names it.  A window *)
(* that is missing from the registry is an empty one.  The wait the error  *)
(* message gives is left out.                                              *)
(***************************************************************************)
EXTENDS Naturals, Sequences, SequencesExt, FiniteSets

CONSTANTS Threads,
          Tasks,       \* the limited tasks of the program
          Name,        \* the name of each, which is the key of its window
          Count,       \* the calls it allows
          Per,         \* in this period
          Day,         \* the longest period, and the age at which a sweep drops a window
          SweepEvery,  \* calls between two sweeps
          Stall,       \* the oldest a reading of the clock gets before it is used
          MaxTime      \* bound on the clock

ASSUME LimitsAssumption ==
  /\ DOMAIN Name = Tasks
  /\ Count \in [Tasks -> Nat] /\ Per \in [Tasks -> Nat]
  /\ Day \in Nat /\ \A t \in Tasks : Per[t] <= Day
  /\ SweepEvery \in Nat /\ Stall \in Nat

VARIABLES
  clock,
  reading,   \* of each thread: the task it checks and the clock as it read it
  registry,  \* stamps, by name
  counter,   \* rateLimitSweepCounter
  admitted,  \* history: the calls let through, by name
  refusal    \* history: the last check that refused a call

limiterVars == <<clock, reading, registry, counter, admitted, refusal>>

Names == {Name[t] : t \in Tasks}
Idle == [task |-> "none", stamp |-> 0]
NoRefusal == [task |-> "none", at |-> 0]

LimiterInit ==
  /\ clock = 0 /\ counter = 0
  /\ reading = [th \in Threads |-> Idle]
  /\ registry = [n \in Names |-> <<>>]
  /\ admitted = [n \in Names |-> <<>>]
  /\ refusal = NoRefusal

Tick ==
  /\ clock < MaxTime
  /\ \A th \in Threads : reading[th] # Idle => clock < reading[th].stamp + Stall
  /\ clock' = clock + 1
  /\ UNCHANGED <<reading, registry, counter, admitted, refusal>>

\* The task is called: system_clock::now(), before the lock.
ReadClock(th, task) ==
  /\ reading[th] = Idle
  /\ reading' = [reading EXCEPT ![th] = [task |-> task, stamp |-> clock]]
  /\ UNCHANGED <<clock, registry, counter, admitted, refusal>>

-----------------------------------------------------------------------------
(* The rest, under registryMutex.                                          *)

\* Mutant: the edge of the period belongs to the next one.
ExpiredAtEdge(stamp, now, per) == now >= stamp + per
Expired(stamp, now, per) == now > stamp + per

\* What is left when the front has been popped while it is expired.
Unexpired(window, now, per) ==
  {SubSeq(window, k + 1, Len(window)) : k \in {k \in 0 .. Len(window) :
     /\ \A i \in 1 .. k : Expired(window[i], now, per)
     /\ k < Len(window) => ~Expired(window[k + 1], now, per)}}

Swept(windows, now) ==
  [n \in Names |-> IF windows[n] # <<>> /\ Expired(Last(windows[n]), now, Day) THEN <<>>
                   ELSE windows[n]]

\* Mutant: a refused call counts, too.
RefuseAndCount(task, window) ==
  /\ Len(window) >= Count[task]
  /\ registry' = [registry EXCEPT ![Name[task]] = Append(window, clock)]
  /\ refusal' = [task |-> task, at |-> clock]
  /\ UNCHANGED <<counter, admitted>>

\* The call is over the limit: RateLimitError.
Refuse(task, window) ==
  /\ Len(window) >= Count[task]
  /\ registry' = [registry EXCEPT ![Name[task]] = window]
  /\ refusal' = [task |-> task, at |-> clock]
  /\ UNCHANGED <<counter, admitted>>

\* The call goes on.
Admit(task, window, now) ==
  LET windows == [registry EXCEPT ![Name[task]] = Append(window, now)]
      sweep == counter + 1 > SweepEvery
  IN /\ Len(window) < Count[task]
     /\ registry' = IF sweep THEN Swept(windows, now) ELSE windows
     /\ counter' = IF sweep THEN 0 ELSE counter + 1
     /\ admitted' = [admitted EXCEPT ![Name[task]] =
                       Append(@, [task |-> task, stamp |-> now, at |-> clock])]
     /\ refusal' = NoRefusal

Check(th) ==
  LET task == reading[th].task
      now == reading[th].stamp
  IN /\ reading[th] # Idle
     /\ \E window \in Unexpired(registry[Name[task]], now, Per[task]) :
          Refuse(task, window) \/ Admit(task, window, now)
     /\ reading' = [reading EXCEPT ![th] = Idle]
     /\ UNCHANGED clock

LimiterNext ==
  \/ Tick
  \/ \E th \in Threads : Check(th) \/ \E task \in Tasks : ReadClock(th, task)

LimiterSpec == LimiterInit /\ [][LimiterNext]_limiterVars

-----------------------------------------------------------------------------
(* What a limit promises.                                                  *)

Readings == [task : Tasks, stamp : Nat]
Calls == [task : Tasks, stamp : Nat, at : Nat]
TypeOK ==
  /\ clock \in Nat /\ counter \in 0 .. SweepEvery
  /\ reading \in [Threads -> Readings \union {Idle}]
  /\ registry \in [Names -> Seq(Nat)]
  /\ admitted \in [Names -> Seq(Calls)]
  /\ refusal \in [task : Tasks, at : Nat] \union {NoRefusal}

\* docs/10_Decorators.md:215, "Caps how often a task may run": of the calls made
\* within a period of the task's length, from any call on, at most its count are
\* let through, whatever the sweep drops and in whatever order threads push their
\* stamps.  A period is shortened by what a reading of the clock may be old.
RateBounded ==
  \A t \in Tasks :
    LET calls == admitted[Name[t]]
    IN \A x \in 1 .. Len(calls) :
         Cardinality({i \in x .. Len(calls) :
            calls[i].task = t /\ calls[i].at + Stall <= calls[x].at + Per[t]}) <= Count[t]

\* A call is refused only while the count is used up: the last calls let through
\* under its name, as many as the count, were made within the period (lengthened
\* by what a reading may be old).
RefusesOnlyWhenFull ==
  refusal # NoRefusal =>
    LET calls == admitted[Name[refusal.task]]
        used == Count[refusal.task]
    IN /\ used <= Len(calls)
       /\ used > 0 => refusal.at <= calls[Len(calls) - used + 1].at + Per[refusal.task] + Stall
=============================================================================
