-------------------------- MODULE SafepointProofs --------------------------
(***************************************************************************)
(* Safepoint's safety invariants, for any finite set of worker threads.    *)
(*                                                                         *)
(* The argument.  Both counters are exact, so the predicate a collector    *)
(* waits for is true only when every other registered thread is stopped.   *)
(* From then until releaseSafepoint() the request stands (or the collector *)
(* is the only registered thread), so nobody leaves a safepoint or a safe  *)
(* region; and a thread still in its own handshake would be a registered   *)
(* thread that is not stopped, so no other thread can clear the request.   *)
(***************************************************************************)
EXTENDS Safepoint, FiniteSetTheorems, TLAPS

\* The main thread never unregisters (only spawn() and timer threads do).
MainRegistered == pc[Main] \notin OutsidePcs

\* Every other thread has stopped or is not registered.
OthersStopped(c) == \A t \in Threads \ {c} : pc[t] \in ParkedPcs \cup OutsidePcs

\* What the request guarantees as long as no thread registered in the window.
Exclusive ==
    /\ \A c \in Threads : pc[c] \in WindowPcs =>
          /\ OthersStopped(c)
          /\ safepointRequested_ \/ \A t \in Threads \ {c} : pc[t] \in OutsidePcs
    /\ \A c \in Threads : pc[c] = "handshake" => safepointRequested_
    /\ \A c, d \in Threads : pc[c] = "handshake" /\ pc[d] = "handshake" => c = d

\* The inductive invariant.
IInv ==
    /\ TypeOK
    /\ MainRegistered
    /\ CountersExact
    /\ RequestHasOwner
    /\ ~lateStart => Exclusive

----------------------------------------------------------------------------
\* There are finitely many threads, and a set of them that holds the main
\* thread is not empty.
LEMMA ThreadSets ==
    ASSUME NEW S \in SUBSET Threads
    PROVE  /\ IsFiniteSet(S)
           /\ Cardinality(S) \in 0 .. Cardinality(Threads)
           /\ Main \in S => Cardinality(S) \in 1 .. Cardinality(Threads)
<1>1. IsFiniteSet(Threads)
  BY ThreadsAssumption, FS_AddElement DEF Threads
<1>2. IsFiniteSet(S) /\ Cardinality(S) <= Cardinality(Threads)
  BY <1>1, FS_Subset
<1>3. Cardinality(S) \in Nat /\ Cardinality(Threads) \in Nat
  BY <1>1, <1>2, FS_CardinalityType
<1>4. Main \in S => Cardinality(S) # 0
  BY <1>2, FS_EmptySet
<1> QED
  BY <1>2, <1>3, <1>4

\* How one thread's move from label pc[t] to label l changes the two sets the
\* counters count.
LEMMA CountsMove ==
    ASSUME pc \in [Threads -> Pcs], NEW t \in Threads, NEW l \in Pcs,
           pc' = [pc EXCEPT ![t] = l]
    PROVE  /\ Cardinality(Parked)' = Cardinality(Parked)
                + (IF l \in ParkedPcs THEN 1 ELSE 0)
                - (IF pc[t] \in ParkedPcs THEN 1 ELSE 0)
           /\ Cardinality(Registered)' = Cardinality(Registered)
                + (IF l \in OutsidePcs THEN 0 ELSE 1)
                - (IF pc[t] \in OutsidePcs THEN 0 ELSE 1)
           /\ Cardinality(Parked) \in Int /\ Cardinality(Registered) \in Int
<1>1. /\ IsFiniteSet(Parked) /\ Cardinality(Parked) \in Int
      /\ IsFiniteSet(Registered) /\ Cardinality(Registered) \in Int
  <2>1. Parked \in SUBSET Threads /\ Registered \in SUBSET Threads
    BY DEF Parked, Registered
  <2> QED
    BY <2>1, ThreadSets
<1>2. Parked' = IF l \in ParkedPcs THEN Parked \cup {t} ELSE Parked \ {t}
  BY DEF Parked
<1>3. Registered' = IF l \in OutsidePcs THEN Registered \ {t} ELSE Registered \cup {t}
  BY DEF Registered
<1>4. (t \in Parked <=> pc[t] \in ParkedPcs) /\ (t \in Registered <=> pc[t] \notin OutsidePcs)
  BY DEF Parked, Registered
<1>5. /\ Cardinality(Parked \cup {t}) = IF t \in Parked THEN Cardinality(Parked) ELSE Cardinality(Parked) + 1
      /\ Cardinality(Parked \ {t}) = IF t \in Parked THEN Cardinality(Parked) - 1 ELSE Cardinality(Parked)
  BY <1>1, FS_AddElement, FS_RemoveElement
<1>6. /\ Cardinality(Registered \cup {t}) = IF t \in Registered THEN Cardinality(Registered) ELSE Cardinality(Registered) + 1
      /\ Cardinality(Registered \ {t}) = IF t \in Registered THEN Cardinality(Registered) - 1 ELSE Cardinality(Registered)
  BY <1>1, FS_AddElement, FS_RemoveElement
<1>7. Cardinality(Parked)' = Cardinality(Parked)
                + (IF l \in ParkedPcs THEN 1 ELSE 0)
                - (IF pc[t] \in ParkedPcs THEN 1 ELSE 0)
  BY <1>1, <1>2, <1>4, <1>5
<1>8. Cardinality(Registered)' = Cardinality(Registered)
                + (IF l \in OutsidePcs THEN 0 ELSE 1)
                - (IF pc[t] \in OutsidePcs THEN 0 ELSE 1)
  BY <1>1, <1>3, <1>4, <1>6
<1> QED
  BY <1>1, <1>7, <1>8

\* Exact counters make the handshake's test mean that everyone else stopped.
LEMMA HandshakeMeansStopped ==
    ASSUME TypeOK, CountersExact, NEW t \in Threads,
           pc[t] \notin ParkedPcs \cup OutsidePcs,
           parkedMutators_ >= activeMutators_ - 1
    PROVE  OthersStopped(t)
<1>1. /\ Parked \in SUBSET Threads /\ Registered \in SUBSET Threads
      /\ t \in Registered
      /\ Parked \in SUBSET (Registered \ {t})
  BY DEF Parked, Registered, ParkedPcs, OutsidePcs
<1>2. /\ IsFiniteSet(Registered) /\ Cardinality(Registered) \in Int
      /\ IsFiniteSet(Parked) /\ Cardinality(Parked) \in Int
  BY <1>1, ThreadSets
<1>3. /\ IsFiniteSet(Registered \ {t})
      /\ Cardinality(Registered \ {t}) = Cardinality(Registered) - 1
  BY <1>1, <1>2, FS_RemoveElement
<1>4. Cardinality(Parked) <= Cardinality(Registered \ {t})
  BY <1>1, <1>3, FS_Subset
<1>5. Cardinality(Registered \ {t}) = Cardinality(Parked)
  BY <1>2, <1>3, <1>4 DEF CountersExact
<1>6. Registered \ {t} = Parked
  BY <1>1, <1>3, <1>5, FS_Subset
<1> QED
  BY <1>6 DEF OthersStopped, Parked, Registered

----------------------------------------------------------------------------
\* A step of a thread that moves between labels, and keeps the counters in
\* step with the sets they count, preserves the counting part of IInv.
LEMMA CountingStep ==
    ASSUME IInv, NEW t \in Threads, NEW l \in Pcs,
           pc' = [pc EXCEPT ![t] = l],
           t = Main => l \notin OutsidePcs,
           parkedMutators_' = parkedMutators_
                + (IF l \in ParkedPcs THEN 1 ELSE 0)
                - (IF pc[t] \in ParkedPcs THEN 1 ELSE 0),
           activeMutators_' = activeMutators_
                + (IF l \in OutsidePcs THEN 0 ELSE 1)
                - (IF pc[t] \in OutsidePcs THEN 0 ELSE 1),
           safepointRequested_' \in BOOLEAN, safepointBackoff_' \in Int,
           call' \in [Threads -> {"loop", "track", "collect"}],
           resumeCv_' \in SUBSET Threads, lateStart' \in BOOLEAN
    PROVE  TypeOK' /\ MainRegistered' /\ CountersExact'
<1>1. pc \in [Threads -> Pcs] /\ Main \in Threads
  BY DEF IInv, TypeOK, Threads
<1>2. CountersExact'
  BY <1>1, CountsMove DEF IInv, CountersExact
<1>3. MainRegistered'
  BY <1>1 DEF IInv, MainRegistered
<1>4. pc' \in [Threads -> Pcs]
  BY <1>1
<1>5. /\ Parked' \in SUBSET Threads /\ Registered' \in SUBSET Threads
      /\ Main \in Registered'
  BY <1>1, <1>3, <1>4 DEF Parked, Registered, MainRegistered
<1>6. /\ Cardinality(Parked') \in 0 .. Cardinality(Threads)
      /\ Cardinality(Registered') \in 1 .. Cardinality(Threads)
  BY <1>5, ThreadSets
<1> QED
  BY <1>2, <1>3, <1>4, <1>6 DEF TypeOK, CountersExact

\* A step between two labels at which a thread is registered, not parked and
\* not stopping anyone changes nothing the invariant speaks of.
LEMMA QuietStep ==
    ASSUME IInv, NEW t \in Threads, NEW l \in BusyPcs, pc[t] \in BusyPcs,
           pc' = [pc EXCEPT ![t] = l],
           UNCHANGED <<safepointRequested_, activeMutators_, parkedMutators_, lateStart>>,
           safepointBackoff_' \in Int,
           call' \in [Threads -> {"loop", "track", "collect"}],
           resumeCv_' \in SUBSET Threads
    PROVE  IInv'
<1>0. /\ pc \in [Threads -> Pcs] /\ safepointRequested_ \in BOOLEAN
      /\ lateStart \in BOOLEAN /\ activeMutators_ \in Int /\ parkedMutators_ \in Int
  BY DEF IInv, TypeOK
<1>1. TypeOK' /\ MainRegistered' /\ CountersExact'
  <2>1. l \in Pcs /\ l \notin OutsidePcs /\ l \notin ParkedPcs
    BY DEF Pcs, BusyPcs, OutsidePcs, ParkedPcs
  <2>2. pc[t] \notin OutsidePcs /\ pc[t] \notin ParkedPcs
    BY DEF Pcs, BusyPcs, OutsidePcs, ParkedPcs
  <2>3. /\ parkedMutators_' = parkedMutators_
                + (IF l \in ParkedPcs THEN 1 ELSE 0)
                - (IF pc[t] \in ParkedPcs THEN 1 ELSE 0)
        /\ activeMutators_' = activeMutators_
                + (IF l \in OutsidePcs THEN 0 ELSE 1)
                - (IF pc[t] \in OutsidePcs THEN 0 ELSE 1)
        /\ safepointRequested_' \in BOOLEAN /\ lateStart' \in BOOLEAN
    BY <1>0, <2>1, <2>2
  <2> QED
    BY <2>1, <2>3, CountingStep
<1>2. RequestHasOwner'
  BY <1>0 DEF IInv, RequestHasOwner, BusyPcs, WindowPcs
<1>3. ~lateStart' => Exclusive'
  BY <1>0 DEF IInv, Exclusive, OthersStopped, BusyPcs, WindowPcs, ParkedPcs, OutsidePcs
<1> QED
  BY <1>1, <1>2, <1>3 DEF IInv

\* Init establishes the invariant: one registered thread, nobody parked.
LEMMA Initial == Init => IInv
<1> SUFFICES ASSUME Init PROVE IInv
  OBVIOUS
<1>1. Main \in Threads /\ pc \in [Threads -> Pcs] /\ MainRegistered
  BY DEF Init, Threads, Pcs, BusyPcs, OutsidePcs, MainRegistered
<1>2. Parked = {} /\ Registered = {Main}
  BY <1>1 DEF Init, Parked, Registered, ParkedPcs, OutsidePcs
<1>3. CountersExact
  BY <1>2, FS_EmptySet, FS_Singleton DEF CountersExact, Init
<1>4. /\ Cardinality(Registered) \in 1 .. Cardinality(Threads)
      /\ Cardinality(Parked) \in 0 .. Cardinality(Threads)
  BY <1>1, <1>2, ThreadSets
<1>5. TypeOK
  <2>1. activeMutators_ \in 1 .. Cardinality(Threads) /\ parkedMutators_ \in 0 .. Cardinality(Threads)
    BY <1>3, <1>4 DEF CountersExact
  <2>2. call \in [Threads -> {"loop", "track", "collect"}] /\ safepointBackoff_ \in Int
    BY DEF Init
  <2>3. safepointRequested_ \in BOOLEAN /\ lateStart \in BOOLEAN /\ resumeCv_ \subseteq Threads
    BY Zenon DEF Init
  <2> QED
    BY <1>1, <2>1, <2>2, <2>3 DEF TypeOK
<1>6. RequestHasOwner /\ Exclusive
  BY <1>1 DEF Init, RequestHasOwner, Exclusive, WindowPcs
<1> QED
  BY <1>1, <1>3, <1>5, <1>6 DEF IInv

\* Every step preserves the invariant: one case per action.
LEMMA Inductive == IInv /\ [Next]_vars => IInv'
<1> SUFFICES ASSUME IInv, [Next]_vars PROVE IInv'
  OBVIOUS
<1> USE DEF Goto
<1>0. /\ pc \in [Threads -> Pcs] /\ safepointRequested_ \in BOOLEAN
      /\ lateStart \in BOOLEAN /\ activeMutators_ \in Int /\ parkedMutators_ \in Int
      /\ safepointBackoff_ \in Int /\ resumeCv_ \in SUBSET Threads
      /\ call \in [Threads -> {"loop", "track", "collect"}]
      /\ Main \in Threads /\ Workers \in SUBSET Threads /\ Backoff \in Int
  BY BackoffAssumption DEF IInv, TypeOK, Threads
<1>1. CASE UNCHANGED vars
  BY <1>1 DEF vars, IInv, TypeOK, MainRegistered, CountersExact, Parked, Registered,
              RequestHasOwner, Exclusive, OthersStopped
<1>2. ASSUME NEW t \in Threads, EnterNative(t) PROVE IInv'
  <2>1. \E l \in BusyPcs : pc' = [pc EXCEPT ![t] = l]
    BY <1>2 DEF EnterNative, BusyPcs
  <2>2. /\ pc[t] \in BusyPcs /\ safepointBackoff_' \in Int
        /\ call' \in [Threads -> {"loop", "track", "collect"}]
        /\ resumeCv_' \in SUBSET Threads
        /\ UNCHANGED <<safepointRequested_, activeMutators_, parkedMutators_, lateStart>>
    BY <1>0, <1>2 DEF EnterNative, BusyPcs
  <2> QED
    BY <2>1, <2>2, QuietStep
<1>3. ASSUME NEW t \in Threads, LeaveNative(t) PROVE IInv'
  <2>1. \E l \in BusyPcs : pc' = [pc EXCEPT ![t] = l]
    BY <1>3 DEF LeaveNative, BusyPcs
  <2>2. /\ pc[t] \in BusyPcs /\ safepointBackoff_' \in Int
        /\ call' \in [Threads -> {"loop", "track", "collect"}]
        /\ resumeCv_' \in SUBSET Threads
        /\ UNCHANGED <<safepointRequested_, activeMutators_, parkedMutators_, lateStart>>
    BY <1>0, <1>3 DEF LeaveNative, BusyPcs
  <2> QED
    BY <2>1, <2>2, QuietStep
<1>4. ASSUME NEW t \in Threads, pollSafepoint(t) PROVE IInv'
  <2>1. \E l \in BusyPcs : pc' = [pc EXCEPT ![t] = l]
    BY <1>4 DEF pollSafepoint, BusyPcs
  <2>2. /\ pc[t] \in BusyPcs /\ safepointBackoff_' \in Int
        /\ call' \in [Threads -> {"loop", "track", "collect"}]
        /\ resumeCv_' \in SUBSET Threads
        /\ UNCHANGED <<safepointRequested_, activeMutators_, parkedMutators_, lateStart>>
    BY <1>0, <1>4 DEF pollSafepoint, BusyPcs
  <2> QED
    BY <2>1, <2>2, QuietStep
<1>5. ASSUME NEW t \in Threads, track(t) PROVE IInv'
  <2>1. \E l \in BusyPcs : pc' = [pc EXCEPT ![t] = l]
    BY <1>5 DEF track, BusyPcs
  <2>2. /\ pc[t] \in BusyPcs /\ safepointBackoff_' \in Int
        /\ call' \in [Threads -> {"loop", "track", "collect"}]
        /\ resumeCv_' \in SUBSET Threads
        /\ UNCHANGED <<safepointRequested_, activeMutators_, parkedMutators_, lateStart>>
    BY <1>0, <1>5 DEF track, BusyPcs
  <2> QED
    BY <2>1, <2>2, QuietStep
<1>6. ASSUME NEW t \in Threads, collect(t) PROVE IInv'
  <2>1. \E l \in BusyPcs : pc' = [pc EXCEPT ![t] = l]
    BY <1>6 DEF collect, BusyPcs
  <2>2. /\ pc[t] \in BusyPcs /\ safepointBackoff_' \in Int
        /\ call' \in [Threads -> {"loop", "track", "collect"}]
        /\ resumeCv_' \in SUBSET Threads
        /\ UNCHANGED <<safepointRequested_, activeMutators_, parkedMutators_, lateStart>>
    BY <1>0, <1>6 DEF collect, BusyPcs
  <2> QED
    BY <2>1, <2>2, QuietStep
<1>7. ASSUME NEW t \in Threads, PushTracked(t) PROVE IInv'
  <2>1. \E l \in BusyPcs : pc' = [pc EXCEPT ![t] = l]
    BY <1>7 DEF PushTracked, BusyPcs
  <2>2. /\ pc[t] \in BusyPcs /\ safepointBackoff_' \in Int
        /\ call' \in [Threads -> {"loop", "track", "collect"}]
        /\ resumeCv_' \in SUBSET Threads
        /\ UNCHANGED <<safepointRequested_, activeMutators_, parkedMutators_, lateStart>>
    BY <1>0, <1>7 DEF PushTracked, BusyPcs
  <2> QED
    BY <2>1, <2>2, QuietStep
<1>8. ASSUME NEW t \in Threads, TestBackoff(t) PROVE IInv'
  <2>1. \E l \in BusyPcs : pc' = [pc EXCEPT ![t] = l]
    BY <1>8 DEF TestBackoff, BusyPcs
  <2>2. /\ pc[t] \in BusyPcs /\ safepointBackoff_' \in Int
        /\ call' \in [Threads -> {"loop", "track", "collect"}]
        /\ resumeCv_' \in SUBSET Threads
        /\ UNCHANGED <<safepointRequested_, activeMutators_, parkedMutators_, lateStart>>
    BY <1>0, <1>8 DEF TestBackoff, BusyPcs
  <2> QED
    BY <2>1, <2>2, QuietStep
<1>9. ASSUME NEW t \in Threads, SkipCollection(t) PROVE IInv'
  <2>1. \E l \in BusyPcs : pc' = [pc EXCEPT ![t] = l]
    BY <1>9 DEF SkipCollection, BusyPcs
  <2>2. /\ pc[t] \in BusyPcs /\ safepointBackoff_' \in Int
        /\ call' \in [Threads -> {"loop", "track", "collect"}]
        /\ resumeCv_' \in SUBSET Threads
        /\ UNCHANGED <<safepointRequested_, activeMutators_, parkedMutators_, lateStart>>
    BY <1>0, <1>9 DEF SkipCollection, BusyPcs
  <2> QED
    BY <2>1, <2>2, QuietStep
<1>10. ASSUME NEW t \in Threads, WithdrawNotify(t) PROVE IInv'
  <2>1. \E l \in BusyPcs : pc' = [pc EXCEPT ![t] = l]
    BY <1>10 DEF WithdrawNotify, BusyPcs
  <2>2. /\ pc[t] \in BusyPcs /\ safepointBackoff_' \in Int
        /\ call' \in [Threads -> {"loop", "track", "collect"}]
        /\ resumeCv_' \in SUBSET Threads
        /\ UNCHANGED <<safepointRequested_, activeMutators_, parkedMutators_, lateStart>>
    BY <1>0, <1>10 DEF WithdrawNotify, BusyPcs
  <2> QED
    BY <2>1, <2>2, QuietStep
<1>11. ASSUME NEW t \in Threads, BringFailed(t) PROVE IInv'
  <2>1. \E l \in BusyPcs : pc' = [pc EXCEPT ![t] = l]
    BY <1>11 DEF BringFailed, BusyPcs
  <2>2. /\ pc[t] \in BusyPcs /\ safepointBackoff_' \in Int
        /\ call' \in [Threads -> {"loop", "track", "collect"}]
        /\ resumeCv_' \in SUBSET Threads
        /\ UNCHANGED <<safepointRequested_, activeMutators_, parkedMutators_, lateStart>>
    BY <1>0, <1>11 DEF BringFailed, BusyPcs
  <2> QED
    BY <2>1, <2>2, QuietStep
<1>12. ASSUME NEW t \in Threads, ReleaseNotify(t) PROVE IInv'
  <2>1. \E l \in BusyPcs : pc' = [pc EXCEPT ![t] = l]
    BY <1>12 DEF ReleaseNotify, BusyPcs
  <2>2. /\ pc[t] \in BusyPcs /\ safepointBackoff_' \in Int
        /\ call' \in [Threads -> {"loop", "track", "collect"}]
        /\ resumeCv_' \in SUBSET Threads
        /\ UNCHANGED <<safepointRequested_, activeMutators_, parkedMutators_, lateStart>>
    BY <1>0, <1>12 DEF ReleaseNotify, BusyPcs
  <2> QED
    BY <2>1, <2>2, QuietStep
<1>13. ASSUME NEW t \in Threads, NEW w \in Workers, Spawn(t, w) PROVE IInv'
  <2>1. TypeOK' /\ MainRegistered' /\ CountersExact'
    <3>1. PICK l \in Pcs : pc' = [pc EXCEPT ![w] = l] /\ (l = "start")
      BY <1>0, <1>13 DEF Spawn, ParkedPcs, OutsidePcs, WindowPcs, BusyPcs, Pcs, AfterPark
    <3>2. w = Main => l \notin OutsidePcs
      BY <1>13, <3>1, ThreadsAssumption DEF Spawn, ParkedPcs, OutsidePcs, WindowPcs, BusyPcs, Pcs
    <3>3. parkedMutators_' = parkedMutators_
                + (IF l \in ParkedPcs THEN 1 ELSE 0)
                - (IF pc[w] \in ParkedPcs THEN 1 ELSE 0)
      BY <1>0, <1>13, <3>1 DEF Spawn, ParkedPcs, OutsidePcs, WindowPcs, BusyPcs, Pcs
    <3>4. activeMutators_' = activeMutators_
                + (IF l \in OutsidePcs THEN 0 ELSE 1)
                - (IF pc[w] \in OutsidePcs THEN 0 ELSE 1)
      BY <1>0, <1>13, <3>1 DEF Spawn, ParkedPcs, OutsidePcs, WindowPcs, BusyPcs, Pcs
    <3>5. /\ safepointRequested_' \in BOOLEAN /\ safepointBackoff_' \in Int
          /\ call' \in [Threads -> {"loop", "track", "collect"}]
          /\ resumeCv_' \in SUBSET Threads /\ lateStart' \in BOOLEAN
      BY <1>0, <1>13 DEF Spawn
    <3> QED
      BY <1>0, <3>1, <3>2, <3>3, <3>4, <3>5, CountingStep
  <2>2. RequestHasOwner'
    BY <1>0, <1>13 DEF Spawn, IInv, RequestHasOwner, AfterPark, ParkedPcs, OutsidePcs, WindowPcs, BusyPcs, Pcs
  <2>3. ~lateStart' => Exclusive'
    BY <1>0, <1>13 DEF Spawn, IInv, Exclusive, OthersStopped, AfterPark, ParkedPcs, OutsidePcs, WindowPcs, BusyPcs, Pcs
  <2> QED
    BY <2>1, <2>2, <2>3 DEF IInv
<1>14. ASSUME NEW w \in Workers, beginMutatorThread(w) PROVE IInv'
  <2>1. TypeOK' /\ MainRegistered' /\ CountersExact'
    <3>1. PICK l \in Pcs : pc' = [pc EXCEPT ![w] = l] /\ (l = "run")
      BY <1>0, <1>14 DEF beginMutatorThread, ParkedPcs, OutsidePcs, WindowPcs, BusyPcs, Pcs, AfterPark
    <3>2. w = Main => l \notin OutsidePcs
      BY <1>14, <3>1, ThreadsAssumption DEF beginMutatorThread, ParkedPcs, OutsidePcs, WindowPcs, BusyPcs, Pcs
    <3>3. parkedMutators_' = parkedMutators_
                + (IF l \in ParkedPcs THEN 1 ELSE 0)
                - (IF pc[w] \in ParkedPcs THEN 1 ELSE 0)
      BY <1>0, <1>14, <3>1 DEF beginMutatorThread, ParkedPcs, OutsidePcs, WindowPcs, BusyPcs, Pcs
    <3>4. activeMutators_' = activeMutators_
                + (IF l \in OutsidePcs THEN 0 ELSE 1)
                - (IF pc[w] \in OutsidePcs THEN 0 ELSE 1)
      BY <1>0, <1>14, <3>1 DEF beginMutatorThread, ParkedPcs, OutsidePcs, WindowPcs, BusyPcs, Pcs
    <3>5. /\ safepointRequested_' \in BOOLEAN /\ safepointBackoff_' \in Int
          /\ call' \in [Threads -> {"loop", "track", "collect"}]
          /\ resumeCv_' \in SUBSET Threads /\ lateStart' \in BOOLEAN
      BY <1>0, <1>14 DEF beginMutatorThread
    <3> QED
      BY <1>0, <3>1, <3>2, <3>3, <3>4, <3>5, CountingStep
  <2>2. RequestHasOwner'
    BY <1>0, <1>14 DEF beginMutatorThread, IInv, RequestHasOwner, AfterPark, ParkedPcs, OutsidePcs, WindowPcs, BusyPcs, Pcs
  <2>3. ~lateStart' => Exclusive'
    BY <1>0, <1>14 DEF beginMutatorThread, IInv, Exclusive, OthersStopped, AfterPark, ParkedPcs, OutsidePcs, WindowPcs, BusyPcs, Pcs, InWindow
  <2> QED
    BY <2>1, <2>2, <2>3 DEF IInv
<1>15. ASSUME NEW t \in Threads, endMutatorThread(t) PROVE IInv'
  <2>1. TypeOK' /\ MainRegistered' /\ CountersExact'
    <3>1. PICK l \in Pcs : pc' = [pc EXCEPT ![t] = l] /\ (l = "dead")
      BY <1>0, <1>15 DEF endMutatorThread, ParkedPcs, OutsidePcs, WindowPcs, BusyPcs, Pcs, AfterPark
    <3>2. t = Main => l \notin OutsidePcs
      BY <1>15, <3>1, ThreadsAssumption DEF endMutatorThread, ParkedPcs, OutsidePcs, WindowPcs, BusyPcs, Pcs
    <3>3. parkedMutators_' = parkedMutators_
                + (IF l \in ParkedPcs THEN 1 ELSE 0)
                - (IF pc[t] \in ParkedPcs THEN 1 ELSE 0)
      BY <1>0, <1>15, <3>1 DEF endMutatorThread, ParkedPcs, OutsidePcs, WindowPcs, BusyPcs, Pcs
    <3>4. activeMutators_' = activeMutators_
                + (IF l \in OutsidePcs THEN 0 ELSE 1)
                - (IF pc[t] \in OutsidePcs THEN 0 ELSE 1)
      BY <1>0, <1>15, <3>1 DEF endMutatorThread, ParkedPcs, OutsidePcs, WindowPcs, BusyPcs, Pcs
    <3>5. /\ safepointRequested_' \in BOOLEAN /\ safepointBackoff_' \in Int
          /\ call' \in [Threads -> {"loop", "track", "collect"}]
          /\ resumeCv_' \in SUBSET Threads /\ lateStart' \in BOOLEAN
      BY <1>0, <1>15 DEF endMutatorThread
    <3> QED
      BY <1>0, <3>1, <3>2, <3>3, <3>4, <3>5, CountingStep
  <2>2. RequestHasOwner'
    BY <1>0, <1>15 DEF endMutatorThread, IInv, RequestHasOwner, AfterPark, ParkedPcs, OutsidePcs, WindowPcs, BusyPcs, Pcs
  <2>3. ~lateStart' => Exclusive'
    BY <1>0, <1>15 DEF endMutatorThread, IInv, Exclusive, OthersStopped, AfterPark, ParkedPcs, OutsidePcs, WindowPcs, BusyPcs, Pcs
  <2> QED
    BY <2>1, <2>2, <2>3 DEF IInv
<1>16. ASSUME NEW t \in Threads, parkAtSafepoint(t) PROVE IInv'
  <2>1. TypeOK' /\ MainRegistered' /\ CountersExact'
    <3>1. PICK l \in Pcs : pc' = [pc EXCEPT ![t] = l] /\ (l = IF safepointRequested_ THEN "parked" ELSE AfterPark(t))
      BY <1>0, <1>16 DEF parkAtSafepoint, ParkedPcs, OutsidePcs, WindowPcs, BusyPcs, Pcs, AfterPark
    <3>2. t = Main => l \notin OutsidePcs
      BY <1>16, <3>1, ThreadsAssumption DEF parkAtSafepoint, ParkedPcs, OutsidePcs, WindowPcs, BusyPcs, Pcs, AfterPark
    <3>3. parkedMutators_' = parkedMutators_
                + (IF l \in ParkedPcs THEN 1 ELSE 0)
                - (IF pc[t] \in ParkedPcs THEN 1 ELSE 0)
      BY <1>0, <1>16, <3>1 DEF parkAtSafepoint, ParkedPcs, OutsidePcs, WindowPcs, BusyPcs, Pcs, AfterPark
    <3>4. activeMutators_' = activeMutators_
                + (IF l \in OutsidePcs THEN 0 ELSE 1)
                - (IF pc[t] \in OutsidePcs THEN 0 ELSE 1)
      BY <1>0, <1>16, <3>1 DEF parkAtSafepoint, ParkedPcs, OutsidePcs, WindowPcs, BusyPcs, Pcs, AfterPark
    <3>5. /\ safepointRequested_' \in BOOLEAN /\ safepointBackoff_' \in Int
          /\ call' \in [Threads -> {"loop", "track", "collect"}]
          /\ resumeCv_' \in SUBSET Threads /\ lateStart' \in BOOLEAN
      BY <1>0, <1>16 DEF parkAtSafepoint
    <3> QED
      BY <1>0, <3>1, <3>2, <3>3, <3>4, <3>5, CountingStep
  <2>2. RequestHasOwner'
    BY <1>0, <1>16 DEF parkAtSafepoint, IInv, RequestHasOwner, AfterPark, ParkedPcs, OutsidePcs, WindowPcs, BusyPcs, Pcs
  <2>3. ~lateStart' => Exclusive'
    BY <1>0, <1>16 DEF parkAtSafepoint, IInv, Exclusive, OthersStopped, AfterPark, ParkedPcs, OutsidePcs, WindowPcs, BusyPcs, Pcs
  <2> QED
    BY <2>1, <2>2, <2>3 DEF IInv
<1>17. ASSUME NEW t \in Threads, enterSafeRegion(t) PROVE IInv'
  <2>1. TypeOK' /\ MainRegistered' /\ CountersExact'
    <3>1. PICK l \in Pcs : pc' = [pc EXCEPT ![t] = l] /\ (l = "safe")
      BY <1>0, <1>17 DEF enterSafeRegion, ParkedPcs, OutsidePcs, WindowPcs, BusyPcs, Pcs, AfterPark
    <3>2. t = Main => l \notin OutsidePcs
      BY <1>17, <3>1, ThreadsAssumption DEF enterSafeRegion, ParkedPcs, OutsidePcs, WindowPcs, BusyPcs, Pcs
    <3>3. parkedMutators_' = parkedMutators_
                + (IF l \in ParkedPcs THEN 1 ELSE 0)
                - (IF pc[t] \in ParkedPcs THEN 1 ELSE 0)
      BY <1>0, <1>17, <3>1 DEF enterSafeRegion, ParkedPcs, OutsidePcs, WindowPcs, BusyPcs, Pcs
    <3>4. activeMutators_' = activeMutators_
                + (IF l \in OutsidePcs THEN 0 ELSE 1)
                - (IF pc[t] \in OutsidePcs THEN 0 ELSE 1)
      BY <1>0, <1>17, <3>1 DEF enterSafeRegion, ParkedPcs, OutsidePcs, WindowPcs, BusyPcs, Pcs
    <3>5. /\ safepointRequested_' \in BOOLEAN /\ safepointBackoff_' \in Int
          /\ call' \in [Threads -> {"loop", "track", "collect"}]
          /\ resumeCv_' \in SUBSET Threads /\ lateStart' \in BOOLEAN
      BY <1>0, <1>17 DEF enterSafeRegion
    <3> QED
      BY <1>0, <3>1, <3>2, <3>3, <3>4, <3>5, CountingStep
  <2>2. RequestHasOwner'
    BY <1>0, <1>17 DEF enterSafeRegion, IInv, RequestHasOwner, AfterPark, ParkedPcs, OutsidePcs, WindowPcs, BusyPcs, Pcs
  <2>3. ~lateStart' => Exclusive'
    BY <1>0, <1>17 DEF enterSafeRegion, IInv, Exclusive, OthersStopped, AfterPark, ParkedPcs, OutsidePcs, WindowPcs, BusyPcs, Pcs
  <2> QED
    BY <2>1, <2>2, <2>3 DEF IInv
<1>18. ASSUME NEW t \in Threads, exitSafeRegion(t) PROVE IInv'
  <2>1. TypeOK' /\ MainRegistered' /\ CountersExact'
    <3>1. PICK l \in Pcs : pc' = [pc EXCEPT ![t] = l] /\ (l = IF safepointRequested_ THEN "leaving" ELSE "run")
      BY <1>0, <1>18 DEF exitSafeRegion, ParkedPcs, OutsidePcs, WindowPcs, BusyPcs, Pcs, AfterPark
    <3>2. t = Main => l \notin OutsidePcs
      BY <1>18, <3>1, ThreadsAssumption DEF exitSafeRegion, ParkedPcs, OutsidePcs, WindowPcs, BusyPcs, Pcs
    <3>3. parkedMutators_' = parkedMutators_
                + (IF l \in ParkedPcs THEN 1 ELSE 0)
                - (IF pc[t] \in ParkedPcs THEN 1 ELSE 0)
      BY <1>0, <1>18, <3>1 DEF exitSafeRegion, ParkedPcs, OutsidePcs, WindowPcs, BusyPcs, Pcs
    <3>4. activeMutators_' = activeMutators_
                + (IF l \in OutsidePcs THEN 0 ELSE 1)
                - (IF pc[t] \in OutsidePcs THEN 0 ELSE 1)
      BY <1>0, <1>18, <3>1 DEF exitSafeRegion, ParkedPcs, OutsidePcs, WindowPcs, BusyPcs, Pcs
    <3>5. /\ safepointRequested_' \in BOOLEAN /\ safepointBackoff_' \in Int
          /\ call' \in [Threads -> {"loop", "track", "collect"}]
          /\ resumeCv_' \in SUBSET Threads /\ lateStart' \in BOOLEAN
      BY <1>0, <1>18 DEF exitSafeRegion
    <3> QED
      BY <1>0, <3>1, <3>2, <3>3, <3>4, <3>5, CountingStep
  <2>2. RequestHasOwner'
    BY <1>0, <1>18 DEF exitSafeRegion, IInv, RequestHasOwner, AfterPark, ParkedPcs, OutsidePcs, WindowPcs, BusyPcs, Pcs
  <2>3. ~lateStart' => Exclusive'
    BY <1>0, <1>18 DEF exitSafeRegion, IInv, Exclusive, OthersStopped, AfterPark, ParkedPcs, OutsidePcs, WindowPcs, BusyPcs, Pcs
  <2> QED
    BY <2>1, <2>2, <2>3 DEF IInv
<1>19. ASSUME NEW t \in Threads, RequestSafepoint(t) PROVE IInv'
  <2>1. TypeOK' /\ MainRegistered' /\ CountersExact'
    <3>1. PICK l \in Pcs : pc' = [pc EXCEPT ![t] = l] /\ (l = IF safepointRequested_ THEN "fail" ELSE "handshake")
      BY <1>0, <1>19 DEF RequestSafepoint, ParkedPcs, OutsidePcs, WindowPcs, BusyPcs, Pcs, AfterPark
    <3>2. t = Main => l \notin OutsidePcs
      BY <1>19, <3>1, ThreadsAssumption DEF RequestSafepoint, ParkedPcs, OutsidePcs, WindowPcs, BusyPcs, Pcs
    <3>3. parkedMutators_' = parkedMutators_
                + (IF l \in ParkedPcs THEN 1 ELSE 0)
                - (IF pc[t] \in ParkedPcs THEN 1 ELSE 0)
      BY <1>0, <1>19, <3>1 DEF RequestSafepoint, ParkedPcs, OutsidePcs, WindowPcs, BusyPcs, Pcs
    <3>4. activeMutators_' = activeMutators_
                + (IF l \in OutsidePcs THEN 0 ELSE 1)
                - (IF pc[t] \in OutsidePcs THEN 0 ELSE 1)
      BY <1>0, <1>19, <3>1 DEF RequestSafepoint, ParkedPcs, OutsidePcs, WindowPcs, BusyPcs, Pcs
    <3>5. /\ safepointRequested_' \in BOOLEAN /\ safepointBackoff_' \in Int
          /\ call' \in [Threads -> {"loop", "track", "collect"}]
          /\ resumeCv_' \in SUBSET Threads /\ lateStart' \in BOOLEAN
      BY <1>0, <1>19 DEF RequestSafepoint
    <3> QED
      BY <1>0, <3>1, <3>2, <3>3, <3>4, <3>5, CountingStep
  <2>2. RequestHasOwner'
    BY <1>0, <1>19 DEF RequestSafepoint, IInv, RequestHasOwner, AfterPark, ParkedPcs, OutsidePcs, WindowPcs, BusyPcs, Pcs
  <2>3. ~lateStart' => Exclusive'
    BY <1>0, <1>19 DEF RequestSafepoint, IInv, Exclusive, OthersStopped, AfterPark, ParkedPcs, OutsidePcs, WindowPcs, BusyPcs, Pcs
  <2> QED
    BY <2>1, <2>2, <2>3 DEF IInv
<1>20. ASSUME NEW t \in Threads, HandshakeTimeout(t) PROVE IInv'
  <2>1. TypeOK' /\ MainRegistered' /\ CountersExact'
    <3>1. PICK l \in Pcs : pc' = [pc EXCEPT ![t] = l] /\ (l = "withdraw")
      BY <1>0, <1>20 DEF HandshakeTimeout, ParkedPcs, OutsidePcs, WindowPcs, BusyPcs, Pcs, AfterPark
    <3>2. t = Main => l \notin OutsidePcs
      BY <1>20, <3>1, ThreadsAssumption DEF HandshakeTimeout, ParkedPcs, OutsidePcs, WindowPcs, BusyPcs, Pcs
    <3>3. parkedMutators_' = parkedMutators_
                + (IF l \in ParkedPcs THEN 1 ELSE 0)
                - (IF pc[t] \in ParkedPcs THEN 1 ELSE 0)
      BY <1>0, <1>20, <3>1 DEF HandshakeTimeout, ParkedPcs, OutsidePcs, WindowPcs, BusyPcs, Pcs
    <3>4. activeMutators_' = activeMutators_
                + (IF l \in OutsidePcs THEN 0 ELSE 1)
                - (IF pc[t] \in OutsidePcs THEN 0 ELSE 1)
      BY <1>0, <1>20, <3>1 DEF HandshakeTimeout, ParkedPcs, OutsidePcs, WindowPcs, BusyPcs, Pcs
    <3>5. /\ safepointRequested_' \in BOOLEAN /\ safepointBackoff_' \in Int
          /\ call' \in [Threads -> {"loop", "track", "collect"}]
          /\ resumeCv_' \in SUBSET Threads /\ lateStart' \in BOOLEAN
      BY <1>0, <1>20 DEF HandshakeTimeout
    <3> QED
      BY <1>0, <3>1, <3>2, <3>3, <3>4, <3>5, CountingStep
  <2>2. RequestHasOwner'
    BY <1>0, <1>20 DEF HandshakeTimeout, IInv, RequestHasOwner, AfterPark, ParkedPcs, OutsidePcs, WindowPcs, BusyPcs, Pcs
  <2>3. ~lateStart' => Exclusive'
    BY <1>0, <1>20 DEF HandshakeTimeout, IInv, Exclusive, OthersStopped, AfterPark, ParkedPcs, OutsidePcs, WindowPcs, BusyPcs, Pcs
  <2> QED
    BY <2>1, <2>2, <2>3 DEF IInv
<1>21. ASSUME NEW t \in Threads, LockAndCollect(t) PROVE IInv'
  <2>1. TypeOK' /\ MainRegistered' /\ CountersExact'
    <3>1. PICK l \in Pcs : pc' = [pc EXCEPT ![t] = l] /\ (l \in {"collecting", "release"})
      BY <1>0, <1>21 DEF LockAndCollect, ParkedPcs, OutsidePcs, WindowPcs, BusyPcs, Pcs, AfterPark
    <3>2. t = Main => l \notin OutsidePcs
      BY <1>21, <3>1, ThreadsAssumption DEF LockAndCollect, ParkedPcs, OutsidePcs, WindowPcs, BusyPcs, Pcs
    <3>3. parkedMutators_' = parkedMutators_
                + (IF l \in ParkedPcs THEN 1 ELSE 0)
                - (IF pc[t] \in ParkedPcs THEN 1 ELSE 0)
      BY <1>0, <1>21, <3>1 DEF LockAndCollect, ParkedPcs, OutsidePcs, WindowPcs, BusyPcs, Pcs
    <3>4. activeMutators_' = activeMutators_
                + (IF l \in OutsidePcs THEN 0 ELSE 1)
                - (IF pc[t] \in OutsidePcs THEN 0 ELSE 1)
      BY <1>0, <1>21, <3>1 DEF LockAndCollect, ParkedPcs, OutsidePcs, WindowPcs, BusyPcs, Pcs
    <3>5. /\ safepointRequested_' \in BOOLEAN /\ safepointBackoff_' \in Int
          /\ call' \in [Threads -> {"loop", "track", "collect"}]
          /\ resumeCv_' \in SUBSET Threads /\ lateStart' \in BOOLEAN
      BY <1>0, <1>21 DEF LockAndCollect
    <3> QED
      BY <1>0, <3>1, <3>2, <3>3, <3>4, <3>5, CountingStep
  <2>2. RequestHasOwner'
    BY <1>0, <1>21 DEF LockAndCollect, IInv, RequestHasOwner, AfterPark, ParkedPcs, OutsidePcs, WindowPcs, BusyPcs, Pcs
  <2>3. ~lateStart' => Exclusive'
    BY <1>0, <1>21 DEF LockAndCollect, IInv, Exclusive, OthersStopped, AfterPark, ParkedPcs, OutsidePcs, WindowPcs, BusyPcs, Pcs
  <2> QED
    BY <2>1, <2>2, <2>3 DEF IInv
<1>22. ASSUME NEW t \in Threads, FinishCollection(t) PROVE IInv'
  <2>1. TypeOK' /\ MainRegistered' /\ CountersExact'
    <3>1. PICK l \in Pcs : pc' = [pc EXCEPT ![t] = l] /\ (l = "release")
      BY <1>0, <1>22 DEF FinishCollection, ParkedPcs, OutsidePcs, WindowPcs, BusyPcs, Pcs, AfterPark
    <3>2. t = Main => l \notin OutsidePcs
      BY <1>22, <3>1, ThreadsAssumption DEF FinishCollection, ParkedPcs, OutsidePcs, WindowPcs, BusyPcs, Pcs
    <3>3. parkedMutators_' = parkedMutators_
                + (IF l \in ParkedPcs THEN 1 ELSE 0)
                - (IF pc[t] \in ParkedPcs THEN 1 ELSE 0)
      BY <1>0, <1>22, <3>1 DEF FinishCollection, ParkedPcs, OutsidePcs, WindowPcs, BusyPcs, Pcs
    <3>4. activeMutators_' = activeMutators_
                + (IF l \in OutsidePcs THEN 0 ELSE 1)
                - (IF pc[t] \in OutsidePcs THEN 0 ELSE 1)
      BY <1>0, <1>22, <3>1 DEF FinishCollection, ParkedPcs, OutsidePcs, WindowPcs, BusyPcs, Pcs
    <3>5. /\ safepointRequested_' \in BOOLEAN /\ safepointBackoff_' \in Int
          /\ call' \in [Threads -> {"loop", "track", "collect"}]
          /\ resumeCv_' \in SUBSET Threads /\ lateStart' \in BOOLEAN
      BY <1>0, <1>22 DEF FinishCollection
    <3> QED
      BY <1>0, <3>1, <3>2, <3>3, <3>4, <3>5, CountingStep
  <2>2. RequestHasOwner'
    BY <1>0, <1>22 DEF FinishCollection, IInv, RequestHasOwner, AfterPark, ParkedPcs, OutsidePcs, WindowPcs, BusyPcs, Pcs
  <2>3. ~lateStart' => Exclusive'
    BY <1>0, <1>22 DEF FinishCollection, IInv, Exclusive, OthersStopped, AfterPark, ParkedPcs, OutsidePcs, WindowPcs, BusyPcs, Pcs
  <2> QED
    BY <2>1, <2>2, <2>3 DEF IInv
<1>23. ASSUME NEW t \in Threads, releaseSafepoint(t) PROVE IInv'
  <2>1. TypeOK' /\ MainRegistered' /\ CountersExact'
    <3>1. PICK l \in Pcs : pc' = [pc EXCEPT ![t] = l] /\ (l = "notify")
      BY <1>0, <1>23 DEF releaseSafepoint, ParkedPcs, OutsidePcs, WindowPcs, BusyPcs, Pcs, AfterPark
    <3>2. t = Main => l \notin OutsidePcs
      BY <1>23, <3>1, ThreadsAssumption DEF releaseSafepoint, ParkedPcs, OutsidePcs, WindowPcs, BusyPcs, Pcs
    <3>3. parkedMutators_' = parkedMutators_
                + (IF l \in ParkedPcs THEN 1 ELSE 0)
                - (IF pc[t] \in ParkedPcs THEN 1 ELSE 0)
      BY <1>0, <1>23, <3>1 DEF releaseSafepoint, ParkedPcs, OutsidePcs, WindowPcs, BusyPcs, Pcs
    <3>4. activeMutators_' = activeMutators_
                + (IF l \in OutsidePcs THEN 0 ELSE 1)
                - (IF pc[t] \in OutsidePcs THEN 0 ELSE 1)
      BY <1>0, <1>23, <3>1 DEF releaseSafepoint, ParkedPcs, OutsidePcs, WindowPcs, BusyPcs, Pcs
    <3>5. /\ safepointRequested_' \in BOOLEAN /\ safepointBackoff_' \in Int
          /\ call' \in [Threads -> {"loop", "track", "collect"}]
          /\ resumeCv_' \in SUBSET Threads /\ lateStart' \in BOOLEAN
      BY <1>0, <1>23 DEF releaseSafepoint
    <3> QED
      BY <1>0, <3>1, <3>2, <3>3, <3>4, <3>5, CountingStep
  <2>2. RequestHasOwner'
    BY <1>0, <1>23 DEF releaseSafepoint, IInv, RequestHasOwner, AfterPark, ParkedPcs, OutsidePcs, WindowPcs, BusyPcs, Pcs
  <2>3. ~lateStart' => Exclusive'
    BY <1>0, <1>23 DEF releaseSafepoint, IInv, Exclusive, OthersStopped, AfterPark, ParkedPcs, OutsidePcs, WindowPcs, BusyPcs, Pcs
  <2> QED
    BY <2>1, <2>2, <2>3 DEF IInv
<1>24. ASSUME NEW t \in Threads, Resume(t) PROVE IInv'
  <2>1. TypeOK' /\ MainRegistered' /\ CountersExact'
    <3>1. PICK l \in Pcs : pc' = [pc EXCEPT ![t] = l] /\ (l = IF safepointRequested_ THEN pc[t] ELSE IF pc[t] = "parked" THEN AfterPark(t) ELSE "run")
      BY <1>0, <1>24 DEF Resume, ParkedPcs, OutsidePcs, WindowPcs, BusyPcs, Pcs, AfterPark
    <3>2. t = Main => l \notin OutsidePcs
      BY <1>24, <3>1, ThreadsAssumption DEF Resume, ParkedPcs, OutsidePcs, WindowPcs, BusyPcs, Pcs, AfterPark
    <3>3. parkedMutators_' = parkedMutators_
                + (IF l \in ParkedPcs THEN 1 ELSE 0)
                - (IF pc[t] \in ParkedPcs THEN 1 ELSE 0)
      BY <1>0, <1>24, <3>1 DEF Resume, ParkedPcs, OutsidePcs, WindowPcs, BusyPcs, Pcs, AfterPark
    <3>4. activeMutators_' = activeMutators_
                + (IF l \in OutsidePcs THEN 0 ELSE 1)
                - (IF pc[t] \in OutsidePcs THEN 0 ELSE 1)
      BY <1>0, <1>24, <3>1 DEF Resume, ParkedPcs, OutsidePcs, WindowPcs, BusyPcs, Pcs, AfterPark
    <3>5. /\ safepointRequested_' \in BOOLEAN /\ safepointBackoff_' \in Int
          /\ call' \in [Threads -> {"loop", "track", "collect"}]
          /\ resumeCv_' \in SUBSET Threads /\ lateStart' \in BOOLEAN
      BY <1>0, <1>24 DEF Resume
    <3> QED
      BY <1>0, <3>1, <3>2, <3>3, <3>4, <3>5, CountingStep
  <2>2. RequestHasOwner'
    BY <1>0, <1>24 DEF Resume, IInv, RequestHasOwner, AfterPark, ParkedPcs, OutsidePcs, WindowPcs, BusyPcs, Pcs
  <2>3. ~lateStart' => Exclusive'
    BY <1>0, <1>24 DEF Resume, IInv, Exclusive, OthersStopped, AfterPark, ParkedPcs, OutsidePcs, WindowPcs, BusyPcs, Pcs
  <2> QED
    BY <2>1, <2>2, <2>3 DEF IInv
<1>25. ASSUME NEW t \in Threads, CountOthers(t) PROVE IInv'
  <2>1. TypeOK' /\ MainRegistered' /\ CountersExact'
    <3>1. PICK l \in Pcs : pc' = [pc EXCEPT ![t] = l] /\ (l \in {"lock", "cas"})
      BY <1>0, <1>25 DEF CountOthers, ParkedPcs, OutsidePcs, WindowPcs, BusyPcs, Pcs, AfterPark
    <3>2. t = Main => l \notin OutsidePcs
      BY <1>25, <3>1, ThreadsAssumption DEF CountOthers, ParkedPcs, OutsidePcs, WindowPcs, BusyPcs, Pcs
    <3>3. parkedMutators_' = parkedMutators_
                + (IF l \in ParkedPcs THEN 1 ELSE 0)
                - (IF pc[t] \in ParkedPcs THEN 1 ELSE 0)
      BY <1>0, <1>25, <3>1 DEF CountOthers, ParkedPcs, OutsidePcs, WindowPcs, BusyPcs, Pcs
    <3>4. activeMutators_' = activeMutators_
                + (IF l \in OutsidePcs THEN 0 ELSE 1)
                - (IF pc[t] \in OutsidePcs THEN 0 ELSE 1)
      BY <1>0, <1>25, <3>1 DEF CountOthers, ParkedPcs, OutsidePcs, WindowPcs, BusyPcs, Pcs
    <3>5. /\ safepointRequested_' \in BOOLEAN /\ safepointBackoff_' \in Int
          /\ call' \in [Threads -> {"loop", "track", "collect"}]
          /\ resumeCv_' \in SUBSET Threads /\ lateStart' \in BOOLEAN
      BY <1>0, <1>25 DEF CountOthers
    <3> QED
      BY <1>0, <3>1, <3>2, <3>3, <3>4, <3>5, CountingStep
  <2>0. pc'[t] = "lock" => \A u \in Threads \ {t} : pc[u] \in OutsidePcs
    <3> SUFFICES ASSUME activeMutators_ = 1 PROVE Registered = {t}
      BY <1>0, <1>25 DEF CountOthers, Registered, IInv, TypeOK
    <3>1. t \in Registered /\ Registered \in SUBSET Threads
      BY <1>25 DEF CountOthers, Registered, OutsidePcs
    <3>2. IsFiniteSet(Registered) /\ Cardinality(Registered) = 1
      BY <3>1, ThreadSets DEF IInv, CountersExact
    <3>3. IsFiniteSet(Registered \ {t}) /\ Cardinality(Registered \ {t}) = 0
      BY <3>1, <3>2, FS_RemoveElement
    <3>4. Registered \ {t} = {}
      BY <3>3, FS_EmptySet
    <3> QED
      BY <3>1, <3>4
  <2>2. RequestHasOwner'
    BY <1>0, <1>25 DEF CountOthers, IInv, RequestHasOwner, AfterPark, ParkedPcs, OutsidePcs, WindowPcs, BusyPcs, Pcs
  <2>3. ~lateStart' => Exclusive'
    BY <1>0, <1>25, <2>0 DEF CountOthers, IInv, Exclusive, OthersStopped, AfterPark, ParkedPcs, OutsidePcs, WindowPcs, BusyPcs, Pcs
  <2> QED
    BY <2>1, <2>2, <2>3 DEF IInv
<1>26. ASSUME NEW t \in Threads, Handshake(t) PROVE IInv'
  <2>1. TypeOK' /\ MainRegistered' /\ CountersExact'
    <3>1. PICK l \in Pcs : pc' = [pc EXCEPT ![t] = l] /\ (l = "lock")
      BY <1>0, <1>26 DEF Handshake, ParkedPcs, OutsidePcs, WindowPcs, BusyPcs, Pcs, AfterPark
    <3>2. t = Main => l \notin OutsidePcs
      BY <1>26, <3>1, ThreadsAssumption DEF Handshake, ParkedPcs, OutsidePcs, WindowPcs, BusyPcs, Pcs
    <3>3. parkedMutators_' = parkedMutators_
                + (IF l \in ParkedPcs THEN 1 ELSE 0)
                - (IF pc[t] \in ParkedPcs THEN 1 ELSE 0)
      BY <1>0, <1>26, <3>1 DEF Handshake, ParkedPcs, OutsidePcs, WindowPcs, BusyPcs, Pcs
    <3>4. activeMutators_' = activeMutators_
                + (IF l \in OutsidePcs THEN 0 ELSE 1)
                - (IF pc[t] \in OutsidePcs THEN 0 ELSE 1)
      BY <1>0, <1>26, <3>1 DEF Handshake, ParkedPcs, OutsidePcs, WindowPcs, BusyPcs, Pcs
    <3>5. /\ safepointRequested_' \in BOOLEAN /\ safepointBackoff_' \in Int
          /\ call' \in [Threads -> {"loop", "track", "collect"}]
          /\ resumeCv_' \in SUBSET Threads /\ lateStart' \in BOOLEAN
      BY <1>0, <1>26 DEF Handshake
    <3> QED
      BY <1>0, <3>1, <3>2, <3>3, <3>4, <3>5, CountingStep
  <2>0. OthersStopped(t)
    <3>1. parkedMutators_ >= activeMutators_ - 1
      BY <1>0, <1>26 DEF Handshake, AllParked, IInv, TypeOK
    <3> QED
      BY <1>26, <3>1, HandshakeMeansStopped DEF Handshake, IInv, ParkedPcs, OutsidePcs
  <2>2. RequestHasOwner'
    BY <1>0, <1>26 DEF Handshake, IInv, RequestHasOwner, AfterPark, ParkedPcs, OutsidePcs, WindowPcs, BusyPcs, Pcs
  <2>3. ~lateStart' => Exclusive'
    BY <1>0, <1>26, <2>0 DEF Handshake, IInv, Exclusive, OthersStopped, AfterPark, ParkedPcs, OutsidePcs, WindowPcs, BusyPcs, Pcs
  <2> QED
    BY <2>1, <2>2, <2>3 DEF IInv
<1> QED
  BY <1>1, <1>2, <1>3, <1>4, <1>5, <1>6, <1>7, <1>8, <1>9, <1>10, <1>11, <1>12, <1>13, <1>14, <1>15, <1>16, <1>17, <1>18, <1>19, <1>20, <1>21, <1>22, <1>23, <1>24, <1>25, <1>26 DEF Next, Script, Protocol

----------------------------------------------------------------------------
\* The inductive invariant holds of every behaviour of the handshake.
THEOREM Invariance == Spec => []IInv
<1> QED
  BY Initial, Inductive, PTL DEF Spec

\* The state keeps its types; in particular both counters stay between their
\* bounds however threads start, park, sleep and exit.
THEOREM TypeCorrect == Spec => []TypeOK
<1>1. IInv => TypeOK
  BY DEF IInv
<1> QED
  BY <1>1, Invariance, PTL

\* parkedMutators_ and activeMutators_ are exact.
THEOREM CountersAreExact == Spec => []CountersExact
<1>1. IInv => CountersExact
  BY DEF IInv
<1> QED
  BY <1>1, Invariance, PTL

\* No request is ever left standing without a thread that will withdraw it.
THEOREM RequestsHaveOwners == Spec => []RequestHasOwner
<1>1. IInv => RequestHasOwner
  BY DEF IInv
<1> QED
  BY <1>1, Invariance, PTL

\* Unless a thread registered inside another's window, a collection runs alone:
\* every other registered mutator is parked or in a safe region.
THEOREM WorldIsStopped == Spec => []StopTheWorld
<1>1. IInv => StopTheWorld
  BY DEF IInv, Exclusive, OthersStopped, StopTheWorld, WindowPcs
<1> QED
  BY <1>1, Invariance, PTL

----------------------------------------------------------------------------
\* The threads that have found an allocation to skip and not yet counted it.
Skipping == {t \in Threads : pc[t] = "skip"}

\* What is left to skip covers what is about to be skipped, but for the threads
\* that loaded the same last allocation.
BackoffCovers ==
    /\ safepointBackoff_ <= Backoff
    /\ safepointBackoff_ - Cardinality(Skipping) > 0 - Cardinality(Threads)

LEMMA BackoffStep == IInv /\ BackoffCovers /\ [Next]_vars => BackoffCovers'
<1> SUFFICES ASSUME IInv, BackoffCovers, [Next]_vars
             PROVE  BackoffCovers'
  OBVIOUS
<1> DEFINE N == Cardinality(Threads)
           S == Cardinality(Skipping)
           T == Cardinality(Skipping')
<1>0. pc \in [Threads -> Pcs] /\ safepointBackoff_ \in Int /\ Backoff \in Nat \ {0}
  BY BackoffAssumption DEF IInv, TypeOK
<1>1. /\ N \in Nat /\ IsFiniteSet(Skipping) /\ IsFiniteSet(Skipping')
      /\ S \in Nat /\ T \in Nat /\ T <= N
  <2>1. Skipping \in SUBSET Threads /\ Skipping' \in SUBSET Threads
    BY DEF Skipping
  <2>2. IsFiniteSet(Threads)
    BY ThreadsAssumption, FS_AddElement DEF Threads
  <2> QED
    BY <2>1, <2>2, ThreadSets, FS_CardinalityType
<1>2. ASSUME Skipping' = Skipping, UNCHANGED safepointBackoff_
      PROVE  BackoffCovers'
  BY <1>2 DEF BackoffCovers
<1>3. ASSUME NEW t \in Threads, NEW l, Goto(t, l), pc[t] # "skip", l # "skip",
             UNCHANGED safepointBackoff_
      PROVE  BackoffCovers'
  <2>1. Skipping' = Skipping
    BY <1>0, <1>3 DEF Goto, Skipping
  <2> QED
    BY <1>2, <1>3, <2>1
<1>4. ASSUME NEW t \in Threads, TestBackoff(t)
      PROVE  BackoffCovers'
  <2>1. CASE safepointBackoff_ > 0
    BY <1>0, <1>1, <1>4, <2>1 DEF TestBackoff, BackoffCovers
  <2>2. CASE ~(safepointBackoff_ > 0)
    BY <1>3, <1>4, <2>2 DEF TestBackoff
  <2> QED
    BY <2>1, <2>2
<1>5. ASSUME NEW t \in Threads, SkipCollection(t)
      PROVE  BackoffCovers'
  <2>1. t \in Skipping /\ Skipping' = Skipping \ {t}
    BY <1>0, <1>5 DEF SkipCollection, Goto, Skipping
  <2>2. T = S - 1
    BY <1>1, <2>1, FS_RemoveElement
  <2> QED
    BY <1>0, <1>1, <1>5, <2>2 DEF SkipCollection, BackoffCovers
<1>6. ASSUME NEW t \in Threads, BringFailed(t)
      PROVE  BackoffCovers'
  <2>1. CASE call[t] = "track"
    BY <1>0, <1>1, <1>6, <2>1 DEF BringFailed, BackoffCovers
  <2>2. CASE call[t] # "track"
    BY <1>3, <1>6, <2>2 DEF BringFailed
  <2> QED
    BY <2>1, <2>2
<1>7. ASSUME NEW t \in Threads, NEW w \in Workers, Spawn(t, w) \/ beginMutatorThread(w)
      PROVE  BackoffCovers'
  BY <1>3, <1>7 DEF Spawn, beginMutatorThread, Threads
<1>8. ASSUME NEW t \in Threads,
             \/ endMutatorThread(t) \/ EnterNative(t) \/ LeaveNative(t) \/ pollSafepoint(t)
             \/ collect(t) \/ enterSafeRegion(t)
             \/ WithdrawNotify(t) \/ FinishCollection(t) \/ releaseSafepoint(t)
             \/ ReleaseNotify(t) \/ Handshake(t) \/ HandshakeTimeout(t)
      PROVE  BackoffCovers'
  BY <1>3, <1>8 DEF endMutatorThread, EnterNative, LeaveNative, pollSafepoint, collect,
     enterSafeRegion, WithdrawNotify, FinishCollection, releaseSafepoint, ReleaseNotify,
     Handshake, HandshakeTimeout
<1>9. ASSUME NEW t \in Threads, track(t) \/ CountOthers(t) \/ RequestSafepoint(t)
      PROVE  BackoffCovers'
  BY <1>3, <1>9 DEF track, CountOthers, RequestSafepoint
<1>10. ASSUME NEW t \in Threads, exitSafeRegion(t) \/ LockAndCollect(t) \/ PushTracked(t)
       PROVE  BackoffCovers'
  BY <1>3, <1>10 DEF exitSafeRegion, LockAndCollect, PushTracked
<1>11. ASSUME NEW t \in Threads, parkAtSafepoint(t) \/ Resume(t)
       PROVE  BackoffCovers'
  <2>1. AfterPark(t) # "skip" /\ pc[t] # "skip" /\ UNCHANGED safepointBackoff_
    BY <1>11 DEF AfterPark, parkAtSafepoint, Resume
  <2>2. \/ UNCHANGED pc
        \/ \E l \in {AfterPark(t), "run", "parked"} : Goto(t, l)
    BY <1>11 DEF parkAtSafepoint, Resume
  <2>3. CASE UNCHANGED pc
    BY <1>2, <2>1, <2>3 DEF Skipping
  <2> QED
    BY <1>3, <2>1, <2>2, <2>3
<1>12. CASE UNCHANGED vars
  BY <1>2, <1>12 DEF vars, Skipping
<1>13. \A w \in Workers : beginMutatorThread(w) => BackoffCovers'
  BY <1>7 DEF Threads
<1> QED
  BY <1>4, <1>5, <1>6, <1>7, <1>8, <1>9, <1>10, <1>11, <1>12, <1>13 DEF Next, Script, Protocol

\* The allocations skipped after a failed handshake: track() loads and
\* decrements the counter in two steps, and it still ends less than the number
\* of threads below zero, and never starts above one failure's worth.
THEOREM BackoffIsBounded == Spec => []BackoffBounded
<1>1. Init => BackoffCovers
  <2> SUFFICES ASSUME Init
               PROVE  BackoffCovers
    OBVIOUS
  <2>1. Skipping = {}
    BY DEF Init, Skipping
  <2>2. Cardinality(Threads) \in Nat /\ Cardinality(Threads) # 0
    BY ThreadsAssumption, FS_AddElement, FS_CardinalityType, FS_EmptySet DEF Threads
  <2> QED
    BY <2>1, <2>2, FS_EmptySet, BackoffAssumption DEF BackoffCovers, Init
<1>2. BackoffCovers /\ IInv => BackoffBounded
  <2> SUFFICES ASSUME BackoffCovers, IInv
               PROVE  BackoffBounded
    OBVIOUS
  <2>1. Skipping \in SUBSET Threads
    BY DEF Skipping
  <2>2. Cardinality(Skipping) \in Nat /\ Cardinality(Threads) \in Nat /\ safepointBackoff_ \in Int
    BY <2>1, ThreadSets DEF IInv, TypeOK
  <2> QED
    BY <2>2 DEF BackoffCovers, BackoffBounded
<1> QED
  BY <1>1, <1>2, Invariance, BackoffStep, PTL DEF Spec
============================================================================
