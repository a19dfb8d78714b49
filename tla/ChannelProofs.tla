--------------------------- MODULE ChannelProofs ---------------------------
(***************************************************************************)
(* Channel.tla, for any finite set of threads and any bound on the queue:  *)
(* its types, that no wakeup is lost, and that it implements the atomic    *)
(* FIFO channel of ChannelFIFO.tla.  The types and WakeupsSuffice are      *)
(* inductive together: each value taken by a thread leaves at most one     *)
(* thread less on its way to the queue.                                    *)
(***************************************************************************)
EXTENDS Channel, FiniteSetTheorems, SequenceTheorems, TLAPS

IInv == TypeOK /\ WakeupsSuffice

\* Busy is finite, and a thread more or less changes its size by one.
LEMMA BusyCounts ==
    ASSUME NEW S, NEW T, IsFiniteSet(S), IsFiniteSet(T), NEW t
    PROVE  /\ Cardinality(S) \in Nat
           /\ T = S => Cardinality(T) = Cardinality(S)
           /\ t \notin S /\ T = S \cup {t} => Cardinality(T) = Cardinality(S) + 1
           /\ t \in S /\ T = S \ {t} => Cardinality(T) = Cardinality(S) - 1
<1>1. Cardinality(S) \in Nat
  BY FS_CardinalityType
<1>2. t \notin S => Cardinality(S \cup {t}) = Cardinality(S) + 1
  BY FS_AddElement
<1>3. t \in S => Cardinality(S \ {t}) = Cardinality(S) - 1
  BY FS_RemoveElement
<1> QED
  BY <1>1, <1>2, <1>3

LEMMA BusyFinite == IsFiniteSet(Busy) /\ IsFiniteSet(Busy')
<1>1. Busy \subseteq Threads /\ Busy' \subseteq Threads
  BY DEF Busy
<1> QED
  BY <1>1, FS_Subset, ThreadsAssumption

\* Take() leaves the types right, and one value less if there was any.
LEMMA TakeKeeps ==
    ASSUME TypeOK, NEW t \in Threads, Take(t)
    PROVE  /\ q' \in Seq(Values)
           /\ ret' \in [Threads -> Values \cup {Nil, True, Error}]
           /\ pc' = [pc EXCEPT ![t] = "idle"]
           /\ Len(q) \in Nat /\ Len(q') \in Nat
           /\ Len(q') = IF q = <<>> THEN 0 ELSE Len(q) - 1
<1>1. CASE q # <<>>
  <2>1. /\ Head(q) \in Values /\ Tail(q) \in Seq(Values)
        /\ Len(Tail(q)) = Len(q) - 1 /\ Len(q) \in Nat /\ Len(Tail(q)) \in Nat
    BY <1>1 DEF TypeOK
  <2> QED
    BY <1>1, <2>1 DEF Take, Returns, TypeOK
<1>2. CASE q = <<>>
  BY <1>2 DEF Take, Returns, TypeOK
<1> QED
  BY <1>1, <1>2

LEMMA Initial == Init => IInv
<1>1. ASSUME Init PROVE TypeOK
  <2>0. closed \in BOOLEAN /\ cv = {}
    BY <1>1 DEF Init
  <2>1. q \in Seq(Values)
    BY <1>1, EmptySeq DEF Init
  <2>2. pc \in [Threads -> Blocking \cup {"idle", "notify"}]
    BY <1>1 DEF Init
  <2>3. ret \in [Threads -> Values \cup {Nil, True, Error}]
    BY <1>1 DEF Init
  <2> QED
    BY <2>0, <2>1, <2>2, <2>3 DEF TypeOK
<1>2. Init => WakeupsSuffice
  BY DEF Init, WakeupsSuffice
<1> QED
  BY <1>1, <1>2 DEF IInv

LEMMA Inductive == IInv /\ [Next]_vars => IInv'
<1> SUFFICES ASSUME IInv, [Next]_vars PROVE IInv'
  OBVIOUS
<1> USE DEF IInv
<1>0. Len(q) \in Nat /\ Cardinality(Busy) \in Nat /\ Cardinality(Busy') \in Nat
  BY BusyFinite, BusyCounts DEF TypeOK
<1>1. CASE UNCHANGED vars
  BY <1>1 DEF vars, TypeOK, WakeupsSuffice, Busy
<1>2. ASSUME NEW t \in Threads, NEW v \in Values, send(t, v) PROVE IInv'
  <2>1. TypeOK'
    <3>1. Append(q, v) \in Seq(Values)
      BY DEF TypeOK
    <3> QED
      BY <1>2, <3>1 DEF send, Returns, TypeOK, Blocking
  <2>2. CASE closed
    BY <1>2, <2>1, <2>2 DEF send, Returns, WakeupsSuffice
  <2>3. CASE ~closed
    <3>1. Busy' = Busy \cup {t} /\ t \notin Busy
      BY <1>2, <2>3 DEF send, Busy, TypeOK, Blocking
    <3>2. Cardinality(Busy') = Cardinality(Busy) + 1
      BY <3>1, BusyFinite, BusyCounts
    <3>3. Len(q') = Len(q) + 1
      BY <1>2, <2>3 DEF send, TypeOK
    <3> QED
      BY <1>0, <1>2, <2>1, <2>3, <3>2, <3>3 DEF send, WakeupsSuffice
  <2> QED
    BY <2>2, <2>3
<1>3. ASSUME NEW t \in Threads, SendNotify(t) PROVE IInv'
  <2>1. TypeOK'
    BY <1>3 DEF SendNotify, TypeOK, Blocking
  <2>2. CASE cv = {}
    BY <1>3, <2>1, <2>2 DEF SendNotify, WakeupsSuffice
  <2>3. CASE cv # {}
    <3>1. PICK w \in cv : cv' = cv \ {w}
      BY <1>3, <2>3 DEF SendNotify
    <3>2. /\ t \in Busy /\ w \notin Busy \ {t} /\ w # t
          /\ Busy' = (Busy \ {t}) \cup {w}
      BY <1>3, <3>1 DEF SendNotify, Busy, TypeOK, Blocking
    <3>3. IsFiniteSet(Busy \ {t}) /\ Cardinality(Busy \ {t}) = Cardinality(Busy) - 1
      BY <3>2, BusyFinite, FS_RemoveElement
    <3>4. Cardinality((Busy \ {t}) \cup {w}) = Cardinality(Busy \ {t}) + 1
      BY <3>2, <3>3, FS_AddElement
    <3>5. Cardinality(Busy') = Cardinality(Busy)
      BY <1>0, <3>2, <3>3, <3>4
    <3> QED
      BY <1>3, <2>1, <3>1, <3>5 DEF SendNotify, WakeupsSuffice
  <2> QED
    BY <2>2, <2>3
<1>4. ASSUME NEW t \in Threads, NEW k \in Blocking, receive(t, k) PROVE IInv'
  <2>1. CASE Ready
    <3>1. Take(t) /\ UNCHANGED <<cv, closed>>
      BY <1>4, <2>1 DEF receive
    <3>2. TypeOK'
      BY <1>4, <3>1, TakeKeeps DEF receive, TypeOK, Blocking
    <3>3. Busy' = Busy
      BY <1>4, <3>1, TakeKeeps DEF receive, Busy, TypeOK
    <3> QED
      BY <1>0, <3>1, <3>2, <3>3, TakeKeeps DEF WakeupsSuffice
  <2>2. CASE ~Ready
    <3>1. TypeOK'
      BY <1>4, <2>2 DEF receive, TypeOK, Blocking
    <3>2. q' = <<>> /\ Len(q') = 0 /\ closed' = FALSE
      BY <1>4, <2>2 DEF receive, Ready, TypeOK
    <3> QED
      BY <1>0, <3>1, <3>2 DEF WakeupsSuffice
  <2> QED
    BY <2>1, <2>2
<1>5. ASSUME NEW t \in Threads, Wakeup(t) PROVE IInv'
  <2>1. CASE Ready
    <3>1. Take(t) /\ UNCHANGED <<cv, closed>> /\ t \in Busy
      BY <1>5, <2>1 DEF Wakeup, Busy, Blocking
    <3>2. TypeOK'
      BY <1>5, <3>1, TakeKeeps DEF Wakeup, TypeOK, Blocking
    <3>3. Busy' = Busy \ {t}
      BY <1>5, <3>1, TakeKeeps DEF Wakeup, Busy, TypeOK
    <3>4. Cardinality(Busy') = Cardinality(Busy) - 1
      BY <3>1, <3>3, BusyFinite, BusyCounts
    <3> QED
      BY <1>0, <2>1, <3>1, <3>2, <3>4, TakeKeeps DEF WakeupsSuffice, Ready
  <2>2. CASE ~Ready
    <3>1. TypeOK'
      BY <1>5, <2>2 DEF Wakeup, TypeOK, Blocking
    <3>2. q' = <<>> /\ Len(q') = 0 /\ closed' = FALSE
      BY <1>5, <2>2 DEF Wakeup, Ready, TypeOK
    <3> QED
      BY <1>0, <3>1, <3>2 DEF WakeupsSuffice
  <2> QED
    BY <2>1, <2>2
<1>6. ASSUME NEW t \in Threads, SpuriousWakeup(t) PROVE IInv'
  <2>1. TypeOK'
    BY <1>6 DEF SpuriousWakeup, TypeOK
  <2>2. Busy' = Busy \cup {t} /\ t \notin Busy
    BY <1>6 DEF SpuriousWakeup, Busy, TypeOK, Blocking
  <2>3. Cardinality(Busy') = Cardinality(Busy) + 1
    BY <2>2, BusyFinite, BusyCounts
  <2> QED
    BY <1>0, <1>6, <2>1, <2>3 DEF SpuriousWakeup, WakeupsSuffice
<1>7. ASSUME NEW t \in Threads, Timeout(t) PROVE IInv'
  <2>1. Take(t) /\ cv' = cv \ {t} /\ UNCHANGED closed
    BY <1>7 DEF Timeout
  <2>2. TypeOK'
    BY <1>7, <2>1, TakeKeeps DEF TypeOK
  <2>3. CASE t \in cv
    <3>1. Busy' = Busy
      BY <2>1, <2>3, TakeKeeps DEF Busy, TypeOK
    <3> QED
      BY <1>0, <2>1, <2>2, <3>1, TakeKeeps DEF WakeupsSuffice
  <2>4. CASE t \notin cv
    <3>1. t \in Busy /\ Busy' = Busy \ {t}
      BY <1>7, <2>1, <2>4, TakeKeeps DEF Timeout, Busy, TypeOK
    <3>2. Cardinality(Busy') = Cardinality(Busy) - 1
      BY <3>1, BusyFinite, BusyCounts
    <3> QED
      BY <1>0, <2>1, <2>2, <3>2, TakeKeeps DEF WakeupsSuffice
  <2> QED
    BY <2>3, <2>4
<1>8. ASSUME NEW t \in Threads, tryReceive(t) PROVE IInv'
  <2>1. Take(t) /\ UNCHANGED <<cv, closed>> /\ pc[t] = "idle"
    BY <1>8 DEF tryReceive
  <2>2. TypeOK'
    BY <2>1, TakeKeeps DEF TypeOK, Blocking
  <2>3. Busy' = Busy
    BY <2>1, TakeKeeps DEF Busy, TypeOK
  <2> QED
    BY <1>0, <2>1, <2>2, <2>3, TakeKeeps DEF WakeupsSuffice
<1>9. ASSUME NEW t \in Threads, close(t) PROVE IInv'
  BY <1>9 DEF close, Returns, TypeOK, WakeupsSuffice, Blocking
<1> QED
  BY <1>1, <1>2, <1>3, <1>4, <1>5, <1>6, <1>7, <1>8, <1>9 DEF Next, Finish

\* The inductive invariant holds in every reachable state.
THEOREM Invariance == Spec => []IInv
<1> QED
  BY Initial, Inductive, PTL DEF Spec

\* TypeOK: whoever is blocked on the condition variable is inside a blocking call.
THEOREM TypeCorrect == Spec => []TypeOK
<1>1. IInv => TypeOK
  BY DEF IInv
<1> QED
  BY Invariance, <1>1, PTL

\* No wakeup is lost between send()'s critical section and its notify_one(), for
\* any number of senders and receivers.
THEOREM NoWakeupIsLost == Spec => []WakeupsSuffice
<1>1. IInv => WakeupsSuffice
  BY DEF IInv
<1> QED
  BY Invariance, <1>1, PTL

----------------------------------------------------------------------------
(* The refinement.                                                         *)

\* What ChannelFIFO sees of pc.
Waits == [t \in Threads |-> IF pc[t] \in Blocking THEN pc[t] ELSE "no"]

LEMMA WaitsMove ==
    ASSUME TypeOK, NEW t \in Threads, NEW l, pc' = [pc EXCEPT ![t] = l]
    PROVE  Waits' = [Waits EXCEPT ![t] = IF l \in Blocking THEN l ELSE "no"]
<1> QED
  BY DEF Waits, TypeOK

\* Taking a value, or nil where the abstract channel allows it.
LEMMA TakeImplements ==
    ASSUME TypeOK, NEW t \in Threads, Take(t), UNCHANGED closed,
           q = <<>> => closed \/ pc[t] # "receive"
    PROVE  FIFO!Next
<1>0. Waits' = [Waits EXCEPT ![t] = "no"]
  BY TakeKeeps, WaitsMove DEF Blocking
<1>1. CASE q # <<>>
  BY <1>0, <1>1 DEF Take, Returns, Waits, FIFO!Next, FIFO!Receive, FIFO!Returns
<1>2. CASE q = <<>>
  <2>1. closed \/ Waits[t] # "receive"
    BY <1>2 DEF Waits
  <2> QED
    BY <1>0, <1>2, <2>1 DEF Take, Returns, Waits, FIFO!Next, FIFO!ReceiveNil, FIFO!Returns
<1> QED
  BY <1>1, <1>2

LEMMA StepImplements == IInv /\ [Next]_vars => [FIFO!Next]_FIFO!vars
<1> SUFFICES ASSUME IInv, [Next]_vars PROVE FIFO!Next \/ UNCHANGED FIFO!vars
  OBVIOUS
<1> USE DEF IInv
<1>1. CASE UNCHANGED vars
  BY <1>1 DEF vars, FIFO!vars
<1>2. ASSUME NEW t \in Threads, NEW v \in Values, send(t, v) PROVE FIFO!Next
  <2>1. Waits[t] = "no" /\ Waits' = [Waits EXCEPT ![t] = "no"]
    <3>1. \E l \in {"idle", "notify"} : pc' = [pc EXCEPT ![t] = l]
      BY <1>2 DEF send, Returns
    <3> QED
      BY <1>2, <3>1, WaitsMove DEF send, Waits, Blocking
  <2>2. CASE closed
    BY <1>2, <2>1, <2>2
    DEF send, Returns, Waits, FIFO!Next, FIFO!SendRefused, FIFO!Returns
  <2>3. CASE ~closed
    BY <1>2, <2>1, <2>3 DEF send, Waits, FIFO!Next, FIFO!Send, FIFO!Returns
  <2> QED
    BY <2>2, <2>3
<1>3. ASSUME NEW t \in Threads, SendNotify(t) PROVE UNCHANGED FIFO!vars
  <2>1. Waits' = Waits
    BY <1>3 DEF SendNotify, Waits, TypeOK, Blocking
  <2> QED
    BY <1>3, <2>1 DEF SendNotify, Waits, FIFO!vars
<1>4. ASSUME NEW t \in Threads, NEW k \in Blocking, receive(t, k) PROVE FIFO!Next
  <2>1. CASE Ready
    BY <1>4, <2>1, TakeImplements DEF receive
  <2>2. CASE ~Ready
    <3>1. Waits[t] = "no" /\ Waits' = [Waits EXCEPT ![t] = k]
      BY <1>4, <2>2, WaitsMove DEF receive, Waits, Blocking
    <3> QED
      BY <1>4, <2>2, <3>1
      DEF receive, Ready, Blocking, Waits, FIFO!Next, FIFO!Block, FIFO!Blocking
  <2> QED
    BY <2>1, <2>2
<1>5. ASSUME NEW t \in Threads, Wakeup(t) PROVE FIFO!Next \/ UNCHANGED FIFO!vars
  <2>1. CASE Ready
    BY <1>5, <2>1, TakeImplements DEF Wakeup, Ready
  <2>2. CASE ~Ready
    BY <1>5, <2>2 DEF Wakeup, FIFO!vars
  <2> QED
    BY <2>1, <2>2
<1>6. ASSUME NEW t \in Threads, SpuriousWakeup(t) PROVE UNCHANGED FIFO!vars
  BY <1>6 DEF SpuriousWakeup, FIFO!vars
<1>7. ASSUME NEW t \in Threads, Timeout(t) PROVE FIFO!Next
  BY <1>7, TakeImplements DEF Timeout
<1>8. ASSUME NEW t \in Threads, tryReceive(t) PROVE FIFO!Next
  BY <1>8, TakeImplements DEF tryReceive
<1>9. ASSUME NEW t \in Threads, close(t) PROVE FIFO!Next
  <2>1. Waits[t] = "no" /\ Waits' = [Waits EXCEPT ![t] = "no"]
    BY <1>9, WaitsMove DEF close, Returns, Waits, Blocking
  <2> QED
    BY <1>9, <2>1 DEF close, Returns, Waits, FIFO!Next, FIFO!Close, FIFO!Returns
<1> QED
  BY <1>1, <1>2, <1>3, <1>4, <1>5, <1>6, <1>7, <1>8, <1>9 DEF Next, Finish

\* The channel of Concurrency.cpp implements the atomic FIFO channel: values are
\* received in the order they were sent, each once, and nil is returned only by
\* an empty channel.
THEOREM ChannelImplementsFIFO == Spec => ImplementsFIFO
<1>1. Init => FIFO!Init
  BY DEF Init, FIFO!Init, Blocking
<1> QED
  BY <1>1, Invariance, StepImplements, PTL DEF Spec, ImplementsFIFO, FIFO!SafeSpec
============================================================================
