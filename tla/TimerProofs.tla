----------------------------- MODULE TimerProofs -----------------------------
(***************************************************************************)
(* What Timer.tla says of the threads of a timer and of stop(), for any    *)
(* finite numbers of scripts and threads, any states and any calls.        *)
(*                                                                         *)
(* The argument for the number of threads counts the threads of a state    *)
(* together with the start() calls that have set `running` and not yet     *)
(* launched theirs.  `running` pays for one of them; whoever clears it     *)
(* while it is set either is stop(), which `stops` records, or a thread on *)
(* its way out, which is one thread less; whoever sets it while it is set  *)
(* is in `races` (Accounted).  For stop(): nothing clears `stopRequested`  *)
(* of a state but a start() that has begun after it (StopHeld).            *)
(***************************************************************************)
EXTENDS Timer, FiniteSetTheorems, TLAPS

\* The start() calls that have set `running` and not launched a thread yet.
Pending(s) == {c \in Callers : call[c].state = s /\ call[c].at \in {"clear", "launch"}}

Accounted ==
  \A s \in States :
    Cardinality(Live(s)) + Cardinality(Pending(s))
      <= (IF running[s] THEN 1 ELSE 0) + stops[s] + races[s]

\* No start() is under way for state s.
Undisturbed(s) == \A c \in Callers : ~(call[c].at \in Starting /\ Of(c) = s)
StopHeld ==
  /\ \A s \in silenced : stopRequested[s] /\ Undisturbed(s)
  /\ \A c \in quiet : call[c].at = "stop" /\ stopRequested[Of(c)] /\ Undisturbed(Of(c))

IInv == TypeOK /\ Accounted /\ StopHeld

-----------------------------------------------------------------------------
\* A finite set that gains or loses an element.
LEMMA Counts ==
  ASSUME NEW S, NEW T, IsFiniteSet(S), IsFiniteSet(T), NEW e
  PROVE  /\ Cardinality(S) \in Nat /\ Cardinality(T) \in Nat
         /\ T = S => Cardinality(T) = Cardinality(S)
         /\ T = S \cup {e} => Cardinality(T) <= Cardinality(S) + 1
         /\ T = S \ {e} => Cardinality(T) <= Cardinality(S)
         /\ e \in S /\ T = S \ {e} => Cardinality(T) = Cardinality(S) - 1
<1>1. Cardinality(S) \in Nat /\ Cardinality(T) \in Nat
  BY FS_CardinalityType
<1>2. T = S \cup {e} => Cardinality(T) <= Cardinality(S) + 1
  BY <1>1, FS_AddElement
<1>3. e \in S /\ T = S \ {e} => Cardinality(T) = Cardinality(S) - 1
  BY FS_RemoveElement
<1>4. e \notin S /\ T = S \ {e} => T = S
  OBVIOUS
<1> QED
  BY <1>1, <1>2, <1>3, <1>4

\* The threads and the callers of a state are finitely many.
LEMMA Finite ==
  ASSUME NEW s
  PROVE  /\ IsFiniteSet(Live(s)) /\ IsFiniteSet(Live(s)')
         /\ IsFiniteSet(Pending(s)) /\ IsFiniteSet(Pending(s)')
<1>1. IsFiniteSet(Threads) /\ IsFiniteSet(Callers)
  BY TimerAssumption, FS_Union DEF Callers
<1>2. Live(s) \subseteq Threads /\ Live(s)' \subseteq Threads
  BY DEF Live
<1>3. Pending(s) \subseteq Callers /\ Pending(s)' \subseteq Callers
  BY DEF Pending
<1> QED
  BY <1>1, <1>2, <1>3, FS_Subset

\* A call that moves on keeps the state it holds, and moves alone.
LEMMA CallMoves ==
  ASSUME TypeOK, NEW c \in Callers,
         NEW at \in {"idle", "check", "request", "stop"} \cup Starting,
         Goto(c, at)
  PROVE  /\ call' \in [Callers -> [at : {"idle", "check", "request", "stop"} \cup Starting, state : States]]
         /\ call'[c].at = at /\ \A d \in Callers : call'[d].state = call[d].state
         /\ \A d \in Callers \ {c} : call'[d] = call[d]
<1>1. call \in [Callers -> [at : {"idle", "check", "request", "stop"} \cup Starting, state : States]]
  BY DEF TypeOK
<1>2. call' = [call EXCEPT ![c] = [call[c] EXCEPT !.at = at]]
  BY <1>1 DEF Goto
<1>3. [call[c] EXCEPT !.at = at] \in [at : {"idle", "check", "request", "stop"} \cup Starting, state : States]
  BY <1>1
<1> QED
  BY <1>1, <1>2, <1>3

\* A method begins on the state that is current.
LEMMA CallEnters ==
  ASSUME TypeOK, NEW c \in Callers, NEW at \in {"check", "request"}, Enter(c, at)
  PROVE  /\ call' \in [Callers -> [at : {"idle", "check", "request", "stop"} \cup Starting, state : States]]
         /\ call'[c].at = at /\ call'[c].state = state
         /\ \A d \in Callers \ {c} : call'[d] = call[d]
<1>1. call \in [Callers -> [at : {"idle", "check", "request", "stop"} \cup Starting, state : States]]
      /\ state \in States
  BY DEF TypeOK
<1> QED
  BY <1>1 DEF Enter

\* So does a timer's thread.
LEMMA ThreadMoves ==
  ASSUME TypeOK, NEW t \in Threads, NEW at \in {"none", "done"} \cup Launched, Move(t, at)
  PROVE  /\ thread' \in [Threads -> [at : {"none", "done"} \cup Launched, state : States]]
         /\ thread'[t].at = at /\ \A u \in Threads : thread'[u].state = thread[u].state
         /\ \A u \in Threads \ {t} : thread'[u] = thread[u]
<1>1. thread \in [Threads -> [at : {"none", "done"} \cup Launched, state : States]]
  BY DEF TypeOK
<1>2. thread' = [thread EXCEPT ![t] = [thread[t] EXCEPT !.at = at]]
  BY <1>1 DEF Move
<1>3. [thread[t] EXCEPT !.at = at] \in [at : {"none", "done"} \cup Launched, state : States]
  BY <1>1
<1> QED
  BY <1>1, <1>2, <1>3

-----------------------------------------------------------------------------
\* Every step keeps the types.
LEMMA TypeStep ==
  ASSUME TypeOK, [Next]_vars
  PROVE  TypeOK'
<1>a. /\ state \in States /\ fresh \subseteq States
      /\ repeat \in [States -> BOOLEAN] /\ running \in [States -> BOOLEAN]
      /\ stopRequested \in [States -> BOOLEAN] /\ callback \in [States -> BOOLEAN]
      /\ call \in [Callers -> [at : {"idle", "check", "request", "stop"} \cup Starting, state : States]]
      /\ thread \in [Threads -> [at : {"none", "done"} \cup Launched, state : States]]
      /\ calls \in Nat /\ stops \in [States -> Nat] /\ races \in [States -> Nat]
      /\ quiet \subseteq Callers /\ silenced \subseteq States
  BY DEF TypeOK
<1>b. Called => calls' \in Nat
  BY <1>a DEF Called
<1>c. \A c \in Callers : Of(c) \in States
  BY <1>a DEF Of
<1>d. \A s \in States : stops[s] + 1 \in Nat /\ races[s] + 1 \in Nat
  BY <1>a
<1>1. ASSUME NEW c \in Callers, init(c) \/ onTick(c)
      PROVE  TypeOK'
  BY <1>1, <1>a, <1>b DEF init, onTick, TypeOK, flags
<1>2. ASSUME NEW c \in Callers, start(c) \/ stop(c)
      PROVE  TypeOK'
  <2>1. call' \in [Callers -> [at : {"idle", "check", "request", "stop"} \cup Starting, state : States]]
    BY <1>2, CallEnters DEF start, stop
  <2> QED
    BY <1>2, <1>a, <1>b, <2>1 DEF start, stop, TypeOK, flags
<1>3. ASSUME NEW c \in Callers, Check(c)
      PROVE  TypeOK'
  <2>1. call' \in [Callers -> [at : {"idle", "check", "request", "stop"} \cup Starting, state : States]]
    BY <1>3, CallMoves DEF Check, Starting
  <2>2. quiet' \subseteq Callers /\ silenced' \subseteq States
    BY <1>3, <1>a DEF Check
  <2> QED
    BY <1>3, <1>a, <2>1, <2>2 DEF Check, TypeOK, flags
<1>4. ASSUME NEW c \in Callers, StoreRunning(c)
      PROVE  TypeOK'
  <2>1. call' \in [Callers -> [at : {"idle", "check", "request", "stop"} \cup Starting, state : States]]
    BY <1>4, CallMoves DEF StoreRunning, Starting
  <2>2. running' \in [States -> BOOLEAN]
    BY <1>4, <1>a DEF StoreRunning
  <2>3. races' \in [States -> Nat]
    BY <1>4, <1>a, <1>c, <1>d DEF StoreRunning
  <2> QED
    BY <1>4, <1>a, <2>1, <2>2, <2>3 DEF StoreRunning, TypeOK
<1>5. ASSUME NEW c \in Callers, ClearStopRequested(c) \/ RequestStop(c)
      PROVE  TypeOK'
  <2>1. call' \in [Callers -> [at : {"idle", "check", "request", "stop"} \cup Starting, state : States]]
    BY <1>5, CallMoves DEF ClearStopRequested, RequestStop, Starting
  <2>2. stopRequested' \in [States -> BOOLEAN]
    BY <1>5, <1>a DEF ClearStopRequested, RequestStop
  <2>3. quiet' \subseteq Callers
    BY <1>5, <1>a DEF ClearStopRequested, RequestStop, Quieten
  <2> QED
    BY <1>5, <1>a, <2>1, <2>2, <2>3 DEF ClearStopRequested, RequestStop, TypeOK
<1>6. ASSUME NEW c \in Callers, Launch(c)
      PROVE  TypeOK'
  <2>1. call' \in [Callers -> [at : {"idle", "check", "request", "stop"} \cup Starting, state : States]]
    BY <1>6, CallMoves DEF Launch
  <2>2. thread' \in [Threads -> [at : {"none", "done"} \cup Launched, state : States]]
    BY <1>6, <1>a, <1>c DEF Launch, Launched
  <2> QED
    BY <1>6, <1>a, <2>1, <2>2 DEF Launch, TypeOK, flags
<1>7. ASSUME NEW c \in Callers, ClearRunning(c)
      PROVE  TypeOK'
  <2>1. call' \in [Callers -> [at : {"idle", "check", "request", "stop"} \cup Starting, state : States]]
    BY <1>7, CallMoves DEF ClearRunning
  <2>2. running' \in [States -> BOOLEAN]
    BY <1>7, <1>a DEF ClearRunning
  <2>3. stops' \in [States -> Nat]
    BY <1>7, <1>a, <1>c, <1>d DEF ClearRunning
  <2>4. quiet' \subseteq Callers /\ silenced' \subseteq States
    BY <1>7, <1>a, <1>c DEF ClearRunning
  <2> QED
    BY <1>7, <1>a, <2>1, <2>2, <2>3, <2>4 DEF ClearRunning, TypeOK
<1>8. ASSUME NEW t \in Threads, Wake(t) \/ Ticked(t)
      PROVE  TypeOK'
  <2>1. \E at \in Launched : Move(t, at)
    BY <1>8 DEF Wake, Ticked, Launched
  <2>2. thread' \in [Threads -> [at : {"none", "done"} \cup Launched, state : States]]
    BY <2>1, ThreadMoves
  <2> QED
    BY <1>8, <1>a, <2>2 DEF Wake, Ticked, TypeOK, flags
<1>9. ASSUME NEW t \in Threads, Leave(t)
      PROVE  TypeOK'
  <2>1. thread' \in [Threads -> [at : {"none", "done"} \cup Launched, state : States]]
    BY <1>9, ThreadMoves DEF Leave
  <2>2. running' \in [States -> BOOLEAN]
    BY <1>9, <1>a DEF Leave
  <2> QED
    BY <1>9, <1>a, <2>1, <2>2 DEF Leave, TypeOK
<1>10. CASE UNCHANGED vars
  BY <1>10, <1>a DEF vars, flags, TypeOK
<1> QED
  BY <1>1, <1>2, <1>3, <1>4, <1>5, <1>6, <1>7, <1>8, <1>9, <1>10 DEF Next, Method, GoOn, Ticking

-----------------------------------------------------------------------------
\* What a step of a call does to the start() calls that have a thread to launch.
LEMMA PendingMoves ==
  ASSUME TypeOK, NEW c \in Callers, NEW s \in States,
         NEW at \in {"idle", "check", "request", "stop"} \cup Starting,
         Goto(c, at)
  PROVE  /\ (call[c].at \in {"clear", "launch"}) = (at \in {"clear", "launch"}) =>
               Pending(s)' = Pending(s)
         /\ call[c].state # s => Pending(s)' = Pending(s)
         /\ call[c].state = s /\ at \in {"clear", "launch"} => Pending(s)' = Pending(s) \cup {c}
         /\ call[c].state = s /\ at \notin {"clear", "launch"} => Pending(s)' = Pending(s) \ {c}
  BY CallMoves DEF Pending

\* A call that begins has nothing to launch.
LEMMA PendingEnters ==
  ASSUME TypeOK, NEW c \in Callers, NEW s \in States, NEW at \in {"check", "request"},
         call[c].at = "idle", Enter(c, at)
  PROVE  Pending(s)' = Pending(s)
  BY CallEnters DEF Pending

\* What a step of a thread does to the threads of its state.
LEMMA LiveMoves ==
  ASSUME TypeOK, NEW t \in Threads, NEW s \in States,
         NEW at \in {"none", "done"} \cup Launched, Move(t, at), thread[t].at \in Launched
  PROVE  /\ at \in Launched => Live(s)' = Live(s)
         /\ thread[t].state # s => Live(s)' = Live(s)
         /\ thread[t].state = s /\ at \notin Launched => t \in Live(s) /\ Live(s)' = Live(s) \ {t}
  BY ThreadMoves DEF Live

\* `running` pays for the threads.
LEMMA AccountedStep ==
  ASSUME TypeOK, Accounted, [Next]_vars
  PROVE  Accounted'
<1> SUFFICES ASSUME NEW s \in States
             PROVE  Cardinality(Live(s)') + Cardinality(Pending(s)')
                      <= (IF running'[s] THEN 1 ELSE 0) + stops'[s] + races'[s]
  BY DEF Accounted
<1> DEFINE L == Cardinality(Live(s))
           P == Cardinality(Pending(s))
           LP == Cardinality(Live(s)')
           PP == Cardinality(Pending(s)')
<1>a. L \in Nat /\ P \in Nat /\ LP \in Nat /\ PP \in Nat
  BY Finite, FS_CardinalityType
<1>b. /\ Live(s)' = Live(s) => LP = L
      /\ Pending(s)' = Pending(s) => PP = P
  OBVIOUS
<1>c. /\ \A t : Live(s)' = Live(s) \cup {t} => LP <= L + 1
      /\ \A t \in Live(s) : Live(s)' = Live(s) \ {t} => LP = L - 1
      /\ \A c : Pending(s)' = Pending(s) \cup {c} => PP <= P + 1
      /\ \A c : Pending(s)' = Pending(s) \ {c} => PP <= P
      /\ \A c \in Pending(s) : Pending(s)' = Pending(s) \ {c} => PP = P - 1
  BY Finite, Counts
<1>d. /\ running \in [States -> BOOLEAN] /\ running[s] \in BOOLEAN
      /\ stops \in [States -> Nat] /\ races \in [States -> Nat]
      /\ stops[s] \in Nat /\ races[s] \in Nat
      /\ L + P <= (IF running[s] THEN 1 ELSE 0) + stops[s] + races[s]
  BY DEF TypeOK, Accounted
<1>e. UNCHANGED thread => Live(s)' = Live(s)
  BY DEF Live
<1>f. UNCHANGED call => Pending(s)' = Pending(s)
  BY DEF Pending
<1> HIDE DEF L, P, LP, PP
<1>g. ASSUME LP = L, PP <= P, running' = running, stops' = stops, races' = races
      PROVE  LP + PP <= (IF running'[s] THEN 1 ELSE 0) + stops'[s] + races'[s]
  BY <1>a, <1>d, <1>g
<1>1. ASSUME NEW c \in Callers, init(c) \/ onTick(c)
      PROVE  LP + PP <= (IF running'[s] THEN 1 ELSE 0) + stops'[s] + races'[s]
  BY <1>1, <1>a, <1>b, <1>e, <1>f, <1>g DEF init, onTick, flags
<1>2. ASSUME NEW c \in Callers, start(c) \/ stop(c)
      PROVE  LP + PP <= (IF running'[s] THEN 1 ELSE 0) + stops'[s] + races'[s]
  <2>1. Pending(s)' = Pending(s)
    BY <1>2, PendingEnters DEF start, stop, Free
  <2> QED
    BY <1>2, <1>a, <1>b, <1>e, <1>g, <2>1 DEF start, stop, flags
<1>3. ASSUME NEW c \in Callers, Check(c) \/ ClearStopRequested(c) \/ RequestStop(c)
      PROVE  LP + PP <= (IF running'[s] THEN 1 ELSE 0) + stops'[s] + races'[s]
  <2>1. Pending(s)' = Pending(s)
    BY <1>3, PendingMoves DEF Check, ClearStopRequested, RequestStop, Starting
  <2> QED
    BY <1>3, <1>a, <1>b, <1>e, <1>g, <2>1 DEF Check, ClearStopRequested, RequestStop, flags
<1>4. ASSUME NEW c \in Callers, StoreRunning(c)
      PROVE  LP + PP <= (IF running'[s] THEN 1 ELSE 0) + stops'[s] + races'[s]
  <2>1. /\ LP = L /\ stops' = stops /\ Goto(c, "clear")
        /\ running' = [running EXCEPT ![Of(c)] = TRUE]
        /\ races' = IF running[Of(c)] THEN [races EXCEPT ![Of(c)] = @ + 1] ELSE races
    BY <1>4, <1>b, <1>e DEF StoreRunning
  <2>2. CASE Of(c) = s
    <3>1. PP <= P + 1
      BY <1>c, <2>1, <2>2, PendingMoves DEF Of, Starting
    <3>2. running'[s] /\ races'[s] = IF running[s] THEN races[s] + 1 ELSE races[s]
      BY <1>d, <2>1, <2>2
    <3> QED
      BY <1>a, <1>d, <2>1, <3>1, <3>2
  <2>3. CASE Of(c) # s
    <3>1. PP = P
      BY <1>b, <2>1, <2>3, PendingMoves DEF Of, Starting
    <3>2. running'[s] = running[s] /\ races'[s] = races[s]
      BY <1>d, <2>1, <2>3
    <3> QED
      BY <1>a, <1>d, <2>1, <3>1, <3>2
  <2> QED
    BY <2>2, <2>3
<1>5. ASSUME NEW c \in Callers, Launch(c)
      PROVE  LP + PP <= (IF running'[s] THEN 1 ELSE 0) + stops'[s] + races'[s]
  <2>1. /\ call[c].at = "launch" /\ Goto(c, "idle")
        /\ running' = running /\ stops' = stops /\ races' = races
    BY <1>5 DEF Launch, flags
  <2>2. PICK t \in Threads : /\ thread[t].at = "none"
                             /\ thread' = [thread EXCEPT ![t] = [at |-> "sleep", state |-> Of(c)]]
    BY <1>5 DEF Launch
  <2>3. thread \in [Threads -> [at : {"none", "done"} \cup Launched, state : States]]
    BY DEF TypeOK
  <2>4. CASE Of(c) = s
    <3>1. Live(s)' = Live(s) \cup {t}
      BY <2>2, <2>3, <2>4 DEF Live, Launched
    <3>2. c \in Pending(s) /\ Pending(s)' = Pending(s) \ {c}
      BY <2>1, <2>4, PendingMoves DEF Of, Pending
    <3>3. LP <= L + 1 /\ PP = P - 1
      BY <1>c, <3>1, <3>2
    <3> QED
      BY <1>a, <1>d, <2>1, <3>3
  <2>5. CASE Of(c) # s
    <3>1. Live(s)' = Live(s)
      BY <2>2, <2>3, <2>5 DEF Live, Launched
    <3>2. Pending(s)' = Pending(s)
      BY <2>1, <2>5, PendingMoves DEF Of
    <3> QED
      BY <1>a, <1>b, <1>g, <2>1, <3>1, <3>2
  <2> QED
    BY <2>4, <2>5
<1>6. ASSUME NEW c \in Callers, ClearRunning(c)
      PROVE  LP + PP <= (IF running'[s] THEN 1 ELSE 0) + stops'[s] + races'[s]
  <2>1. /\ call[c].at = "stop" /\ Goto(c, "idle") /\ LP = L /\ races' = races
        /\ running' = [running EXCEPT ![Of(c)] = FALSE]
        /\ stops' = IF running[Of(c)] THEN [stops EXCEPT ![Of(c)] = @ + 1] ELSE stops
    BY <1>6, <1>b, <1>e DEF ClearRunning
  <2>2. PP = P
    BY <1>b, <2>1, PendingMoves
  <2>3. CASE Of(c) = s
    <3>1. ~running'[s] /\ stops'[s] = IF running[s] THEN stops[s] + 1 ELSE stops[s]
      BY <1>d, <2>1, <2>3
    <3> QED
      BY <1>a, <1>d, <2>1, <2>2, <3>1
  <2>4. CASE Of(c) # s
    <3>1. running'[s] = running[s] /\ stops'[s] = stops[s]
      BY <1>d, <2>1, <2>4
    <3> QED
      BY <1>a, <1>d, <2>1, <2>2, <3>1
  <2> QED
    BY <2>3, <2>4
<1>7. ASSUME NEW t \in Threads, Wake(t) \/ Ticked(t)
      PROVE  LP + PP <= (IF running'[s] THEN 1 ELSE 0) + stops'[s] + races'[s]
  <2>1. Live(s)' = Live(s)
    BY <1>7, LiveMoves DEF Wake, Ticked, Launched
  <2> QED
    BY <1>7, <1>a, <1>b, <1>f, <1>g, <2>1 DEF Wake, Ticked, flags
<1>8. ASSUME NEW t \in Threads, Leave(t)
      PROVE  LP + PP <= (IF running'[s] THEN 1 ELSE 0) + stops'[s] + races'[s]
  <2>1. /\ PP = P /\ stops' = stops /\ races' = races /\ Move(t, "done") /\ thread[t].at = "leave"
        /\ running' = IF Expired(thread[t].state) THEN running
                      ELSE [running EXCEPT ![thread[t].state] = FALSE]
    BY <1>8, <1>b, <1>f DEF Leave
  <2>2. CASE thread[t].state = s
    <3>1. t \in Live(s) /\ Live(s)' = Live(s) \ {t}
      BY <2>1, <2>2, LiveMoves DEF Launched
    <3>2. LP = L - 1
      BY <1>c, <3>1
    <3> QED
      BY <1>a, <1>d, <2>1, <3>2
  <2>3. CASE thread[t].state # s
    <3>1. LP = L
      BY <1>b, <2>1, <2>3, LiveMoves DEF Launched
    <3>2. running'[s] = running[s]
      BY <1>d, <2>1, <2>3
    <3> QED
      BY <1>a, <1>d, <2>1, <3>1, <3>2
  <2> QED
    BY <2>2, <2>3
<1>9. ASSUME UNCHANGED vars
      PROVE  LP + PP <= (IF running'[s] THEN 1 ELSE 0) + stops'[s] + races'[s]
  BY <1>9, <1>a, <1>b, <1>e, <1>f, <1>g DEF vars, flags
<1> QED
  BY <1>1, <1>2, <1>3, <1>4, <1>5, <1>6, <1>7, <1>8, <1>9 DEF Next, Method, GoOn, Ticking, LP, PP

-----------------------------------------------------------------------------
\* A call that is not on its way to launch a thread disturbs nobody.
LEMMA UndisturbedMoves ==
  ASSUME TypeOK, NEW c \in Callers, NEW s,
         NEW at \in {"idle", "check", "request", "stop"} \cup Starting, Goto(c, at),
         at \notin Starting \/ call[c].at \in Starting \/ Of(c) # s, Undisturbed(s)
  PROVE  Undisturbed(s)'
  BY CallMoves DEF Undisturbed, Of

\* The calls that made a state silent stay as they are while others move.
LEMMA HeldMoves ==
  ASSUME TypeOK, StopHeld, NEW c \in Callers,
         NEW at \in {"idle", "check", "request", "stop"} \cup Starting, Goto(c, at),
         at \notin Starting \/ call[c].at \in Starting, call[c].at # "stop",
         UNCHANGED <<stopRequested, quiet, silenced>>
  PROVE  StopHeld'
<1>1. ASSUME NEW s \in silenced
      PROVE  stopRequested[s] /\ Undisturbed(s)'
  BY UndisturbedMoves DEF StopHeld
<1>2. ASSUME NEW d \in quiet
      PROVE  call'[d].at = "stop" /\ Of(d)' = Of(d) /\ stopRequested[Of(d)] /\ Undisturbed(Of(d))'
  <2>1. call[d].at = "stop" /\ d \in Callers /\ d # c
    BY DEF StopHeld, TypeOK
  <2>2. call'[d] = call[d]
    BY <2>1, CallMoves
  <2>3. stopRequested[Of(d)] /\ Undisturbed(Of(d))
    BY DEF StopHeld
  <2>4. Undisturbed(Of(d))'
    <3>1. \A s : Undisturbed(s) => Undisturbed(s)'
      BY UndisturbedMoves
    <3> QED
      BY <2>2, <2>3, <3>1 DEF Of, Undisturbed
  <2> QED
    BY <2>1, <2>2, <2>3, <2>4 DEF Of
<1> QED
  BY <1>1, <1>2 DEF StopHeld

\* Nothing but a new start() clears a request to stop.
LEMMA HeldStep ==
  ASSUME TypeOK, StopHeld, [Next]_vars
  PROVE  StopHeld'
<1>a. /\ call \in [Callers -> [at : {"idle", "check", "request", "stop"} \cup Starting, state : States]]
      /\ stopRequested \in [States -> BOOLEAN]
      /\ quiet \subseteq Callers /\ silenced \subseteq States
      /\ \A c \in Callers : Of(c) \in States
  BY DEF TypeOK, Of
<1>1. ASSUME UNCHANGED <<call, stopRequested, quiet, silenced>>
      PROVE  StopHeld'
  BY <1>1 DEF StopHeld, Undisturbed, Of
<1>2. ASSUME NEW c \in Callers, start(c) \/ stop(c)
      PROVE  StopHeld'
  <2>1. PICK at \in {"check", "request"} : Enter(c, at)
    BY <1>2 DEF start, stop
  <2>2. call[c].at = "idle" /\ UNCHANGED <<stopRequested, quiet, silenced>>
    BY <1>2 DEF start, stop, Free, flags
  <2>3. call'[c].at = at /\ \A d \in Callers \ {c} : call'[d] = call[d]
    BY <2>1, CallEnters
  <2>4. \A s : Undisturbed(s) => Undisturbed(s)'
    BY <2>1, <2>3 DEF Undisturbed, Of, Starting
  <2>5. \A d \in quiet : d # c /\ call'[d] = call[d]
    BY <1>a, <2>2, <2>3 DEF StopHeld
  <2> QED
    BY <2>2, <2>4, <2>5 DEF StopHeld, Undisturbed, Of
<1>3. ASSUME NEW c \in Callers, Check(c)
      PROVE  StopHeld'
  <2>1. CASE Goto(c, "idle") /\ UNCHANGED <<quiet, silenced>>
    <3>1. call[c].at = "check" /\ UNCHANGED <<stopRequested, quiet, silenced>>
      BY <1>3, <2>1 DEF Check, flags
    <3>2. "idle" \notin Starting
      BY DEF Starting
    <3> QED
      BY <2>1, <3>1, <3>2, HeldMoves
  <2>2. CASE /\ Goto(c, "store")
             /\ quiet' = {d \in quiet : Of(d) # Of(c)}
             /\ silenced' = silenced \ {Of(c)}
    <3>1. call[c].at = "check" /\ UNCHANGED stopRequested
      BY <1>3 DEF Check, flags
    <3>2. \A d \in Callers : Of(d)' = Of(d) /\ (d # c => call'[d] = call[d])
      BY <2>2, CallMoves DEF Of, Starting
    <3>3. \A s : s # Of(c) /\ Undisturbed(s) => Undisturbed(s)'
      BY <2>2, UndisturbedMoves DEF Starting
    <3>4. \A s \in silenced' : stopRequested'[s] /\ Undisturbed(s)'
      BY <2>2, <3>1, <3>3 DEF StopHeld
    <3>5. ASSUME NEW d \in quiet'
          PROVE  call'[d].at = "stop" /\ stopRequested'[Of(d)'] /\ Undisturbed(Of(d))'
      <4>1. d \in quiet /\ d \in Callers /\ Of(d) # Of(c)
        BY <1>a, <2>2
      <4>2. d # c /\ Of(d)' = Of(d) /\ call'[d] = call[d] /\ call[d].at = "stop"
        BY <3>2, <4>1 DEF StopHeld
      <4>3. stopRequested[Of(d)] /\ Undisturbed(Of(d))
        BY <4>1 DEF StopHeld
      <4>4. Undisturbed(Of(d))'
        BY <3>3, <4>1, <4>2, <4>3 DEF Undisturbed, Of
      <4> QED
        BY <3>1, <4>2, <4>3, <4>4
    <3> QED
      BY <3>4, <3>5 DEF StopHeld
  <2> QED
    BY <1>3, <2>1, <2>2 DEF Check
<1>4. ASSUME NEW c \in Callers, StoreRunning(c) \/ Launch(c)
      PROVE  StopHeld'
  BY <1>4, HeldMoves DEF StoreRunning, Launch, Starting, flags
<1>5. ASSUME NEW c \in Callers, ClearStopRequested(c)
      PROVE  StopHeld'
  <2>1. /\ call[c].at = "clear" /\ Goto(c, "launch")
        /\ stopRequested' = [stopRequested EXCEPT ![Of(c)] = FALSE] /\ UNCHANGED <<quiet, silenced>>
    BY <1>5 DEF ClearStopRequested
  <2>2. \A s : Undisturbed(s) => Of(c) # s /\ Undisturbed(s)'
    <3>1. \A s : Undisturbed(s) => Of(c) # s
      BY <2>1 DEF Undisturbed, Starting
    <3> QED
      BY <2>1, <3>1, UndisturbedMoves DEF Starting
  <2>3. \A d \in Callers : Of(d)' = Of(d) /\ (d # c => call'[d] = call[d])
    BY <2>1, CallMoves DEF Of, Starting
  <2>4. \A s \in silenced : stopRequested'[s] /\ Undisturbed(s)'
    BY <1>a, <2>1, <2>2 DEF StopHeld
  <2>5. ASSUME NEW d \in quiet
        PROVE  call'[d].at = "stop" /\ stopRequested'[Of(d)'] /\ Undisturbed(Of(d))'
    <3>1. d \in Callers /\ call[d].at = "stop" /\ stopRequested[Of(d)] /\ Undisturbed(Of(d))
      BY <1>a DEF StopHeld
    <3>2. d # c /\ Of(d) # Of(c) /\ Of(d)' = Of(d) /\ call'[d] = call[d]
      BY <2>1, <2>2, <2>3, <3>1
    <3>3. stopRequested'[Of(d)]
      BY <1>a, <2>1, <3>1, <3>2
    <3>4. Undisturbed(Of(d))'
      BY <2>2, <3>1, <3>2 DEF Undisturbed, Of
    <3> QED
      BY <3>1, <3>2, <3>3, <3>4
  <2> QED
    BY <2>1, <2>4, <2>5 DEF StopHeld
<1>6. ASSUME NEW c \in Callers, RequestStop(c)
      PROVE  StopHeld'
  <2>1. /\ call[c].at = "request" /\ Goto(c, "stop") /\ Quieten(c) /\ silenced' = silenced
        /\ stopRequested' = [stopRequested EXCEPT ![Of(c)] = TRUE]
    BY <1>6 DEF RequestStop
  <2>2. \A s : Undisturbed(s) => Undisturbed(s)'
    BY <2>1, UndisturbedMoves DEF Starting
  <2>3. /\ \A d \in Callers : Of(d)' = Of(d) /\ (d # c => call'[d] = call[d])
        /\ call'[c].at = "stop"
    BY <2>1, CallMoves DEF Of
  <2>4. \A s \in silenced : stopRequested'[s] /\ Undisturbed(s)'
    BY <1>a, <2>1, <2>2 DEF StopHeld
  <2>5. ASSUME NEW d \in quiet'
        PROVE  call'[d].at = "stop" /\ stopRequested'[Of(d)'] /\ Undisturbed(Of(d))'
    <3>1. CASE d \in quiet
      <4>1. d \in Callers /\ call[d].at = "stop" /\ stopRequested[Of(d)] /\ Undisturbed(Of(d))
        BY <1>a, <3>1 DEF StopHeld
      <4>2. d # c /\ Of(d)' = Of(d) /\ call'[d] = call[d]
        BY <2>1, <2>3, <4>1
      <4>3. stopRequested'[Of(d)]
        BY <1>a, <2>1, <4>1
      <4>4. Undisturbed(Of(d))'
        BY <2>2, <4>1, <4>2 DEF Undisturbed, Of
      <4> QED
        BY <4>1, <4>2, <4>3, <4>4
    <3>2. CASE d \notin quiet
      <4>1. d = c /\ Undisturbed(Of(c))
        BY <2>1, <3>2 DEF Quieten, Undisturbed
      <4>2. stopRequested'[Of(c)]
        BY <1>a, <2>1
      <4>3. Undisturbed(Of(c))'
        BY <2>2, <2>3, <4>1 DEF Undisturbed, Of
      <4> QED
        BY <2>3, <4>1, <4>2, <4>3
    <3> QED
      BY <3>1, <3>2
  <2> QED
    BY <2>1, <2>4, <2>5 DEF StopHeld
<1>7. ASSUME NEW c \in Callers, ClearRunning(c)
      PROVE  StopHeld'
  <2>1. /\ call[c].at = "stop" /\ Goto(c, "idle") /\ UNCHANGED stopRequested
        /\ silenced' = IF c \in quiet THEN silenced \cup {Of(c)} ELSE silenced
        /\ quiet' = quiet \ {c}
    BY <1>7 DEF ClearRunning
  <2>2. \A s : Undisturbed(s) => Undisturbed(s)'
    BY <2>1, UndisturbedMoves DEF Starting
  <2>3. \A d \in Callers : Of(d)' = Of(d) /\ (d # c => call'[d] = call[d])
    BY <2>1, CallMoves DEF Of
  <2>4. \A s \in silenced' : stopRequested'[s] /\ Undisturbed(s)'
    BY <2>1, <2>2 DEF StopHeld
  <2>5. ASSUME NEW d \in quiet'
        PROVE  call'[d].at = "stop" /\ stopRequested'[Of(d)'] /\ Undisturbed(Of(d))'
    <3>1. /\ d \in Callers /\ call[d].at = "stop" /\ stopRequested[Of(d)] /\ Undisturbed(Of(d))
          /\ d # c
      BY <1>a, <2>1 DEF StopHeld
    <3>2. Of(d)' = Of(d) /\ call'[d] = call[d]
      BY <2>3, <3>1
    <3>3. Undisturbed(Of(d))'
      BY <2>2, <3>1, <3>2 DEF Undisturbed, Of
    <3> QED
      BY <2>1, <3>1, <3>2, <3>3
  <2> QED
    BY <2>4, <2>5 DEF StopHeld
<1> QED
  BY <1>1, <1>2, <1>3, <1>4, <1>5, <1>6, <1>7
     DEF Next, Method, GoOn, Ticking, init, onTick, Wake, Ticked, Leave, vars, flags

-----------------------------------------------------------------------------
\* The invariant holds in every state of a timer.
THEOREM Invariance == Spec => []IInv
<1>1. Init => IInv
  <2> SUFFICES ASSUME Init
               PROVE  IInv
    OBVIOUS
  <2>1. TypeOK
    BY TimerAssumption DEF Init, TypeOK, Idle
  <2>2. \A s \in States : Live(s) = {} /\ Pending(s) = {}
    BY DEF Init, Live, Pending, Launched, Idle
  <2>3. Accounted
    <3>1. ASSUME NEW s \in States
          PROVE  Cardinality(Live(s)) = 0 /\ Cardinality(Pending(s)) = 0
      BY <2>2, FS_EmptySet
    <3>2. \A s \in States : ~running[s] /\ stops[s] = 0 /\ races[s] = 0
      BY DEF Init
    <3> QED
      BY <3>1, <3>2 DEF Accounted
  <2>4. StopHeld
    BY DEF Init, StopHeld
  <2> QED
    BY <2>1, <2>3, <2>4 DEF IInv
<1>2. IInv /\ [Next]_vars => IInv'
  BY TypeStep, AccountedStep, HeldStep DEF IInv
<1> QED
  BY <1>1, <1>2, PTL DEF Spec

\* The members of EZTimerState, the calls under way and the timer's threads
\* keep their types.
THEOREM TypeCorrect == Spec => []TypeOK
<1>1. IInv => TypeOK
  BY DEF IInv
<1> QED
  BY <1>1, Invariance, PTL

\* However start() and stop() interleave with threads on their way out, a timer
\* has one thread and at most one more for each time `running` was defeated.
THEOREM Bounded == Spec => []ThreadsBounded
<1>1. ASSUME IInv
      PROVE  ThreadsBounded
  <2> SUFFICES ASSUME NEW s \in States
               PROVE  Cardinality(Live(s)) <= 1 + stops[s] + races[s]
    BY DEF ThreadsBounded
  <2>1. Cardinality(Live(s)) \in Nat /\ Cardinality(Pending(s)) \in Nat
    BY Finite, FS_CardinalityType
  <2>2. stops[s] \in Nat /\ races[s] \in Nat
    BY <1>1 DEF IInv, TypeOK
  <2> QED
    BY <1>1, <2>1, <2>2 DEF IInv, Accounted
<1> QED
  BY <1>1, Invariance, PTL

\* The callback of a timer is not called again after a stop() that no start()
\* overlapped, until a start() follows.
THEOREM StopStops == Spec => NoTickAfterStop
<1>1. ASSUME IInv, [Next]_vars
      PROVE  [\A t \in Threads : thread[t].at = "sleep" /\ thread[t].state \in silenced
                                  => thread'[t].at # "tick"]_vars
  <2> SUFFICES ASSUME NEW t \in Threads, thread[t].at = "sleep", thread[t].state \in silenced
               PROVE  thread'[t].at # "tick"
    OBVIOUS
  <2>1. TypeOK /\ stopRequested[thread[t].state]
    BY <1>1 DEF IInv, StopHeld
  <2>2. ASSUME NEW u \in Threads, Ticking(u)
        PROVE  thread'[t].at # "tick"
    <3>1. CASE u = t
      <4>1. Move(t, "leave")
        BY <2>1, <2>2, <3>1 DEF Ticking, Wake, Ticked, Leave
      <4> QED
        BY <2>1, <4>1, ThreadMoves DEF Launched
    <3>2. CASE u # t
      <4>1. PICK at \in {"none", "done"} \cup Launched : Move(u, at)
        BY <2>2 DEF Ticking, Wake, Ticked, Leave, Launched
      <4>2. thread'[t] = thread[t]
        BY <2>1, <3>2, <4>1, ThreadMoves
      <4> QED
        BY <4>2
    <3> QED
      BY <3>1, <3>2
  <2>3. ASSUME NEW c \in Callers, Launch(c)
        PROVE  thread'[t].at # "tick"
    BY <2>1, <2>3 DEF Launch, TypeOK
  <2>4. UNCHANGED thread => thread'[t].at # "tick"
    OBVIOUS
  <2> QED
    BY <1>1, <2>2, <2>3, <2>4 DEF Next, Method, GoOn, init, onTick, start, stop, Check, StoreRunning,
       ClearStopRequested, RequestStop, ClearRunning, vars
<1> QED
  BY <1>1, Invariance, PTL DEF Spec, NoTickAfterStop
==============================================================================
