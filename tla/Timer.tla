------------------------------- MODULE Timer -------------------------------
(***************************************************************************)
(* A Timer object (src/builtins/time/Timer.cpp): start() launches a        *)
(* detached thread that sleeps and calls the callback, stop() asks it to   *)
(* end, through two atomic flags that nothing guards together.  start(),   *)
(* stop() and init() may be called by several threads at once, by the      *)
(* timer's own callback among them, so each access to a flag is a step.    *)
(*                                                                         *)
(* The flags live in an EZTimerState.  init() replaces it; the old one     *)
(* lives on while a call or a running tick holds it.  A sleep may take any *)
(* time.  The thread's registration with the collector is in Safepoint;    *)
(* which callback onTick() sets (setting one while start() reads it is a   *)
(* data race on the value) and the `_running` property are left out.       *)
(***************************************************************************)
EXTENDS Naturals, FiniteSets

CONSTANTS Scripts,  \* threads of the program that use the timer
          Threads,  \* threads that start() may launch
          States,   \* EZTimerStates that init() may make
          First,    \* the one the constructor makes
          MaxCalls  \* bound on the calls of start, stop, onTick and init
ASSUME TimerAssumption ==
  /\ First \in States
  /\ Scripts \cap Threads = {}
  /\ IsFiniteSet(Scripts) /\ IsFiniteSet(Threads)
  /\ MaxCalls \in Nat

Callers == Scripts \cup Threads

VARIABLES
  state,          \* g_timerStates: the timer's current state
  repeat, running, stopRequested, callback,  \* the members of each state
  call,           \* what each caller is doing: [at, state]
  thread,         \* each timer thread: [at, state]
  fresh,          \* states that init() has not made yet
  calls,
  stops,          \* history: the times stop() cleared `running` of each state
  races,          \* history: the times start() set it when it was set
  quiet,          \* history: the stop() calls under way that no start() overlaps
  silenced        \* history: states that such a call stopped, not started since
flags == <<running, stopRequested, callback>>
vars == <<repeat, state, flags, call, thread, fresh, calls, stops, races, quiet, silenced>>

Idle(s) == [at |-> "idle", state |-> s]
Starting == {"store", "clear", "launch"}
Launched == {"sleep", "tick", "leave"}
Live(s) == {t \in Threads : thread[t].state = s /\ thread[t].at \in Launched}

Init == /\ state = First
        /\ repeat \in [States -> BOOLEAN]
        /\ running = [s \in States |-> FALSE]
        /\ stopRequested = [s \in States |-> FALSE]
        /\ callback = [s \in States |-> FALSE]
        /\ call = [c \in Callers |-> Idle(First)]
        /\ thread = [t \in Threads |-> [at |-> "none", state |-> First]]
        /\ fresh = States \ {First}
        /\ calls = 0
        /\ stops = [s \in States |-> 0]
        /\ races = [s \in States |-> 0]
        /\ quiet = {}
        /\ silenced = {}

-----------------------------------------------------------------------------
(* The methods.                                                            *)

\* A script calls methods one after the other; a timer's thread does in its
\* callback.
Free(c) == call[c].at = "idle" /\ (c \in Threads => thread[c].at = "tick")
\* getTimerState(): the call holds the state it found.
Enter(c, at) == call' = [call EXCEPT ![c] = [at |-> at, state |-> state]]
Goto(c, at) == call' = [call EXCEPT ![c].at = at]
Called == calls < MaxCalls /\ calls' = calls + 1
Of(c) == call[c].state

init(c) ==
  /\ Free(c) /\ Called
  /\ \E s \in fresh : state' = s /\ fresh' = fresh \ {s}
  /\ UNCHANGED <<repeat, flags, call, thread, stops, races, quiet, silenced>>

onTick(c) ==
  /\ Free(c) /\ Called
  /\ callback' = [callback EXCEPT ![state] = TRUE]
  /\ UNCHANGED <<repeat, state, running, stopRequested, call, thread, fresh, stops, races, quiet, silenced>>

start(c) ==
  /\ Free(c) /\ Called /\ Enter(c, "check")
  /\ UNCHANGED <<repeat, state, flags, thread, fresh, stops, races, quiet, silenced>>
\* "already running", or no callback to call: start() returns.
Check(c) ==
  /\ call[c].at = "check"
  /\ IF running[Of(c)] \/ ~callback[Of(c)]
     THEN Goto(c, "idle") /\ UNCHANGED <<quiet, silenced>>
     ELSE /\ Goto(c, "store")
          /\ quiet' = {d \in quiet : Of(d) # Of(c)}
          /\ silenced' = silenced \ {Of(c)}
  /\ UNCHANGED <<repeat, state, flags, thread, fresh, calls, stops, races>>
\* Mutant: the flag is left to the thread.
StoreRunning_Never(c) ==
  /\ call[c].at = "store" /\ Goto(c, "clear")
  /\ UNCHANGED <<repeat, state, flags, thread, fresh, calls, stops, races, quiet, silenced>>
StoreRunning(c) ==
  /\ call[c].at = "store" /\ Goto(c, "clear")
  /\ running' = [running EXCEPT ![Of(c)] = TRUE]
  /\ races' = IF running[Of(c)] THEN [races EXCEPT ![Of(c)] = @ + 1] ELSE races
  /\ UNCHANGED <<repeat, state, stopRequested, callback, thread, fresh, calls, stops, quiet, silenced>>
ClearStopRequested(c) ==
  /\ call[c].at = "clear" /\ Goto(c, "launch")
  /\ stopRequested' = [stopRequested EXCEPT ![Of(c)] = FALSE]
  /\ UNCHANGED <<repeat, state, running, callback, thread, fresh, calls, stops, races, quiet, silenced>>
Launch(c) ==
  /\ call[c].at = "launch" /\ Goto(c, "idle")
  /\ \E t \in Threads :
       /\ thread[t].at = "none"
       /\ thread' = [thread EXCEPT ![t] = [at |-> "sleep", state |-> Of(c)]]
  /\ UNCHANGED <<repeat, state, flags, fresh, calls, stops, races, quiet, silenced>>

stop(c) ==
  /\ Free(c) /\ Called /\ Enter(c, "request")
  /\ UNCHANGED <<repeat, state, flags, thread, fresh, stops, races, quiet, silenced>>
\* A start() that overlaps stop() may undo it.
Quieten(c) ==
  quiet' = IF \E d \in Callers : call[d].at \in Starting /\ Of(d) = Of(c)
           THEN quiet ELSE quiet \cup {c}
\* Mutant: only `running` is cleared.
RequestStop_Never(c) ==
  /\ call[c].at = "request" /\ Goto(c, "stop") /\ Quieten(c)
  /\ UNCHANGED <<repeat, state, flags, thread, fresh, calls, stops, races, silenced>>
RequestStop(c) ==
  /\ call[c].at = "request" /\ Goto(c, "stop") /\ Quieten(c)
  /\ stopRequested' = [stopRequested EXCEPT ![Of(c)] = TRUE]
  /\ UNCHANGED <<repeat, state, running, callback, thread, fresh, calls, stops, races, silenced>>
ClearRunning(c) ==
  /\ call[c].at = "stop" /\ Goto(c, "idle")
  /\ running' = [running EXCEPT ![Of(c)] = FALSE]
  /\ stops' = IF running[Of(c)] THEN [stops EXCEPT ![Of(c)] = @ + 1] ELSE stops
  /\ silenced' = IF c \in quiet THEN silenced \cup {Of(c)} ELSE silenced
  /\ quiet' = quiet \ {c}
  /\ UNCHANGED <<repeat, state, stopRequested, callback, thread, fresh, calls, races>>

-----------------------------------------------------------------------------
(* The thread: sleep, test, tick, and again if the timer repeats.          *)

\* Nobody holds the state any more: the weak pointer finds nothing.
Expired(s) ==
  /\ s # state
  /\ \A c \in Callers : call[c].at # "idle" => Of(c) # s
  /\ \A t \in Threads : thread[t].at = "tick" => thread[t].state # s
Move(t, at) == thread' = [thread EXCEPT ![t].at = at]

\* Mutant: only a timer that is gone ends its thread.
Wake_Unasked(t) ==
  /\ thread[t].at = "sleep"
  /\ Move(t, IF Expired(thread[t].state) THEN "leave" ELSE "tick")
  /\ UNCHANGED <<repeat, state, flags, call, fresh, calls, stops, races, quiet, silenced>>
Wake(t) ==
  /\ thread[t].at = "sleep"
  /\ Move(t, IF Expired(thread[t].state) \/ stopRequested[thread[t].state] THEN "leave" ELSE "tick")
  /\ UNCHANGED <<repeat, state, flags, call, fresh, calls, stops, races, quiet, silenced>>
Ticked(t) ==
  /\ thread[t].at = "tick" /\ Free(t)
  /\ Move(t, IF repeat[thread[t].state] THEN "sleep" ELSE "leave")
  /\ UNCHANGED <<repeat, state, flags, call, fresh, calls, stops, races, quiet, silenced>>
Leave(t) ==
  /\ thread[t].at = "leave" /\ Move(t, "done")
  /\ running' = IF Expired(thread[t].state) THEN running
                ELSE [running EXCEPT ![thread[t].state] = FALSE]
  /\ UNCHANGED <<repeat, state, stopRequested, callback, call, fresh, calls, stops, races, quiet, silenced>>

Method(c) == init(c) \/ onTick(c) \/ start(c) \/ stop(c)
GoOn(c) == \/ Check(c) \/ StoreRunning(c) \/ ClearStopRequested(c) \/ Launch(c)
           \/ RequestStop(c) \/ ClearRunning(c)
Ticking(t) == Wake(t) \/ Ticked(t) \/ Leave(t)

Next == (\E c \in Callers : Method(c) \/ GoOn(c)) \/ (\E t \in Threads : Ticking(t))
Spec == Init /\ [][Next]_vars
\* A timer's thread is scheduled and its callback, which makes finitely many
\* calls, returns; scripts owe nothing.
FairSpec ==
  /\ Spec
  /\ \A t \in Threads : WF_vars(Ticking(t)) /\ WF_vars(GoOn(t))

-----------------------------------------------------------------------------
\* Types of the state.
TypeOK ==
  /\ state \in States /\ fresh \subseteq States
  /\ repeat \in [States -> BOOLEAN] /\ running \in [States -> BOOLEAN]
  /\ stopRequested \in [States -> BOOLEAN] /\ callback \in [States -> BOOLEAN]
  /\ call \in [Callers -> [at : {"idle", "check", "request", "stop"} \cup Starting, state : States]]
  /\ thread \in [Threads -> [at : {"none", "done"} \cup Launched, state : States]]
  /\ calls \in Nat /\ stops \in [States -> Nat] /\ races \in [States -> Nat]
  /\ quiet \subseteq Callers /\ silenced \subseteq States

\* A timer has at most one thread, and one more for each time stop() or a
\* second start() at the same moment defeated `running`: a thread on its way
\* out clears the flag, whichever thread it was set for.
ThreadsBounded ==
  \A s \in States : Cardinality(Live(s)) <= 1 + stops[s] + races[s]

\* After a stop() that no start() overlapped the callback is not called again
\* until the timer is started again: no sleep ends in a tick, not that of a
\* thread an earlier start() left behind either.
NoTickAfterStop ==
  [][\A t \in Threads : thread[t].at = "sleep" /\ thread[t].state \in silenced
                         => thread'[t].at # "tick"]_vars

\* stop() silences the timer (README.md: "Stop the background thread"): unless
\* it is started again, every thread it has ends, one that start() left
\* behind under an earlier stop() included.
StopSilences ==
  \A s \in States : (s \in silenced) ~> (s \notin silenced \/ Live(s) = {})

\* README.md's table: stop() stops the background thread.  A thread the timer had
\* when stop() was done ends.
StopIsFinal ==
  \A t \in Threads :
    (thread[t].state \in silenced /\ thread[t].at = "sleep") ~> (thread[t].at = "done")
=============================================================================
