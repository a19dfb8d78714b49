----------------------------- MODULE AsyncProofs -----------------------------
(***************************************************************************)
(* Futures, the loop's queue and its reference count, for any sets of      *)
(* async tasks, workers and timers.                                        *)
(*                                                                         *)
(* The argument.  A yielded VM is in one place: among the callbacks of the *)
(* future it waits for, in the hands of the worker that settled it, or in  *)
(* the task queue as a task to resume it (Waits).  A step moves it from    *)
(* one place to the next, OP_AWAIT puts it in the first one and asyncCall- *)
(* back takes it out of the last.  For that no place may hold a VM twice   *)
(* and no task may be queued twice (Sound).  The tasks in the queue also   *)
(* say which timers are not armed yet, so that arming one retains the loop *)
(* for it once (RetainsBalanced), and a loop that nobody retains stays so  *)
(* when run() has returned (Idle).                                         *)
(***************************************************************************)
EXTENDS Async, FiniteSetTheorems, SequenceTheorems, TLAPS

\* A sequence holds x; it holds nothing twice.
In(s, x) == \E i \in 1 .. Len(s) : s[i] = x
Once(s) == \A i, j \in 1 .. Len(s) : s[i] = s[j] => i = j

-----------------------------------------------------------------------------
\* What joining two sequences holds.
LEMMA Joined ==
  ASSUME NEW S, NEW s \in Seq(S), NEW t \in Seq(S)
  PROVE  /\ s \o t \in Seq(S)
         /\ \A x : In(s \o t, x) <=> In(s, x) \/ In(t, x)
         /\ Once(s) /\ Once(t) /\ (\A x : ~(In(s, x) /\ In(t, x))) => Once(s \o t)
<1>1. /\ s \o t \in Seq(S) /\ Len(s \o t) = Len(s) + Len(t)
      /\ Len(s) \in Nat /\ Len(t) \in Nat
      /\ \A i \in 1 .. Len(s) + Len(t) :
           (s \o t)[i] = IF i <= Len(s) THEN s[i] ELSE t[i - Len(s)]
  BY ConcatProperties, LenProperties
<1>2. ASSUME NEW x
      PROVE  In(s \o t, x) <=> In(s, x) \/ In(t, x)
  <2>1. ASSUME In(s \o t, x)
        PROVE  In(s, x) \/ In(t, x)
    <3>1. PICK i \in 1 .. Len(s) + Len(t) : (s \o t)[i] = x
      BY <1>1, <2>1 DEF In
    <3>2. CASE i <= Len(s)
      BY <1>1, <3>1, <3>2 DEF In
    <3>3. CASE ~(i <= Len(s))
      <4>1. i - Len(s) \in 1 .. Len(t) /\ t[i - Len(s)] = x
        BY <1>1, <3>1, <3>3
      <4> QED
        BY <4>1 DEF In
    <3> QED
      BY <3>2, <3>3
  <2>2. ASSUME NEW i \in 1 .. Len(s), s[i] = x
        PROVE  In(s \o t, x)
    BY <1>1, <2>2 DEF In
  <2>3. ASSUME NEW i \in 1 .. Len(t), t[i] = x
        PROVE  In(s \o t, x)
    <3>1. i + Len(s) \in 1 .. Len(s) + Len(t) /\ (s \o t)[i + Len(s)] = x
      BY <1>1, <2>3
    <3> QED
      BY <1>1, <3>1 DEF In
  <2> QED
    BY <2>1, <2>2, <2>3 DEF In
<1>3. ASSUME Once(s), Once(t), \A x : ~(In(s, x) /\ In(t, x)),
             NEW i \in 1 .. Len(s \o t), NEW j \in 1 .. Len(s \o t), (s \o t)[i] = (s \o t)[j]
      PROVE  i = j
  <2>1. CASE i <= Len(s) /\ j <= Len(s)
    BY <1>1, <1>3, <2>1 DEF Once
  <2>2. CASE ~(i <= Len(s)) /\ ~(j <= Len(s))
    <3>1. i - Len(s) \in 1 .. Len(t) /\ j - Len(s) \in 1 .. Len(t)
      BY <1>1, <2>2
    <3>2. t[i - Len(s)] = t[j - Len(s)]
      BY <1>1, <1>3, <2>2
    <3>3. i - Len(s) = j - Len(s)
      BY <1>3, <3>1, <3>2 DEF Once
    <3> QED
      BY <1>1, <3>3
  <2>3. ASSUME NEW k \in 1 .. Len(s), NEW l \in 1 .. Len(t), s[k] = t[l]
        PROVE  FALSE
    BY <1>3, <2>3 DEF In
  <2>4. CASE i <= Len(s) /\ ~(j <= Len(s))
    <3>1. i \in 1 .. Len(s) /\ j - Len(s) \in 1 .. Len(t) /\ s[i] = t[j - Len(s)]
      BY <1>1, <1>3, <2>4
    <3> QED
      BY <2>3, <3>1
  <2>5. CASE ~(i <= Len(s)) /\ j <= Len(s)
    <3>1. j \in 1 .. Len(s) /\ i - Len(s) \in 1 .. Len(t) /\ s[j] = t[i - Len(s)]
      BY <1>1, <1>3, <2>5
    <3> QED
      BY <2>3, <3>1
  <2> QED
    BY <2>1, <2>2, <2>4, <2>5
<1> QED
  BY <1>1, <1>2, <1>3 DEF Once

\* A sequence of one element, and of none.
LEMMA Short ==
  ASSUME NEW S
  PROVE  /\ \A x \in S : <<x>> \in Seq(S) /\ Once(<<x>>)
         /\ \A x, y : In(<<x>>, y) <=> y = x
         /\ <<>> \in Seq(S) /\ Once(<<>>) /\ \A x : ~In(<<>>, x)
<1>1. <<>> \in Seq(S) /\ Len(<<>>) = 0
  BY EmptySeq
<1>2. \A x \in S : <<x>> \in Seq(S)
  OBVIOUS
<1>3. \A x : Len(<<x>>) = 1 /\ <<x>>[1] = x
  OBVIOUS
<1>4. \A x, y : In(<<x>>, y) <=> y = x
  BY <1>3 DEF In
<1> QED
  BY <1>1, <1>2, <1>3, <1>4 DEF Once, In

\* What is left when the first element is taken out.
LEMMA Rest ==
  ASSUME NEW S, NEW s \in Seq(S), s # <<>>
  PROVE  /\ Head(s) \in S /\ Tail(s) \in Seq(S) /\ In(s, Head(s))
         /\ Once(s) => /\ Once(Tail(s))
                       /\ \A x : In(Tail(s), x) <=> In(s, x) /\ x # Head(s)
<1>1. /\ Head(s) \in S /\ Tail(s) \in Seq(S) /\ Len(Tail(s)) = Len(s) - 1
      /\ \A i \in 1 .. Len(Tail(s)) : Tail(s)[i] = s[i + 1]
      /\ Len(s) \in Nat \ {0} /\ Head(s) = s[1]
  BY HeadTailProperties, EmptySeq
<1>2. In(s, Head(s))
  BY <1>1 DEF In
<1>3. ASSUME Once(s), NEW i \in 1 .. Len(Tail(s)), NEW j \in 1 .. Len(Tail(s)), Tail(s)[i] = Tail(s)[j]
      PROVE  i = j
  <2>1. i + 1 \in 1 .. Len(s) /\ j + 1 \in 1 .. Len(s) /\ s[i + 1] = s[j + 1]
    BY <1>1, <1>3
  <2>2. i + 1 = j + 1
    BY <1>3, <2>1 DEF Once
  <2> QED
    BY <2>2
<1>4. ASSUME Once(s), NEW x, In(Tail(s), x)
      PROVE  In(s, x) /\ x # Head(s)
  <2>1. PICK i \in 1 .. Len(Tail(s)) : Tail(s)[i] = x
    BY <1>4 DEF In
  <2>2. i + 1 \in 1 .. Len(s) /\ s[i + 1] = x /\ 1 \in 1 .. Len(s) /\ i + 1 # 1
    BY <1>1, <2>1
  <2> QED
    BY <1>1, <1>4, <2>2 DEF In, Once
<1>5. ASSUME NEW x, In(s, x), x # Head(s)
      PROVE  In(Tail(s), x)
  <2>1. PICK i \in 1 .. Len(s) : s[i] = x
    BY <1>5 DEF In
  <2>2. i - 1 \in 1 .. Len(Tail(s)) /\ Tail(s)[i - 1] = x
    BY <1>1, <1>5, <2>1
  <2> QED
    BY <2>2 DEF In
<1> QED
  BY <1>1, <1>2, <1>3, <1>4, <1>5 DEF Once

\* What a longer sequence holds.
LEMMA Appended ==
  ASSUME NEW S, NEW s \in Seq(S), NEW e \in S
  PROVE  /\ Append(s, e) \in Seq(S)
         /\ \A x : In(Append(s, e), x) <=> In(s, x) \/ x = e
         /\ Once(s) /\ ~In(s, e) => Once(Append(s, e))
<1>1. Append(s, e) = s \o <<e>>
  OBVIOUS
<1>2. <<e>> \in Seq(S) /\ Once(<<e>>) /\ \A x : In(<<e>>, x) <=> x = e
  BY Short
<1>3. /\ s \o <<e>> \in Seq(S)
      /\ \A x : In(s \o <<e>>, x) <=> In(s, x) \/ In(<<e>>, x)
      /\ Once(s) /\ Once(<<e>>) /\ (\A x : ~(In(s, x) /\ In(<<e>>, x))) => Once(s \o <<e>>)
  BY <1>2, Joined
<1> QED
  BY <1>1, <1>2, <1>3

-----------------------------------------------------------------------------
\* The tasks are told apart by their kind and by what they are about.
LEMMA Kinds ==
  /\ \A a, b : /\ StartTask(a) = StartTask(b) => a = b
               /\ ResumeTask(a) = ResumeTask(b) => a = b
               /\ TimerTask(a) = TimerTask(b) => a = b
               /\ StartTask(a) # ResumeTask(b) /\ StartTask(a) # TimerTask(b)
               /\ ResumeTask(a) # TimerTask(b)
  /\ \A a \in Tasks : StartTask(a) \in Task
  /\ \A v \in VMs : ResumeTask(v) \in Task
  /\ \A t \in Timers : TimerTask(t) \in Task
<1>1. \A a, b : /\ StartTask(a) = StartTask(b) => a = b
                /\ ResumeTask(a) = ResumeTask(b) => a = b
                /\ TimerTask(a) = TimerTask(b) => a = b
  BY DEF StartTask, ResumeTask, TimerTask
<1>2. \A a, b : /\ StartTask(a) # ResumeTask(b) /\ StartTask(a) # TimerTask(b)
                /\ ResumeTask(a) # TimerTask(b)
  <2> SUFFICES ASSUME NEW a, NEW b
               PROVE  /\ StartTask(a) # ResumeTask(b) /\ StartTask(a) # TimerTask(b)
                      /\ ResumeTask(a) # TimerTask(b)
    OBVIOUS
  <2>1. StartTask(a).kind = "start" /\ ResumeTask(b).kind = "resume" /\ TimerTask(b).kind = "timer"
        /\ ResumeTask(a).kind = "resume"
    BY DEF StartTask, ResumeTask, TimerTask
  <2> QED
    BY <2>1
<1>3. /\ \A a \in Tasks : StartTask(a) \in Task
      /\ \A v \in VMs : ResumeTask(v) \in Task
      /\ \A t \in Timers : TimerTask(t) \in Task
  BY DEF Task
<1> QED
  BY <1>1, <1>2, <1>3

\* The tasks that resume the VMs of a list.
LEMMA Resumed ==
  ASSUME NEW vs \in Seq(VMs)
  PROVE  /\ ResumeAll(vs) \in Seq(Task)
         /\ \A x : In(ResumeAll(vs), x) <=> \E v \in VMs : In(vs, v) /\ x = ResumeTask(v)
         /\ Once(vs) => Once(ResumeAll(vs))
<1>1. /\ vs \in [1 .. Len(vs) -> VMs] /\ Len(vs) \in Nat
  BY LenProperties
<1>2. /\ ResumeAll(vs) \in [1 .. Len(vs) -> Task]
      /\ \A i \in 1 .. Len(vs) : ResumeAll(vs)[i] = ResumeTask(vs[i])
  BY <1>1, Kinds DEF ResumeAll
<1>3. ResumeAll(vs) \in Seq(Task) /\ Len(ResumeAll(vs)) = Len(vs)
  <2>1. ResumeAll(vs) \in Seq(Task)
    BY <1>1, <1>2, SeqDef
  <2>2. DOMAIN ResumeAll(vs) = 1 .. Len(ResumeAll(vs)) /\ Len(ResumeAll(vs)) \in Nat
    BY <2>1, LenProperties
  <2>3. DOMAIN ResumeAll(vs) = 1 .. Len(vs)
    BY <1>2
  <2>4. \A m, n \in Nat : (1 .. m) = (1 .. n) => m = n
    <3> SUFFICES ASSUME NEW m \in Nat, NEW n \in Nat, (1 .. m) = (1 .. n), m < n
                 PROVE  FALSE
      OBVIOUS
    <3>1. n \in 1 .. n /\ n \notin 1 .. m
      OBVIOUS
    <3> QED
      BY <3>1
  <2> QED
    BY <1>1, <2>1, <2>2, <2>3, <2>4
<1>4. \A x : In(ResumeAll(vs), x) <=> \E v \in VMs : In(vs, v) /\ x = ResumeTask(v)
  BY <1>1, <1>2, <1>3 DEF In
<1>5. Once(vs) => Once(ResumeAll(vs))
  BY <1>2, <1>3, Kinds DEF Once
<1> QED
  BY <1>3, <1>4, <1>5

-----------------------------------------------------------------------------
\* The VM the loop thread executes, and what its await is about.
Running ==
  /\ pc \in {"exec", "then", "sync"} => cur \in VMs /\ vm[cur] \in {"main", "running"}
  /\ pc \in {"then", "sync"} => waitsFor[cur] \in Futures

\* No place holds anything twice, and what is queued is still to be done.
Sound ==
  /\ Once(taskQueue) /\ (\A f \in Futures : Once(onReady[f])) /\ \A w \in Workers : Once(callbacks[w])
  /\ \A a \in Tasks : In(taskQueue, StartTask(a)) => vm[a] = "queued"
  /\ \A t \in Timers : In(taskQueue, TimerTask(t)) => timer[t] = "queued"
  /\ \A w \in Workers : callbacks[w] # <<>> => wpc[w] \in {"callbacks", "cbPushed"}

\* The places of a VM: queued to be resumed, in a future, in a worker's hands.
Queued(v) == In(taskQueue, ResumeTask(v))
Ready(f, v) == In(onReady[f], v)
Called(w, v) == In(callbacks[w], v)
Waits ==
  \A v \in VMs :
    /\ vm[v] = "awaiting" <=> \/ Queued(v) \/ (\E f \in Futures : Ready(f, v))
                              \/ \E w \in Workers : Called(w, v)
    /\ \A f \in Futures : Ready(f, v) =>
         ~Queued(v) /\ (\A g \in Futures : Ready(g, v) => g = f) /\ \A w \in Workers : ~Called(w, v)
    /\ \A w \in Workers : Called(w, v) =>
         ~Queued(v) /\ \A x \in Workers : Called(x, v) => x = w

\* A timer that was never asked for has not been settled.
Unasked == \A t \in Timers : timer[t] = "none" => fut[t] = "pending"

\* Once run() has decided to return nobody retains the loop, and a task comes
\* too late.
Idle ==
  /\ pc = "exit?" /\ ~hasTasks => pushedAfterLook \/ taskQueue = <<>>
  /\ pc = "exited" => pendingIoCount = 0 /\ (pushedAfterLook \/ taskQueue = <<>>)

\* A daemon has been spawned: a worker retains the loop when it is spawned or never.
Spawned == \A w \in daemons : wpc[w] # "none"

IInv == TypeOK /\ Running /\ Sound /\ Waits /\ Spawned /\ RetainsBalanced /\ Unasked /\ Idle

-----------------------------------------------------------------------------
(* What the steps do to the places of a VM, one lemma for each way.        *)

\* A task, timer or worker that is not finished stays where Sound wants it, and
\* no VM begins or ends to wait.
Quiet ==
  /\ \A v \in VMs : vm'[v] = "awaiting" <=> vm[v] = "awaiting"
  /\ \A a \in Tasks : In(taskQueue, StartTask(a)) => vm'[a] = "queued"
  /\ \A t \in Timers : In(taskQueue, TimerTask(t)) => timer'[t] = "queued"
  /\ \A w \in Workers : callbacks[w] # <<>> => wpc'[w] \in {"callbacks", "cbPushed"}

\* The steps that move nothing: no place changes.
LEMMA Stay ==
  ASSUME TypeOK, Sound, Waits, Quiet, UNCHANGED <<taskQueue, onReady, callbacks>>
  PROVE  Sound' /\ Waits'
<1>1. Sound'
  BY DEF Sound, Quiet
<1>2. Waits'
  BY DEF Waits, Quiet, Queued, Ready, Called
<1> QED
  BY <1>1, <1>2

\* The calls that queue a task which is not about a VM that waits: to start an
\* async task's VM, to start a timer.
LEMMA Asked ==
  ASSUME TypeOK, Sound, Waits, Quiet, UNCHANGED <<onReady, callbacks>>,
         NEW x \in Task, taskQueue' = taskQueue \o <<x>>, ~In(taskQueue, x),
         \A v \in VMs : x # ResumeTask(v),
         \A a \in Tasks : x = StartTask(a) => vm'[a] = "queued",
         \A t \in Timers : x = TimerTask(t) => timer'[t] = "queued"
  PROVE  Sound' /\ Waits' /\ taskQueue' \in Seq(Task)
<1>1. taskQueue \in Seq(Task)
  BY DEF TypeOK
<1>2. <<x>> \in Seq(Task) /\ Once(<<x>>) /\ \A y : In(<<x>>, y) <=> y = x
  BY Short
<1>3. /\ taskQueue' \in Seq(Task)
      /\ \A y : In(taskQueue', y) <=> In(taskQueue, y) \/ y = x
      /\ Once(taskQueue) => Once(taskQueue')
  <2>1. /\ taskQueue \o <<x>> \in Seq(Task)
        /\ \A y : In(taskQueue \o <<x>>, y) <=> In(taskQueue, y) \/ In(<<x>>, y)
        /\ Once(taskQueue) /\ Once(<<x>>) /\ (\A y : ~(In(taskQueue, y) /\ In(<<x>>, y)))
             => Once(taskQueue \o <<x>>)
    BY <1>1, <1>2, Joined
  <2> QED
    BY <1>2, <2>1
<1>4. Sound'
  BY <1>3 DEF Sound, Quiet
<1>5. \A v \in VMs : Queued(v)' <=> Queued(v)
  BY <1>3 DEF Queued
<1>6. Waits'
  BY <1>5 DEF Waits, Quiet, Ready, Called
<1> QED
  BY <1>3, <1>4, <1>6

\* set() on the loop thread: the VMs that wait for f go from f to the queue.
LEMMA SettledHere ==
  ASSUME TypeOK, Sound, Waits, Quiet, UNCHANGED callbacks,
         NEW f \in Futures, NEW o, SettleHere(f, o)
  PROVE  Sound' /\ Waits' /\ taskQueue' \in Seq(Task) /\ onReady' \in [Futures -> Seq(VMs)]
<1> DEFINE vs == onReady[f]
<1>1. taskQueue \in Seq(Task) /\ vs \in Seq(VMs) /\ onReady \in [Futures -> Seq(VMs)] /\ Once(vs)
      /\ Once(taskQueue)
  BY DEF TypeOK, Sound
<1>2. taskQueue' = taskQueue \o ResumeAll(vs) /\ onReady' = [onReady EXCEPT ![f] = <<>>]
  BY DEF SettleHere, PushAll
<1>3. /\ ResumeAll(vs) \in Seq(Task) /\ Once(ResumeAll(vs))
      /\ \A x : In(ResumeAll(vs), x) <=> \E v \in VMs : Ready(f, v) /\ x = ResumeTask(v)
  BY <1>1, Resumed DEF Ready
<1>4. \A x : ~(In(taskQueue, x) /\ In(ResumeAll(vs), x))
  BY <1>3 DEF Waits, Queued
<1>5. /\ taskQueue' \in Seq(Task) /\ Once(taskQueue')
      /\ \A x : In(taskQueue', x) <=> In(taskQueue, x) \/ \E v \in VMs : Ready(f, v) /\ x = ResumeTask(v)
  <2>1. /\ taskQueue \o ResumeAll(vs) \in Seq(Task)
        /\ \A x : In(taskQueue \o ResumeAll(vs), x) <=> In(taskQueue, x) \/ In(ResumeAll(vs), x)
        /\ Once(taskQueue) /\ Once(ResumeAll(vs))
           /\ (\A x : ~(In(taskQueue, x) /\ In(ResumeAll(vs), x)))
             => Once(taskQueue \o ResumeAll(vs))
    BY <1>1, <1>3, Joined
  <2> QED
    BY <1>1, <1>2, <1>3, <1>4, <2>1
<1>6. /\ onReady' \in [Futures -> Seq(VMs)] /\ onReady'[f] = <<>>
      /\ \A g \in Futures : g # f => onReady'[g] = onReady[g]
  BY <1>1, <1>2
<1>7. Once(<<>>) /\ \A x : ~In(<<>>, x)
  BY Short
<1>8. Sound'
  <2>1. \A g \in Futures : Once(onReady'[g])
    BY <1>6, <1>7 DEF Sound
  <2>2. \A a \in Tasks : In(taskQueue', StartTask(a)) => In(taskQueue, StartTask(a))
    BY <1>5, Kinds
  <2>3. \A t \in Timers : In(taskQueue', TimerTask(t)) => In(taskQueue, TimerTask(t))
    BY <1>5, Kinds
  <2> QED
    BY <1>5, <2>1, <2>2, <2>3 DEF Sound, Quiet
<1>9. \A v \in VMs : Queued(v)' <=> Queued(v) \/ Ready(f, v)
  BY <1>5, Kinds DEF Queued
<1>10. \A v \in VMs : \A g \in Futures : Ready(g, v)' <=> Ready(g, v) /\ g # f
  BY <1>6, <1>7 DEF Ready
<1>11. \A v \in VMs : \A w \in Workers : Called(w, v)' <=> Called(w, v)
  BY DEF Called
<1>12. Waits'
  <2> SUFFICES ASSUME NEW v \in VMs
               PROVE  /\ vm'[v] = "awaiting" <=> \/ Queued(v)' \/ (\E g \in Futures : Ready(g, v)')
                                                 \/ \E w \in Workers : Called(w, v)'
                      /\ \A g \in Futures : Ready(g, v)' =>
                           ~Queued(v)' /\ (\A h \in Futures : Ready(h, v)' => h = g)
                           /\ \A w \in Workers : ~Called(w, v)'
                      /\ \A w \in Workers : Called(w, v)' =>
                           ~Queued(v)' /\ \A x \in Workers : Called(x, v)' => x = w
    BY DEF Waits
  <2>1. /\ vm[v] = "awaiting" <=> \/ Queued(v) \/ (\E g \in Futures : Ready(g, v))
                                  \/ \E w \in Workers : Called(w, v)
        /\ \A g \in Futures : Ready(g, v) =>
             ~Queued(v) /\ (\A h \in Futures : Ready(h, v) => h = g) /\ \A w \in Workers : ~Called(w, v)
        /\ \A w \in Workers : Called(w, v) =>
             ~Queued(v) /\ \A x \in Workers : Called(x, v) => x = w
    BY DEF Waits
  <2>2. vm'[v] = "awaiting" <=> vm[v] = "awaiting"
    BY DEF Quiet
  <2> QED
    BY <1>9, <1>10, <1>11, <2>1, <2>2
<1> QED
  BY <1>5, <1>6, <1>8, <1>12

\* then(): the VM that has yielded is put in its future, or, the future being
\* settled, in the queue.
LEMMA Yielded ==
  ASSUME TypeOK, Running, Sound, Waits, AwaitThen
  PROVE  Sound' /\ Waits' /\ taskQueue' \in Seq(Task) /\ onReady' \in [Futures -> Seq(VMs)]
<1> DEFINE f == waitsFor[cur]
<1>1. cur \in VMs /\ vm[cur] \in {"main", "running"} /\ f \in Futures
  BY DEF AwaitThen, Running
<1>2. /\ taskQueue \in Seq(Task) /\ onReady \in [Futures -> Seq(VMs)] /\ vm \in [VMs -> VMStates]
      /\ Tasks \subseteq VMs
  BY DEF TypeOK, VMs
<1>3. /\ vm' \in [VMs -> VMStates] /\ vm'[cur] = "awaiting" /\ \A v \in VMs : v # cur => vm'[v] = vm[v]
      /\ UNCHANGED <<callbacks, wpc, timer>>
  BY <1>1, <1>2 DEF AwaitThen, VMStates
<1>4. ~Queued(cur) /\ (\A g \in Futures : ~Ready(g, cur)) /\ \A w \in Workers : ~Called(w, cur)
  BY <1>1 DEF Waits
<1>5. \A a \in Tasks : In(taskQueue, StartTask(a)) => vm'[a] = "queued"
  BY <1>1, <1>2, <1>3 DEF Sound
<1> HIDE DEF f
<1>6. CASE UNCHANGED taskQueue /\ onReady' = [onReady EXCEPT ![f] = Append(@, cur)]
  <2>1. onReady'[f] = Append(onReady[f], cur) /\ (\A g \in Futures : g # f => onReady'[g] = onReady[g])
        /\ onReady[f] \in Seq(VMs)
    BY <1>1, <1>2, <1>6
  <2>2. /\ onReady'[f] \in Seq(VMs)
        /\ \A v : In(onReady'[f], v) <=> In(onReady[f], v) \/ v = cur
        /\ Once(onReady[f]) /\ ~In(onReady[f], cur) => Once(onReady'[f])
    BY <1>1, <2>1, Appended
  <2>3. ~In(onReady[f], cur) /\ \A g \in Futures : Once(onReady[g])
    BY <1>1, <1>4 DEF Sound, Ready
  <2>4. onReady' \in [Futures -> Seq(VMs)]
    BY <1>1, <1>2, <1>6, <2>1, <2>2
  <2>5. Sound'
    <3>1. \A g \in Futures : Once(onReady'[g])
      BY <2>1, <2>2, <2>3
    <3> QED
      BY <1>3, <1>5, <1>6, <3>1 DEF Sound
  <2>6. \A v \in VMs : \A g \in Futures : Ready(g, v)' <=> Ready(g, v) \/ (g = f /\ v = cur)
    BY <2>1, <2>2 DEF Ready
  <2>7. \A v \in VMs : (Queued(v)' <=> Queued(v)) /\ \A w \in Workers : Called(w, v)' <=> Called(w, v)
    BY <1>3, <1>6 DEF Queued, Called
  <2>8. Waits'
    BY <1>1, <1>3, <1>4, <2>6, <2>7 DEF Waits
  <2> QED
    BY <1>2, <1>6, <2>4, <2>5, <2>8
<1>7. CASE UNCHANGED onReady /\ taskQueue' = taskQueue \o <<ResumeTask(cur)>>
  <2>1. <<ResumeTask(cur)>> \in Seq(Task) /\ Once(<<ResumeTask(cur)>>)
        /\ \A y : In(<<ResumeTask(cur)>>, y) <=> y = ResumeTask(cur)
    BY <1>1, Kinds, Short
  <2>2. /\ taskQueue' \in Seq(Task)
        /\ \A y : In(taskQueue', y) <=> In(taskQueue, y) \/ y = ResumeTask(cur)
        /\ Once(taskQueue) /\ ~In(taskQueue, ResumeTask(cur)) => Once(taskQueue')
    <3>1. /\ taskQueue \o <<ResumeTask(cur)>> \in Seq(Task)
          /\ \A y : In(taskQueue \o <<ResumeTask(cur)>>, y)
                      <=> In(taskQueue, y) \/ In(<<ResumeTask(cur)>>, y)
          /\ Once(taskQueue) /\ Once(<<ResumeTask(cur)>>)
             /\ (\A y : ~(In(taskQueue, y) /\ In(<<ResumeTask(cur)>>, y)))
               => Once(taskQueue \o <<ResumeTask(cur)>>)
      BY <1>2, <2>1, Joined
    <3> QED
      BY <1>7, <2>1, <3>1
  <2>3. Sound'
    <3>1. \A a \in Tasks : In(taskQueue', StartTask(a)) => In(taskQueue, StartTask(a))
      BY <2>2, Kinds
    <3>2. \A t \in Timers : In(taskQueue', TimerTask(t)) => In(taskQueue, TimerTask(t))
      BY <2>2, Kinds
    <3>3. Once(taskQueue')
      BY <1>4, <2>2 DEF Sound, Queued
    <3> QED
      BY <1>3, <1>5, <1>7, <3>1, <3>2, <3>3 DEF Sound
  <2>4. \A v \in VMs : Queued(v)' <=> Queued(v) \/ v = cur
    BY <2>2, Kinds DEF Queued
  <2>5. \A v \in VMs : /\ \A g \in Futures : Ready(g, v)' <=> Ready(g, v)
                       /\ \A w \in Workers : Called(w, v)' <=> Called(w, v)
    BY <1>3, <1>7 DEF Ready, Called
  <2>6. Waits'
    BY <1>1, <1>3, <1>4, <2>4, <2>5 DEF Waits
  <2> QED
    BY <1>2, <1>7, <2>2, <2>3, <2>6
<1> QED
  BY <1>6, <1>7 DEF AwaitThen, PushAll, f

\* asyncCallback takes the first task: the VM it resumes is no longer in the
\* queue and no longer waits.
LEMMA Taken ==
  ASSUME TypeOK, Sound, Waits, RunTask
  PROVE  /\ Sound' /\ Waits' /\ taskQueue' \in Seq(Task) /\ vm' \in [VMs -> VMStates]
         /\ \/ /\ cur' \in VMs /\ vm' = [vm EXCEPT ![cur'] = "running"] /\ pc' = "exec"
               /\ waitsFor' = [waitsFor EXCEPT ![cur'] = None]
               /\ UNCHANGED <<timer, pendingIoCount>>
            \/ \E t \in Timers : /\ timer[t] = "queued" /\ timer' = [timer EXCEPT ![t] = "armed"]
                                 /\ pendingIoCount' = pendingIoCount + 1
                                 /\ UNCHANGED <<vmVars, pc>>
<1> DEFINE task == Head(taskQueue)
<1>1. /\ taskQueue \in Seq(Task) /\ taskQueue # <<>> /\ Once(taskQueue) /\ taskQueue' = Tail(taskQueue)
      /\ UNCHANGED <<onReady, callbacks, wpc>> /\ vm \in [VMs -> VMStates] /\ Tasks \subseteq VMs
      /\ timer \in [Timers -> TimerStates]
  BY DEF TypeOK, Sound, RunTask, VMs
<1>2. /\ task \in Task /\ taskQueue' \in Seq(Task) /\ In(taskQueue, task) /\ Once(taskQueue')
      /\ \A x : In(taskQueue', x) <=> In(taskQueue, x) /\ x # task
  BY <1>1, Rest
<1> HIDE DEF task
<1>3. \A v \in VMs : Queued(v)' <=> Queued(v) /\ ResumeTask(v) # task
  BY <1>2 DEF Queued
<1>4. \A v \in VMs : /\ \A g \in Futures : Ready(g, v)' <=> Ready(g, v)
                     /\ \A w \in Workers : Called(w, v)' <=> Called(w, v)
  BY <1>1 DEF Ready, Called
<1>5. ASSUME NEW a \in Tasks, task = StartTask(a), vm' = [vm EXCEPT ![a] = "running"], UNCHANGED timer
      PROVE  Sound' /\ Waits' /\ vm' \in [VMs -> VMStates]
  <2>1. vm[a] = "queued" /\ a \in VMs
    BY <1>1, <1>2, <1>5 DEF Sound
  <2>2. vm'[a] = "running" /\ (\A v \in VMs : v # a => vm'[v] = vm[v]) /\ vm' \in [VMs -> VMStates]
    BY <1>1, <1>5, <2>1 DEF VMStates
  <2>3. Sound'
    BY <1>1, <1>2, <1>5, <2>2 DEF Sound
  <2>4. \A v \in VMs : Queued(v)' <=> Queued(v)
    BY <1>3, <1>5, Kinds
  <2>5. Waits'
    BY <1>4, <2>1, <2>2, <2>4 DEF Waits
  <2> QED
    BY <2>2, <2>3, <2>5
<1>6. ASSUME NEW v \in VMs, task = ResumeTask(v), vm' = [vm EXCEPT ![v] = "running"], UNCHANGED timer
      PROVE  Sound' /\ Waits' /\ vm' \in [VMs -> VMStates]
  <2>1. Queued(v)
    BY <1>2, <1>6 DEF Queued
  <2>2. vm[v] = "awaiting" /\ (\A g \in Futures : ~Ready(g, v)) /\ \A w \in Workers : ~Called(w, v)
    BY <2>1 DEF Waits
  <2>3. vm'[v] = "running" /\ (\A u \in VMs : u # v => vm'[u] = vm[u]) /\ vm' \in [VMs -> VMStates]
    BY <1>1, <1>6 DEF VMStates
  <2>4. Sound'
    BY <1>1, <1>2, <1>6, <2>2, <2>3 DEF Sound
  <2>5. \A u \in VMs : Queued(u)' <=> Queued(u) /\ u # v
    BY <1>3, <1>6, Kinds
  <2>6. Waits'
    BY <1>4, <2>2, <2>3, <2>5 DEF Waits
  <2> QED
    BY <2>3, <2>4, <2>6
<1>7. ASSUME NEW t \in Timers, task = TimerTask(t), timer' = [timer EXCEPT ![t] = "armed"], UNCHANGED vm
      PROVE  Sound' /\ Waits' /\ timer[t] = "queued"
  <2>1. timer[t] = "queued"
    BY <1>2, <1>7 DEF Sound
  <2>2. \A u \in Timers : u # t => timer'[u] = timer[u]
    BY <1>1, <1>7
  <2>3. Sound'
    BY <1>1, <1>2, <1>7, <2>2 DEF Sound
  <2>4. \A v \in VMs : Queued(v)' <=> Queued(v)
    BY <1>3, <1>7, Kinds
  <2>5. Waits'
    BY <1>4, <1>7, <2>4 DEF Waits
  <2> QED
    BY <2>1, <2>3, <2>5
<1>8. /\ \A a : StartTask(a).kind = "start" /\ StartTask(a).of = a
      /\ \A a : ResumeTask(a).kind = "resume" /\ ResumeTask(a).of = a
      /\ \A a : TimerTask(a).kind = "timer" /\ TimerTask(a).of = a
  BY DEF StartTask, ResumeTask, TimerTask
<1>9. \/ \E a \in Tasks : task = StartTask(a)
      \/ \E v \in VMs : task = ResumeTask(v)
      \/ \E t \in Timers : task = TimerTask(t)
  BY <1>2 DEF Task
<1>10. \/ /\ task.kind \in {"start", "resume"}
          /\ vm' = [vm EXCEPT ![task.of] = "running"] /\ cur' = task.of /\ pc' = "exec"
          /\ waitsFor' = [waitsFor EXCEPT ![task.of] = None]
          /\ UNCHANGED <<timer, pendingIoCount>>
       \/ /\ task.kind = "timer"
          /\ timer' = [timer EXCEPT ![task.of] = "armed"] /\ pendingIoCount' = pendingIoCount + 1
          /\ UNCHANGED <<vmVars, pc>>
  BY DEF RunTask, task
<1>11. ASSUME NEW a \in Tasks, task = StartTask(a)
       PROVE  /\ cur' = a /\ vm' = [vm EXCEPT ![a] = "running"] /\ pc' = "exec"
              /\ waitsFor' = [waitsFor EXCEPT ![a] = None] /\ UNCHANGED <<timer, pendingIoCount>>
  BY <1>8, <1>10, <1>11
<1>12. ASSUME NEW a \in VMs, task = ResumeTask(a)
       PROVE  /\ cur' = a /\ vm' = [vm EXCEPT ![a] = "running"] /\ pc' = "exec"
              /\ waitsFor' = [waitsFor EXCEPT ![a] = None] /\ UNCHANGED <<timer, pendingIoCount>>
  BY <1>8, <1>10, <1>12
<1>13. ASSUME NEW t \in Timers, task = TimerTask(t)
       PROVE  /\ timer' = [timer EXCEPT ![t] = "armed"] /\ pendingIoCount' = pendingIoCount + 1
              /\ UNCHANGED <<vmVars, vm, pc>>
  BY <1>8, <1>10, <1>13 DEF vmVars
<1> QED
  BY <1>1, <1>2, <1>5, <1>6, <1>7, <1>9, <1>11, <1>12, <1>13

\* set() on a worker's thread: the VMs that wait for its future go into its hands.
LEMMA Handed ==
  ASSUME TypeOK, Sound, Waits, NEW w \in Workers, NEW o, WorkerSettle(w, o)
  PROVE  /\ Sound' /\ Waits' /\ onReady' \in [Futures -> Seq(VMs)]
         /\ callbacks' \in [Workers -> Seq(VMs)]
<1>1. /\ onReady \in [Futures -> Seq(VMs)] /\ callbacks \in [Workers -> Seq(VMs)] /\ w \in Futures
      /\ wpc \in [Workers -> WorkerStates]
  BY DEF TypeOK, Futures
<1>2. /\ callbacks' = [callbacks EXCEPT ![w] = onReady[w]] /\ onReady' = [onReady EXCEPT ![w] = <<>>]
      /\ wpc' = [wpc EXCEPT ![w] = "callbacks"] /\ wpc[w] = "running"
      /\ UNCHANGED <<taskQueue, vm, timer>>
  BY DEF WorkerSettle, Move, loopVars, vmVars
<1>3. /\ callbacks'[w] = onReady[w] /\ (\A x \in Workers : x # w => callbacks'[x] = callbacks[x])
      /\ onReady'[w] = <<>> /\ (\A f \in Futures : f # w => onReady'[f] = onReady[f])
      /\ wpc'[w] = "callbacks" /\ (\A x \in Workers : x # w => wpc'[x] = wpc[x])
  BY <1>1, <1>2
<1>4. onReady' \in [Futures -> Seq(VMs)] /\ callbacks' \in [Workers -> Seq(VMs)]
  BY <1>1, <1>2, Short
<1>5. Once(<<>>) /\ \A x : ~In(<<>>, x)
  BY Short
<1>6. callbacks[w] = <<>>
  BY <1>2 DEF Sound
<1>7. Sound'
  <2>1. (\A f \in Futures : Once(onReady'[f])) /\ \A x \in Workers : Once(callbacks'[x])
    BY <1>1, <1>3, <1>5 DEF Sound
  <2>2. \A x \in Workers : callbacks'[x] # <<>> => wpc'[x] \in {"callbacks", "cbPushed"}
    BY <1>3 DEF Sound
  <2> QED
    BY <1>2, <2>1, <2>2 DEF Sound
<1>8. \A v \in VMs : /\ Queued(v)' <=> Queued(v)
                     /\ \A f \in Futures : Ready(f, v)' <=> Ready(f, v) /\ f # w
                     /\ \A x \in Workers : Called(x, v)' <=> IF x = w THEN Ready(w, v) ELSE Called(x, v)
  <2>1. \A v \in VMs : Queued(v)' <=> Queued(v)
    BY <1>2 DEF Queued
  <2>2. \A v \in VMs : \A f \in Futures : Ready(f, v)' <=> Ready(f, v) /\ f # w
    BY <1>3, <1>5 DEF Ready
  <2>3. \A v \in VMs : \A x \in Workers : x # w => (Called(x, v)' <=> Called(x, v))
    BY <1>3 DEF Called
  <2>4. \A v \in VMs : Called(w, v)' <=> Ready(w, v)
    BY <1>3 DEF Called, Ready
  <2> QED
    BY <2>1, <2>2, <2>3, <2>4
<1>9. \A v \in VMs : ~Called(w, v)
  BY <1>5, <1>6 DEF Called
<1>10. Waits'
  <2> SUFFICES ASSUME NEW v \in VMs
               PROVE  /\ vm'[v] = "awaiting" <=> \/ Queued(v)' \/ (\E f \in Futures : Ready(f, v)')
                                                 \/ \E x \in Workers : Called(x, v)'
                      /\ \A f \in Futures : Ready(f, v)' =>
                           ~Queued(v)' /\ (\A g \in Futures : Ready(g, v)' => g = f)
                           /\ \A x \in Workers : ~Called(x, v)'
                      /\ \A x \in Workers : Called(x, v)' =>
                           ~Queued(v)' /\ \A y \in Workers : Called(y, v)' => y = x
    BY DEF Waits
  <2>1. /\ vm[v] = "awaiting" <=> \/ Queued(v) \/ (\E f \in Futures : Ready(f, v))
                                  \/ \E x \in Workers : Called(x, v)
        /\ \A f \in Futures : Ready(f, v) =>
             ~Queued(v) /\ (\A g \in Futures : Ready(g, v) => g = f) /\ \A x \in Workers : ~Called(x, v)
        /\ \A x \in Workers : Called(x, v) =>
             ~Queued(v) /\ \A y \in Workers : Called(y, v) => y = x
    BY DEF Waits
  <2>2. (vm'[v] = "awaiting" <=> vm[v] = "awaiting") /\ w \in Futures
    BY <1>1, <1>2
  <2>3. CASE Ready(w, v)
    BY <1>8, <1>9, <2>1, <2>2, <2>3
  <2>4. CASE ~Ready(w, v)
    BY <1>8, <1>9, <2>1, <2>2, <2>4
  <2> QED
    BY <2>3, <2>4
<1> QED
  BY <1>4, <1>7, <1>10

\* A worker calls one of its callbacks: the VM goes from its hands to the queue.
LEMMA CalledBack ==
  ASSUME TypeOK, Sound, Waits, NEW w \in Workers, WorkerCallback(w)
  PROVE  /\ Sound' /\ Waits' /\ taskQueue' \in Seq(Task) /\ callbacks' \in [Workers -> Seq(VMs)]
<1> DEFINE u == Head(callbacks[w])
<1>1. /\ taskQueue \in Seq(Task) /\ callbacks \in [Workers -> Seq(VMs)] /\ Once(taskQueue)
      /\ wpc \in [Workers -> WorkerStates] /\ Once(callbacks[w])
  BY DEF TypeOK, Sound
<1>2. /\ callbacks[w] # <<>> /\ taskQueue' = taskQueue \o <<ResumeTask(u)>>
      /\ callbacks' = [callbacks EXCEPT ![w] = Tail(callbacks[w])]
      /\ wpc' = [wpc EXCEPT ![w] = "cbPushed"] /\ UNCHANGED <<onReady, vm, timer>>
  BY DEF WorkerCallback, PushAll, Move, vmVars
<1>3. /\ u \in VMs /\ Tail(callbacks[w]) \in Seq(VMs) /\ In(callbacks[w], u)
      /\ Once(Tail(callbacks[w]))
      /\ \A x : In(Tail(callbacks[w]), x) <=> In(callbacks[w], x) /\ x # u
  BY <1>1, <1>2, Rest
<1> HIDE DEF u
<1>4. /\ callbacks'[w] = Tail(callbacks[w]) /\ (\A x \in Workers : x # w => callbacks'[x] = callbacks[x])
      /\ wpc'[w] = "cbPushed" /\ (\A x \in Workers : x # w => wpc'[x] = wpc[x])
      /\ callbacks' \in [Workers -> Seq(VMs)]
  BY <1>1, <1>2, <1>3
<1>5. /\ vm[u] = "awaiting" /\ ~Queued(u) /\ (\A f \in Futures : ~Ready(f, u))
      /\ \A x \in Workers : Called(x, u) => x = w
  <2>1. Called(w, u)
    BY <1>3 DEF Called
  <2> QED
    BY <1>3, <2>1 DEF Waits
<1>6. <<ResumeTask(u)>> \in Seq(Task) /\ Once(<<ResumeTask(u)>>)
      /\ \A y : In(<<ResumeTask(u)>>, y) <=> y = ResumeTask(u)
  BY <1>3, Kinds, Short
<1>7. /\ taskQueue' \in Seq(Task) /\ Once(taskQueue')
      /\ \A y : In(taskQueue', y) <=> In(taskQueue, y) \/ y = ResumeTask(u)
  <2>1. /\ taskQueue \o <<ResumeTask(u)>> \in Seq(Task)
        /\ \A y : In(taskQueue \o <<ResumeTask(u)>>, y)
                    <=> In(taskQueue, y) \/ In(<<ResumeTask(u)>>, y)
        /\ Once(taskQueue) /\ Once(<<ResumeTask(u)>>)
           /\ (\A y : ~(In(taskQueue, y) /\ In(<<ResumeTask(u)>>, y)))
             => Once(taskQueue \o <<ResumeTask(u)>>)
    BY <1>1, <1>6, Joined
  <2> QED
    BY <1>1, <1>2, <1>5, <1>6, <2>1 DEF Queued
<1>8. Sound'
  <2>1. \A a \in Tasks : In(taskQueue', StartTask(a)) => In(taskQueue, StartTask(a))
    BY <1>7, Kinds
  <2>2. \A t \in Timers : In(taskQueue', TimerTask(t)) => In(taskQueue, TimerTask(t))
    BY <1>7, Kinds
  <2>3. /\ \A x \in Workers : Once(callbacks'[x])
        /\ \A x \in Workers : callbacks'[x] # <<>> => wpc'[x] \in {"callbacks", "cbPushed"}
    BY <1>3, <1>4 DEF Sound
  <2> QED
    BY <1>2, <1>7, <2>1, <2>2, <2>3 DEF Sound
<1>9. \A v \in VMs : /\ Queued(v)' <=> Queued(v) \/ v = u
                     /\ \A f \in Futures : Ready(f, v)' <=> Ready(f, v)
                     /\ \A x \in Workers : Called(x, v)' <=> Called(x, v) /\ ~(x = w /\ v = u)
  <2>1. \A v \in VMs : Queued(v)' <=> Queued(v) \/ v = u
    BY <1>7, Kinds DEF Queued
  <2>2. \A v \in VMs : \A f \in Futures : Ready(f, v)' <=> Ready(f, v)
    BY <1>2 DEF Ready
  <2>3. \A v \in VMs : \A x \in Workers : Called(x, v)' <=> Called(x, v) /\ ~(x = w /\ v = u)
    BY <1>3, <1>4 DEF Called
  <2> QED
    BY <2>1, <2>2, <2>3
<1>10. Waits'
  BY <1>2, <1>3, <1>5, <1>9 DEF Waits
<1> QED
  BY <1>4, <1>7, <1>8, <1>10

-----------------------------------------------------------------------------
(* Every step keeps the types.  The queues' are kept by the lemmas above,  *)
(* the reference count's by RetainsBalanced.                               *)

Locals ==
  /\ fut \in [Futures -> {"pending", "cancelled"} \cup Outcomes]
  /\ asyncSent \in BOOLEAN /\ stopFlag \in BOOLEAN /\ inUv \in BOOLEAN /\ hasTasks \in BOOLEAN
  /\ pushedAfterLook \in BOOLEAN /\ pc \in LoopStates
  /\ cur \in VMs \cup {None} /\ vm \in [VMs -> VMStates]
  /\ waitsFor \in [VMs -> Futures \cup {None}] /\ timer \in [Timers -> TimerStates]
  /\ wpc \in [Workers -> WorkerStates] /\ daemons \subseteq Workers
  /\ blockedOn \in [Workers -> Timers \cup {None}]

\* pushTask() leaves a flag a flag; settling a future leaves it an outcome.
LEMMA PushTypes ==
  ASSUME TypeOK
  PROVE  /\ \A ts : PushAll(ts) => pushedAfterLook' \in BOOLEAN
         /\ \A f \in Futures, o \in {"cancelled"} \cup Outcomes : SettleHere(f, o) =>
              /\ fut' \in [Futures -> {"pending", "cancelled"} \cup Outcomes]
              /\ asyncSent' \in BOOLEAN /\ pushedAfterLook' \in BOOLEAN
<1>1. \A ts : PushAll(ts) => pushedAfterLook' \in BOOLEAN
  BY DEF PushAll
<1>2. ASSUME NEW f \in Futures, NEW o \in {"cancelled"} \cup Outcomes, SettleHere(f, o)
      PROVE  /\ fut' \in [Futures -> {"pending", "cancelled"} \cup Outcomes]
             /\ asyncSent' \in BOOLEAN /\ pushedAfterLook' \in BOOLEAN
  <2>1. fut \in [Futures -> {"pending", "cancelled"} \cup Outcomes]
    BY DEF TypeOK
  <2>2. fut' \in [Futures -> {"pending", "cancelled"} \cup Outcomes]
    BY <1>2, <2>1 DEF SettleHere
  <2>3. asyncSent' \in BOOLEAN
    BY <1>2 DEF SettleHere
  <2> QED
    BY <1>1, <1>2, <2>2, <2>3 DEF SettleHere
<1> QED
  BY <1>1, <1>2

\* What the script on the loop thread does keeps the types.
LEMMA ScriptTypes ==
  ASSUME TypeOK, Running, Script
  PROVE  Locals'
<1> USE DEF TypeOK, Locals, loopVars, vmVars
<1>0. Tasks \subseteq VMs /\ Tasks \subseteq Futures /\ Timers \subseteq Futures /\ MainVM \in VMs
  BY DEF VMs, Futures
<1>1. ASSUME NEW a \in Tasks, CallAsync(a)
      PROVE  Locals'
  BY <1>0, <1>1, PushTypes DEF CallAsync, VMStates
<1>2. ASSUME NEW t \in Timers, WaitAsync(t)
      PROVE  Locals'
  BY <1>2, PushTypes DEF WaitAsync, TimerStates
<1>3. ASSUME NEW t \in Timers, WaitAsyncZero(t)
      PROVE  Locals'
  BY <1>0, <1>3 DEF WaitAsyncZero, TimerStates, Outcomes
<1>4. ASSUME NEW w \in Workers, NEW isDaemon \in BOOLEAN, SpawnWorker(w, isDaemon)
      PROVE  Locals'
  BY <1>4 DEF SpawnWorker, WorkerStates
<1>5. ASSUME NEW f \in Futures, AwaitNotReady(f)
      PROVE  Locals'
  BY <1>5 DEF AwaitNotReady, Running, LoopStates
<1>6. ASSUME NEW f \in Futures, Cancel(f)
      PROVE  Locals'
  BY <1>6, PushTypes DEF Cancel
<1>7. ASSUME NEW f \in Futures, Sync(f)
      PROVE  Locals'
  BY <1>7 DEF Sync, Running, LoopStates
<1>8. ASSUME AwaitThen
      PROVE  Locals'
  <2>1. cur \in VMs
    BY <1>8 DEF AwaitThen, Running
  <2>2. pushedAfterLook' \in BOOLEAN /\ asyncSent' \in BOOLEAN
    BY <1>8, PushTypes DEF AwaitThen
  <2> QED
    BY <1>8, <2>1, <2>2 DEF AwaitThen, LoopStates, VMStates
<1>9. ASSUME SyncReturn
      PROVE  Locals'
  BY <1>9 DEF SyncReturn, Running, LoopStates
<1>10. ASSUME NEW o \in Outcomes, FinishVM(o)
       PROVE  Locals'
  <2>1. cur \in VMs
    BY <1>10 DEF FinishVM, Running
  <2>2. /\ fut' \in [Futures -> {"pending", "cancelled"} \cup Outcomes]
        /\ asyncSent' \in BOOLEAN /\ pushedAfterLook' \in BOOLEAN
    BY <1>0, <1>10, PushTypes DEF FinishVM
  <2> QED
    BY <1>10, <2>1, <2>2 DEF FinishVM, LoopStates, VMStates
<1>11. ASSUME MainFails
       PROVE  Locals'
  BY <1>11 DEF MainFails, LoopStates
<1> QED
  BY <1>1, <1>2, <1>3, <1>4, <1>5, <1>6, <1>7, <1>8, <1>9, <1>10, <1>11 DEF Script

\* What run(), asyncCallback and libuv do keeps the types.
LEMMA LoopTypes ==
  ASSUME TypeOK, Sound, Waits, Loop
  PROVE  Locals'
<1> USE DEF TypeOK, Locals, vmVars
<1>1. ASSUME RunTask
      PROVE  Locals'
  <2>1. \/ /\ cur' \in VMs /\ vm' = [vm EXCEPT ![cur'] = "running"] /\ pc' = "exec"
           /\ waitsFor' = [waitsFor EXCEPT ![cur'] = None]
           /\ UNCHANGED timer
        \/ \E t \in Timers : /\ timer[t] = "queued" /\ timer' = [timer EXCEPT ![t] = "armed"]
                             /\ UNCHANGED <<vmVars, pc>>
    BY <1>1, Taken
  <2>2. UNCHANGED <<fut, asyncSent, stopFlag, inUv, hasTasks, wpc, pushedAfterLook, daemons, blockedOn>>
    BY <1>1 DEF RunTask
  <2> QED
    BY <2>1, <2>2 DEF LoopStates, VMStates, TimerStates
<1>2. ASSUME QueueDrained
      PROVE  Locals'
  BY <1>2 DEF QueueDrained, LoopStates
<1>3. ASSUME LookAtQueue
      PROVE  Locals'
  BY <1>3 DEF LookAtQueue, LoopStates
<1>4. ASSUME DecideStop
      PROVE  Locals'
  BY <1>4 DEF DecideStop, LoopStates
<1>5. ASSUME DecideExit
      PROVE  Locals'
  BY <1>5 DEF DecideExit, LoopStates
<1>6. ASSUME UvReturn \/ UvAsync
      PROVE  Locals'
  BY <1>6 DEF UvReturn, UvAsync, LoopStates
<1>7. ASSUME NEW t \in Timers, UvTimer(t)
      PROVE  Locals'
  <2>1. t \in Futures /\ "value" \in Outcomes
    BY DEF Futures, Outcomes
  <2>2. /\ fut' \in [Futures -> {"pending", "cancelled"} \cup Outcomes]
        /\ asyncSent' \in BOOLEAN /\ pushedAfterLook' \in BOOLEAN
    BY <1>7, <2>1, PushTypes DEF UvTimer
  <2> QED
    BY <1>7, <2>2 DEF UvTimer, TimerStates
<1>8. ASSUME NEW t \in Timers, UvClose(t)
      PROVE  Locals'
  BY <1>8 DEF UvClose, TimerStates
<1> QED
  BY <1>1, <1>2, <1>3, <1>4, <1>5, <1>6, <1>7, <1>8 DEF Loop

\* What a worker's thread does keeps the types.
LEMMA WorkerTypes ==
  ASSUME TypeOK, NEW w \in Workers, Worker(w)
  PROVE  Locals'
<1> USE DEF TypeOK, Locals, loopVars, vmVars, Move, WorkerStates
<1>0. w \in Futures
  BY DEF Futures
<1>1. ASSUME NEW t \in Timers, WorkerWaitAsync(w, t)
      PROVE  Locals'
  BY <1>1, PushTypes DEF WorkerWaitAsync, TimerStates
<1>2. ASSUME NEW t \in Timers, WorkerAwait(w, t)
      PROVE  Locals'
  BY <1>2 DEF WorkerAwait
<1>3. ASSUME WorkerAwoken(w)
      PROVE  Locals'
  BY <1>3 DEF WorkerAwoken
<1>4. ASSUME WorkerSend(w)
      PROVE  Locals'
  <2>1. \E l \in WorkerStates : wpc' = [wpc EXCEPT ![w] = l]
    BY <1>4 DEF WorkerSend
  <2> QED
    BY <1>4, <2>1 DEF WorkerSend
<1>5. ASSUME NEW o \in Outcomes, WorkerSettle(w, o)
      PROVE  Locals'
  BY <1>0, <1>5 DEF WorkerSettle
<1>6. ASSUME WorkerCallback(w)
      PROVE  Locals'
  BY <1>6, PushTypes DEF WorkerCallback
<1>7. ASSUME WorkerRelease(w)
      PROVE  Locals'
  BY <1>7 DEF WorkerRelease
<1> QED
  BY <1>1, <1>2, <1>3, <1>4, <1>5, <1>6, <1>7 DEF Worker

-----------------------------------------------------------------------------
(* Every step keeps the places.                                            *)

Places ==
  /\ Sound /\ Waits /\ taskQueue \in Seq(Task)
  /\ onReady \in [Futures -> Seq(VMs)] /\ callbacks \in [Workers -> Seq(VMs)]

\* What the script on the loop thread does to the places of the VMs.
LEMMA ScriptPlaces ==
  ASSUME TypeOK, Running, Sound, Waits, Script
  PROVE  Places'
<1> USE DEF Places
<1>0. /\ taskQueue \in Seq(Task) /\ onReady \in [Futures -> Seq(VMs)]
      /\ callbacks \in [Workers -> Seq(VMs)] /\ vm \in [VMs -> VMStates]
      /\ timer \in [Timers -> TimerStates] /\ wpc \in [Workers -> WorkerStates]
      /\ Tasks \subseteq VMs
  BY DEF TypeOK, VMs
<1>1. ASSUME NEW a \in Tasks, CallAsync(a)
      PROVE  Places'
  <2>1. /\ vm[a] = "none" /\ vm' = [vm EXCEPT ![a] = "queued"]
        /\ taskQueue' = taskQueue \o <<StartTask(a)>> /\ UNCHANGED <<onReady, callbacks, wpc, timer>>
    BY <1>1 DEF CallAsync, PushAll
  <2>2. vm'[a] = "queued" /\ \A v \in VMs : v # a => vm'[v] = vm[v]
    BY <1>0, <2>1
  <2>3. Quiet
    BY <2>1, <2>2 DEF Quiet, Sound
  <2>4. ~In(taskQueue, StartTask(a)) /\ \A v \in VMs : StartTask(a) # ResumeTask(v)
    BY <2>1, Kinds DEF Sound
  <2>5. /\ \A b \in Tasks : StartTask(a) = StartTask(b) => vm'[b] = "queued"
        /\ \A t \in Timers : StartTask(a) = TimerTask(t) => timer'[t] = "queued"
    BY <2>2, Kinds
  <2>6. StartTask(a) \in Task
    BY Kinds
  <2> QED
    BY <1>0, <2>1, <2>3, <2>4, <2>5, <2>6, Asked
<1>2. ASSUME NEW t \in Timers, WaitAsync(t)
      PROVE  Places'
  <2>1. /\ timer[t] = "none" /\ timer' = [timer EXCEPT ![t] = "queued"]
        /\ taskQueue' = taskQueue \o <<TimerTask(t)>> /\ UNCHANGED <<onReady, callbacks, wpc, vm>>
    BY <1>2 DEF WaitAsync, PushAll, vmVars
  <2>2. timer'[t] = "queued" /\ \A u \in Timers : u # t => timer'[u] = timer[u]
    BY <1>0, <2>1
  <2>3. Quiet
    BY <2>1, <2>2 DEF Quiet, Sound
  <2>4. ~In(taskQueue, TimerTask(t)) /\ \A v \in VMs : TimerTask(t) # ResumeTask(v)
    BY <2>1, Kinds DEF Sound
  <2>5. /\ \A b \in Tasks : TimerTask(t) = StartTask(b) => vm'[b] = "queued"
        /\ \A u \in Timers : TimerTask(t) = TimerTask(u) => timer'[u] = "queued"
    BY <2>2, Kinds
  <2>6. TimerTask(t) \in Task
    BY Kinds
  <2> QED
    BY <1>0, <2>1, <2>3, <2>4, <2>5, <2>6, Asked
<1>3. ASSUME NEW t \in Timers, WaitAsyncZero(t)
      PROVE  Places'
  <2>1. /\ timer[t] = "none" /\ timer' = [timer EXCEPT ![t] = "closed"]
        /\ UNCHANGED <<taskQueue, onReady, callbacks, wpc, vm>>
    BY <1>3 DEF WaitAsyncZero, loopVars, vmVars
  <2>2. Quiet
    BY <1>0, <2>1 DEF Quiet, Sound
  <2> QED
    BY <1>0, <2>1, <2>2, Stay
<1>4. ASSUME NEW w \in Workers, NEW isDaemon \in BOOLEAN, SpawnWorker(w, isDaemon)
      PROVE  Places'
  <2>1. /\ wpc[w] = "none" /\ wpc' = [wpc EXCEPT ![w] = "running"]
        /\ UNCHANGED <<taskQueue, onReady, callbacks, timer, vm>>
    BY <1>4 DEF SpawnWorker, vmVars
  <2>2. Quiet
    BY <1>0, <2>1 DEF Quiet, Sound
  <2> QED
    BY <1>0, <2>1, <2>2, Stay
<1>5. ASSUME NEW f \in Futures, AwaitNotReady(f) \/ Sync(f)
      PROVE  Places'
  <2>1. UNCHANGED <<taskQueue, onReady, callbacks, timer, vm, wpc>>
    BY <1>5 DEF AwaitNotReady, Sync
  <2>2. Quiet
    BY <2>1 DEF Quiet, Sound
  <2> QED
    BY <1>0, <2>1, <2>2, Stay
<1>6. ASSUME NEW f \in Futures, Cancel(f)
      PROVE  Places'
  <2>1. SettleHere(f, "cancelled") /\ UNCHANGED <<callbacks, timer, vm, wpc>>
    BY <1>6 DEF Cancel, vmVars
  <2>2. Quiet
    BY <2>1 DEF Quiet, Sound
  <2> QED
    BY <1>0, <2>1, <2>2, SettledHere
<1>7. ASSUME AwaitThen
      PROVE  Places'
  <2>1. UNCHANGED callbacks
    BY <1>7 DEF AwaitThen
  <2> QED
    BY <1>0, <1>7, <2>1, Yielded
<1>8. ASSUME SyncReturn \/ MainFails
      PROVE  Places'
  <2>1. UNCHANGED <<taskQueue, onReady, callbacks, timer, vm, wpc>>
    BY <1>8 DEF SyncReturn, MainFails, vmVars
  <2>2. Quiet
    BY <2>1 DEF Quiet, Sound
  <2> QED
    BY <1>0, <2>1, <2>2, Stay
<1>9. ASSUME NEW o \in Outcomes, FinishVM(o)
      PROVE  Places'
  <2>1. cur \in VMs /\ vm[cur] \in {"main", "running"}
    BY <1>9 DEF FinishVM, Running
  <2>2. vm' = [vm EXCEPT ![cur] = "done"] /\ UNCHANGED <<callbacks, wpc, timer>>
    BY <1>9 DEF FinishVM
  <2>3. vm'[cur] = "done" /\ \A v \in VMs : v # cur => vm'[v] = vm[v]
    BY <1>0, <2>1, <2>2
  <2>4. Quiet
    BY <1>0, <2>1, <2>2, <2>3 DEF Quiet, Sound
  <2>5. CASE cur \in Tasks /\ SettleHere(cur, o)
    <3>1. cur \in Futures
      BY <2>5 DEF Futures
    <3> QED
      BY <1>0, <2>2, <2>4, <2>5, <3>1, SettledHere
  <2>6. CASE UNCHANGED <<taskQueue, onReady>>
    BY <1>0, <2>2, <2>4, <2>6, Stay
  <2> QED
    BY <1>9, <2>5, <2>6 DEF FinishVM
<1> QED
  BY <1>1, <1>2, <1>3, <1>4, <1>5, <1>6, <1>7, <1>8, <1>9 DEF Script

\* What run(), asyncCallback and libuv do to the places of the VMs.
LEMMA LoopPlaces ==
  ASSUME TypeOK, Sound, Waits, Loop
  PROVE  Places'
<1> USE DEF Places
<1>0. /\ taskQueue \in Seq(Task) /\ onReady \in [Futures -> Seq(VMs)]
      /\ callbacks \in [Workers -> Seq(VMs)] /\ timer \in [Timers -> TimerStates]
  BY DEF TypeOK
<1>1. ASSUME RunTask
      PROVE  Places'
  <2>1. UNCHANGED <<onReady, callbacks>>
    BY <1>1 DEF RunTask
  <2> QED
    BY <1>0, <1>1, <2>1, Taken
<1>2. ASSUME QueueDrained \/ LookAtQueue \/ DecideStop \/ DecideExit \/ UvReturn \/ UvAsync
      PROVE  Places'
  <2>1. UNCHANGED <<taskQueue, onReady, callbacks, timer, vm, wpc>>
    BY <1>2 DEF QueueDrained, LookAtQueue, DecideStop, DecideExit, UvReturn, UvAsync, vmVars
  <2>2. Quiet
    BY <2>1 DEF Quiet, Sound
  <2> QED
    BY <1>0, <2>1, <2>2, Stay
<1>3. ASSUME NEW t \in Timers, UvTimer(t)
      PROVE  Places'
  <2>1. /\ timer[t] = "armed" /\ timer' = [timer EXCEPT ![t] = "closing"]
        /\ SettleHere(t, "value") /\ UNCHANGED <<callbacks, vm, wpc>>
    BY <1>3 DEF UvTimer, vmVars
  <2>2. Quiet
    BY <1>0, <2>1 DEF Quiet, Sound
  <2>3. t \in Futures
    BY DEF Futures
  <2> QED
    BY <1>0, <2>1, <2>2, <2>3, SettledHere
<1>4. ASSUME NEW t \in Timers, UvClose(t)
      PROVE  Places'
  <2>1. /\ timer[t] = "closing" /\ timer' = [timer EXCEPT ![t] = "closed"]
        /\ UNCHANGED <<taskQueue, onReady, callbacks, vm, wpc>>
    BY <1>4 DEF UvClose, vmVars
  <2>2. Quiet
    BY <1>0, <2>1 DEF Quiet, Sound
  <2> QED
    BY <1>0, <2>1, <2>2, Stay
<1> QED
  BY <1>1, <1>2, <1>3, <1>4 DEF Loop

\* What a worker's thread does to the places of the VMs.
LEMMA WorkerPlaces ==
  ASSUME TypeOK, Sound, Waits, NEW w \in Workers, Worker(w)
  PROVE  Places'
<1> USE DEF Places
<1>0. /\ taskQueue \in Seq(Task) /\ onReady \in [Futures -> Seq(VMs)]
      /\ callbacks \in [Workers -> Seq(VMs)] /\ timer \in [Timers -> TimerStates]
      /\ wpc \in [Workers -> WorkerStates]
  BY DEF TypeOK
<1>1. ASSUME NEW t \in Timers, WorkerWaitAsync(w, t)
      PROVE  Places'
  <2>1. /\ timer[t] = "none" /\ timer' = [timer EXCEPT ![t] = "queued"]
        /\ wpc[w] = "running" /\ wpc' = [wpc EXCEPT ![w] = "pushed"]
        /\ taskQueue' = taskQueue \o <<TimerTask(t)>> /\ UNCHANGED <<onReady, callbacks, vm>>
    BY <1>1 DEF WorkerWaitAsync, PushAll, Move, vmVars
  <2>2. timer'[t] = "queued" /\ \A u \in Timers : u # t => timer'[u] = timer[u]
    BY <1>0, <2>1
  <2>3. Quiet
    BY <1>0, <2>1, <2>2 DEF Quiet, Sound
  <2>4. ~In(taskQueue, TimerTask(t)) /\ \A v \in VMs : TimerTask(t) # ResumeTask(v)
    BY <2>1, Kinds DEF Sound
  <2>5. /\ \A b \in Tasks : TimerTask(t) = StartTask(b) => vm'[b] = "queued"
        /\ \A u \in Timers : TimerTask(t) = TimerTask(u) => timer'[u] = "queued"
    BY <2>2, Kinds
  <2>6. TimerTask(t) \in Task
    BY Kinds
  <2> QED
    BY <1>0, <2>1, <2>3, <2>4, <2>5, <2>6, Asked
<1>2. ASSUME NEW l \in WorkerStates, wpc' = [wpc EXCEPT ![w] = l],
             wpc[w] \in {"callbacks", "cbPushed"} =>
               l \in {"callbacks", "cbPushed"} \/ callbacks[w] = <<>>,
             UNCHANGED <<taskQueue, onReady, callbacks, timer, vm>>
      PROVE  Places'
  <2>1. Quiet
    BY <1>0, <1>2 DEF Quiet, Sound
  <2> QED
    BY <1>0, <1>2, <2>1, Stay
<1>3. ASSUME NEW t \in Timers, WorkerAwait(w, t)
      PROVE  Places'
  BY <1>2, <1>3 DEF WorkerAwait, Move, loopVars, vmVars, WorkerStates
<1>4. ASSUME WorkerAwoken(w)
      PROVE  Places'
  BY <1>2, <1>4 DEF WorkerAwoken, Move, loopVars, vmVars, WorkerStates
<1>5. ASSUME WorkerSend(w)
      PROVE  Places'
  <2>1. \E l \in WorkerStates : /\ wpc' = [wpc EXCEPT ![w] = l]
                                /\ wpc[w] \in {"callbacks", "cbPushed"} => l \in {"callbacks", "cbPushed"}
    BY <1>5 DEF WorkerSend, Move, WorkerStates
  <2> QED
    BY <1>2, <1>5, <2>1 DEF WorkerSend, vmVars
<1>6. ASSUME NEW o \in Outcomes, WorkerSettle(w, o)
      PROVE  Places'
  <2>1. UNCHANGED taskQueue
    BY <1>6 DEF WorkerSettle, loopVars
  <2> QED
    BY <1>0, <1>6, <2>1, Handed
<1>7. ASSUME WorkerCallback(w)
      PROVE  Places'
  <2>1. UNCHANGED onReady
    BY <1>7 DEF WorkerCallback
  <2> QED
    BY <1>0, <1>7, <2>1, CalledBack
<1>8. ASSUME WorkerRelease(w)
      PROVE  Places'
  <2>1. \E l \in {"released", "done"} : wpc' = [wpc EXCEPT ![w] = l]
    BY <1>8 DEF WorkerRelease, Move
  <2> QED
    BY <1>2, <1>8, <2>1 DEF WorkerRelease, vmVars, WorkerStates
<1> QED
  BY <1>1, <1>3, <1>4, <1>5, <1>6, <1>7, <1>8 DEF Worker

-----------------------------------------------------------------------------
\* Every step leaves the loop thread with a VM of its own to execute.
LEMMA RunningStep ==
  ASSUME TypeOK, Running, Sound, Waits, Next
  PROVE  Running'
<1>0. vm \in [VMs -> VMStates] /\ waitsFor \in [VMs -> Futures \cup {None}] /\ Tasks \subseteq VMs
  BY DEF TypeOK, VMs
<1>1. ASSUME UNCHANGED <<pc, cur, vm, waitsFor>>
      PROVE  Running'
  BY <1>1 DEF Running
<1>2. ASSUME NEW a \in Tasks, CallAsync(a)
      PROVE  Running'
  BY <1>0, <1>2 DEF Running, CallAsync
<1>3. ASSUME NEW t \in Timers, WaitAsync(t) \/ WaitAsyncZero(t)
      PROVE  Running'
  BY <1>1, <1>3 DEF WaitAsync, WaitAsyncZero, loopVars, vmVars
<1>4. ASSUME NEW w \in Workers, NEW isDaemon \in BOOLEAN, SpawnWorker(w, isDaemon)
      PROVE  Running'
  BY <1>1, <1>4 DEF SpawnWorker, vmVars
<1>5. ASSUME NEW f \in Futures, AwaitNotReady(f) \/ Sync(f)
      PROVE  Running'
  BY <1>0, <1>5 DEF Running, AwaitNotReady, Sync
<1>6. ASSUME NEW f \in Futures, Cancel(f)
      PROVE  Running'
  BY <1>1, <1>6 DEF Cancel, vmVars
<1>7. ASSUME AwaitThen \/ MainFails \/ \E o \in Outcomes : FinishVM(o)
      PROVE  Running'
  BY <1>7 DEF Running, AwaitThen, MainFails, FinishVM
<1>8. ASSUME SyncReturn
      PROVE  Running'
  BY <1>8 DEF Running, SyncReturn
<1>9. ASSUME RunTask
      PROVE  Running'
  <2>1. pc = "drain"
    BY <1>9 DEF RunTask
  <2>2. \/ cur' \in VMs /\ vm' = [vm EXCEPT ![cur'] = "running"] /\ pc' = "exec"
        \/ UNCHANGED pc
    BY <1>9, Taken
  <2> QED
    BY <1>0, <2>1, <2>2 DEF Running
<1>10. ASSUME QueueDrained \/ LookAtQueue \/ DecideStop \/ DecideExit \/ UvReturn \/ UvAsync
       PROVE  Running'
  BY <1>10 DEF Running, QueueDrained, LookAtQueue, DecideStop, DecideExit, UvReturn, UvAsync
<1>11. ASSUME NEW t \in Timers, UvTimer(t) \/ UvClose(t)
       PROVE  Running'
  BY <1>1, <1>11 DEF UvTimer, UvClose, vmVars
<1>12. ASSUME NEW w \in Workers, Worker(w)
       PROVE  Running'
  BY <1>1, <1>12 DEF Worker, WorkerWaitAsync, WorkerAwait, WorkerAwoken, WorkerSend, WorkerSettle,
       WorkerCallback, WorkerRelease, loopVars, vmVars
<1> QED
  BY <1>2, <1>3, <1>4, <1>5, <1>6, <1>7, <1>8, <1>9, <1>10, <1>11, <1>12 DEF Next, Script, Loop

\* A step settles a future that is pending, or leaves it as it is; one that settles
\* a timer's future is about a timer that was asked for.
LEMMA Settles ==
  ASSUME TypeOK, Running, Unasked, Next
  PROVE  /\ \A f \in Futures : Settled(f) => fut'[f] = fut[f]
         /\ \A t \in Timers : timer[t] = "none" /\ timer'[t] = "none" => fut'[t] = fut[t]
<1> DEFINE Kept == /\ \A f \in Futures : Settled(f) => fut'[f] = fut[f]
                   /\ \A t \in Timers : timer[t] = "none" /\ timer'[t] = "none" => fut'[t] = fut[t]
<1>0. fut \in [Futures -> {"pending", "cancelled"} \cup Outcomes] /\ timer \in [Timers -> TimerStates]
      /\ Timers \subseteq Futures /\ Tasks \subseteq Futures /\ Workers \subseteq Futures
  BY DEF TypeOK, Futures
<1>1. ASSUME UNCHANGED fut
      PROVE  Kept
  BY <1>1
<1>2. ASSUME NEW f \in Futures, NEW o, fut' = [fut EXCEPT ![f] = IF @ = "pending" THEN o ELSE @],
             f \in Timers => timer[f] # "none"
      PROVE  Kept
  BY <1>0, <1>2 DEF Settled
<1>3. ASSUME NEW t \in Timers, WaitAsyncZero(t)
      PROVE  Kept
  BY <1>0, <1>3 DEF WaitAsyncZero, Unasked, Settled
<1>4. ASSUME NEW f \in Futures, Cancel(f)
      PROVE  Kept
  <2>1. f \in Timers => timer[f] # "none"
    BY <1>4, NamesAssumption DEF Cancel, Created
  <2> QED
    BY <1>2, <1>4, <2>1 DEF Cancel, SettleHere
<1>5. ASSUME NEW o \in Outcomes, FinishVM(o)
      PROVE  Kept
  <2>1. cur \in Tasks => cur \in Futures /\ cur \notin Timers
    BY <1>0, NamesAssumption
  <2> QED
    BY <1>1, <1>2, <1>5, <2>1 DEF FinishVM, SettleHere
<1>6. ASSUME NEW t \in Timers, UvTimer(t)
      PROVE  Kept
  BY <1>0, <1>2, <1>6 DEF UvTimer, SettleHere
<1>7. ASSUME NEW w \in Workers, NEW o \in Outcomes, WorkerSettle(w, o)
      PROVE  Kept
  <2>1. w \in Futures /\ w \notin Timers
    BY <1>0, NamesAssumption
  <2> QED
    BY <1>2, <1>7, <2>1 DEF WorkerSettle
<1>8. ASSUME NEW a \in Tasks, CallAsync(a)
      PROVE  Kept
  BY <1>1, <1>8 DEF CallAsync
<1>9. ASSUME NEW t \in Timers, WaitAsync(t) \/ UvClose(t)
      PROVE  Kept
  BY <1>1, <1>9 DEF WaitAsync, UvClose
<1>10. ASSUME NEW w \in Workers, NEW isDaemon \in BOOLEAN, SpawnWorker(w, isDaemon)
       PROVE  Kept
  BY <1>1, <1>10 DEF SpawnWorker
<1>11. ASSUME NEW f \in Futures, AwaitNotReady(f) \/ Sync(f)
       PROVE  Kept
  BY <1>1, <1>11 DEF AwaitNotReady, Sync
<1>12. ASSUME AwaitThen \/ SyncReturn \/ MainFails
       PROVE  Kept
  BY <1>1, <1>12 DEF AwaitThen, SyncReturn, MainFails
<1>13. ASSUME RunTask \/ QueueDrained \/ LookAtQueue \/ DecideStop \/ DecideExit \/ UvReturn \/ UvAsync
       PROVE  Kept
  BY <1>1, <1>13 DEF RunTask, QueueDrained, LookAtQueue, DecideStop, DecideExit, UvReturn, UvAsync
<1>14. ASSUME NEW w \in Workers, Worker(w)
       PROVE  Kept
  BY <1>1, <1>7, <1>14 DEF Worker, WorkerWaitAsync, WorkerAwait, WorkerAwoken, WorkerSend,
       WorkerCallback, WorkerRelease
<1> QED
  BY <1>3, <1>4, <1>5, <1>6, <1>8, <1>9, <1>10, <1>11, <1>12, <1>13, <1>14 DEF Next, Script, Loop

\* A timer that is not asked for yet was not asked for before the step either.
LEMMA UnaskedStep ==
  ASSUME TypeOK, Running, Sound, Waits, Unasked, Next
  PROVE  Unasked'
<1>0. timer \in [Timers -> TimerStates]
  BY DEF TypeOK
<1>1. ASSUME NEW t \in Timers, timer'[t] = "none"
      PROVE  timer[t] = "none"
  <2>1. CASE UNCHANGED timer
    BY <1>1, <2>1
  <2>2. ASSUME NEW u \in Timers, NEW s \in TimerStates \ {"none"}, timer' = [timer EXCEPT ![u] = s]
        PROVE  timer[t] = "none"
    BY <1>0, <1>1, <2>2
  <2>3. ASSUME RunTask
        PROVE  UNCHANGED timer \/ \E u \in Timers : timer' = [timer EXCEPT ![u] = "armed"]
    BY <2>3, Taken
  <2>4. \/ UNCHANGED timer
        \/ \E u \in Timers, s \in TimerStates \ {"none"} : timer' = [timer EXCEPT ![u] = s]
    <3> USE DEF loopVars, vmVars, TimerStates
    <3>1. CASE Script
      BY <3>1 DEF Script, CallAsync, WaitAsync, WaitAsyncZero, SpawnWorker, AwaitNotReady, Cancel, Sync,
           AwaitThen, SyncReturn, FinishVM, MainFails
    <3>2. CASE Loop
      BY <2>3, <3>2 DEF Loop, QueueDrained, LookAtQueue, DecideStop, DecideExit, UvReturn,
           UvAsync, UvTimer, UvClose
    <3>3. ASSUME NEW w \in Workers, Worker(w)
          PROVE  \/ UNCHANGED timer
                 \/ \E u \in Timers, s \in TimerStates \ {"none"} : timer' = [timer EXCEPT ![u] = s]
      BY <3>3 DEF Worker, WorkerWaitAsync, WorkerAwait, WorkerAwoken, WorkerSend, WorkerSettle,
           WorkerCallback, WorkerRelease
    <3> QED
      BY <3>1, <3>2, <3>3 DEF Next
  <2> QED
    BY <2>1, <2>2, <2>4
<1>2. \A t \in Timers : timer[t] = "none" /\ timer'[t] = "none" => fut'[t] = fut[t]
  BY Settles
<1> QED
  BY <1>1, <1>2 DEF Unasked

\* Once run() has decided to return, only the workers' threads take steps, and
\* those retain nothing.
LEMMA IdleStep ==
  ASSUME TypeOK, Idle, Next
  PROVE  Idle'
<1>0. hasTasks \in BOOLEAN /\ pushedAfterLook \in BOOLEAN /\ pc \in LoopStates
  BY DEF TypeOK
<1>1. ASSUME UNCHANGED <<pc, hasTasks, taskQueue, pendingIoCount, pushedAfterLook>>
      PROVE  Idle'
  BY <1>1 DEF Idle
<1>2. ASSUME pc' \notin {"exit?", "exited"}
      PROVE  Idle'
  BY <1>2 DEF Idle
<1>3. CASE Script
  <2>1. CASE pc \in {"exec", "then", "sync"} /\ pc' \notin {"exit?", "exited"}
    BY <1>2, <2>1
  <2>2. ASSUME NEW t \in Timers, WaitAsyncZero(t)
        PROVE  Idle'
    BY <1>1, <2>2 DEF WaitAsyncZero, loopVars
  <2>3. ASSUME ~(\E t \in Timers : WaitAsyncZero(t))
        PROVE  pc \in {"exec", "then", "sync"} /\ pc' \notin {"exit?", "exited"}
    BY <1>3, <2>3 DEF Script, CallAsync, WaitAsync, SpawnWorker, AwaitNotReady, Cancel, Sync,
         AwaitThen, SyncReturn, FinishVM, MainFails
  <2> QED
    BY <2>1, <2>2, <2>3
<1>4. ASSUME RunTask \/ QueueDrained \/ DecideStop \/ UvReturn \/ UvAsync
      PROVE  Idle'
  <2>1. pc' \notin {"exit?", "exited"}
    BY <1>4 DEF RunTask, QueueDrained, DecideStop, UvReturn, UvAsync
  <2> QED
    BY <1>2, <2>1
<1>5. ASSUME LookAtQueue
      PROVE  Idle'
  BY <1>5 DEF Idle, LookAtQueue
<1>6. ASSUME DecideExit
      PROVE  Idle'
  BY <1>0, <1>6 DEF Idle, DecideExit
<1>7. ASSUME NEW t \in Timers, UvTimer(t) \/ UvClose(t)
      PROVE  Idle'
  BY <1>2, <1>7 DEF UvTimer, UvClose
<1>8. ASSUME NEW w \in Workers, Worker(w)
      PROVE  Idle'
  <2>1. UNCHANGED <<pc, hasTasks>>
    BY <1>8 DEF Worker, WorkerWaitAsync, WorkerAwait, WorkerAwoken, WorkerSend, WorkerSettle,
         WorkerCallback, WorkerRelease, loopVars
  <2>2. ASSUME NEW ts, ts # <<>>, PushAll(ts), UNCHANGED pendingIoCount
        PROVE  Idle'
    <3>1. pc \in {"exit?", "exited"} => pushedAfterLook'
      BY <2>2 DEF PushAll
    <3> QED
      BY <2>1, <2>2, <3>1 DEF Idle
  <2>3. \A x : <<x>> # <<>>
    OBVIOUS
  <2>4. ASSUME NEW t \in Timers, WorkerWaitAsync(w, t)
        PROVE  Idle'
    BY <2>2, <2>3, <2>4 DEF WorkerWaitAsync
  <2>5. ASSUME WorkerCallback(w)
        PROVE  Idle'
    BY <2>2, <2>3, <2>5 DEF WorkerCallback
  <2>6. ASSUME WorkerRelease(w)
        PROVE  Idle'
    BY <2>1, <2>6 DEF WorkerRelease, Released, Idle
  <2>7. ASSUME NEW t \in Timers, WorkerAwait(w, t)
        PROVE  Idle'
    BY <1>1, <2>7 DEF WorkerAwait, loopVars
  <2>8. ASSUME NEW o \in Outcomes, WorkerSettle(w, o)
        PROVE  Idle'
    BY <1>1, <2>8 DEF WorkerSettle, loopVars
  <2>9. ASSUME WorkerAwoken(w) \/ WorkerSend(w)
        PROVE  Idle'
    BY <1>1, <2>9 DEF WorkerAwoken, WorkerSend, loopVars
  <2> QED
    BY <1>8, <2>4, <2>5, <2>6, <2>7, <2>8, <2>9 DEF Worker
<1> QED
  BY <1>3, <1>4, <1>5, <1>6, <1>7, <1>8 DEF Next, Loop

-----------------------------------------------------------------------------
(* The reference count: who has retained the loop and not released it yet. *)

Retaining == {w \in Workers \ daemons : wpc[w] \notin {"none", "released", "done"}}
Armed == {t \in Timers : timer[t] \in {"armed", "closing"}}

\* There are finitely many workers and timers to retain it.
LEMMA Retainers ==
  ASSUME NEW R, R \subseteq Workers, NEW A, A \subseteq Timers
  PROVE  /\ IsFiniteSet(R) /\ IsFiniteSet(A) /\ Cardinality(R) \in Nat /\ Cardinality(A) \in Nat
         /\ Cardinality(R) + Cardinality(A) <= Cardinality(Workers \cup Timers)
         /\ Cardinality(Workers \cup Timers) \in Nat
<1>1. IsFiniteSet(R) /\ IsFiniteSet(A) /\ IsFiniteSet(Workers \cup Timers)
  BY CallsAssumption, FS_Subset, FS_Union
<1>2. R \cap A = {}
  BY NamesAssumption
<1>3. Cardinality(R \cup A) = Cardinality(R) + Cardinality(A) - Cardinality({})
  BY <1>1, <1>2, FS_Union
<1>4. Cardinality({}) = 0
  BY FS_EmptySet
<1>5. R \cup A \subseteq Workers \cup Timers
  OBVIOUS
<1>6. Cardinality(R \cup A) <= Cardinality(Workers \cup Timers)
  BY <1>1, <1>5, FS_Subset
<1>7. Cardinality(R) \in Nat /\ Cardinality(A) \in Nat /\ Cardinality(Workers \cup Timers) \in Nat
  BY <1>1, FS_CardinalityType
<1> QED
  BY <1>1, <1>3, <1>4, <1>6, <1>7

\* One more or one fewer of them.
LEMMA OneMore ==
  ASSUME NEW S, IsFiniteSet(S), NEW x
  PROVE  /\ x \notin S => Cardinality(S \cup {x}) = Cardinality(S) + 1
         /\ x \in S => Cardinality(S \ {x}) = Cardinality(S) - 1 /\ Cardinality(S) > 0
<1>1. Cardinality(S) \in Nat
  BY FS_CardinalityType
<1>2. x \notin S => Cardinality(S \cup {x}) = Cardinality(S) + 1
  BY FS_AddElement
<1>3. x \in S => Cardinality(S \ {x}) = Cardinality(S) - 1
  BY FS_RemoveElement
<1>4. x \in S => Cardinality(S) # 0
  BY FS_EmptySet
<1> QED
  BY <1>1, <1>2, <1>3, <1>4

\* Every step that retains the loop counts it, every one that releases it finds
\* itself counted.
LEMMA RetainsStep ==
  ASSUME TypeOK, Running, Sound, Waits, Spawned, RetainsBalanced, Next
  PROVE  RetainsBalanced'
<1> DEFINE R == Cardinality(Retaining)
           A == Cardinality(Armed)
<1>0. /\ wpc \in [Workers -> WorkerStates] /\ timer \in [Timers -> TimerStates] /\ pendingIoCount \in Nat
      /\ daemons \subseteq Workers
  BY Retainers DEF TypeOK
<1>1. /\ IsFiniteSet(Retaining) /\ IsFiniteSet(Armed) /\ R \in Nat /\ A \in Nat
      /\ pendingIoCount = R + A
  <2>1. Retaining \subseteq Workers /\ Armed \subseteq Timers
    BY DEF Retaining, Armed
  <2> QED
    BY <2>1, Retainers DEF RetainsBalanced, Retaining, Armed
<1>2. RetainsBalanced' <=> pendingIoCount' = Cardinality(Retaining') + Cardinality(Armed')
  BY DEF RetainsBalanced, Retaining, Armed
<1>3. ASSUME UNCHANGED pendingIoCount, Retaining' = Retaining, Armed' = Armed
      PROVE  RetainsBalanced'
  BY <1>1, <1>2, <1>3
<1>4. ASSUME UNCHANGED <<wpc, daemons>>
      PROVE  Retaining' = Retaining
  BY <1>4 DEF Retaining
<1>5. ASSUME UNCHANGED timer
      PROVE  Armed' = Armed
  BY <1>5 DEF Armed
<1>6. ASSUME NEW t \in Timers, NEW s, timer' = [timer EXCEPT ![t] = s],
             s \in {"armed", "closing"} <=> timer[t] \in {"armed", "closing"}
      PROVE  Armed' = Armed
  BY <1>0, <1>6 DEF Armed
<1>7. ASSUME NEW w \in Workers, NEW l, wpc' = [wpc EXCEPT ![w] = l], UNCHANGED daemons,
             l \in {"none", "released", "done"} <=> wpc[w] \in {"none", "released", "done"}
      PROVE  Retaining' = Retaining
  BY <1>0, <1>7 DEF Retaining
<1>8. CASE Script
  <2>1. ASSUME NEW a \in Tasks, CallAsync(a)
        PROVE  RetainsBalanced'
    BY <1>3, <1>4, <1>5, <2>1 DEF CallAsync
  <2>2. ASSUME NEW t \in Timers, WaitAsync(t)
        PROVE  RetainsBalanced'
    BY <1>3, <1>4, <1>6, <2>2 DEF WaitAsync
  <2>3. ASSUME NEW t \in Timers, WaitAsyncZero(t)
        PROVE  RetainsBalanced'
    BY <1>3, <1>4, <1>6, <2>3 DEF WaitAsyncZero, loopVars
  <2>4. ASSUME NEW w \in Workers, SpawnWorker(w, TRUE)
        PROVE  RetainsBalanced'
    <3>1. UNCHANGED <<pendingIoCount, timer>> /\ daemons' = daemons \cup {w} /\ wpc[w] = "none"
          /\ wpc' = [wpc EXCEPT ![w] = "running"]
      BY <2>4 DEF SpawnWorker
    <3>2. Retaining' = Retaining
      BY <1>0, <3>1 DEF Retaining
    <3> QED
      BY <1>3, <1>5, <3>1, <3>2
  <2>5. ASSUME NEW w \in Workers, SpawnWorker(w, FALSE)
        PROVE  RetainsBalanced'
    <3>1. UNCHANGED <<timer, daemons>> /\ pendingIoCount' = pendingIoCount + 1 /\ wpc[w] = "none"
          /\ wpc' = [wpc EXCEPT ![w] = "running"]
      BY <2>5 DEF SpawnWorker
    <3>2. Retaining' = Retaining \cup {w} /\ w \notin Retaining
      BY <1>0, <3>1 DEF Retaining, Spawned
    <3>3. Cardinality(Retaining') = R + 1
      BY <1>1, <3>2, OneMore
    <3>4. Armed' = Armed
      BY <1>5, <3>1
    <3> QED
      BY <1>1, <1>2, <3>1, <3>3, <3>4
  <2>6. ASSUME NEW f \in Futures, AwaitNotReady(f) \/ Cancel(f) \/ Sync(f)
        PROVE  RetainsBalanced'
    BY <1>3, <1>4, <1>5, <2>6 DEF AwaitNotReady, Cancel, Sync
  <2>7. ASSUME AwaitThen \/ SyncReturn \/ MainFails \/ \E o \in Outcomes : FinishVM(o)
        PROVE  RetainsBalanced'
    BY <1>3, <1>4, <1>5, <2>7 DEF AwaitThen, SyncReturn, MainFails, FinishVM
  <2> QED
    BY <1>8, <2>1, <2>2, <2>3, <2>4, <2>5, <2>6, <2>7 DEF Script
<1>9. CASE Loop
  <2>1. ASSUME RunTask
        PROVE  RetainsBalanced'
    <3>1. UNCHANGED <<wpc, daemons>>
      BY <2>1 DEF RunTask
    <3>2. CASE UNCHANGED <<timer, pendingIoCount>>
      BY <1>3, <1>4, <1>5, <3>1, <3>2
    <3>3. ASSUME NEW t \in Timers, timer[t] = "queued", timer' = [timer EXCEPT ![t] = "armed"],
                 pendingIoCount' = pendingIoCount + 1
          PROVE  RetainsBalanced'
      <4>1. Armed' = Armed \cup {t} /\ t \notin Armed
        BY <1>0, <3>3 DEF Armed
      <4>2. Cardinality(Armed') = A + 1
        BY <1>1, <4>1, OneMore
      <4>3. Retaining' = Retaining
        BY <1>4, <3>1
      <4> QED
        BY <1>1, <1>2, <3>3, <4>2, <4>3
    <3> QED
      BY <2>1, <3>2, <3>3, Taken
  <2>2. ASSUME QueueDrained \/ LookAtQueue \/ DecideStop \/ DecideExit \/ UvReturn \/ UvAsync
        PROVE  RetainsBalanced'
    BY <1>3, <1>4, <1>5, <2>2 DEF QueueDrained, LookAtQueue, DecideStop, DecideExit, UvReturn, UvAsync
  <2>3. ASSUME NEW t \in Timers, UvTimer(t)
        PROVE  RetainsBalanced'
    BY <1>3, <1>4, <1>6, <2>3 DEF UvTimer
  <2>4. ASSUME NEW t \in Timers, UvClose(t)
        PROVE  RetainsBalanced'
    <3>1. /\ timer[t] = "closing" /\ timer' = [timer EXCEPT ![t] = "closed"]
          /\ pendingIoCount' = Released(pendingIoCount) /\ UNCHANGED <<wpc, daemons>>
      BY <2>4 DEF UvClose
    <3>2. Armed' = Armed \ {t} /\ t \in Armed
      BY <1>0, <3>1 DEF Armed
    <3>3. Cardinality(Armed') = A - 1 /\ A > 0
      BY <1>1, <3>2, OneMore
    <3>4. Retaining' = Retaining
      BY <1>4, <3>1
    <3> QED
      BY <1>1, <1>2, <3>1, <3>3, <3>4 DEF Released
  <2> QED
    BY <1>9, <2>1, <2>2, <2>3, <2>4 DEF Loop
<1>10. ASSUME NEW w \in Workers, Worker(w)
       PROVE  RetainsBalanced'
  <2> USE DEF Move
  <2>1. ASSUME NEW t \in Timers, WorkerWaitAsync(w, t)
        PROVE  RetainsBalanced'
    BY <1>3, <1>6, <1>7, <2>1 DEF WorkerWaitAsync
  <2>2. ASSUME NEW t \in Timers, WorkerAwait(w, t)
        PROVE  RetainsBalanced'
    BY <1>3, <1>5, <1>7, <2>2 DEF WorkerAwait, loopVars
  <2>3. ASSUME WorkerAwoken(w)
        PROVE  RetainsBalanced'
    BY <1>3, <1>5, <1>7, <2>3 DEF WorkerAwoken, loopVars
  <2>4. ASSUME WorkerSend(w)
        PROVE  RetainsBalanced'
    <3>1. PICK l \in WorkerStates : /\ wpc' = [wpc EXCEPT ![w] = l]
                                    /\ l \in {"none", "released", "done"} <=> wpc[w] \in {"none", "released", "done"}
      BY <2>4 DEF WorkerSend, WorkerStates
    <3> QED
      BY <1>3, <1>5, <1>7, <2>4, <3>1 DEF WorkerSend
  <2>5. ASSUME NEW o \in Outcomes, WorkerSettle(w, o)
        PROVE  RetainsBalanced'
    BY <1>3, <1>5, <1>7, <2>5 DEF WorkerSettle, loopVars
  <2>6. ASSUME WorkerCallback(w)
        PROVE  RetainsBalanced'
    BY <1>3, <1>5, <1>7, <2>6 DEF WorkerCallback
  <2>7. ASSUME WorkerRelease(w)
        PROVE  RetainsBalanced'
    <3>1. wpc[w] = "callbacks" /\ UNCHANGED <<timer, daemons>> /\ Armed' = Armed
      BY <1>5, <2>7 DEF WorkerRelease
    <3>2. CASE w \notin daemons /\ pendingIoCount' = Released(pendingIoCount)
               /\ wpc' = [wpc EXCEPT ![w] = "released"]
      <4>1. Retaining' = Retaining \ {w} /\ w \in Retaining
        BY <1>0, <3>1, <3>2 DEF Retaining
      <4>2. Cardinality(Retaining') = R - 1 /\ R > 0
        BY <1>1, <4>1, OneMore
      <4> QED
        BY <1>1, <1>2, <3>1, <3>2, <4>2 DEF Released
    <3>3. CASE w \in daemons /\ UNCHANGED pendingIoCount /\ wpc' = [wpc EXCEPT ![w] = "done"]
      <4>1. Retaining' = Retaining
        BY <1>0, <3>1, <3>3 DEF Retaining
      <4> QED
        BY <1>3, <3>1, <3>3, <4>1
    <3> QED
      BY <2>7, <3>2, <3>3 DEF WorkerRelease
  <2> QED
    BY <1>10, <2>1, <2>2, <2>3, <2>4, <2>5, <2>6, <2>7 DEF Worker
<1> QED
  BY <1>8, <1>9, <1>10 DEF Next

\* Nothing undoes a spawn().
LEMMA SpawnedStep ==
  ASSUME TypeOK, Spawned, Next
  PROVE  Spawned'
<1>0. wpc \in [Workers -> WorkerStates] /\ daemons \subseteq Workers
  BY DEF TypeOK
<1>1. ASSUME UNCHANGED <<wpc, daemons>>
      PROVE  Spawned'
  BY <1>1 DEF Spawned
<1>2. ASSUME NEW w \in Workers, NEW l, l # "none", wpc' = [wpc EXCEPT ![w] = l],
             daemons' \subseteq daemons \cup {w}
      PROVE  Spawned'
  BY <1>0, <1>2 DEF Spawned
<1>3. ASSUME NEW w \in Workers, NEW isDaemon \in BOOLEAN, SpawnWorker(w, isDaemon)
      PROVE  Spawned'
  BY <1>2, <1>3 DEF SpawnWorker
<1>4. CASE Script
  BY <1>1, <1>3, <1>4 DEF Script, CallAsync, WaitAsync, WaitAsyncZero, AwaitNotReady, Cancel, Sync,
       AwaitThen, SyncReturn, FinishVM, MainFails
<1>5. CASE Loop
  BY <1>1, <1>5 DEF Loop, RunTask, QueueDrained, LookAtQueue, DecideStop, DecideExit, UvReturn,
       UvAsync, UvTimer, UvClose
<1>6. ASSUME NEW w \in Workers, Worker(w)
      PROVE  Spawned'
  <2>1. \E l : l # "none" /\ wpc' = [wpc EXCEPT ![w] = l]
    BY <1>6 DEF Worker, WorkerWaitAsync, WorkerAwait, WorkerAwoken, WorkerSend, WorkerSettle,
         WorkerCallback, WorkerRelease, Move
  <2>2. UNCHANGED daemons
    BY <1>6 DEF Worker, WorkerWaitAsync, WorkerAwait, WorkerAwoken, WorkerSend, WorkerSettle,
         WorkerCallback, WorkerRelease
  <2> QED
    BY <1>2, <2>1, <2>2
<1> QED
  BY <1>4, <1>5, <1>6 DEF Next

-----------------------------------------------------------------------------
\* At the start nothing is queued, waited for, retained or settled.
LEMMA InitHolds ==
  ASSUME Init
  PROVE  IInv
<1>1. MainVM \in VMs /\ <<>> \in Seq(Task) /\ <<>> \in Seq(VMs) /\ Once(<<>>) /\ \A x : ~In(<<>>, x)
  BY Short DEF VMs
<1>2. Retaining = {} /\ Armed = {}
  BY DEF Init, Retaining, Armed
<1>3. Cardinality({}) = 0 /\ Cardinality(Workers \cup Timers) \in Nat
  BY FS_EmptySet, Retainers
<1>4. TypeOK
  <2>1. 0 \in 0 .. Cardinality(Workers \cup Timers)
    BY <1>3
  <2>2. /\ onReady \in [Futures -> Seq(VMs)] /\ callbacks \in [Workers -> Seq(VMs)]
        /\ taskQueue \in Seq(Task)
    BY <1>1 DEF Init
  <2>3. /\ vm \in [VMs -> VMStates] /\ wpc \in [Workers -> WorkerStates]
        /\ timer \in [Timers -> TimerStates] /\ pc \in LoopStates
    BY DEF Init, LoopStates, VMStates, WorkerStates, TimerStates
  <2> QED
    BY <1>1, <2>1, <2>2, <2>3 DEF Init, TypeOK
<1>5. Running /\ Spawned /\ Unasked /\ Idle
  BY <1>1 DEF Init, Running, Spawned, Unasked, Idle, Futures
<1>6. Sound
  BY <1>1 DEF Init, Sound
<1>7. Waits
  BY <1>1 DEF Init, Waits, Queued, Ready, Called
<1>8. RetainsBalanced
  <2>1. pendingIoCount = Cardinality(Retaining) + Cardinality(Armed)
    BY <1>2, <1>3 DEF Init
  <2> QED
    BY <2>1 DEF RetainsBalanced, Retaining, Armed
<1> QED
  BY <1>4, <1>5, <1>6, <1>7, <1>8 DEF IInv

\* Every step keeps the types and the places.
LEMMA TypeStep ==
  ASSUME TypeOK, Running, Sound, Waits, RetainsBalanced', Next
  PROVE  Places' /\ TypeOK'
<1>1. Places'
  BY ScriptPlaces, LoopPlaces, WorkerPlaces DEF Next
<1>2. Locals'
  BY ScriptTypes, LoopTypes, WorkerTypes DEF Next
<1>3. pendingIoCount' \in 0 .. Cardinality(Workers \cup Timers)
  <2>1. Retaining' \subseteq Workers /\ Armed' \subseteq Timers
    BY DEF Retaining, Armed
  <2>2. pendingIoCount' = Cardinality(Retaining') + Cardinality(Armed')
    BY DEF RetainsBalanced, Retaining, Armed
  <2>3. /\ Cardinality(Retaining') \in Nat /\ Cardinality(Armed') \in Nat
        /\ Cardinality(Retaining') + Cardinality(Armed') <= Cardinality(Workers \cup Timers)
        /\ Cardinality(Workers \cup Timers) \in Nat
    BY <2>1, Retainers
  <2> QED
    BY <2>2, <2>3
<1> QED
  BY <1>1, <1>2, <1>3 DEF Places, Locals, TypeOK

\* The inductive invariant holds in every state.
THEOREM Invariance == Spec => []IInv
<1>1. ASSUME IInv, [Next]_vars
      PROVE  IInv'
  <2>1. CASE Next
    <3>1. /\ TypeOK /\ Running /\ Sound /\ Waits /\ Spawned /\ RetainsBalanced /\ Unasked /\ Idle
      BY <1>1 DEF IInv
    <3>2. RetainsBalanced'
      BY <2>1, <3>1, RetainsStep
    <3>3. Places' /\ TypeOK'
      BY <2>1, <3>1, <3>2, TypeStep
    <3>4. Running' /\ Spawned' /\ Unasked' /\ Idle'
      BY <2>1, <3>1, RunningStep, SpawnedStep, UnaskedStep, IdleStep
    <3> QED
      BY <3>2, <3>3, <3>4 DEF IInv, Places
  <2>2. CASE UNCHANGED vars
    BY <1>1, <2>2 DEF IInv, TypeOK, Running, Sound, Waits, Queued, Ready, Called, Spawned,
         RetainsBalanced, Unasked, Idle, vars, loopVars, vmVars
  <2> QED
    BY <1>1, <2>1, <2>2
<1> QED
  BY <1>1, InitHolds, PTL DEF Spec

\* Every variable keeps its type; the loop is never retained more often than there
\* are workers and timers.
THEOREM TypeCorrect == Spec => []TypeOK
<1>1. IInv => TypeOK
  BY DEF IInv
<1> QED
  BY <1>1, Invariance, PTL

\* pendingIoCount is exactly the number of workers and timers that have retained
\* the loop and not released it, so release() never has to clamp it.
THEOREM RetainsAreBalanced == Spec => []RetainsBalanced
<1>1. IInv => RetainsBalanced
  BY DEF IInv
<1> QED
  BY <1>1, Invariance, PTL

\* run() returns only when no worker and no timer keeps the program alive and the
\* queue, but for a task pushed after the last look, is empty.
THEOREM ExitOnlyWhenIdle == Spec => []ExitsWhenIdle
<1>1. ASSUME IInv
      PROVE  ExitsWhenIdle
  <2> SUFFICES ASSUME pc = "exited"
               PROVE  /\ \A w \in Workers \ daemons : wpc[w] \in {"none", "released", "done"}
                      /\ \A t \in Timers : timer[t] \notin {"armed", "closing"}
                      /\ pushedAfterLook \/ taskQueue = <<>>
    BY DEF ExitsWhenIdle
  <2>1. pendingIoCount = 0 /\ (pushedAfterLook \/ taskQueue = <<>>)
    BY <1>1 DEF IInv, Idle
  <2>2. Retaining \subseteq Workers /\ Armed \subseteq Timers
    BY DEF Retaining, Armed
  <2>3. /\ IsFiniteSet(Retaining) /\ IsFiniteSet(Armed)
        /\ Cardinality(Retaining) \in Nat /\ Cardinality(Armed) \in Nat
    BY <2>2, Retainers
  <2>4. 0 = Cardinality(Retaining) + Cardinality(Armed)
    BY <1>1, <2>1 DEF IInv, RetainsBalanced, Retaining, Armed
  <2>5. Cardinality(Retaining) = 0 /\ Cardinality(Armed) = 0
    BY <2>3, <2>4
  <2>6. Retaining = {} /\ Armed = {}
    BY <2>3, <2>5, FS_EmptySet
  <2> QED
    BY <2>1, <2>6 DEF Retaining, Armed
<1> QED
  BY <1>1, Invariance, PTL

\* No step changes the outcome of a settled future: a result after cancel(), a
\* cancel() after the result and a late timer change nothing.
THEOREM FirstOutcomeStays == Spec => FirstWriterWins
<1>1. ASSUME IInv, [Next]_vars
      PROVE  [\A f \in Futures : Settled(f) => fut'[f] = fut[f]]_fut
  <2>1. CASE Next
    BY <1>1, <2>1, Settles DEF IInv
  <2>2. CASE UNCHANGED vars
    BY <2>2 DEF vars
  <2> QED
    BY <1>1, <2>1, <2>2
<1> QED
  BY <1>1, Invariance, PTL DEF Spec, FirstWriterWins

-----------------------------------------------------------------------------
\* How often a sequence that holds nothing twice holds x.
LEMMA Occurrences ==
  ASSUME NEW S, NEW s \in Seq(S), Once(s), NEW x
  PROVE  Cardinality({i \in 1 .. Len(s) : s[i] = x}) = IF In(s, x) THEN 1 ELSE 0
<1> DEFINE at == {i \in 1 .. Len(s) : s[i] = x}
<1>1. CASE In(s, x)
  <2>1. PICK i \in 1 .. Len(s) : s[i] = x
    BY <1>1 DEF In
  <2>2. at = {i}
    BY <2>1 DEF Once
  <2>3. Cardinality(at) = 1
    BY <2>2, FS_Singleton
  <2> QED
    BY <1>1, <2>3
<1>2. CASE ~In(s, x)
  <2>1. at = {}
    BY <1>2 DEF In
  <2>2. Cardinality(at) = 0
    BY <2>1, FS_EmptySet
  <2> QED
    BY <1>2, <2>2
<1> QED
  BY <1>1, <1>2

\* How many members a set has that has one at most.
LEMMA AtMostOne ==
  ASSUME NEW S, \A x, y \in S : x = y
  PROVE  Cardinality(S) = IF S = {} THEN 0 ELSE 1
<1>1. CASE S = {}
  BY <1>1, FS_EmptySet
<1>2. ASSUME NEW x \in S
      PROVE  Cardinality(S) = 1
  <2>1. S = {x}
    OBVIOUS
  <2> QED
    BY <2>1, FS_Singleton
<1> QED
  BY <1>1, <1>2

\* A VM that waits has exactly one resumption on its way, any other has none.
THEOREM ResumedOnce == Spec => []ResumedExactlyOnce
<1>1. ASSUME IInv
      PROVE  ResumedExactlyOnce
  <2> SUFFICES ASSUME NEW v \in VMs
               PROVE  Resumptions(v) = IF vm[v] = "awaiting" THEN 1 ELSE 0
    BY DEF ResumedExactlyOnce
  <2> DEFINE Times(s, x) == Cardinality({i \in 1 .. Len(s) : s[i] = x})
             F == {f \in Futures : Ready(f, v)}
             W == {w \in Workers : Called(w, v)}
  <2>1. /\ taskQueue \in Seq(Task) /\ onReady \in [Futures -> Seq(VMs)]
        /\ callbacks \in [Workers -> Seq(VMs)]
        /\ Once(taskQueue) /\ (\A f \in Futures : Once(onReady[f])) /\ \A w \in Workers : Once(callbacks[w])
    BY <1>1 DEF IInv, TypeOK, Sound
  <2>2. Times(taskQueue, ResumeTask(v)) = IF Queued(v) THEN 1 ELSE 0
    BY <2>1, Occurrences DEF Queued
  <2>3. \A f \in Futures : Times(onReady[f], v) = IF Ready(f, v) THEN 1 ELSE 0
    <3> SUFFICES ASSUME NEW f \in Futures
                 PROVE  Times(onReady[f], v) = IF Ready(f, v) THEN 1 ELSE 0
      OBVIOUS
    <3>1. onReady[f] \in Seq(VMs) /\ Once(onReady[f])
      BY <2>1
    <3> QED
      BY <3>1, Occurrences DEF Ready
  <2>4. \A w \in Workers : Times(callbacks[w], v) = IF Called(w, v) THEN 1 ELSE 0
    <3> SUFFICES ASSUME NEW w \in Workers
                 PROVE  Times(callbacks[w], v) = IF Called(w, v) THEN 1 ELSE 0
      OBVIOUS
    <3>1. callbacks[w] \in Seq(VMs) /\ Once(callbacks[w])
      BY <2>1
    <3> QED
      BY <3>1, Occurrences DEF Called
  <2>5. Resumptions(v) = Times(taskQueue, ResumeTask(v))
                         + Cardinality({f \in Futures : Times(onReady[f], v) > 0})
                         + Cardinality({w \in Workers : Times(callbacks[w], v) > 0})
    BY DEF Resumptions
  <2>6. /\ vm[v] = "awaiting" <=> Queued(v) \/ F # {} \/ W # {}
        /\ F # {} => ~Queued(v) /\ W = {}
        /\ W # {} => ~Queued(v)
        /\ \A f, g \in F : f = g
        /\ \A w, x \in W : w = x
    BY <1>1 DEF IInv, Waits
  <2> HIDE DEF Times
  <2>7. /\ {f \in Futures : Times(onReady[f], v) > 0} = F
        /\ {w \in Workers : Times(callbacks[w], v) > 0} = W
    BY <2>3, <2>4
  <2> HIDE DEF F, W
  <2>8. Cardinality(F) = (IF F = {} THEN 0 ELSE 1) /\ Cardinality(W) = IF W = {} THEN 0 ELSE 1
    BY <2>6, AtMostOne
  <2>9. Resumptions(v) = (IF Queued(v) THEN 1 ELSE 0) + (IF F = {} THEN 0 ELSE 1)
                         + IF W = {} THEN 0 ELSE 1
    BY <2>2, <2>5, <2>7, <2>8
  <2> QED
    BY <2>6, <2>9
<1> QED
  BY <1>1, Invariance, PTL
==============================================================================
