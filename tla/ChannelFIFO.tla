---------------------------- MODULE ChannelFIFO ----------------------------
(***************************************************************************)
(* What a Channel promises the scripts that share it (BUILTINS.md,         *)
(* "Channel Class"): one queue, every operation on it atomic, values       *)
(* handed out in the order they were sent, nil only when there is nothing  *)
(* to hand out.  No lock, no condition variable.                           *)
(***************************************************************************)
EXTENDS Sequences

CONSTANTS Threads, Values, Nil, True, Error

VARIABLES
    queue,      \* what was sent and not yet received
    isClosed,
    waiting,    \* "no", or the blocking call a thread is in
    ret         \* what the last call of each thread returned

vars == <<queue, isClosed, waiting, ret>>

Blocking == {"receive", "receiveTimeout"}

Init ==
    /\ queue = <<>> /\ isClosed = FALSE
    /\ waiting = [t \in Threads |-> "no"]
    /\ ret = [t \in Threads |-> Nil]

Returns(t, x) ==
    /\ ret' = [ret EXCEPT ![t] = x]
    /\ waiting' = [waiting EXCEPT ![t] = "no"]

Send(t, v) ==
    /\ waiting[t] = "no" /\ ~isClosed
    /\ queue' = Append(queue, v)
    /\ Returns(t, True) /\ UNCHANGED isClosed

SendRefused(t) ==
    /\ waiting[t] = "no" /\ isClosed
    /\ Returns(t, Error) /\ UNCHANGED <<queue, isClosed>>

Close(t) ==
    /\ waiting[t] = "no"
    /\ isClosed' = TRUE
    /\ Returns(t, True) /\ UNCHANGED queue

\* A receiver goes to sleep only while there is nothing to receive.
Block(t, k) ==
    /\ waiting[t] = "no" /\ queue = <<>> /\ ~isClosed
    /\ waiting' = [waiting EXCEPT ![t] = k]
    /\ UNCHANGED <<queue, isClosed, ret>>

\* Any receiver, sleeping or just arrived, gets the oldest value.
Receive(t) ==
    /\ queue # <<>>
    /\ queue' = Tail(queue)
    /\ Returns(t, Head(queue)) /\ UNCHANGED isClosed

\* Only an empty channel returns nil, and to receive() only when closed.
ReceiveNil(t) ==
    /\ queue = <<>>
    /\ isClosed \/ waiting[t] # "receive"
    /\ Returns(t, Nil) /\ UNCHANGED <<queue, isClosed>>

Next ==
    \E t \in Threads :
        \/ \E v \in Values : Send(t, v)
        \/ SendRefused(t) \/ Close(t)
        \/ \E k \in Blocking : Block(t, k)
        \/ Receive(t) \/ ReceiveNil(t)

SafeSpec == Init /\ [][Next]_vars

\* A value does not stay in the queue while somebody sleeps, and a sleeper is
\* released by close() and by its own timeout.
Fairness ==
    /\ WF_vars(\E t \in Threads : waiting[t] # "no" /\ Receive(t))
    /\ \A t \in Threads : WF_vars(waiting[t] # "no" /\ ReceiveNil(t))

Spec == SafeSpec /\ Fairness
============================================================================
