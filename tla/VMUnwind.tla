------------------------------ MODULE VMUnwind ------------------------------
(***************************************************************************)
(* Calls, exceptions and re-entrant dispatch in the bytecode VM            *)
(* (vm/BytecodeVM.cpp, vm/BytecodeVMExecute.cpp): the call frames, the     *)
(* operand stack, the stack of try blocks, and the run() invocations that  *)
(* natives nest when they call back into EZ code.  A fault inside a run()  *)
(* is never a C++ exception: it is recorded (pendingException, running =   *)
(* false) and every layer hands it on until the run() that owns the        *)
(* innermost handler takes it.  The fault of a callback that dispatchCall()*)
(* refuses is recorded too, but callFunction() then puts `running` back:   *)
(* code runs on with the exception pending until something else stops it.  *)
(*                                                                         *)
(* Values are left out: the operand stack is its height.  What the         *)
(* compiler knows of a frame at compile time, the depth of its operands    *)
(* and the try statements it is inside (compileTry, emitBreak), is kept    *)
(* beside the frame as `temps` and `active`; it drives which instructions  *)
(* come next and is what the run-time state is compared with.              *)
(***************************************************************************)
EXTENDS Integers, Sequences, SequencesExt, FiniteSets, FiniteSetsExt

CONSTANTS
    Closures,   \* what can be called
    Locals,     \* localCount, the same for every function
    MaxFrames,  \* maxFrames
    MaxDepth,   \* the limit on nested C++ calls, in run() invocations
    MaxStack,   \* stackMax
    MaxTemps,   \* bound: operands of one frame
    MaxTrys     \* bound: try statements being executed at once, in all frames

ASSUME BoundsAssumption ==
    /\ Closures # {} /\ Locals \in Nat /\ MaxStack \in Nat
    /\ MaxFrames \in Nat \ {0} /\ MaxDepth \in Nat \ {0}
    /\ MaxTemps \in Nat /\ MaxTrys \in Nat

VARIABLES
    frames,           \* slots, clo (the closure called), temps, active
    frameUpvalues,    \* the closure whose upvalues each frame uses
    tryStack,         \* frame (frameIdx + 1), top (stackTop), depth (of active)
    runs,             \* base (startingFrameCount) and what callFunction() saved
    stackTop,         \* run()'s local copy
    memTop,           \* this->stackTop
    running,
    pendingException, \* "nil"; "raised", with running = false; "refused", without
    mode              \* "exec": in run(); "native": in a native it called

vars == <<frames, frameUpvalues, tryStack, runs, stackTop, memTop, running,
          pendingException, mode>>

Frame(slots, c) == [slots |-> slots, clo |-> c, temps |-> 0, active |-> <<>>]
Top == Last(frames)
Run == Last(runs)
WithTop(f) == [frames EXCEPT ![Len(frames)] = f]

\* The operand stack is inside its array.  The dispatch loop moves stackTop
\* without looking, and caught faults make it drift (StackAsCompiled); what the
\* VM does once it has left the array is undefined and not modelled.
OnStack == stackTop \in 0 .. MaxStack

\* The dispatch loop fetches the next instruction.
Dispatching == mode = "exec" /\ running /\ OnStack

----------------------------------------------------------------------------
\* execute(): one frame above a dummy callee.
Init ==
    /\ \E c \in Closures : frames = <<Frame(1, c)>> /\ frameUpvalues = <<c>>
    /\ tryStack = <<>>
    /\ runs = <<[base |-> 1, stackBefore |-> 0, framesBefore |-> 0, saved |-> FALSE]>>
    /\ stackTop = 1 + Locals /\ memTop = 1 + Locals
    /\ running = TRUE /\ pendingException = "nil" /\ mode = "exec"

----------------------------------------------------------------------------
(* Delivering a fault.                                                     *)

\* Mutant: any handler will do.
OwnsTryBlock_Any == tryStack # <<>>

\* run(N) owns the frames from N up, and only the handlers registered there.
OwnsTryBlock == tryStack # <<>> /\ Last(tryStack).frame >= Run.base

\* The innermost handler is entered: frames above its own are popped together
\* with their upvalues, and the exception is pushed.  `stackTop = tb.stackTop;
\* LOAD_FRAME()` leaves the local stackTop at this->stackTop, here top.
EnterHandler(top) ==
    LET tb == Last(tryStack)
        n == Min({tb.frame, Len(frames)})
        entered == frames[n].active[tb.depth + 1]
    IN
    /\ tryStack' = Front(tryStack)
    /\ frames' = [SubSeq(frames, 1, n) EXCEPT
                     ![n].temps = entered.temps + 1,
                     ![n].active = SubSeq(@, 1, tb.depth) \o
                                       <<[kind |-> "catch", temps |-> entered.temps]>>]
    /\ frameUpvalues' = SubSeq(frameUpvalues, 1, Len(frameUpvalues) - (Len(frames) - n))
    /\ stackTop' = top + 1 /\ memTop' = top
    /\ pendingException' = "nil" /\ running' = TRUE /\ mode' = "exec"
    /\ UNCHANGED runs

\* This run() has no handler and returns.  A nested one returns to
\* callFunction(), which restores the stack and the frames and records the fault
\* again for the run() around it; the outermost one ends the program.
LeaveRun ==
    \/ /\ Len(runs) > 1
       /\ frames' = SubSeq(frames, 1, Run.framesBefore)
       /\ memTop' = Run.stackBefore /\ stackTop' = Run.stackBefore
       /\ runs' = Front(runs) /\ mode' = "native"
       /\ pendingException' = "raised" /\ running' = FALSE
       /\ UNCHANGED <<frameUpvalues, tryStack>>
    \/ /\ Len(runs) = 1
       /\ mode' = "uncaught"
       /\ frames' = <<>> /\ frameUpvalues' = <<>> /\ tryStack' = <<>> /\ runs' = <<>>
       /\ pendingException' = "nil" /\ running' = FALSE
       /\ UNCHANGED <<stackTop, memTop>>

\* handle_vm_fault, with this->stackTop = top.
Deliver(top) ==
    \/ OwnsTryBlock /\ EnterHandler(top)
    \/ ~OwnsTryBlock /\ LeaveRun

----------------------------------------------------------------------------
(* Instructions.                                                           *)

\* An instruction that pushes an operand; the compiler never lets one pop an
\* operand from below the try statement it is in.
Push ==
    /\ Dispatching /\ Top.temps < MaxTemps
    /\ frames' = WithTop([Top EXCEPT !.temps = @ + 1])
    /\ stackTop' = stackTop + 1
    /\ UNCHANGED <<frameUpvalues, tryStack, runs, memTop, running, pendingException, mode>>

TempsFloor == IF Top.active = <<>> THEN 0 ELSE Last(Top.active).temps

Pop ==
    /\ Dispatching /\ Top.temps > TempsFloor
    /\ frames' = WithTop([Top EXCEPT !.temps = @ - 1])
    /\ stackTop' = stackTop - 1
    /\ UNCHANGED <<frameUpvalues, tryStack, runs, memTop, running, pendingException, mode>>

\* TRY_START.
TryStart ==
    /\ Dispatching /\ FoldLeft(LAMBDA n, f : n + Len(f.active), 0, frames) < MaxTrys
    /\ tryStack' = Append(tryStack, [frame |-> Len(frames), top |-> stackTop,
                                     depth |-> Len(Top.active)])
    /\ frames' = WithTop([Top EXCEPT
                     !.active = Append(@, [kind |-> "try", temps |-> Top.temps])])
    /\ UNCHANGED <<frameUpvalues, runs, stackTop, memTop, running, pendingException, mode>>

\* The innermost try statement the code is in, its body or its catch block.
Inside(kind) ==
    Top.active # <<>> /\ Last(Top.active).kind = kind /\ Top.temps = TempsFloor

LeaveTry == frames' = WithTop([Top EXCEPT !.active = Front(@)])

\* TRY_END, at the end of the body or where `escape` and `skip` leave it.
TryEnd ==
    /\ Dispatching /\ Inside("try")
    /\ tryStack' = IF tryStack = <<>> THEN <<>> ELSE Front(tryStack)
    /\ LeaveTry
    /\ UNCHANGED <<frameUpvalues, runs, stackTop, memTop, running, pendingException, mode>>

\* The end of a catch block: its TryBlock was popped when it was entered.
CatchEnd ==
    /\ Dispatching /\ Inside("catch")
    /\ LeaveTry
    /\ UNCHANGED <<frameUpvalues, tryStack, runs, stackTop, memTop, running,
                   pendingException, mode>>

\* `escape` or `skip` out of a loop from inside a catch block: emitBreak() and
\* emitContinue() emit a TRY_END for every try statement on the way out, the
\* ones whose catch block is running included.
BreakInCatch ==
    /\ Dispatching /\ Inside("catch")
    /\ tryStack' = IF tryStack = <<>> THEN <<>> ELSE Front(tryStack)
    /\ LeaveTry
    /\ UNCHANGED <<frameUpvalues, runs, stackTop, memTop, running, pendingException, mode>>

\* THROW pops its operand and looks for a handler; this->stackTop is not synced.
Throw == Dispatching /\ Top.temps > TempsFloor /\ Deliver(memTop)

\* The instruction budget runs out between two instructions.
BudgetFault == Dispatching /\ Deliver(memTop)

\* An instruction faults after SYNC_IP: runtimeError(), throwException().
Fault == Dispatching /\ Deliver(stackTop)

\* A C++ exception of an instruction's own (a bad variant access, push() on a full
\* stack) reaches run()'s catch clauses, which restore this->stackTop first.
CxxException ==
    /\ Dispatching
    /\ \/ OwnsTryBlock /\ EnterHandler(Last(tryStack).top)
       \/ ~OwnsTryBlock /\ LeaveRun

----------------------------------------------------------------------------
(* Calls.                                                                  *)

\* pushCallFrame() finds room for another frame above `slots`.
HasRoom(slots) == Len(frames) < MaxFrames /\ slots + Locals <= MaxStack

\* CALL of EZ code: the callee is the top operand, its frame starts above it.
Call(c) ==
    /\ Dispatching /\ Top.temps > TempsFloor /\ HasRoom(stackTop)
    /\ frames' = Append(frames, Frame(stackTop, c))
    /\ frameUpvalues' = Append(frameUpvalues, c)
    /\ stackTop' = stackTop + Locals /\ memTop' = stackTop + Locals
    /\ UNCHANGED <<tryStack, runs, running, pendingException, mode>>

\* RecursionError, or the operand stack is exhausted.
CallAtLimit ==
    /\ Dispatching /\ Top.temps > TempsFloor /\ ~HasRoom(stackTop)
    /\ Deliver(stackTop)

\* TAIL_CALL to the running function, which the compiler emits outside of any try
\* statement: the frame is reused, with the upvalues of the closure called.
TailCall(c) ==
    /\ Dispatching /\ Top.temps > 0 /\ Top.active = <<>>
    /\ frames' = WithTop(Frame(Top.slots, c))
    /\ frameUpvalues' = [frameUpvalues EXCEPT ![Len(frameUpvalues)] = c]
    /\ stackTop' = Top.slots + Locals
    /\ UNCHANGED <<tryStack, runs, memTop, running, pendingException, mode>>

\* RETURN pops the try blocks from the back while they are at or above frame n,
\* the one it leaves.
PopTryBlocks(n) ==
    \E k \in 0 .. Len(tryStack) :
        /\ k > 0 => tryStack[k].frame < n
        /\ \A i \in k + 1 .. Len(tryStack) : tryStack[i].frame >= n
        /\ tryStack' = SubSeq(tryStack, 1, k)

\* Mutant: `give` from inside a try block leaves the block registered.
Return_KeepsTryBlocks ==
    /\ Dispatching /\ Top.temps > TempsFloor
    /\ Len(frames) - 1 >= Run.base
    /\ frames' = Front(frames) /\ frameUpvalues' = Front(frameUpvalues)
    /\ stackTop' = Top.slots /\ memTop' = stackTop - 1
    /\ UNCHANGED <<tryStack, runs, running, pendingException, mode>>

\* RETURN pops the frame and the try blocks it leaves open, and replaces the
\* callee by the result; the frame at the run's base returns from run() too, and
\* only there does a fault left pending count: callFunction() raises it again, and
\* execute() reports it as uncaught.
Return ==
    /\ Dispatching /\ Top.temps > TempsFloor
    /\ PopTryBlocks(Len(frames))
    /\ frameUpvalues' = Front(frameUpvalues)
    /\ \/ /\ Len(frames) - 1 >= Run.base
          /\ frames' = Front(frames)
          /\ stackTop' = Top.slots /\ memTop' = stackTop - 1
          /\ UNCHANGED <<runs, running, pendingException, mode>>
       \/ /\ Len(frames) - 1 < Run.base /\ Len(runs) > 1
          /\ frames' = Front(frames)
          /\ stackTop' = Run.stackBefore /\ memTop' = Run.stackBefore
          /\ runs' = Front(runs) /\ mode' = "native"
          /\ running' = (Run.saved /\ pendingException = "nil")
          /\ pendingException' = IF pendingException = "nil" THEN "nil" ELSE "raised"
       \/ /\ Len(frames) - 1 < Run.base /\ Len(runs) = 1
          /\ mode' = IF pendingException = "nil" THEN "ok" ELSE "uncaught"
          /\ frames' = <<>> /\ runs' = <<>> /\ running' = FALSE
          /\ pendingException' = "nil"
          /\ UNCHANGED <<stackTop, memTop>>

\* CALL of a native, with no arguments: SYNC_IP, then its C++ code runs.
CallNative ==
    /\ Dispatching /\ Top.temps > TempsFloor
    /\ memTop' = stackTop /\ mode' = "native"
    /\ UNCHANGED <<frames, frameUpvalues, tryStack, runs, stackTop, running, pendingException>>

\* The native returns with `running` set: its value replaces the callee, or, when a
\* refused callback is pending, dispatchCall() leaves the callee where it is.
NativeReturns ==
    /\ mode = "native" /\ running
    /\ stackTop' = memTop /\ mode' = "exec"
    /\ UNCHANGED <<frames, frameUpvalues, tryStack, runs, memTop, running, pendingException>>

\* The native reports an error: it is recorded, unless one is pending already, and
\* the native goes on.
NativeFaults ==
    /\ mode = "native" /\ running
    /\ pendingException' = "raised" /\ running' = FALSE
    /\ UNCHANGED <<frames, frameUpvalues, tryStack, runs, stackTop, memTop, mode>>

\* The native returns with `running` cleared: DISPATCH goes to handle_vm_fault.
NativeReturnsFault ==
    /\ mode = "native" /\ pendingException = "raised"
    /\ Deliver(memTop)

\* Mutant: callFunction() starts a call though a fault is in flight.
NativeCallsBack_Always(c) ==
    /\ mode = "native" /\ Len(runs) < MaxDepth /\ HasRoom(memTop + 1)
    /\ runs' = Append(runs, [base |-> Len(frames) + 1, stackBefore |-> memTop,
                             framesBefore |-> Len(frames), saved |-> running])
    /\ frames' = Append(frames, Frame(memTop + 1, c))
    /\ frameUpvalues' = Append(frameUpvalues, c)
    /\ stackTop' = memTop + 1 + Locals /\ memTop' = memTop + 1 + Locals
    /\ running' = TRUE /\ mode' = "exec"
    /\ UNCHANGED <<tryStack, pendingException>>

\* callFunction() from a native (a callback, a comparator, a constructor): a new
\* run() for one more frame, unless a fault is in flight.  Calls that get no frame
\* are RefusedCallback, CallbackAtLimit and CallbackWithoutFrame; the bound on
\* frameUpvalues stops the model, not the VM.
NativeCallsBack(c) ==
    /\ mode = "native" /\ pendingException = "nil"
    /\ Len(runs) < MaxDepth /\ HasRoom(memTop + 1)
    /\ Len(frameUpvalues) <= MaxFrames
    /\ runs' = Append(runs, [base |-> Len(frames) + 1, stackBefore |-> memTop,
                             framesBefore |-> Len(frames), saved |-> running])
    /\ frames' = Append(frames, Frame(memTop + 1, c))
    /\ frameUpvalues' = Append(frameUpvalues, c)
    /\ stackTop' = memTop + 1 + Locals /\ memTop' = memTop + 1 + Locals
    /\ running' = TRUE /\ mode' = "exec"
    /\ UNCHANGED <<tryStack, pendingException>>

\* callFunction() whose dispatchCall() refuses the call (the wrong number of
\* arguments, a value that is not callable, a body that does not compile): the fault
\* is recorded and `running` cleared, then restoreState() puts the stack and
\* `running` back.  A constructor with the wrong arguments comes this way too.
RefusedCallback ==
    /\ mode = "native" /\ pendingException = "nil"
    /\ Len(runs) < MaxDepth /\ memTop < MaxStack
    /\ pendingException' = "refused"
    /\ UNCHANGED <<frames, frameUpvalues, tryStack, runs, stackTop, memTop, running, mode>>

\* callFunction() of a callee that gets no frame here (a model class, whose
\* constructor has already run; an async task): dispatchCall() returns true and
\* run() starts on the frame that called the native.
CallbackWithoutFrame ==
    /\ mode = "native" /\ pendingException = "nil"
    /\ Len(runs) < MaxDepth /\ memTop < MaxStack
    /\ runs' = Append(runs, [base |-> Len(frames), stackBefore |-> memTop,
                             framesBefore |-> Len(frames), saved |-> running])
    /\ stackTop' = memTop + 1 /\ memTop' = memTop + 1
    /\ running' = TRUE /\ mode' = "exec"
    /\ UNCHANGED <<frames, frameUpvalues, tryStack, pendingException>>

\* callFunction() at the frame limit: pushCallFrame() records RecursionError, but
\* dispatchCall() returns true and run() starts on the frame that called the
\* native.  It goes straight to handle_vm_fault, and takes a handler of that frame
\* for its own; without one it hands the fault back.
CallbackAtLimit ==
    /\ mode = "native" /\ pendingException = "nil"
    /\ Len(runs) < MaxDepth /\ Len(frames) >= MaxFrames
    /\ \/ /\ tryStack # <<>> /\ Last(tryStack).frame >= Len(frames)
          /\ LET tb == Last(tryStack)
                 entered == Top.active[tb.depth + 1]
             IN frames' = WithTop([Top EXCEPT
                             !.temps = entered.temps + 1,
                             !.active = SubSeq(@, 1, tb.depth) \o
                                            <<[kind |-> "catch", temps |-> entered.temps]>>])
          /\ runs' = Append(runs, [base |-> Len(frames), stackBefore |-> memTop,
                                   framesBefore |-> Len(frames), saved |-> running])
          /\ tryStack' = Front(tryStack)
          /\ memTop' = memTop + 1 /\ stackTop' = memTop + 2
          /\ running' = TRUE /\ mode' = "exec"
          /\ UNCHANGED <<frameUpvalues, pendingException>>
       \/ /\ ~ (tryStack # <<>> /\ Last(tryStack).frame >= Len(frames))
          /\ pendingException' = "raised" /\ running' = FALSE
          /\ UNCHANGED <<frames, frameUpvalues, tryStack, runs, stackTop, memTop, mode>>

----------------------------------------------------------------------------
Ended == mode \in {"ok", "uncaught"} /\ UNCHANGED vars

Undefined == mode = "exec" /\ ~OnStack /\ UNCHANGED vars

Next ==
    \/ Push \/ Pop \/ TryStart \/ TryEnd \/ CatchEnd
    \/ Throw \/ BudgetFault \/ Fault \/ CxxException
    \/ \E c \in Closures : Call(c) \/ TailCall(c) \/ NativeCallsBack(c)
    \/ CallAtLimit \/ Return \/ CallNative
    \/ NativeReturns \/ NativeFaults \/ RefusedCallback \/ NativeReturnsFault
    \/ Ended \/ Undefined

Spec == Init /\ [][Next]_vars

\* Programs that also leave loops from inside catch blocks.
BreakSpec == Init /\ [][Next \/ BreakInCatch]_vars

\* Programs whose natives also call back at the frame limit, or call back a value
\* that gets no frame.
LimitSpec == Init /\ [][Next \/ CallbackAtLimit \/ CallbackWithoutFrame]_vars

----------------------------------------------------------------------------
\* Types of the state; the limits on frames and on nested run() invocations hold.
TryStatements == [kind : {"try", "catch"}, temps : Nat]
Frames == [slots : Int, clo : Closures, temps : Nat, active : Seq(TryStatements)]
TryBlocks == [frame : Nat, top : Int, depth : Nat]
Pendings == {"nil", "raised", "refused"}
Runs == [base : Nat, stackBefore : Int, framesBefore : Nat, saved : BOOLEAN]

TypeOK ==
    /\ frames \in Seq(Frames) /\ Len(frames) <= MaxFrames
    /\ frameUpvalues \in Seq(Closures)
    /\ tryStack \in Seq(TryBlocks)
    /\ runs \in Seq(Runs) /\ Len(runs) <= MaxDepth
    /\ stackTop \in Int /\ memTop \in Int
    /\ running \in BOOLEAN /\ pendingException \in Pendings
    /\ mode \in {"exec", "native", "ok", "uncaught"}

\* The try blocks registered, in order, are exactly the try statements whose body
\* the live frames are in, outermost first: none outlives its frame (RETURN out of
\* a try), none is lost (an exception handed through callFunction()), so an
\* exception reaches the innermost handler the program wrote.
TryStackExact ==
    LET Bodies(i) == {j \in DOMAIN frames[i].active : frames[i].active[j].kind = "try"}
        Open == UNION {{<<i, j>> : j \in Bodies(i)} : i \in DOMAIN frames}
    IN  /\ {<<tryStack[k].frame, tryStack[k].depth + 1>> : k \in DOMAIN tryStack} = Open
        /\ \A k, l \in DOMAIN tryStack : k < l =>
              \/ tryStack[k].frame < tryStack[l].frame
              \/ tryStack[k].frame = tryStack[l].frame /\ tryStack[k].depth < tryStack[l].depth

\* Every run() keeps the frames it was started on: a nested one never pops, and
\* never resumes, a frame of the run() around it.
RunsOwnFrames ==
    /\ \A k \in DOMAIN runs : runs[k].base <= Len(frames)
    /\ \A k, l \in DOMAIN runs : k < l => runs[k].base < runs[l].base

\* No instruction executes, and no callback starts, while a fault is in flight, from
\* wherever it was raised; only the fault of a callback that was refused is not one
\* (FaultsReachTheDispatch).
NoCodeRunsPastAFault == pendingException = "raised" => mode = "native" /\ ~running

\* BytecodeVM.cpp:385, "running=false plus pendingException is already set above,
\* and DISPATCH() routes that to handle_vm_fault, so returning here delivers the
\* fault to the owning EZ catch block": whatever recorded the fault, the next
\* instruction is not executed before it is delivered.
FaultsReachTheDispatch == Dispatching => pendingException = "nil"

\* BytecodeVM.cpp:869, "Always restore stack to exactly where it was before the
\* call", and 805, "Restoring the stack/frames is not optional on the exception
\* path".  The upvalues LOAD_UPVALUE uses are those of the closure the frame
\* runs, after a fault came through callFunction() too.
UpvaluesBelongToFrame ==
    Dispatching => frameUpvalues # <<>> /\ Last(frameUpvalues) = Top.clo

\* BytecodeVMExecute.cpp:3301, "this->stackTop is restored to the exact level
\* it was at the start of the 'try' block".  The operand stack of the running
\* frame is as high as the compiler laid it out.
StackAsCompiled == Dispatching => stackTop = Top.slots + Locals + Top.temps
============================================================================
