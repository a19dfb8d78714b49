------------------------------ MODULE Machine ------------------------------
(***************************************************************************)
(* The bytecode virtual machine (BytecodeVMExecute.cpp) running the code   *)
(* of one program: one action per group of instructions.                   *)
(*                                                                         *)
(* stack holds the slots below stackTop; a frame's locals are the          *)
(* localCount slots from base + 1, its callee stands at base.  An upvalue  *)
(* is open while loc is the stack slot it aliases, then closed holds its   *)
(* value.  run() has a stackTop of its own; synced is the height of        *)
(* this->stackTop, which only SYNC_IP and the helpers that work on it set, *)
(* and which an exception goes back to (Unwind).  A loop's safepoint, which *)
(* syncs when another thread asks for a collection, is left out.  What was *)
(* left above stackTop is nil: the next push hides most of it.             *)
(*                                                                         *)
(* Left out: instances and classes of user models (module Objects),        *)
(* re-entrant dispatch and native callbacks (VMUnwind), async functions,   *)
(* line numbers and messages.  A built-in exception class is a value       *)
(* <<"class", name>> and calling it makes an Exc(name).                    *)
(***************************************************************************)
EXTENDS Values

CONSTANTS
  Builtins,     \* the globals that exist before the program runs
  maxFrames     \* the call depth at which RecursionError is raised

VARIABLES
  code,         \* what the compiler handed over: [funs, globals, err]
  stack,        \* the operand stack and the locals, bottom first
  synced,       \* the height this->stackTop stands for
  frames,       \* call frames: [fn, pc, base, ups, left]; left is a history: the
                \* operands that caught exceptions left in the frame, less those they took
  upvalues,     \* upvalue objects: [loc, closed]
  heap,         \* arrays, tuples and dictionaries
  slots,        \* globalSlots
  names,        \* globals by name: statics and modules already loaded
  tries,        \* tryStack: [frame, pc, top, left]
  out,          \* what was printed
  status        \* <<"run">>, <<"done">>, <<"uncaught", exc>> or <<"rejected", why>>
vars == <<code, stack, synced, frames, upvalues, heap, slots, names, tries, out, status>>

Frame == frames[Len(frames)]
Fun   == code.funs[Frame.fn]
I     == Fun.code[Frame.pc]
Local(k) == Frame.base + k + 1
Peek(n)  == stack[Len(stack) - n]
Dropped(n) == SubSeq(stack, 1, Len(stack) - n)
LastN(s, n) == SubSeq(s, Len(s) - n + 1, Len(s))

Fetch(ops) == status = <<"run">> /\ I[1] \in ops
Goto(pc)   == frames' = [frames EXCEPT ![Len(frames)].pc = pc]
Advance    == Goto(Frame.pc + 1)
Pushed(v)  == stack' = Append(stack, v)

\* execute(c): a program that failed to compile is rejected, any other starts
\* in the last function of c, its main function.
execute(c) ==
  /\ code = c
  /\ stack = [i \in 1..(IF c.err = "none" THEN c.funs[Len(c.funs)].localCount ELSE 0) |-> Nil]
  /\ synced = Len(stack)
  /\ frames = << [fn |-> Len(c.funs), pc |-> 1, base |-> 0, ups |-> <<>>, left |-> 0] >>
  /\ upvalues = <<>> /\ heap = <<>> /\ tries = <<>> /\ out = <<>> /\ names = <<>>
  /\ slots = [i \in 1..Len(c.globals) |->
                IF i <= Len(Builtins) THEN <<"class", Builtins[i]>> ELSE Nil]
  /\ status = IF c.err = "none" THEN <<"run">> ELSE <<"rejected", c.err>>

(***************************************************************************)
(* Upvalues and exceptions                                                 *)
(***************************************************************************)
\* Mutant: the first slot of the range is left open.
closeUpvaluesShort(us, from) ==
  [i \in 1..Len(us) |-> IF us[i].loc > from THEN [loc |-> 0, closed |-> stack[us[i].loc]]
                        ELSE us[i]]
closeUpvalues(us, from) ==
  [i \in 1..Len(us) |-> IF us[i].loc >= from THEN [loc |-> 0, closed |-> stack[us[i].loc]]
                        ELSE us[i]]

\* THROW and handle_vm_fault: the innermost try block takes the exception, the
\* frames above it go and their upvalues are closed.  The stack is cut to the
\* block's top, and then LOAD_FRAME() makes it as high as this->stackTop is: top.
Unwind(exc, h, top) ==
  /\ heap' = h
  /\ synced' = top
  /\ UNCHANGED <<code, slots, names, out>>
  /\ IF tries = <<>>
     THEN status' = <<"uncaught", exc>> /\ UNCHANGED <<stack, frames, upvalues, tries>>
     ELSE LET t == tries[Len(tries)] IN
          /\ tries' = Front(tries)
          /\ frames' = [SubSeq(frames, 1, t.frame) EXCEPT ![t.frame].pc = t.pc,
                                                          ![t.frame].left = t.left + top - t.top]
          /\ upvalues' = IF Len(frames) > t.frame
                         THEN closeUpvalues(upvalues, frames[t.frame + 1].base + 1)
                         ELSE upvalues
          /\ stack' = Append([i \in 1..top |-> IF i <= Len(stack) THEN stack[i] ELSE Nil], exc)
          /\ status' = status

ThrowOp == Fetch({"THROW"}) /\ Unwind(Peek(0), heap, synced)

TryStart ==
  /\ Fetch({"TRY_START"})
  /\ tries' = Append(tries, [frame |-> Len(frames), pc |-> I[2], top |-> Len(stack), left |-> Frame.left])
  /\ Advance
  /\ UNCHANGED <<code, synced, stack, upvalues, heap, slots, names, out, status>>

TryEnd ==
  /\ Fetch({"TRY_END"})
  /\ tries' = IF tries = <<>> THEN tries ELSE Front(tries)
  /\ Advance
  /\ UNCHANGED <<code, synced, stack, upvalues, heap, slots, names, out, status>>

(***************************************************************************)
(* Constants, locals, upvalues, globals                                    *)
(***************************************************************************)
Loads == {"LOAD_CONST", "LOAD_NIL", "LOAD_TRUE", "LOAD_FALSE", "LOAD_ZERO", "LOAD_ONE",
          "LOAD_EMPTY_STR", "LOAD_LOCAL", "LOAD_LOCAL_W", "LOAD_UPVALUE",
          "LOAD_GLOBAL_SLOT", "HAS_GLOBAL", "DUP"}
Loaded ==
  CASE I[1] = "LOAD_CONST" -> I[2]
    [] I[1] = "LOAD_NIL" -> Nil
    [] I[1] = "LOAD_TRUE" -> BoolV(TRUE)
    [] I[1] = "LOAD_FALSE" -> BoolV(FALSE)
    [] I[1] = "LOAD_ZERO" -> IntV(0)
    [] I[1] = "LOAD_ONE" -> IntV(1)
    [] I[1] = "LOAD_EMPTY_STR" -> StrV(<<>>)
    [] I[1] \in {"LOAD_LOCAL", "LOAD_LOCAL_W"} -> stack[Local(I[2])]
    [] I[1] = "LOAD_UPVALUE" -> LET u == upvalues[Frame.ups[I[2] + 1]]
                                IN IF u.loc # 0 THEN stack[u.loc] ELSE u.closed
    [] I[1] = "LOAD_GLOBAL_SLOT" -> slots[I[2] + 1]
    [] I[1] = "HAS_GLOBAL" -> BoolV(I[2] \in {names[i][1] : i \in 1..Len(names)})
    [] I[1] = "DUP" -> Peek(0)
Load ==
  /\ Fetch(Loads) /\ Pushed(Loaded) /\ Advance
  /\ UNCHANGED <<code, synced, upvalues, heap, slots, names, tries, out, status>>

Dup2 ==
  /\ Fetch({"DUP2"}) /\ stack' = stack \o LastN(stack, 2) /\ Advance
  /\ UNCHANGED <<code, synced, upvalues, heap, slots, names, tries, out, status>>

Pop ==
  /\ Fetch({"POP"}) /\ stack' = Dropped(1) /\ Advance
  /\ UNCHANGED <<code, synced, upvalues, heap, slots, names, tries, out, status>>

\* A global by name is a static or the dictionary of a loaded module.
LoadGlobal ==
  /\ Fetch({"LOAD_GLOBAL"})
  /\ LET S == {i \in 1..Len(names) : names[i][1] = I[2]} IN
     IF S = {} THEN Unwind(RunErr(heap, "undefined").v, heap, Len(stack))
     ELSE /\ Pushed(names[CHOOSE i \in S : TRUE][2]) /\ Advance
          /\ UNCHANGED <<code, synced, upvalues, heap, slots, names, tries, out, status>>

\* Stores leave the value on the stack.
StoreLocal ==
  /\ Fetch({"STORE_LOCAL", "STORE_LOCAL_W"})
  /\ stack' = [stack EXCEPT ![Local(I[2])] = Peek(0)] /\ Advance
  /\ UNCHANGED <<code, synced, upvalues, heap, slots, names, tries, out, status>>

StoreUpvalue ==
  /\ Fetch({"STORE_UPVALUE"})
  /\ LET id == Frame.ups[I[2] + 1]  u == upvalues[id] IN
     IF u.loc # 0
     THEN stack' = [stack EXCEPT ![u.loc] = Peek(0)] /\ UNCHANGED upvalues
     ELSE upvalues' = [upvalues EXCEPT ![id].closed = Peek(0)] /\ UNCHANGED stack
  /\ Advance
  /\ UNCHANGED <<code, synced, heap, slots, names, tries, out, status>>

StoreGlobalSlot ==
  /\ Fetch({"STORE_GLOBAL_SLOT"})
  /\ slots' = [slots EXCEPT ![I[2] + 1] = Peek(0)] /\ Advance
  /\ UNCHANGED <<code, synced, stack, upvalues, heap, names, tries, out, status>>

StoreGlobal ==
  /\ Fetch({"STORE_GLOBAL"})
  /\ names' = Append(SelectSeq(names, LAMBDA g : g[1] # I[2]), <<I[2], Peek(0)>>) /\ Advance
  /\ UNCHANGED <<code, synced, stack, upvalues, heap, slots, tries, out, status>>

CloseUpvalue ==
  /\ Fetch({"CLOSE_UPVALUE"})
  /\ upvalues' = closeUpvalues(upvalues, Local(I[2])) /\ Advance
  /\ synced' = Len(stack)
  /\ UNCHANGED <<code, stack, heap, slots, names, tries, out, status>>

(***************************************************************************)
(* Operators and containers.                                               *)
(***************************************************************************)
\* The result replaces n operands, or the exception is thrown; this->stackTop is
\* then ok or bad high.
Operate(n, r, ok, bad) ==
  IF ~ r.ok THEN Unwind(r.v, r.h, bad)
  ELSE /\ stack' = Append(Dropped(n), r.v) /\ heap' = r.h /\ synced' = ok /\ Advance
       /\ UNCHANGED <<code, upvalues, slots, names, tries, out, status>>
\* By a helper: doAdd() and the like pop their operands off this->stackTop.
Helped(n, r) == Operate(n, r, Len(stack) - n + 1, Len(stack) - n)
\* By run() itself: only a fault syncs, with k operands popped.
Direct(n, r, k) == Operate(n, r, synced, Len(stack) - k)

InPlace(op, a, b) ==
  CASE op \in {"EQUAL", "NOT_EQUAL"} -> a[1] = b[1] /\ a[1] \in {"int", "float", "bool", "nil"}
    [] op = "MOD" -> BothInt(a, b)
    [] op = "POW" -> FALSE
    [] OTHER -> BothNum(a, b)
Binary ==
  /\ Fetch(BinaryOps)
  /\ LET r == BinaryOp(I[1], heap, Peek(1), Peek(0)) IN
     IF I[1] = "MEMBER_IN" THEN Direct(2, r, 2)
     ELSE IF InPlace(I[1], Peek(1), Peek(0)) THEN Direct(2, r, 0) ELSE Helped(2, r)
Unary ==
  /\ Fetch({"NOT", "NEGATE"})
  /\ LET r == UnaryOp(I[1], heap, Peek(0)) IN
     IF I[1] = "NEGATE" /\ IsNumber(Peek(0)) THEN Direct(1, r, 0) ELSE Helped(1, r)
IndexGet == Fetch({"INDEX_GET"}) /\ Helped(2, doIndexGet(heap, Peek(1), Peek(0)))
IndexSet == Fetch({"INDEX_SET"}) /\ Helped(3, doIndexSet(heap, Peek(2), Peek(1), Peek(0)))

\* The fused x = x op y: operands from the slots, result into the destination.
\* Numbers are added in place; the helper gets others on the stack.
Fused(a, b, r, d, isGlobal) ==
  IF ~ r.ok THEN Unwind(r.v, r.h, Len(stack))
  ELSE /\ heap' = r.h /\ Advance
       /\ synced' = IF BothNum(a, b) \/ (I[1] \in {"ADD_LOCAL_LOCAL", "ADD_GLOBAL_LOCAL"}
                                         /\ Is(a, "str") /\ Is(b, "str"))
                    THEN synced ELSE Len(stack) + 1
       /\ IF isGlobal THEN slots' = [slots EXCEPT ![d] = r.v] /\ UNCHANGED stack
          ELSE stack' = [stack EXCEPT ![d] = r.v] /\ UNCHANGED slots
       /\ UNCHANGED <<code, upvalues, names, tries, out, status>>
FusedLocal(b) ==
  LET a == stack[Local(I[2])]
      r == IF I[1] = "SUB_LOCAL_LOCAL" THEN doSubtract(heap, a, b) ELSE doAdd(heap, a, b)
  IN Fused(a, b, r, Local(I[2]), FALSE)
FusedAssign ==
  \/ Fetch({"ADD_LOCAL_LOCAL", "SUB_LOCAL_LOCAL"}) /\ FusedLocal(stack[Local(I[3])])
  \/ Fetch({"INC_LOCAL_BY"}) /\ FusedLocal(IntV(I[3]))
  \/ Fetch({"INC_LOCAL"}) /\ FusedLocal(IntV(1))
  \/ /\ Fetch({"ADD_GLOBAL_LOCAL"})
     /\ LET a == slots[I[2] + 1]  b == stack[Local(I[3])] IN Fused(a, b, doAdd(heap, a, b), I[2] + 1, TRUE)

MakeSequence ==
  \/ Fetch({"MAKE_ARRAY"}) /\ Direct(I[2], Alloc(heap, "arr", LastN(stack, I[2])), 0)
  \/ Fetch({"BUILD_TUPLE"}) /\ Direct(I[2], Alloc(heap, "tup", LastN(stack, I[2])), 0)

\* Pairs are taken from the end, so the first of two equal keys is kept.
MakeDict ==
  /\ Fetch({"MAKE_DICT"})
  /\ LET n == I[2]
         s == LastN(stack, 2 * n)
         d == Alloc(heap, "dict", <<>>)
         Put(h, i) == DictSet(h, d.v, Text(s[2 * i - 1]), s[2 * i])
     IN Direct(2 * n, Ok(FoldLeft(Put, d.h, [i \in 1..n |-> n + 1 - i]), d.v), 0)

Characters(s) == [i \in 1..Len(s) |-> StrV(<<s[i]>>)]
Grown(v) == IF Is(v, "arr") THEN Elems(heap, v) ELSE Characters(v[2])
ArrayGrow ==
  \/ /\ Fetch({"ARRAY_APPEND"})
     /\ Direct(2, Ok([heap EXCEPT ![Peek(1)[2]].e = Append(@, Peek(0))], Peek(1)), 0)
  \/ /\ Fetch({"ARRAY_EXTEND"})
     /\ Direct(2, IF Peek(0)[1] \notin {"arr", "str"} THEN RunErr(heap, "spread")
                  ELSE Ok([heap EXCEPT ![Peek(1)[2]].e = @ \o Grown(Peek(0))], Peek(1)), 1)

IsInstanceOf ==
  /\ Fetch({"IS_INSTANCE_OF"})
  /\ Direct(2, Ok(heap, BoolV(isInstanceOf(Peek(1), Peek(0)[2][1][2]))), 0)

\* Properties of a dictionary: how an importer reads a module.
LoadProperty ==
  /\ Fetch({"LOAD_PROPERTY"})
  /\ LET o == Peek(0)  k == Chr(I[2])[2] IN
     Direct(1, IF ~ Is(o, "dict") THEN Raise(heap, "TypeError")
               ELSE IF ~ HasKey(heap, o, k) THEN Raise(heap, "KeyError")
               ELSE Ok(heap, Lookup(heap, o, k)), 1)
StoreProperty ==
  /\ Fetch({"INTERCEPTED_STORE_PROPERTY"})
  /\ Direct(2, IF Is(Peek(1), "dict")
               THEN Ok(DictSet(heap, Peek(1), Chr(I[2])[2], Peek(0)), Peek(0))
               ELSE RunErr(heap, "property"), 2)

(***************************************************************************)
(* Iteration: an iterator is an array of the data and the next index.      *)
(***************************************************************************)
Iterator(h, data) == Alloc(h, "arr", <<data, IntV(0)>>)
GetIter ==
  /\ Fetch({"GET_ITER"})
  /\ LET v == Peek(0)
         ks == Alloc(heap, "arr", [i \in 1..Len(Keys(heap, v)) |-> StrV(Keys(heap, v)[i])])
     IN Direct(1, IF v[1] \in {"arr", "str"} THEN Iterator(heap, v)
                  ELSE IF Is(v, "dict") THEN Iterator(ks.h, ks.v)
                  ELSE Raise(heap, "TypeError"), 1)
GetDictIter ==
  /\ Fetch({"GET_DICT_ITER"})
  /\ LET v == Peek(0)
         Pair(acc, p) == LET a == Alloc(acc.h, "arr", <<StrV(p[1]), p[2]>>)
                         IN [h |-> a.h, s |-> Append(acc.s, a.v)]
         ps == FoldLeft(Pair, [h |-> heap, s |-> <<>>], Elems(heap, v))
         is == Alloc(ps.h, "arr", ps.s)
     IN Direct(1, IF Is(v, "dict") THEN Iterator(is.h, is.v) ELSE Raise(heap, "TypeError"), 1)

\* The iterator on the stack gives way to the next element, or to the exit.
IterNext ==
  /\ Fetch({"ITER_NEXT"})
  /\ LET it == Peek(0)
         d  == Elems(heap, it)[1]
         n  == Elems(heap, it)[2][2] + 1
         data == Grown(d)
     IN IF n <= Len(data)
        THEN /\ heap' = [heap EXCEPT ![it[2]].e[2] = IntV(n)]
             /\ stack' = Append(Dropped(1), data[n]) /\ Advance
        ELSE stack' = Dropped(1) /\ Goto(I[2]) /\ UNCHANGED heap
  /\ UNCHANGED <<code, synced, upvalues, slots, names, tries, out, status>>

(***************************************************************************)
(* Jumps                                                                   *)
(***************************************************************************)
Jump ==
  /\ Fetch({"JUMP", "LOOP"}) /\ Goto(I[2])
  /\ UNCHANGED <<code, synced, stack, upvalues, heap, slots, names, tries, out, status>>

Taken(op, v) ==
  CASE op = "JUMP_IF_FALSE"   -> ~ isTruthy(v)
    [] op = "JUMP_IF_TRUE"    -> isTruthy(v)
    [] op = "JUMP_IF_NIL"     -> v = Nil
    [] op = "JUMP_IF_NOT_NIL" -> v # Nil
ConditionalJump ==
  /\ Fetch({"JUMP_IF_FALSE", "JUMP_IF_TRUE", "JUMP_IF_NIL", "JUMP_IF_NOT_NIL"})
  /\ stack' = Dropped(1)
  /\ Goto(IF Taken(I[1], Peek(0)) THEN I[2] ELSE Frame.pc + 1)
  /\ UNCHANGED <<code, synced, upvalues, heap, slots, names, tries, out, status>>

LoopLessEqLocal ==
  /\ Fetch({"LOOP_LESS_EQ_LOCAL"})
  /\ LET v == stack[Local(I[3])]  e == stack[Local(I[4])] IN
     IF ~ BothNum(v, e) THEN Unwind(RunErr(heap, "repeat").v, heap, Len(stack))
     ELSE /\ Goto(IF NumLess(e, v) THEN I[2] ELSE Frame.pc + 1)
          /\ UNCHANGED <<code, synced, stack, upvalues, heap, slots, names, tries, out, status>>

PrintStr ==
  /\ Fetch({"PRINT_STR"})
  /\ out' = Append(out, Text(Peek(0))) /\ stack' = Dropped(1) /\ Advance
  /\ UNCHANGED <<code, synced, upvalues, heap, slots, names, tries, status>>

(***************************************************************************)
(* Closures and calls                                                      *)
(***************************************************************************)
\* captureUpvalue: one upvalue object per captured slot.
Capture(us, loc) ==
  LET S == {i \in 1..Len(us) : us[i].loc = loc}
  IN IF S # {} THEN [us |-> us, id |-> CHOOSE i \in S : TRUE]
     ELSE [us |-> Append(us, [loc |-> loc, closed |-> Nil]), id |-> Len(us) + 1]
Closure ==
  /\ Fetch({"CLOSURE"})
  /\ LET Step(acc, u) ==
           LET k == Capture(acc.us, Local(u[2])) IN
           IF u[1] THEN [us |-> k.us, ids |-> Append(acc.ids, k.id)]
           ELSE [us |-> acc.us, ids |-> Append(acc.ids, Frame.ups[u[2] + 1])]
         r == FoldLeft(Step, [us |-> upvalues, ids |-> <<>>], I[3])
     IN upvalues' = r.us /\ Pushed(<<"clo", I[2], r.ids>>)
  /\ Advance
  /\ UNCHANGED <<code, synced, heap, slots, names, tries, out, status>>

\* The arguments as the callee's frame gets them: the rest packed into an array
\* for a variadic function, nil for what is missing.
Arranged(f, args, h) ==
  LET n    == Len(f.params)
      rest == IF Len(args) >= n THEN SubSeq(args, n, Len(args)) ELSE <<>>
      a    == Alloc(h, "arr", rest)
      Pad(s, k) == s \o [i \in 1..(k - Len(s)) |-> Nil]
  IN IF f.isVariadic
     THEN [args |-> Append(Pad(SubSeq(args, 1, IF Len(args) < n THEN Len(args) ELSE n - 1),
                               n - 1), a.v), h |-> a.h]
     ELSE [args |-> Pad(args, n), h |-> h]
ArityOk(f, argc) ==
  f.isVariadic \/ argc \in (Len(f.params) - f.defaultParamCount)..Len(f.params)

\* dispatchCall and pushCallFrame; below is the stack under callee and arguments,
\* and this->stackTop is above them.
Invoke(below, callee, args, h) ==
  LET top == Len(below) + 1 + Len(args) IN
  IF Is(callee, "class")
  THEN /\ stack' = Append(below, Exc(callee[2])) /\ heap' = h /\ synced' = Len(below) + 1 /\ Advance
       /\ UNCHANGED <<code, upvalues, slots, names, tries, out, status>>
  ELSE IF ~ Is(callee, "clo") THEN Unwind(Exc("TypeError"), h, top)
  ELSE LET f == code.funs[callee[2]]
           a == Arranged(f, args, h)
       IN IF ~ ArityOk(f, Len(args)) THEN Unwind(Exc("TypeError"), h, top)
          ELSE IF Len(frames) >= maxFrames
               THEN Unwind(Exc("RecursionError"), a.h,
                           IF f.isVariadic THEN Len(below) + 1 + Len(a.args) ELSE top)
          ELSE /\ stack' = Append(below, callee) \o a.args
                           \o [i \in 1..(f.localCount - Len(a.args)) |-> Nil]
               /\ synced' = Len(stack')
               /\ frames' = Append([frames EXCEPT ![Len(frames)].pc = @ + 1],
                                   [fn |-> callee[2], pc |-> 1, base |-> Len(below) + 1,
                                    ups |-> callee[3], left |-> 0])
               /\ heap' = a.h
               /\ UNCHANGED <<code, upvalues, slots, names, tries, out, status>>

CallOp ==
  /\ Fetch({"CALL"})
  /\ Invoke(Dropped(I[2] + 1), Peek(I[2]), LastN(stack, I[2]), heap)

\* Named arguments fill the parameters after the positional ones.
CallKwOp ==
  /\ Fetch({"CALL_KW"})
  /\ LET n   == I[2]
         kw  == Elems(heap, Peek(0))
         callee == Peek(n + 1)
         pos == SubSeq(stack, Len(stack) - n, Len(stack) - 1)
         ps  == IF Is(callee, "clo") THEN code.funs[callee[2]].params ELSE <<>>
         free == SubSeq(ps, n + 1, Len(ps))
         args == pos \o [i \in 1..Len(free) |-> Lookup(heap, Peek(0), Chr(free[i])[2])]
         bad  == \E i \in 1..Len(kw) : kw[i][1] \notin {Chr(free[j])[2] : j \in 1..Len(free)}
     IN IF bad THEN Unwind(RunErr(heap, "keyword").v, heap, Len(stack) - 1 + Len(free))
        ELSE Invoke(Dropped(n + 2), callee, args, heap)

CallSpread ==
  /\ Fetch({"CALL_SPREAD"})
  /\ Invoke(Dropped(2), Peek(1), Elems(heap, Peek(0)), heap)

\* o.name(args) on a dictionary calls what it holds; other values have no methods.
InvokeMethod ==
  /\ Fetch({"INVOKE_METHOD"})
  /\ LET n == I[3]  o == Peek(n)
         f == IF Is(o, "dict") THEN Lookup(heap, o, Chr(I[2])[2]) ELSE Nil
     IN IF f[1] \notin {"clo", "class"} THEN Unwind(RunErr(heap, "method").v, heap, Len(stack))
        ELSE Invoke(Dropped(n + 1), f, LastN(stack, n), heap)

\* A tail call of the running function reuses its frame: no arity check.
TailCall ==
  /\ Fetch({"TAIL_CALL"})
  /\ LET n == I[2]  callee == Peek(n)  args == LastN(stack, n) IN
     IF Is(callee, "clo") /\ callee[2] = Frame.fn
     THEN /\ upvalues' = closeUpvalues(upvalues, Frame.base + 1)
          /\ stack' = SubSeq(stack, 1, Frame.base)
                      \o [i \in 1..Fun.localCount |-> IF i <= n THEN args[i] ELSE Nil]
          /\ frames' = [frames EXCEPT ![Len(frames)].pc = 1, ![Len(frames)].ups = callee[3],
                                        ![Len(frames)].left = 0]
          /\ UNCHANGED <<code, synced, heap, slots, names, tries, out, status>>
     ELSE Invoke(Dropped(n + 1), callee, args, heap)

\* this->stackTop stays where it was in the frame that returns.
Return ==
  /\ Fetch({"RETURN"})
  /\ upvalues' = closeUpvalues(upvalues, Frame.base + 1)
  /\ tries' = SelectSeq(tries, LAMBDA t : t.frame < Len(frames))
  /\ synced' = Len(stack) - 1
  /\ UNCHANGED <<code, heap, slots, names, out>>
  /\ IF Len(frames) = 1
     THEN status' = <<"done">> /\ UNCHANGED <<stack, frames>>
     ELSE /\ frames' = Front(frames)
          /\ stack' = Append(SubSeq(stack, 1, Frame.base - 1), Peek(0))
          /\ UNCHANGED status

\* A finished program stays finished.
Halted == status # <<"run">> /\ UNCHANGED vars

Next ==
  \/ Load \/ Dup2 \/ Pop \/ LoadGlobal \/ StoreLocal \/ StoreUpvalue
  \/ StoreGlobalSlot \/ StoreGlobal \/ CloseUpvalue
  \/ Binary \/ Unary \/ IndexGet \/ IndexSet \/ FusedAssign
  \/ MakeSequence \/ MakeDict \/ ArrayGrow \/ IsInstanceOf
  \/ LoadProperty \/ StoreProperty
  \/ GetIter \/ GetDictIter \/ IterNext
  \/ Jump \/ ConditionalJump \/ LoopLessEqLocal \/ PrintStr
  \/ Closure \/ CallOp \/ CallKwOp \/ CallSpread \/ InvokeMethod \/ TailCall \/ Return
  \/ TryStart \/ TryEnd \/ ThrowOp
  \/ Halted
=============================================================================
