------------------------------ MODULE Compiler ------------------------------
(***************************************************************************)
(* The bytecode compiler (src/compiler): what code it emits for each node  *)
(* of the syntax tree.                                                     *)
(*                                                                         *)
(* The compiler is one object whose methods mutate it; here it is a record *)
(* c threaded through operators of the same names.  c.fs is the stack of   *)
(* per-function Compiler objects (`current` is the last, `enclosing` the   *)
(* one below unless root), c.funs is compiledFunctions, c.globals the name *)
(* of each global slot, c.loops loopStack, c.old oldCaptures and c.ens     *)
(* currentEnsuresClauses, c.mods compilingModules.  errorAt() throws: the  *)
(* first error is kept in c.err and what is emitted after it is not used.  *)
(* An error "bad_variant_access" is one compile() does not catch.          *)
(*                                                                         *)
(* An instruction is a tuple <<opcode, operands...>>; a jump holds the     *)
(* index of its target as first operand; constants are held in place of    *)
(* their index in the constant table.  Local slots count from 0.           *)
(***************************************************************************)
EXTENDS Values, Syntax

CONSTANT
  NarrowMax,    \* the largest slot a one-byte operand holds (255)
  ImmMax,       \* the largest immediate of INC_LOCAL_BY (127)
  UpvalueMax    \* captured variables a function may have (255)
ASSUME CompilerBounds == {NarrowMax, ImmMax, UpvalueMax} \subseteq Nat

(***************************************************************************)
(* Per-function state and the whole compiler.                              *)
(***************************************************************************)
NewCompiler(id, name, params, root) ==
  [id |-> id, name |-> name, params |-> params, root |-> root, code |-> <<>>,
   locals |-> <<>>, ups |-> <<>>, depth |-> 0, maxLocals |-> 0, trys |-> <<>>,
   statics |-> <<>>, harvest |-> FALSE]

\* files, vfs: sequences of [loc, dir, stmts]; pkgs: package name -> entry file
NewBytecodeCompiler(builtins, files, vfs, pkgs) ==
  [fs |-> << NewCompiler(1, "<main>", <<>>, TRUE) >>, funs |-> <<>>, ids |-> 1,
   loops |-> <<>>, globals |-> builtins, err |-> "none", ens |-> <<>>,
   old |-> <<>>, mods |-> {}, types |-> {}, dir |-> <<".">>,
   files |-> files, vfs |-> vfs, pkgs |-> pkgs]

Cur(c)        == c.fs[Len(c.fs)]
errorAt(c, e) == IF c.err = "none" THEN [c EXCEPT !.err = e] ELSE c

(***************************************************************************)
(* Code emission                                                           *)
(***************************************************************************)
emitOp(c, ins)  == [c EXCEPT !.fs[Len(c.fs)].code = Append(@, ins)]
emitOps(c, is)  == [c EXCEPT !.fs[Len(c.fs)].code = @ \o is]
Here(c)         == Len(Cur(c).code) + 1
\* A forward jump is emitted without its target; At is where it stands.
emitJump(c, op) == emitOp(c, <<op, 0>>)
At(c)           == Here(c) - 1
patchJump(c, at) == [c EXCEPT !.fs[Len(c.fs)].code[at][2] = Here(c)]
emitLoop(c, to) == emitOp(c, <<"LOOP", to>>)
emitReturn(c)   == emitOp(c, <<"RETURN">>)
emitLoadLocal(c, s) ==
  emitOp(c, <<IF s <= NarrowMax THEN "LOAD_LOCAL" ELSE "LOAD_LOCAL_W", s>>)
emitStoreLocal(c, s) ==
  emitOp(c, <<IF s <= NarrowMax THEN "STORE_LOCAL" ELSE "STORE_LOCAL_W", s>>)
emitConstant(c, v) ==
  emitOp(c, CASE Is(v, "nil") -> <<"LOAD_NIL">>
              [] Is(v, "bool") -> <<IF v[2] THEN "LOAD_TRUE" ELSE "LOAD_FALSE">>
              [] v = IntV(0) -> <<"LOAD_ZERO">>
              [] v = IntV(1) -> <<"LOAD_ONE">>
              [] v = StrV(<<>>) -> <<"LOAD_EMPTY_STR">>
              [] OTHER -> <<"LOAD_CONST", v>>)

(***************************************************************************)
(* Scopes, locals, upvalues, globals                                       *)
(***************************************************************************)
addLocal(c, name, resident) ==
  LET f == Cur(c)
      l == [name |-> name, depth |-> f.depth, captured |-> FALSE,
            resident |-> resident, exported |-> FALSE]
      n == Len(f.locals) + 1
  IN [c EXCEPT !.fs[Len(c.fs)] =
        [f EXCEPT !.locals = Append(@, l),
                  !.maxLocals = IF n > @ THEN n ELSE @]]
Last0(c) == Len(Cur(c).locals) - 1      \* slot of the newest local

beginScope(c) == [c EXCEPT !.fs[Len(c.fs)].depth = @ + 1]

CloseAndPop(f, i) ==
  (IF f.locals[i].captured
   THEN << <<"CLOSE_UPVALUE", (i - 1) % (NarrowMax + 1)>> >> ELSE <<>>)
  \o (IF f.locals[i].resident THEN << <<"POP">> >> ELSE <<>>)

\* The locals deeper than d, newest first (a scope's locals are a suffix).
Deeper(f, d) ==
  LET stay == {i \in 1..Len(f.locals) : f.locals[i].depth <= d}
      k    == IF stay = {} THEN 0 ELSE Max(stay)
  IN [j \in 1..(Len(f.locals) - k) |-> Len(f.locals) + 1 - j]
PopLocals(c, d) ==
  LET f == Cur(c) IN
  emitOps(c, FlattenSeq([j \in 1..Len(Deeper(f, d)) |-> CloseAndPop(f, Deeper(f, d)[j])]))

endScope(c) ==
  LET d  == Cur(c).depth - 1
      n  == Len(Deeper(Cur(c), d))
      c1 == PopLocals(c, d)
  IN [c1 EXCEPT !.fs[Len(c.fs)].depth = d,
                !.fs[Len(c.fs)].locals = SubSeq(@, 1, Len(@) - n)]

SlotOf(f, name) ==
  LET S == {i \in 1..Len(f.locals) : f.locals[i].name = name}
  IN IF S = {} THEN 0 - 1 ELSE Max(S) - 1
resolveLocal(c, name) == SlotOf(Cur(c), name)

addUpvalue(c, l, index, local) ==
  LET us == c.fs[l].ups  u == <<local, index>>
      S  == {i \in 1..Len(us) : us[i] = u}
  IN IF S # {} THEN [c |-> c, i |-> Max(S) - 1]
     ELSE [c |-> IF Len(us) >= UpvalueMax THEN errorAt(c, "upvalues")
                 ELSE [c EXCEPT !.fs[l].ups = Append(@, u)],
           i |-> Len(us)]

RECURSIVE resolveUpvalueAt(_, _, _)
resolveUpvalueAt(c, l, name) ==
  IF c.fs[l].root THEN [c |-> c, i |-> 0 - 1]
  ELSE LET s == SlotOf(c.fs[l - 1], name) IN
       IF s >= 0
       THEN addUpvalue([c EXCEPT !.fs[l - 1].locals[s + 1].captured = TRUE], l, s, TRUE)
       ELSE LET r == resolveUpvalueAt(c, l - 1, name) IN
            IF r.i < 0 THEN r ELSE addUpvalue(r.c, l, r.i, FALSE)
resolveUpvalue(c, name) == resolveUpvalueAt(c, Len(c.fs), name)

\* The mangled name of a static of this or an enclosing function, or <<>>.
RECURSIVE resolveStaticAt(_, _, _)
resolveStaticAt(c, l, name) ==
  LET S == {i \in 1..Len(c.fs[l].statics) : c.fs[l].statics[i][1] = name} IN
  IF S # {} THEN c.fs[l].statics[Max(S)][2]
  ELSE IF c.fs[l].root THEN <<>> ELSE resolveStaticAt(c, l - 1, name)
resolveStatic(c, name) == resolveStaticAt(c, Len(c.fs), name)

HasGlobal(c, name) == \E i \in 1..Len(c.globals) : c.globals[i] = name
GlobalSlot(c, name) == (CHOOSE i \in 1..Len(c.globals) : c.globals[i] = name) - 1
\* globalSlotFor(): the slot, allocated if the name has none.
WithGlobal(c, name) == IF HasGlobal(c, name) THEN c
                       ELSE [c EXCEPT !.globals = Append(@, name)]
emitGlobal(c, op, name) ==
  LET c1 == WithGlobal(c, name) IN emitOp(c1, <<op, GlobalSlot(c1, name)>>)

(***************************************************************************)
(* Constant folding: isConstant() returns the folded constant as a         *)
(* one-element sequence, or <<>>.  Beside a float it reads the other        *)
(* operand as a float too, whatever it is: std::get throws, and nothing    *)
(* catches it before the caller of compile().                              *)
(***************************************************************************)
isConstantTruthy(v) ==
  CASE Is(v, "nil") -> FALSE
    [] Is(v, "bool") -> v[2]
    [] IsNumber(v) -> v[2] # 0
    [] Is(v, "str") -> v[2] # <<>>

constantEquals(a, b) ==
  IF IsNumber(a) /\ IsNumber(b) THEN NumEqual(a, b) ELSE a = b

\* The operators the folder knows on two integers, two numbers, a string.
\* (Mutant: a difference folded without wrapping.)
FoldIntsUnwrapped(op, l, r) ==
  CASE op = "SUB" -> <<IntV(l - r)>>
    [] op = "ADD" -> <<IntV(wrapAdd(l, r))>>
    [] op = "MUL" -> <<IntV(wrapMul(l, r))>>
    [] OTHER -> <<>>
FoldInts(op, l, r) ==
  CASE op = "ADD" -> <<IntV(wrapAdd(l, r))>>
    [] op = "SUB" -> <<IntV(wrapSub(l, r))>>
    [] op = "MUL" -> <<IntV(wrapMul(l, r))>>
    [] op = "MOD" /\ ~divIsUB(l, r) -> <<IntV(Rem(l, r))>>
    [] op = "DIV" /\ ~divIsUB(l, r) ->
         <<IF divIsExact(l, r) THEN IntV(Quot(l, r)) ELSE Float(l, r)>>
    [] op = "LESS" -> <<BoolV(l < r)>>
    [] op = "LESS_EQ" -> <<BoolV(l <= r)>>
    [] op = "GREATER" -> <<BoolV(l > r)>>
    [] op = "GREATER_EQ" -> <<BoolV(l >= r)>>
    [] OTHER -> <<>>
FoldNumbers(op, a, b) ==
  CASE op \in {"ADD", "SUB", "MUL"} -> <<RatOp(op, a, b)>>
    [] op = "DIV" /\ b[2] # 0 -> <<RatOp(op, a, b)>>
    [] op = "LESS" -> <<BoolV(NumLess(a, b))>>
    [] op = "LESS_EQ" -> <<BoolV(~ NumLess(b, a))>>
    [] op = "GREATER" -> <<BoolV(NumLess(b, a))>>
    [] op = "GREATER_EQ" -> <<BoolV(~ NumLess(a, b))>>
    [] OTHER -> <<>>
FoldStrings(op, a, b) ==
  CASE op = "ADD" -> <<StrV(Text(a) \o Text(b))>>
    [] op = "MUL" /\ Is(a, "str") /\ Is(b, "int") ->
         <<StrV(IF b[2] <= 0 THEN <<>> ELSE Repeated(a[2], b[2]))>>
    [] OTHER -> <<>>
BadVariantAccess == << <<"bad_variant_access">> >>
MisreadAsFloat(op, a, b) ==
  /\ \/ Is(a, "float") /\ ~ IsNumber(b)
     \/ Is(b, "float") /\ ~ IsNumber(a)
  /\ op = "ADD" => ~ Is(a, "str") /\ ~ Is(b, "str")
FoldBinary(op, a, b) ==
  IF op = "EQUAL" THEN <<BoolV(constantEquals(a, b))>>
  ELSE IF op = "NOT_EQUAL" THEN <<BoolV(~ constantEquals(a, b))>>
  ELSE IF MisreadAsFloat(op, a, b) THEN BadVariantAccess
  ELSE IF Is(a, "str") \/ Is(b, "str") THEN FoldStrings(op, a, b)
  ELSE IF BothInt(a, b) THEN FoldInts(op, a[2], b[2])
  ELSE IF BothNum(a, b) THEN FoldNumbers(op, a, b) ELSE <<>>
FoldUnary(op, a) ==
  IF op = "NOT" THEN <<BoolV(~ isConstantTruthy(a))>>
  ELSE IF Is(a, "int") THEN <<IntV(wrapNeg(a[2]))>>
  ELSE IF Is(a, "float") THEN << <<"float", 0 - a[2], a[3]>> >> ELSE <<>>

RECURSIVE isConstant(_)
isConstant(e) ==
  CASE e.k = "lit" -> <<e.value>>
    [] e.k = "bin" -> LET l == isConstant(e.left)  r == isConstant(e.right) IN
                      IF l \in {<<>>, BadVariantAccess} THEN l
                      ELSE IF r \in {<<>>, BadVariantAccess} THEN r
                      ELSE FoldBinary(e.op, l[1], r[1])
    [] e.k = "un" -> LET o == isConstant(e.operand) IN
                     IF o \in {<<>>, BadVariantAccess} THEN o ELSE FoldUnary(e.op, o[1])
    [] OTHER -> <<>>

(***************************************************************************)
(* Expressions                                                             *)
(***************************************************************************)
\* Every node is compiled through Visit, defined at the end.
RECURSIVE Visit(_, _, _)
compileExpr(c, e) == Visit(c, "expr", e)
compileStmt(c, s) == Visit(c, "stmt", s)
compileFunction(c, task, name) == Visit(c, "function", <<task, name>>)

\* Nothing is compiled after an error.
Exprs(c, es) == FoldLeft(LAMBDA d, e : IF d.err = "none" THEN compileExpr(d, e) ELSE d, c, es)
Stmts(c, ss) == FoldLeft(LAMBDA d, s : IF d.err = "none" THEN compileStmt(d, s) ELSE d, c, ss)

\* Where a name is read from: static, local, upvalue, then a global slot.
compileIdentifier(c, e) ==
  LET st == resolveStatic(c, e.name)
      s  == resolveLocal(c, e.name)
      u  == resolveUpvalue(c, e.name)
  IN IF st # <<>> THEN emitOp(c, <<"LOAD_GLOBAL", st>>)
     ELSE IF s >= 0 THEN emitLoadLocal(c, s)
     ELSE IF u.i >= 0 THEN emitOp(u.c, <<"LOAD_UPVALUE", u.i>>)
     ELSE emitGlobal(c, "LOAD_GLOBAL_SLOT", e.name)

\* Where a name is stored to; a name found nowhere becomes a new local inside
\* a scope, a new global outside.
StoreName(c, name) ==
  LET st == resolveStatic(c, name)
      s  == resolveLocal(c, name)
      u  == resolveUpvalue(c, name)
  IN IF st # <<>> THEN emitOp(c, <<"STORE_GLOBAL", st>>)
     ELSE IF s >= 0 THEN emitStoreLocal(c, s)
     ELSE IF u.i >= 0 THEN emitOp(u.c, <<"STORE_UPVALUE", u.i>>)
     ELSE IF HasGlobal(c, name) /\ ~ Cur(c).harvest
          THEN emitGlobal(c, "STORE_GLOBAL_SLOT", name)
     ELSE IF Cur(c).depth > 0
          THEN LET c1 == addLocal(c, name, FALSE) IN emitStoreLocal(c1, Last0(c1))
     ELSE emitGlobal(c, "STORE_GLOBAL_SLOT", name)

compileLiteral(c, e) == emitConstant(c, e.value)

\* left OP right, keeping left when it decides
ShortCircuit(c, l, jump, r) ==
  LET c1 == emitJump(emitOp(compileExpr(c, l), <<"DUP">>), jump)
      c2 == compileExpr(emitOp(c1, <<"POP">>), r)
  IN patchJump(c2, At(c1))

\* x + 0, x - 0, x * 1, 0 + x and 1 * x compile to x.
Simplified(e, l, r) ==
  IF \/ r = <<IntV(0)>> /\ e.op \in {"ADD", "SUB"}
     \/ r = <<IntV(1)>> /\ e.op = "MUL" THEN <<e.left>>
  ELSE IF \/ l = <<IntV(0)>> /\ e.op = "ADD"
          \/ l = <<IntV(1)>> /\ e.op = "MUL" THEN <<e.right>>
  ELSE <<>>

compileBinary(c, e) ==
  LET k == isConstant(e)
      l == isConstant(e.left)
      r == isConstant(e.right)
      s == Simplified(e, l, r)
  IN IF BadVariantAccess \in {k, l, r} THEN errorAt(c, "bad_variant_access")
     ELSE IF k # <<>> THEN emitConstant(c, k[1])
     ELSE IF s # <<>> THEN compileExpr(c, s[1])
     ELSE emitOp(Exprs(c, <<e.left, e.right>>), <<e.op>>)

compileLogical(c, e) ==
  ShortCircuit(c, e.left, CASE e.op = "AND" -> "JUMP_IF_FALSE"
                            [] e.op = "QUESTION_QUESTION" -> "JUMP_IF_NOT_NIL"
                            [] OTHER -> "JUMP_IF_TRUE", e.right)

compileUnary(c, e) ==
  LET k == isConstant(e) IN
  IF k = BadVariantAccess THEN errorAt(c, "bad_variant_access")
  ELSE IF k # <<>> THEN emitConstant(c, k[1])
  ELSE emitOp(compileExpr(c, e.operand), <<e.op>>)

\* Elements into an array under construction, spreading where asked.
PackArray(c, es) ==
  FoldLeft(LAMBDA d, e : IF e.k = "spread"
                         THEN emitOp(compileExpr(d, e.expression), <<"ARRAY_EXTEND">>)
                         ELSE emitOp(compileExpr(d, e), <<"ARRAY_APPEND">>),
           emitOp(c, <<"MAKE_ARRAY", 0>>), es)
HasSpread(es) == \E i \in 1..Len(es) : es[i].k = "spread"

\* old(x) in an ensures clause reads the slot captured at entry.
OldSlot(c, e) ==
  IF e.callee = Id("old") /\ Len(e.arguments) = 1
  THEN SelectSeq(c.old, LAMBDA o : o[1] = e.arguments[1]) ELSE <<>>

\* Positional arguments, then a dictionary of the named ones.
CallWithKeywords(c, e) ==
  LET pos == SelectSeq([i \in 1..Len(e.arguments) |-> <<e.argNames[i], e.arguments[i]>>],
                       LAMBDA a : a[1] = "")
      kw  == SelectSeq([i \in 1..Len(e.arguments) |-> <<e.argNames[i], e.arguments[i]>>],
                       LAMBDA a : a[1] # "")
      c1  == Exprs(compileExpr(c, e.callee), [i \in 1..Len(pos) |-> pos[i][2]])
      c2  == FoldLeft(LAMBDA d, a : compileExpr(emitOp(d, <<"LOAD_CONST", Chr(a[1])>>), a[2]),
                      c1, kw)
  IN emitOps(c2, << <<"MAKE_DICT", Len(kw)>>, <<"CALL_KW", Len(pos)>> >>)

compileCall(c, e) ==
  IF OldSlot(c, e) # <<>> THEN emitLoadLocal(c, OldSlot(c, e)[1][2])
  ELSE IF \E i \in 1..Len(e.argNames) : e.argNames[i] # "" THEN CallWithKeywords(c, e)
  ELSE IF HasSpread(e.arguments)
       THEN emitOp(PackArray(compileExpr(c, e.callee), e.arguments), <<"CALL_SPREAD">>)
  ELSE IF e.callee.k = "prop"
       THEN emitOp(Exprs(compileExpr(c, e.callee.object), e.arguments),
                   <<"INVOKE_METHOD", e.callee.property, Len(e.arguments)>>)
  ELSE emitOp(Exprs(compileExpr(c, e.callee), e.arguments), <<"CALL", Len(e.arguments)>>)

compileIndex(c, e) == emitOp(Exprs(c, <<e.object, e.index>>), <<"INDEX_GET">>)
compileArray(c, e) ==
  IF HasSpread(e.elements) THEN PackArray(c, e.elements)
  ELSE emitOp(Exprs(c, e.elements), <<"MAKE_ARRAY", Len(e.elements)>>)
compileTuple(c, e) ==
  emitOp(Exprs(c, e.elements), <<"BUILD_TUPLE", Len(e.elements)>>)
compileDictionary(c, e) ==
  emitOp(FoldLeft(LAMBDA d, p : Exprs(d, p), c, e.pairs), <<"MAKE_DICT", Len(e.pairs)>>)
compilePropertyAccess(c, e) ==
  emitOp(compileExpr(c, e.object), <<"LOAD_PROPERTY", e.property>>)

compileAssign(c, e) ==
  IF e.index = Null THEN StoreName(compileExpr(c, e.value), e.name)
  ELSE LET c1 == Exprs(c, <<e.object, e.index>>)
           c2 == IF e.compoundOp = "" THEN compileExpr(c1, e.value)
                 ELSE emitOp(compileExpr(emitOps(c1, << <<"DUP2">>, <<"INDEX_GET">> >>),
                                         e.value), <<e.compoundOp>>)
       IN emitOp(c2, <<"INDEX_SET">>)

\* The value stays on the stack; each target takes its element from a hidden local.
compileDestructureAssign(c, e) ==
  LET c0 == addLocal(compileExpr(c, e.value), "<destructure-val>", FALSE)
      t  == Last0(c0)
      Elem(d, i) == emitOps(emitLoadLocal(d, t),
                            << <<"LOAD_CONST", IntV(i - 1)>>, <<"INDEX_GET">> >>)
      Target(d, i) ==
        LET g == e.targets[i] IN
        IF g.k = "id" THEN emitOp(StoreName(Elem(d, i), g.name), <<"POP">>)
        ELSE emitOps(Elem(Exprs(d, <<g.object, g.index>>), i),
                     << <<"INDEX_SET">>, <<"POP">> >>)
  IN FoldLeft(Target, emitStoreLocal(c0, t), [i \in 1..Len(e.targets) |-> i])

compileTernary(c, e) ==
  LET c1 == emitJump(compileExpr(c, e.condition), "JUMP_IF_FALSE")
      c2 == emitJump(compileExpr(c1, e.thenBranch), "JUMP")
      c3 == compileExpr(patchJump(c2, At(c1)), e.elseBranch)
  IN patchJump(c3, At(c2))

\* CLOSURE of the function just compiled: the last of compiledFunctions.
emitClosure(c, task, name) ==
  LET c1 == compileFunction(c, task, name)
      f  == c1.funs[Len(c1.funs)]
  IN emitOp(c1, <<"CLOSURE", Len(c1.funs), f.ups>>)

compileLambda(c, e) ==
  emitClosure(c, Task("<lambda>", e.params, e.body), "<lambda>")

compileSpread(c, e) == errorAt(c, "spread")

ExprNode(c, e) ==
  CASE e.k = "null"        -> emitOp(c, <<"LOAD_NIL">>)
    [] e.k = "lit"         -> compileLiteral(c, e)
    [] e.k = "id"          -> compileIdentifier(c, e)
    [] e.k = "bin"         -> compileBinary(c, e)
    [] e.k = "un"          -> compileUnary(c, e)
    [] e.k = "call"        -> compileCall(c, e)
    [] e.k = "index"       -> compileIndex(c, e)
    [] e.k = "array"       -> compileArray(c, e)
    [] e.k = "tuple"       -> compileTuple(c, e)
    [] e.k = "dict"        -> compileDictionary(c, e)
    [] e.k = "assign"      -> compileAssign(c, e)
    [] e.k = "destructure" -> compileDestructureAssign(c, e)
    [] e.k = "logical"     -> compileLogical(c, e)
    [] e.k = "ternary"     -> compileTernary(c, e)
    [] e.k = "lambda"      -> compileLambda(c, e)
    [] e.k = "prop"        -> compilePropertyAccess(c, e)
    [] e.k = "spread"      -> compileSpread(c, e)

(***************************************************************************)
(* Statements                                                              *)
(***************************************************************************)
\* x = x + y and x = x +/- n on narrow slots fuse into one instruction; the
\* result is <<>> when the general path must be taken.
compileCompoundAssignFast(c, a) ==
  LET b   == a.value
      dst == resolveLocal(c, a.name)
      src == IF b.right.k = "id" THEN resolveLocal(c, b.right.name) ELSE 0 - 1
      lit == b.right.k = "lit" /\ Is(b.right.value, "int")
      n   == b.right.value[2]
  IN IF ~ (a.index = Null /\ b.k = "bin" /\ b.left = Id(a.name)) THEN <<>>
     ELSE IF dst \in 0..NarrowMax /\ src \in 0..NarrowMax /\ b.op \in {"ADD", "SUB"}
     THEN <<emitOp(c, <<IF b.op = "ADD" THEN "ADD_LOCAL_LOCAL" ELSE "SUB_LOCAL_LOCAL",
                        dst, src>>)>>
     ELSE IF dst \in 0..NarrowMax /\ lit /\ b.op = "ADD" /\ n \in 0..ImmMax
     THEN <<emitOp(c, <<"INC_LOCAL_BY", dst, n>>)>>
     ELSE IF dst \in 0..NarrowMax /\ lit /\ b.op = "SUB" /\ n \in 0..(ImmMax + 1)
     THEN <<emitOp(c, <<"INC_LOCAL_BY", dst, 0 - n>>)>>
     ELSE IF /\ dst < 0 /\ src \in 0..NarrowMax /\ b.op = "ADD"
             /\ (HasGlobal(c, a.name) /\ ~ Cur(c).harvest) \/ Cur(c).depth = 0
     THEN LET c1 == WithGlobal(c, a.name)
          IN <<emitOp(c1, <<"ADD_GLOBAL_LOCAL", GlobalSlot(c1, a.name), src>>)>>
     ELSE <<>>

compileExpressionStmt(c, s) ==
  LET fast == IF s.expr.k = "assign" THEN compileCompoundAssignFast(c, s.expr) ELSE <<>>
  IN IF fast # <<>> THEN fast[1] ELSE emitOp(compileExpr(c, s.expr), <<"POP">>)

compileOutStmt(c, s) == emitOp(compileExpr(c, s.expr), <<"PRINT_STR">>)

\* A declared local is stored in its slot and its value also stays on the stack.
compileVarDecl(c, s) ==
  LET c1 == compileExpr(c, s.initializer) IN
  IF Cur(c).depth = 0
  THEN emitOp(emitGlobal(c1, "STORE_GLOBAL_SLOT", s.name), <<"POP">>)
  ELSE LET c2 == addLocal(c1, s.name, TRUE) IN emitStoreLocal(c2, Last0(c2))

\* Tasks declared in a scope get their slots first, so that they see each other.
predeclareLocalTasks(c, ss) ==
  IF Cur(c).depth = 0 THEN c
  ELSE FoldLeft(LAMBDA d, s : IF s.k = "task" /\ resolveLocal(d, s.name) < 0
                              THEN addLocal(d, s.name, FALSE) ELSE d, c, ss)

compileBlock(c, s) ==
  endScope(Stmts(predeclareLocalTasks(beginScope(c), s.statements), s.statements))

compileWhen(c, s) ==
  LET k == isConstant(s.condition) IN
  IF k = BadVariantAccess THEN errorAt(c, "bad_variant_access")
  ELSE IF k # <<>>
  THEN IF isConstantTruthy(k[1]) THEN compileStmt(c, s.thenBranch)
       ELSE compileStmt(c, s.elseBranch)
  ELSE LET c1 == emitJump(compileExpr(c, s.condition), "JUMP_IF_FALSE")
           c2 == compileStmt(c1, s.thenBranch)
           c3 == emitJump(c2, "JUMP")
       IN IF s.elseBranch = Null THEN patchJump(c2, At(c1))
          ELSE patchJump(compileStmt(patchJump(c3, At(c1)), s.elseBranch), At(c3))

(***************************************************************************)
(* Loops.  A loop context: where `skip` lands, the `escape` jumps to       *)
(* patch, and the try and scope depth at the loop.                         *)
(***************************************************************************)
startLoop(c) ==
  [c EXCEPT !.loops = Append(@, [start |-> Here(c), breaks |-> <<>>,
                                 tryDepth |-> Len(Cur(c).trys),
                                 scopeDepth |-> Cur(c).depth])]
LoopStartsHere(c) == [c EXCEPT !.loops[Len(c.loops)].start = Here(c)]
\* Patch the breaks, drop the context.
endLoop(c) ==
  LET c1 == FoldLeft(patchJump, c, c.loops[Len(c.loops)].breaks)
  IN [c1 EXCEPT !.loops = Front(@)]

compileWhile(c, s) ==
  LET k  == isConstant(s.condition)
      c1 == startLoop(c)
      c2 == emitJump(compileExpr(c1, s.condition), "JUMP_IF_FALSE")
      c3 == emitLoop(compileStmt(c2, s.body), Here(c1))
  IN IF k = BadVariantAccess THEN errorAt(c, "bad_variant_access")
     ELSE IF k # <<>> /\ ~ isConstantTruthy(k[1]) THEN c
     ELSE endLoop(patchJump(c3, At(c2)))

\* A hidden or named loop variable initialised with an expression: the slot is
\* reserved first, the value is stored and stays on the stack.
LoopLocal(c, name, e) ==
  LET c1 == addLocal(c, name, TRUE)
      c2 == compileExpr(c1, e)
  IN emitStoreLocal(c2, Last0(c1))

\* The increment stands at the loop start, jumped over on first entry, so that
\* `skip` lands on it.
RepeatByOne(c, v, e, body) ==
  LET c1 == emitJump(startLoop(c), "JUMP")
      c2 == LoopStartsHere(c1)
      fused == v <= NarrowMax /\ e <= NarrowMax
      c3 == IF fused THEN emitOp(c2, <<"INC_LOCAL", v>>)
            ELSE emitOp(emitStoreLocal(emitOps(emitLoadLocal(c2, v),
                   << <<"LOAD_ONE">>, <<"ADD">> >>), v), <<"POP">>)
      c4 == patchJump(c3, At(c1))
      c5 == IF fused THEN emitOp(c4, <<"LOOP_LESS_EQ_LOCAL", 0, v, e>>)
            ELSE emitJump(emitOp(emitLoadLocal(emitLoadLocal(c4, e), v), <<"GREATER_EQ">>),
                          "JUMP_IF_FALSE")
      c6 == emitLoop(compileStmt(c5, body), Here(c2))
  IN endLoop(patchJump(c6, At(c5)))

\* A step of zero throws.  (Mutant: it is let through.)
ZeroStepAllowed(c, st) == c
RejectZeroStep(c, st) ==
  LET c1 == emitJump(emitOps(emitLoadLocal(c, st), << <<"LOAD_ZERO">>, <<"EQUAL">> >>),
                     "JUMP_IF_FALSE")
  IN patchJump(emitOps(c1, << <<"LOAD_CONST", Chr("step")>>, <<"THROW">> >>), At(c1))
RepeatByStep(c, v, e, st, body) ==
  LET c1 == emitJump(startLoop(RejectZeroStep(c, st)), "JUMP")
      c2 == LoopStartsHere(c1)
      c3 == emitOp(emitStoreLocal(emitOp(emitLoadLocal(emitLoadLocal(c2, v), st), <<"ADD">>),
                                  v), <<"POP">>)
      c4 == emitJump(emitOps(emitLoadLocal(patchJump(c3, At(c1)), st),
                             << <<"LOAD_ZERO">>, <<"GREATER">> >>), "JUMP_IF_FALSE")
      c5 == emitJump(emitOp(emitLoadLocal(emitLoadLocal(c4, e), v), <<"GREATER_EQ">>), "JUMP")
      c6 == emitOp(emitLoadLocal(emitLoadLocal(patchJump(c5, At(c4)), v), e), <<"GREATER_EQ">>)
      c7 == emitJump(patchJump(c6, At(c5)), "JUMP_IF_FALSE")
      c8 == emitLoop(compileStmt(c7, body), Here(c2))
  IN endLoop(patchJump(c8, At(c7)))

compileRepeat(c, s) ==
  LET c1 == LoopLocal(beginScope(c), s.variable, s.start)
      c2 == LoopLocal(c1, "<repeat-end>", s.end)
      c3 == LoopLocal(c2, "<repeat-step>", s.step)
  IN endScope(IF s.step = Null THEN RepeatByOne(c2, Last0(c1), Last0(c2), s.body)
              ELSE RepeatByStep(c3, Last0(c1), Last0(c2), Last0(c3), s.body))

compileGet(c, s) ==
  LET pairs == s.valueVariable # ""
      c0 == addLocal(beginScope(c), "<iter>", TRUE)
      it == Last0(c0)
      c1 == emitStoreLocal(emitOp(compileExpr(c0, s.iterable),
              <<IF pairs THEN "GET_DICT_ITER" ELSE "GET_ITER">>), it)
      c2 == LoopLocal(c1, s.variable, Null)
      v  == Last0(c2)
      c3 == IF pairs THEN LoopLocal(c2, s.valueVariable, Null) ELSE c2
      c4 == startLoop(c3)
      c5 == emitJump(emitLoadLocal(c4, it), "ITER_NEXT")
      c6 == IF pairs
            THEN emitOp(emitStoreLocal(emitOps(
                   emitStoreLocal(emitOps(c5, << <<"DUP">>, <<"LOAD_ZERO">>, <<"INDEX_GET">> >>),
                                  v),
                   << <<"POP">>, <<"LOAD_ONE">>, <<"INDEX_GET">> >>), Last0(c3)), <<"POP">>)
            ELSE emitOp(emitStoreLocal(c5, v), <<"POP">>)
      c7 == emitLoop(compileStmt(c6, s.body), Here(c4))
  IN endScope(endLoop(patchJump(c7, At(c5))))

(***************************************************************************)
(* Leaving loops and functions through open try blocks: every finally body *)
(* is compiled again, inline, with the blocks it stands in taken off the   *)
(* active list.                                                            *)
(***************************************************************************)
WithTrys(c, ts) == [c EXCEPT !.fs[Len(c.fs)].trys = ts]

RECURSIVE ReplayForJump(_, _, _, _)
ReplayForJump(c, ts, i, depth) ==
  IF i <= depth THEN c
  ELSE LET c1 == emitOp(WithTrys(c, SubSeq(ts, 1, i - 1)), <<"TRY_END">>)
       IN ReplayForJump(compileStmt(c1, ts[i].body), ts, i - 1, depth)

\* emitBreak / emitContinue up to their jump.
LeaveLoopBody(c) ==
  LET l  == c.loops[Len(c.loops)]
      ts == Cur(c).trys
      c1 == WithTrys(ReplayForJump(c, ts, Len(ts), l.tryDepth), ts)
  IN PopLocals(c1, l.scopeDepth)
emitBreak(c) ==
  LET c1 == emitJump(LeaveLoopBody(c), "JUMP")
  IN [c1 EXCEPT !.loops[Len(c.loops)].breaks = Append(@, At(c1))]
emitContinue(c) == emitLoop(LeaveLoopBody(c), c.loops[Len(c.loops)].start)

compileEscape(c, s) == IF c.loops = <<>> THEN errorAt(c, "escape") ELSE emitBreak(c)
compileSkip(c, s) == IF c.loops = <<>> THEN errorAt(c, "skip") ELSE emitContinue(c)

RECURSIVE ReplayForGive(_, _, _)
ReplayForGive(c, ts, i) ==
  IF i = 0 THEN c
  ELSE IF ts[i].body = Null THEN ReplayForGive(WithTrys(c, SubSeq(ts, 1, i - 1)), ts, i - 1)
  ELSE LET c1 == emitOp(emitStoreLocal(WithTrys(c, SubSeq(ts, 1, i - 1)), ts[i].slot), <<"POP">>)
           c2 == emitLoadLocal(compileStmt(c1, ts[i].body), ts[i].slot)
       IN ReplayForGive(c2, ts, i - 1)

(***************************************************************************)
(* Contracts: every clause is checked, a failure throws AssertionError.    *)
(***************************************************************************)
compileContractChecks(c, clauses) ==
  FoldLeft(LAMBDA d, cond :
             LET d1 == emitJump(compileExpr(d, cond), "JUMP_IF_TRUE")
                 d2 == emitOps(emitGlobal(d1, "LOAD_GLOBAL_SLOT", "AssertionError"),
                         << <<"LOAD_CONST", Chr("contract")>>, <<"CALL", 1>>, <<"THROW">> >>)
             IN patchJump(d2, At(d1)),
           c, clauses)

\* The result is parked in a hidden local and, under the name `result`, checked.
CheckEnsures(c) ==
  LET c1 == addLocal(c, "<result>", FALSE)
      r  == Last0(c1)
      c2 == addLocal(emitOp(emitStoreLocal(c1, r), <<"POP">>), "result", FALSE)
      c3 == emitOp(emitStoreLocal(emitLoadLocal(c2, r), Last0(c2)), <<"POP">>)
  IN emitLoadLocal(compileContractChecks(c3, c.ens), r)

\* A call of the function being compiled, by name, outside try and contracts.
IsTailCall(c, e) ==
  /\ e.k = "call" /\ e.callee = Id(Cur(c).name)
  /\ Cur(c).trys = <<>> /\ c.ens = <<>>

compileGive(c, s) ==
  IF IsTailCall(c, s.value)
  THEN emitOps(Exprs(compileExpr(c, s.value.callee), s.value.arguments),
               << <<"TAIL_CALL", Len(s.value.arguments)>>, <<"RETURN">> >>)
  ELSE LET ts == Cur(c).trys
           c1 == compileExpr(c, s.value)
           c2 == IF c.ens = <<>> THEN c1 ELSE CheckEnsures(c1)
       IN emitReturn(WithTrys(ReplayForGive(c2, ts, Len(ts)), ts))

(***************************************************************************)
(* Try, catch, finally                                                     *)
(***************************************************************************)
HiddenNil(c, name) ==
  LET c1 == addLocal(c, name, FALSE)
  IN emitOp(emitStoreLocal(emitOp(c1, <<"LOAD_NIL">>), Last0(c1)), <<"POP">>)

\* The exception, on the stack, is bound or dropped and the body runs; At of the
\* result is the jump to the end of the statement.
CatchBody(c, cb) ==
  LET c1 == beginScope(c)
      c2 == addLocal(c1, cb.varName, TRUE)
      c3 == IF cb.varName = "" THEN emitOp(c1, <<"POP">>) ELSE emitStoreLocal(c2, Last0(c2))
  IN emitJump(endScope(compileStmt(c3, cb.body)), "JUMP")

\* The handlers in order; <<c, jumps to the end, a catch-all was met>>.
CatchClause(acc, cb) ==
  LET c == acc[1] IN
  IF acc[3] THEN acc
  ELSE IF cb.typeName = ""
  THEN LET c1 == CatchBody(c, cb) IN <<c1, Append(acc[2], At(c1)), TRUE>>
  ELSE LET c1 == emitJump(emitOps(c, << <<"DUP">>, <<"LOAD_CONST", Chr(cb.typeName)>>,
                                        <<"IS_INSTANCE_OF">> >>), "JUMP_IF_FALSE")
           c2 == CatchBody(c1, cb)
       IN <<patchJump(c2, At(c1)), Append(acc[2], At(c2)), FALSE>>

\* While the block runs its try is registered, with the finally to replay; At of
\* the result is the jump over the handlers.
\* (Mutant: the way out of the block leaves the try registered.)
ProtectedBlockLeaky(c, s) ==
  LET c1 == WithTrys(c, Append(Cur(c).trys, [body |-> s.finallyBlock, slot |-> Last0(c)]))
      c2 == emitJump(c1, "TRY_START")
  IN patchJump(emitJump(compileStmt(c2, s.tryBlock), "JUMP"), At(c2))
ProtectedBlock(c, s) ==
  LET c1 == WithTrys(c, Append(Cur(c).trys, [body |-> s.finallyBlock, slot |-> Last0(c)]))
      c2 == emitJump(c1, "TRY_START")
      c3 == emitJump(emitOp(compileStmt(c2, s.tryBlock), <<"TRY_END">>), "JUMP")
  IN patchJump(c3, At(c2))

\* No handler took the exception: it is kept for after the finally, or thrown again.
Unhandled(acc, s, pend) ==
  LET p == emitOp(emitStoreLocal(acc[1], pend), <<"POP">>)
      q == emitJump(p, "JUMP")
  IN IF s.finallyBlock = Null THEN <<emitOp(acc[1], <<"THROW">>), acc[2]>>
     ELSE IF s.catchBlocks = <<>> THEN <<p, acc[2]>>
     ELSE <<q, Append(acc[2], At(q))>>

\* All ways out of the block and its handlers meet; the try is closed.
EndTry(acc, over) ==
  LET c == patchJump(FoldLeft(patchJump, acc[1], acc[2]), over)
  IN WithTrys(c, Front(Cur(c).trys))

\* The finally block, after which a pending exception is thrown again.
FinallyBlock(c, s, pend) ==
  LET c1 == emitJump(emitOp(emitLoadLocal(compileStmt(c, s.finallyBlock), pend), <<"DUP">>),
                     "JUMP_IF_NIL")
      c2 == patchJump(emitOp(c1, <<"THROW">>), At(c1))
  IN endScope(emitOp(c2, <<"POP">>))

compileTry(c, s) ==
  LET fin == s.finallyBlock # Null
      c1  == IF fin THEN HiddenNil(beginScope(c), "<pending>") ELSE c
      c2  == IF fin THEN HiddenNil(c1, "<retval>") ELSE c1
      Handlers(b) ==
        EndTry(Unhandled(FoldLeft(CatchClause, <<b, <<>>, FALSE>>, s.catchBlocks), s, Last0(c1)), At(b))
      c3  == Handlers(ProtectedBlock(c2, s))
  IN IF fin THEN FinallyBlock(c3, s, Last0(c1)) ELSE c3

compileThrow(c, s) == emitOp(compileExpr(c, s.expr), <<"THROW">>)

(***************************************************************************)
(* Match                                                                   *)
(***************************************************************************)
builtinTypes == {"Integer", "Number", "String", "Boolean", "Array", "Dictionary",
                 "Function", "Nil", "Float", "Exception", "TypeError", "ValueError",
                 "IndexError", "KeyError"}
isTypeMatchPattern(c, name) ==
  /\ resolveLocal(c, name) < 0 /\ resolveUpvalue(c, name).i < 0
  /\ resolveStatic(c, name) = <<>>
  /\ name \in builtinTypes

\* One arm: <<c, jumps to the end>>.
MatchArm(acc, arm) ==
  LET c  == acc[1]
      ty == arm[1].k = "id" /\ isTypeMatchPattern(c, arm[1].name)
      c1 == emitOp(c, <<"DUP">>)
      c2 == IF ty THEN emitOps(c1, << <<"LOAD_CONST", Chr(arm[1].name)>>, <<"IS_INSTANCE_OF">> >>)
            ELSE emitOp(compileExpr(c1, arm[1]), <<"EQUAL">>)
      c3 == emitJump(c2, "JUMP_IF_FALSE")
      Body(d) == emitJump(compileStmt(emitOp(d, <<"POP">>), arm[2]), "JUMP")
  IN IF arm[1] = Null THEN <<Body(c), Append(acc[2], At(Body(c)))>>
     ELSE <<patchJump(Body(c3), At(c3)), Append(acc[2], At(Body(c3)))>>

compileMatch(c, s) ==
  LET r == FoldLeft(MatchArm, <<compileExpr(c, s.subject), <<>> >>, s.arms)
  IN FoldLeft(patchJump, emitOp(r[1], <<"POP">>), r[2])

(***************************************************************************)
(* Functions                                                               *)
(***************************************************************************)
\* Parameters are the first locals; one left nil takes its default.
Parameters(c, task) ==
  FoldLeft(LAMBDA d, i :
             IF task.defaultValues[i] = Null THEN d
             ELSE LET d1 == emitJump(emitOps(emitLoadLocal(d, i - 1),
                                << <<"LOAD_NIL">>, <<"EQUAL">> >>), "JUMP_IF_FALSE")
                      d2 == emitStoreLocal(compileExpr(d1, task.defaultValues[i]), i - 1)
                  IN patchJump(emitOp(d2, <<"POP">>), At(d1)),
           FoldLeft(LAMBDA d, p : addLocal(d, p, TRUE), c, task.params),
           [i \in 1..Len(task.defaultValues) |-> i])

\* The arguments of the old() calls in an expression.
RECURSIVE OldArguments(_)
OldArguments(e) ==
  CASE e.k = "call" /\ e.callee = Id("old") /\ Len(e.arguments) = 1 -> <<e.arguments[1]>>
    [] e.k = "call" /\ ~ (e.callee = Id("old") /\ Len(e.arguments) = 1) ->
         OldArguments(e.callee)
         \o FlattenSeq([i \in 1..Len(e.arguments) |-> OldArguments(e.arguments[i])])
    [] e.k \in {"bin", "logical"} -> OldArguments(e.left) \o OldArguments(e.right)
    [] e.k = "un" -> OldArguments(e.operand)
    [] e.k = "ternary" -> OldArguments(e.condition) \o OldArguments(e.thenBranch)
                          \o OldArguments(e.elseBranch)
    [] OTHER -> <<>>

\* old(x) of a postcondition is evaluated at entry into a hidden local.
CaptureOld(c, ensures) ==
  FoldLeft(LAMBDA d, e :
             IF SelectSeq(d.old, LAMBDA o : o[1] = e) # <<>> THEN d
             ELSE LET d1 == addLocal(compileExpr(d, e), "<old>", TRUE)
                      d2 == emitOp(emitStoreLocal(d1, Last0(d1)), <<"POP">>)
                  IN [d2 EXCEPT !.old = Append(@, <<e, Last0(d1)>>)],
           [c EXCEPT !.old = <<>>],
           FlattenSeq([i \in 1..Len(ensures) |-> OldArguments(ensures[i])]))

\* The finished function joins compiledFunctions; its compiler is dropped.
FinishFunction(c, task, localCount) ==
  LET f == Cur(c)
      fn == [name |-> f.name, params |-> task.params, code |-> f.code, ups |-> f.ups,
             localCount |-> localCount, isVariadic |-> task.isVariadic,
             defaultParamCount |->
               Len(SelectSeq(task.defaultValues, LAMBDA e : e # Null))]
  IN [c EXCEPT !.funs = Append(@, fn), !.fs = Front(@)]

FunctionNode(c, task, name) ==
  LET c0 == [c EXCEPT !.ids = @ + 1,
                      !.fs = Append(@, NewCompiler(c.ids + 1, name, task.params, FALSE))]
      c1 == compileContractChecks(Parameters(c0, task), task.requiresClauses)
      c2 == CaptureOld(c1, task.ensuresClauses)
      own == c2.old
      c3 == [c2 EXCEPT !.ens = task.ensuresClauses]
      c4 == Stmts(predeclareLocalTasks(beginScope(c3), task.body), task.body)
      c5 == [endScope(c4) EXCEPT !.ens = c.ens, !.old = own]
      c6 == emitReturn(emitOp(c5, <<"LOAD_NIL">>))
  IN FinishFunction(c6, task, Cur(c6).maxLocals)

\* Decorators are loaded outermost first and applied innermost first.  The slot
\* of a local task exists before its body is compiled.
compileTask(c, s) ==
  LET e  == resolveLocal(c, s.name)
      c1 == IF e < 0 /\ Cur(c).depth > 0 THEN addLocal(c, s.name, FALSE) ELSE c
      slot == IF e < 0 THEN Last0(c1) ELSE e
      c2 == emitClosure(Exprs(c1, s.userDecorators), s, s.name)
      c3 == emitOps(c2, [i \in 1..Len(s.userDecorators) |-> <<"CALL", 1>>])
      c4 == IF e >= 0 \/ Cur(c).depth > 0 THEN emitStoreLocal(c3, slot)
            ELSE emitGlobal(c3, "STORE_GLOBAL_SLOT", s.name)
  IN emitOp(c4, <<"POP">>)

\* A static lives by mangled name in the global table, initialised once.
compileStatic(c, s) ==
  LET m  == <<"static", Cur(c).id, Cur(c).name, s.name>>
      c1 == [c EXCEPT !.fs[Len(c.fs)].statics = Append(@, <<s.name, m>>)]
      c2 == emitJump(emitOp(c1, <<"HAS_GLOBAL", m>>), "JUMP_IF_TRUE")
      c3 == emitOps(compileExpr(c2, s.initializer), << <<"STORE_GLOBAL", m>>, <<"POP">> >>)
  IN patchJump(c3, At(c2))

(***************************************************************************)
(* Modules                                                                 *)
(***************************************************************************)
DeclaredName(s) ==
  IF s.k \in {"task", "var"} THEN s.name
  ELSE IF s.k = "expr" /\ s.expr.k = "assign" THEN s.expr.name ELSE ""

MarkExported(c, S) ==
  LET f == Cur(c) IN
  [c EXCEPT !.fs[Len(c.fs)].locals =
     [i \in 1..Len(f.locals) |-> IF i \in S THEN [f.locals[i] EXCEPT !.exported = TRUE]
                                 ELSE f.locals[i]]]

\* `export x` marks a local; `export <declaration>` marks what it introduces.
compileExport(c, s) ==
  LET s0 == IF s.inner.k = "expr" /\ s.inner.expr.k = "id"
            THEN resolveLocal(c, s.inner.expr.name) ELSE 0 - 1
      c1 == compileStmt(c, s.inner)
      new == {i \in 1..Len(Cur(c1).locals) : i > Len(Cur(c).locals)}
      d  == DeclaredName(s.inner)
      s1 == IF d = "" THEN 0 - 1 ELSE resolveLocal(c1, d)
  IN IF s0 >= 0 THEN MarkExported(c, {s0 + 1})
     ELSE MarkExported(c1, new \cup {s1 + 1})

\* Where `use path` looks, in order: the bundle's keys, then the file system.
VfsKeys(c, s) ==
  << Append(c.dir, s.path), <<s.path>>, <<s.path, ".ez">>, <<"lib", s.path>>,
     <<"lib", s.path, ".ez">>, <<"lib", s.path, "/", s.path>>, <<"lib", s.path, "/", "main">> >>
FileCandidates(c, s) ==
  (IF c.dir # <<".">> THEN << Append(c.dir, s.path) >> ELSE <<>>)
  \o << <<".", s.path>>, <<"lib", s.path>> >>
  \o (IF s.file THEN <<>> ELSE << <<"lib", s.path, ".ez">> >>)
  \o (IF s.path \in DOMAIN c.pkgs
      THEN << <<"lib", s.path, "/", c.pkgs[s.path]>>, <<"lib", s.path, "/", s.path>>,
              <<"lib", s.path, "/", "main">> >>
      ELSE <<>>)
\* The first candidate that exists, as a sequence of at most one file.
FirstFound(table, keys) ==
  LET hit == SelectSeq(keys, LAMBDA k : \E i \in 1..Len(table) : table[i].loc = k)
  IN IF hit = <<>> THEN <<>> ELSE SelectSeq(table, LAMBDA f : f.loc = hit[1])
Resolve(c, s) ==
  LET v == FirstFound(c.vfs, VfsKeys(c, s))
  IN IF v # <<>> THEN v ELSE FirstFound(c.files, FileCandidates(c, s))

\* The locals a module hands out: all of them to `use "file.ez"`, else the exported.
Harvested(f, s) ==
  SelectSeq(f.locals, LAMBDA l : l.depth = 1 /\ l.name # "" /\ (s.file \/ l.exported))

\* The module's top level compiled as a function that returns a dictionary.
ModuleFunction(c, s, file) ==
  LET f0 == [NewCompiler(c.ids + 1, "<module>", <<>>, TRUE)
               EXCEPT !.depth = 1, !.harvest = TRUE]
      c0 == addLocal([c EXCEPT !.ids = @ + 1, !.fs = Append(@, f0), !.dir = file.dir], "", TRUE)
      inner == [i \in 1..Len(file.stmts) |-> IF file.stmts[i].k = "export"
                                            THEN file.stmts[i].inner ELSE file.stmts[i]]
      c1 == FoldLeft(LAMBDA d, t : IF t.k = "task" /\ resolveLocal(d, t.name) < 0
                                   THEN addLocal(d, t.name, TRUE) ELSE d, c0, inner)
      c2 == Stmts(c1, file.stmts)
      c3 == FoldLeft(LAMBDA d, l :
                       emitOps(emitLoadLocal(emitOp(d, <<"DUP">>), resolveLocal(d, l.name)),
                               << <<"INTERCEPTED_STORE_PROPERTY", l.name>>, <<"POP">> >>),
                     emitOp(c2, <<"MAKE_DICT", 0>>), Harvested(Cur(c2), s))
  IN emitReturn(c3)

\* Copy what the module handed out into the importer's scope.
Unpack(c, l) ==
  LET c1 == emitOps(c, << <<"DUP">>, <<"LOAD_PROPERTY", l.name>> >>)
      e  == resolveLocal(c1, l.name)
      c2 == IF e < 0 THEN addLocal(c1, l.name, FALSE) ELSE c1
      slot == IF e < 0 THEN Last0(c2) ELSE e
      c3 == [c2 EXCEPT !.fs[Len(c.fs)].locals[slot + 1].exported = l.exported]
  IN emitOp(IF Cur(c).depth > 0 THEN emitStoreLocal(c3, slot)
            ELSE emitGlobal(c1, "STORE_GLOBAL_SLOT", l.name), <<"POP">>)

\* The module's function runs once: its dictionary is kept under the module's flag.
LoadOnce(c, flag, ups) ==
  LET c1 == emitJump(emitOp(c, <<"HAS_GLOBAL", flag>>), "JUMP_IF_TRUE")
      c2 == emitOps(c1, << <<"CLOSURE", Len(c.funs), ups>>, <<"CALL", 0>>,
                           <<"STORE_GLOBAL", flag>>, <<"POP">> >>)
  IN emitOp(patchJump(c2, At(c1)), <<"LOAD_GLOBAL", flag>>)

BindAlias(c, alias) ==
  LET c1 == addLocal(c, alias, FALSE)
  IN emitOp(IF Cur(c).depth > 0 THEN emitStoreLocal(c1, Last0(c1))
            ELSE emitGlobal(c, "STORE_GLOBAL_SLOT", alias), <<"POP">>)

\* cm has just compiled the module's statements for the importer c.
Imported(cm, c, s, flag) ==
  LET m  == Cur(cm)
      c1 == [FinishFunction(cm, Task("<module>", <<>>, <<>>), Len(m.locals))
               EXCEPT !.dir = c.dir, !.mods = c.mods]
      c2 == LoadOnce(c1, flag, m.ups)
  IN IF s.alias # "" THEN BindAlias(c2, s.alias)
     ELSE emitOp(FoldLeft(Unpack, c2, Harvested(m, s)), <<"POP">>)

compileUse(c, s) ==
  LET found == Resolve(c, s)
      file  == found[1]
  IN IF found = <<>> THEN errorAt(c, "module not found")
     ELSE IF file.loc \in c.mods THEN errorAt(c, "circular import")
     ELSE Imported(ModuleFunction([c EXCEPT !.mods = @ \cup {file.loc}], s, file),
                   c, s, <<"module", file.loc>>)

StmtNode(c, s) ==
  CASE s.k = "null"   -> c
    [] s.k = "expr"   -> compileExpressionStmt(c, s)
    [] s.k = "out"    -> compileOutStmt(c, s)
    [] s.k = "var"    -> compileVarDecl(c, s)
    [] s.k = "block"  -> compileBlock(c, s)
    [] s.k = "when"   -> compileWhen(c, s)
    [] s.k = "while"  -> compileWhile(c, s)
    [] s.k = "repeat" -> compileRepeat(c, s)
    [] s.k = "get"    -> compileGet(c, s)
    [] s.k = "match"  -> compileMatch(c, s)
    [] s.k = "task"   -> compileTask(c, s)
    [] s.k = "give"   -> compileGive(c, s)
    [] s.k = "use"    -> compileUse(c, s)
    [] s.k = "export" -> compileExport(c, s)
    [] s.k = "escape" -> compileEscape(c, s)
    [] s.k = "skip"   -> compileSkip(c, s)
    [] s.k = "static" -> compileStatic(c, s)
    [] s.k = "try"    -> compileTry(c, s)
    [] s.k = "throw"  -> compileThrow(c, s)

Visit(c, kind, node) ==
  CASE kind = "expr"     -> ExprNode(c, node)
    [] kind = "stmt"     -> StmtNode(c, node)
    [] kind = "function" -> FunctionNode(c, node[1], node[2])

\* The main function: a final expression statement is the script's result.
ScriptResult(c, last) ==
  IF last.k = "expr" THEN emitReturn(compileExpr(c, last.expr)) ELSE c
\* Mutant: only the locals still in scope at the end are reserved.
FinishMainLive(c) == FinishFunction(c, Task("<main>", <<>>, <<>>), Len(Cur(c).locals))
FinishMain(c) == FinishFunction(c, Task("<main>", <<>>, <<>>), Cur(c).maxLocals)
compile(c, ss) ==
  LET last == IF ss = <<>> THEN Null ELSE ss[Len(ss)]
      body == IF last.k = "expr" THEN Front(ss) ELSE ss
  IN FinishMain(emitReturn(emitOp(ScriptResult(Stmts(c, body), last), <<"LOAD_NIL">>)))
=============================================================================
