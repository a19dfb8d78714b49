----------------------------- MODULE Semantics -----------------------------
(***************************************************************************)
(* What an EZ program means: a definitional interpreter over the syntax    *)
(* tree, the reference the compiler and the virtual machine are compared   *)
(* with.  It knows nothing of slots, jumps, folding or fused instructions: *)
(* a variable is a cell, a scope a longer environment, a try statement a   *)
(* case distinction on how its block ended.                                *)
(*                                                                         *)
(* Every evaluation takes a state and returns [st, sig, v], sig being how  *)
(* it ended: "ok", "ret", "brk", "cont", "exc" (v the value or exception), *)
(* or "bad" (v the reason the program must be rejected).                   *)
(***************************************************************************)
EXTENDS Values, Syntax

\* Calls nested deeper than this raise RecursionError.
CONSTANT MaxDepth

Res(st, sig, v) == [st |-> st, sig |-> sig, v |-> v]
Done(st, v)     == Res(st, "ok", v)
Then(r, F(_, _)) == IF r.sig = "ok" THEN F(r.st, r.v) ELSE r
Helper(st, r) == Res([st EXCEPT !.heap = r.h], IF r.ok THEN "ok" ELSE "exc", r.v)

(***************************************************************************)
(* Variables: env is the scope chain, genv the globals, both sequences of  *)
(* <<name, cell>> in which the latest entry counts.                        *)
(***************************************************************************)
FindIn(e, n) == LET S == {i \in 1..Len(e) : e[i][1] = n} IN IF S = {} THEN 0 ELSE e[Max(S)][2]
NewLocal(st, n, v) ==
  [st EXCEPT !.cells = Append(@, v), !.env = Append(@, <<n, Len(st.cells) + 1>>)]
NewGlobal(st, n, v) ==
  [st EXCEPT !.cells = Append(@, v), !.genv = Append(@, <<n, Len(st.cells) + 1>>)]
CellOf(st, n) == IF FindIn(st.env, n) # 0 THEN FindIn(st.env, n) ELSE FindIn(st.genv, n)
ReadVar(st, n) == IF CellOf(st, n) = 0 THEN Nil ELSE st.cells[CellOf(st, n)]
\* A module's own top level never writes to the globals.
WriteVar(st, n, v) ==
  LET k == IF st.ismod THEN FindIn(st.env, n) ELSE CellOf(st, n) IN
  IF k # 0 THEN [st EXCEPT !.cells[k] = v]
  ELSE IF st.scope > 0 THEN NewLocal(st, n, v) ELSE NewGlobal(st, n, v)
Leave(st, outer) == [st EXCEPT !.env = outer.env, !.scope = outer.scope]

\* The meaning of an expression, of a statement, of a call: Mean, defined below.
RECURSIVE Mean(_, _, _)
Eval(st, e) == Mean(st, "expr", e)
Exec(st, s) == Mean(st, "stmt", s)
Apply(st, f, args, depth) == Mean(st, "call", <<f, args, depth>>)
EvalAll(st, es) ==
  FoldLeft(LAMBDA r, e : Then(r, LAMBDA s, vs : Then(Eval(s, e), LAMBDA t, v : Done(t, Append(vs, v)))),
           Done(st, <<>>), es)
ExecAll(st, ss) ==
  FoldLeft(LAMBDA r, s : Then(r, LAMBDA t, v : Exec(t, s)), Done(st, Nil), ss)
\* Tasks of a scope see each other, so their cells exist from its start.
Declared(st, ss) ==
  IF st.scope = 0 THEN st
  ELSE FoldLeft(LAMBDA t, s : IF s.k = "task" THEN NewLocal(t, s.name, Nil) ELSE t, st, ss)

(***************************************************************************)
(* Calls                                                                   *)
(***************************************************************************)
\* Elements and arguments, spreading arrays and strings.
Spreaded(st, v) == IF Is(v, "arr") THEN Elems(st.heap, v)
                   ELSE [i \in 1..Len(v[2]) |-> StrV(<<v[2][i]>>)]
EvalSpread(st, es) ==
  LET One(s, vs, e) ==
        IF e.k # "spread" THEN Then(Eval(s, e), LAMBDA t, v : Done(t, Append(vs, v)))
        ELSE Then(Eval(s, e.expression), LAMBDA t, v :
               IF v[1] \in {"arr", "str"} THEN Done(t, vs \o Spreaded(t, v))
               ELSE Helper(t, RunErr(t.heap, "spread")))
  IN FoldLeft(LAMBDA r, e : Then(r, LAMBDA s, vs : One(s, vs, e)), Done(st, <<>>), es)

Clauses(st, cs) ==
  FoldLeft(LAMBDA r, e : Then(r, LAMBDA s, u : Then(Eval(s, e), LAMBDA t, v :
             IF isTruthy(v) THEN Done(t, Nil) ELSE Res(t, "exc", Exc("AssertionError")))),
           Done(st, Nil), cs)

RECURSIVE OldIn(_)
OldIn(e) ==
  CASE e.k = "call" /\ e.callee = Id("old") -> {e.arguments[1]}
    [] e.k \in {"bin", "logical"} -> OldIn(e.left) \cup OldIn(e.right)
    [] e.k = "un" -> OldIn(e.operand)
    [] OTHER -> {}
Before(st, es) ==   \* the values old() will stand for
  LET S == UNION {OldIn(es[i]) : i \in 1..Len(es)} IN
  [e \in S |-> Eval(st, e).v]

\* Arguments bound to parameters, the rest collected, nil replaced by a default.
Bind(st, t, args) ==
  LET n == Len(t.params)
      a == Alloc(st.heap, "arr", IF Len(args) >= n THEN SubSeq(args, n, Len(args)) ELSE <<>>)
      V(i) == IF t.isVariadic /\ i = n THEN a.v
              ELSE IF i <= Len(args) THEN args[i] ELSE Nil
      s0 == FoldLeft(LAMBDA s, i : NewLocal(s, t.params[i], V(i)),
                     [st EXCEPT !.heap = IF t.isVariadic THEN a.h ELSE @],
                     [i \in 1..n |-> i])
  IN FoldLeft(LAMBDA r, i : Then(r, LAMBDA s, u :
                IF t.defaultValues[i] = Null \/ ReadVar(s, t.params[i]) # Nil THEN r
                ELSE Then(Eval(s, t.defaultValues[i]),
                          LAMBDA s2, v : Done(WriteVar(s2, t.params[i], v), Nil))),
              Done(s0, Nil), [i \in 1..Len(t.defaultValues) |-> i])

Arity(t, n) ==
  t.isVariadic \/ n \in (Len(t.params) - Cardinality({i \in 1..Len(t.params) :
                                                       t.defaultValues[i] # Null}))..Len(t.params)

\* depth is the nesting of the new call.
MeanCall(st, f, args, depth) ==
  IF Is(f, "class") THEN Done(st, Exc(f[2]))
  ELSE IF ~ Is(f, "clo") \/ ~ Arity(f[2], Len(args)) THEN Res(st, "exc", Exc("TypeError"))
  ELSE IF depth > MaxDepth THEN Res(st, "exc", Exc("RecursionError"))
  ELSE LET t  == f[2]
           s0 == [st EXCEPT !.env = f[3], !.scope = 1, !.fn = t, !.depth = depth,
                            !.ismod = FALSE, !.intry = FALSE]
           r1 == Then(Bind(s0, t, args), LAMBDA s, u : Clauses(s, t.requiresClauses))
           s1 == Declared([r1.st EXCEPT !.old = Before(r1.st, t.ensuresClauses)], t.body)
           r2 == IF r1.sig = "ok" THEN ExecAll(s1, t.body) ELSE r1
       IN Res([r2.st EXCEPT !.env = st.env, !.scope = st.scope, !.fn = st.fn,
                            !.depth = st.depth, !.ismod = st.ismod, !.intry = st.intry,
                            !.old = st.old],
              IF r2.sig = "ret" THEN "ok" ELSE IF r2.sig \in {"brk", "cont"} THEN "bad"
              ELSE r2.sig,
              IF r2.sig = "ok" THEN Nil
              ELSE IF r2.sig = "brk" THEN "escape" ELSE IF r2.sig = "cont" THEN "skip" ELSE r2.v)

\* Named arguments take the parameters after the positional ones.
ApplyNamed(st, f, args, ns) ==
  LET pos == SelectSeq([i \in 1..Len(args) |-> i], LAMBDA i : ns[i] = "")
      kw  == SelectSeq([i \in 1..Len(args) |-> i], LAMBDA i : ns[i] # "")
      ps  == IF Is(f, "clo") THEN f[2].params ELSE <<>>
      Named(p) == LET S == {i \in 1..Len(args) : ns[i] = p} IN IF S = {} THEN Nil ELSE args[Max(S)]
      full == [i \in 1..(IF Len(ps) > Len(pos) THEN Len(ps) ELSE Len(pos)) |->
                 IF i <= Len(pos) THEN args[pos[i]] ELSE Named(ps[i])]
  IN IF \E i \in 1..Len(kw) : ns[kw[i]] \notin {ps[j] : j \in (Len(pos) + 1)..Len(ps)}
     THEN Helper(st, RunErr(st.heap, "keyword")) ELSE Apply(st, f, full, st.depth + 1)

EvalCall(st, e, depth) ==
  IF e.callee = Id("old") /\ e.arguments[1] \in DOMAIN st.old
  THEN Done(st, st.old[e.arguments[1]])
  ELSE IF \E i \in 1..Len(e.argNames) : e.argNames[i] # ""
  THEN Then(Eval(st, e.callee), LAMBDA s, f : Then(EvalAll(s, e.arguments), LAMBDA t, vs :
         ApplyNamed(t, f, vs, e.argNames)))
  ELSE IF e.callee.k = "prop"
  THEN Then(Eval(st, e.callee.object), LAMBDA s, o : Then(EvalSpread(s, e.arguments), LAMBDA t, vs :
         LET f == IF Is(o, "dict") THEN Lookup(t.heap, o, Chr(e.callee.property)[2]) ELSE Nil
         IN IF f[1] \in {"clo", "class"} THEN Apply(t, f, vs, depth)
            ELSE Helper(t, RunErr(t.heap, "method"))))
  ELSE Then(Eval(st, e.callee), LAMBDA s, f : Then(EvalSpread(s, e.arguments), LAMBDA t, vs :
         Apply(t, f, vs, depth)))

(***************************************************************************)
(* Expressions                                                             *)
(***************************************************************************)
EvalDict(st, ps) ==   \* the first of two equal keys is kept
  Then(EvalAll(st, FlattenSeq(ps)), LAMBDA s, vs :
    LET d == Alloc(s.heap, "dict", <<>>)
        Put(h, i) == DictSet(h, d.v, Text(vs[2 * i - 1]), vs[2 * i])
    IN Done([s EXCEPT !.heap = FoldLeft(Put, d.h, [i \in 1..Len(ps) |-> Len(ps) + 1 - i])], d.v))

StoreAt(st, g, v) ==   \* one target of a destructuring assignment
  IF g.k = "id" THEN Done(WriteVar(st, g.name, v), v)
  ELSE Then(EvalAll(st, <<g.object, g.index>>), LAMBDA s, vs :
         Helper(s, doIndexSet(s.heap, vs[1], vs[2], v)))

EvalAssign(st, e) ==
  IF e.index = Null
  THEN Then(Eval(st, e.value), LAMBDA s, v : Done(WriteVar(s, e.name, v), v))
  ELSE Then(EvalAll(st, <<e.object, e.index>>), LAMBDA s, oi :
         LET cur == IF e.compoundOp = "" THEN Done(s, Nil)
                    ELSE Helper(s, doIndexGet(s.heap, oi[1], oi[2]))
         IN Then(cur, LAMBDA t, w : Then(Eval(t, e.value), LAMBDA u, v :
              LET n == IF e.compoundOp = "" THEN Done(u, v)
                       ELSE Helper(u, BinaryOp(e.compoundOp, u.heap, w, v))
              IN Then(n, LAMBDA y, z : Helper(y, doIndexSet(y.heap, oi[1], oi[2], z))))))

MeanExpr(st, e) ==
  CASE e.k = "null" -> Done(st, Nil)
    [] e.k = "lit" -> Done(st, e.value)
    [] e.k = "id" -> Done(st, ReadVar(st, e.name))
    [] e.k = "bin" -> Then(EvalAll(st, <<e.left, e.right>>), LAMBDA s, vs :
                        Helper(s, BinaryOp(e.op, s.heap, vs[1], vs[2])))
    [] e.k = "un" -> Then(Eval(st, e.operand), LAMBDA s, v : Helper(s, UnaryOp(e.op, s.heap, v)))
    [] e.k = "logical" -> Then(Eval(st, e.left), LAMBDA s, v :
         IF CASE e.op = "AND" -> ~ isTruthy(v)
              [] e.op = "OR" -> isTruthy(v)
              [] OTHER -> v # Nil
         THEN Done(s, v) ELSE Eval(s, e.right))
    [] e.k = "ternary" -> Then(Eval(st, e.condition), LAMBDA s, v :
         Eval(s, IF isTruthy(v) THEN e.thenBranch ELSE e.elseBranch))
    [] e.k = "call" -> EvalCall(st, e, st.depth + 1)
    [] e.k = "index" -> Then(EvalAll(st, <<e.object, e.index>>), LAMBDA s, vs :
                          Helper(s, doIndexGet(s.heap, vs[1], vs[2])))
    [] e.k = "array" -> Then(EvalSpread(st, e.elements), LAMBDA s, vs :
                          Helper(s, Alloc(s.heap, "arr", vs)))
    [] e.k = "tuple" -> Then(EvalAll(st, e.elements), LAMBDA s, vs :
                          Helper(s, Alloc(s.heap, "tup", vs)))
    [] e.k = "dict" -> EvalDict(st, e.pairs)
    [] e.k = "assign" -> EvalAssign(st, e)
    [] e.k = "destructure" -> Then(Eval(st, e.value), LAMBDA s, v :
         FoldLeft(LAMBDA r, i : Then(r, LAMBDA t, u :
                    Then(Helper(t, doIndexGet(t.heap, v, IntV(i - 1))), LAMBDA w, x :
                      Then(StoreAt(w, e.targets[i], x), LAMBDA y, z : Done(y, v)))),
                  Done(s, v), [i \in 1..Len(e.targets) |-> i]))
    [] e.k = "lambda" -> Done(st, <<"clo", Task("<lambda>", e.params, e.body), st.env>>)
    [] e.k = "prop" -> Then(Eval(st, e.object), LAMBDA s, o :
         Helper(s, IF ~ Is(o, "dict") THEN Raise(s.heap, "TypeError")
                   ELSE IF ~ HasKey(s.heap, o, Chr(e.property)[2]) THEN Raise(s.heap, "KeyError")
                   ELSE Ok(s.heap, Lookup(s.heap, o, Chr(e.property)[2]))))
    [] e.k = "spread" -> Res(st, "bad", "spread")

(***************************************************************************)
(* Statements                                                              *)
(***************************************************************************)
InScope(st, F(_)) ==
  LET r == F([st EXCEPT !.scope = @ + 1]) IN [r EXCEPT !.st = Leave(@, st)]

\* A loop body run for its effects: "ok" to go on, "brk" absorbed by the loop.
Body(st, b) == LET r == Exec(st, b) IN IF r.sig = "cont" THEN Done(r.st, Nil) ELSE r
LoopEnd(r)  == IF r.sig = "brk" THEN Done(r.st, Nil) ELSE r

RECURSIVE Looping(_, _)
Looping(st, s) ==
  Then(Eval(st, s.condition), LAMBDA t, v :
    IF isTruthy(v) THEN Then(Body(t, s.body), LAMBDA u, w : Looping(u, s)) ELSE Done(t, Nil))

RECURSIVE Counting(_, _, _, _)
Counting(st, s, end, step) ==
  LET v == ReadVar(st, s.variable)
      up == ~ NumLess(step, IntV(0))
  IN IF ~ BothNum(v, end) THEN Helper(st, RunErr(st.heap, IF s.step = Null THEN "repeat" ELSE "operands"))
     ELSE IF (up /\ NumLess(end, v)) \/ (~ up /\ NumLess(v, end)) THEN Done(st, Nil)
     ELSE Then(Body(st, s.body), LAMBDA t, u :
            Then(Helper(t, doAdd(t.heap, ReadVar(t, s.variable), step)), LAMBDA w, x :
              Counting(WriteVar(w, s.variable, x), s, end, step)))

\* Arrays are walked as they are at each step, dictionaries as they were.
RECURSIVE Walking(_, _, _, _)
Walking(st, s, data, i) ==
  LET es == IF Is(data, "arr") THEN Elems(st.heap, data)
            ELSE IF Is(data, "str") THEN Spreaded(st, data) ELSE data[2]
      s1 == IF s.valueVariable = "" THEN WriteVar(st, s.variable, es[i])
            ELSE WriteVar(WriteVar(st, s.variable, es[i][1]), s.valueVariable, es[i][2])
  IN IF i > Len(es) THEN Done(st, Nil)
     ELSE Then(Body(s1, s.body), LAMBDA t, u : Walking(t, s, data, i + 1))

ExecGet(st, s) ==
  Then(Eval(st, s.iterable), LAMBDA t, v :
    LET t1 == NewLocal(t, s.variable, Nil)
        t2 == IF s.valueVariable = "" THEN t1 ELSE NewLocal(t1, s.valueVariable, Nil)
        es == Elems(t.heap, v)
    IN IF s.valueVariable # "" /\ ~ Is(v, "dict") THEN Helper(t, Raise(t.heap, "TypeError"))
       ELSE IF Is(v, "dict")
       THEN Walking(t2, s, <<"keys", [i \in 1..Len(es) |->
              IF s.valueVariable = "" THEN StrV(es[i][1]) ELSE <<StrV(es[i][1]), es[i][2]>>]>>, 1)
       ELSE IF v[1] \in {"arr", "str"} THEN Walking(t2, s, v, 1)
       ELSE Helper(t, Raise(t.heap, "TypeError")))

ExecRepeat(st, s) ==
  Then(Eval(st, s.start), LAMBDA t, a : Then(Eval(NewLocal(t, s.variable, a), s.end), LAMBDA u, e :
    Then(IF s.step = Null THEN Done(u, IntV(1)) ELSE Eval(u, s.step), LAMBDA w, d :
      IF d = IntV(0) THEN Res(w, "exc", Chr("step")) ELSE Counting(w, s, e, d))))

typePatterns == {"Integer", "Number", "String", "Boolean", "Array", "Dictionary",
                 "Function", "Nil", "Float", "Exception", "TypeError", "ValueError",
                 "IndexError", "KeyError"}
RECURSIVE Matching(_, _, _)
Matching(st, v, arms) ==
  IF arms = <<>> THEN Done(st, Nil)
  ELSE LET p == arms[1][1]
           m == IF p = Null THEN Done(st, BoolV(TRUE))
                ELSE IF p.k = "id" /\ FindIn(st.env, p.name) = 0 /\ p.name \in typePatterns
                THEN Done(st, BoolV(isInstanceOf(v, p.name)))
                ELSE Then(Eval(st, p), LAMBDA s, w : Done(s, BoolV(equals(s.heap, v, w))))
       IN Then(m, LAMBDA s, yes : IF yes[2] THEN Exec(s, arms[1][2])
                                  ELSE Matching(s, v, Tail(arms)))

ExecTry(st, s) ==
  LET r == Exec([st EXCEPT !.intry = TRUE], s.tryBlock)
      S == {i \in 1..Len(s.catchBlocks) :
              s.catchBlocks[i].typeName = "" \/ isInstanceOf(r.v, s.catchBlocks[i].typeName)}
      cb == s.catchBlocks[Min(S)]
      h == IF r.sig = "exc" /\ S # {}
           THEN InScope(r.st, LAMBDA t :
                  Exec(IF cb.varName = "" THEN t ELSE NewLocal(t, cb.varName, r.v), cb.body))
           ELSE r
      \* an exception leaving a handler passes the finally block by (documented in
      \* docs/07_Error_Handling.md)
      bypass == h.sig = "exc" /\ r.sig = "exc" /\ S # {}
      f == Exec([h.st EXCEPT !.intry = st.intry], s.finallyBlock)
  IN IF h.sig = "bad" \/ bypass THEN Res([h.st EXCEPT !.intry = st.intry], h.sig, h.v)
     ELSE IF f.sig # "ok" THEN f ELSE Res(f.st, h.sig, h.v)

\* A call of the task itself in tail position does not nest.
ExecGive(st, s) ==
  LET e == s.value
      self == /\ e.k = "call" /\ e.callee = Id(st.fn.name)
              /\ ~ st.intry /\ st.fn.ensuresClauses = <<>>
      r == IF self THEN EvalCall(st, e, st.depth) ELSE Eval(st, e)
  IN Then(r, LAMBDA t, v :
       LET c == Clauses(NewLocal(t, "result", v), st.fn.ensuresClauses) IN
       IF c.sig = "ok" THEN Res(Leave(c.st, st), "ret", v) ELSE c)

ExecTask(st, s) ==
  Then(EvalAll(st, s.userDecorators), LAMBDA t, ds :
    \* a local task is bound in its own environment before it is closed over
    LET t1 == IF st.scope > 0 /\ FindIn(t.env, s.name) = 0 THEN NewLocal(t, s.name, Nil) ELSE t
        f1 == FoldRight(LAMBDA d, r : Then(r, LAMBDA u, g : Apply(u, d, <<g>>, u.depth + 1)),
                        ds, Done(t1, <<"clo", s, t1.env>>))
    IN Then(f1, LAMBDA u, g :
         Done(IF FindIn(u.env, s.name) # 0 THEN [u EXCEPT !.cells[FindIn(u.env, s.name)] = g]
              ELSE NewGlobal(u, s.name, g), Nil)))

ExecStatic(st, s) ==
  LET key == <<st.fn, s.name>>
      k == FindIn(st.stats, key)
  IN IF k # 0 THEN Done([st EXCEPT !.env = Append(@, <<s.name, k>>)], Nil)
     ELSE Then(Eval(st, s.initializer), LAMBDA t, v :
            LET u == NewLocal(t, s.name, v)
            IN Done([u EXCEPT !.stats = Append(@, <<key, Len(u.cells)>>)], Nil))

(***************************************************************************)
(* Modules: st.where says which file a `use` in a directory means.         *)
(***************************************************************************)
Public(file, st, all) ==
  LET Name(s) == CASE s.k = "task" -> s.name
                   [] s.k = "var" -> s.name
                   [] s.k = "expr" /\ s.expr.k = "assign" -> s.expr.name
                   [] s.k = "expr" /\ s.expr.k = "id" -> s.expr.name
                   [] OTHER -> ""
      ns == [i \in 1..Len(file.stmts) |->
               LET s == file.stmts[i] IN
               IF s.k = "export" THEN Name(s.inner) ELSE IF all THEN Name(s) ELSE ""]
      order == [i \in 1..Len(st.env) |-> st.env[i][1]]
  IN SelectSeq(order, LAMBDA n : n # "" /\ \E i \in 1..Len(ns) : ns[i] = n)

LoadModule(st, file, all) ==
  LET s0 == [st EXCEPT !.env = <<>>, !.scope = 1, !.ismod = TRUE, !.intry = FALSE,
                       !.depth = @ + 1, !.loading = @ \cup {file.loc}, !.dir = file.dir]
      inner == [i \in 1..Len(file.stmts) |-> IF file.stmts[i].k = "export"
                                            THEN file.stmts[i].inner ELSE file.stmts[i]]
      r == ExecAll(Declared(s0, inner), inner)
      ns == Public(file, r.st, all)
      d == Alloc(r.st.heap, "dict", [i \in 1..Len(ns) |->
             <<Chr(ns[i])[2], r.st.cells[FindIn(r.st.env, ns[i])]>>])
      back == [r.st EXCEPT !.env = st.env, !.scope = st.scope, !.ismod = st.ismod,
                           !.intry = st.intry, !.depth = st.depth, !.loading = st.loading,
                           !.dir = st.dir]
  IN IF r.sig # "ok" THEN Res(back, r.sig, r.v)
     ELSE Done([back EXCEPT !.heap = d.h, !.mods = Append(@, <<file.loc, d.v>>)], d.v)

ExecUse(st, s) ==
  LET S == {i \in 1..Len(st.where) : st.where[i][1] = st.dir /\ st.where[i][2] = s.path}
      file == st.where[Min(S)][3]
      M == {i \in 1..Len(st.mods) : st.mods[i][1] = file.loc}
      r == IF M # {} THEN Done(st, st.mods[Min(M)][2])
           ELSE LoadModule(st, file, s.file)
      Bound(t, p) == IF st.scope = 0 THEN NewGlobal(t, p[1], p[2]) ELSE NewLocal(t, p[1], p[2])
  IN IF S = {} THEN Res(st, "bad", "module not found")
     ELSE IF file.loc \in st.loading THEN Res(st, "bad", "circular import")
     ELSE Then(r, LAMBDA t, d :
            Done(IF s.alias # "" THEN Bound(t, <<s.alias, d>>)
                 ELSE FoldLeft(Bound, t, [i \in 1..Len(Elems(t.heap, d)) |->
                        <<Elems(t.heap, d)[i][1][1][2], Elems(t.heap, d)[i][2]>>]), Nil))

MeanStmt(st, s) ==
  CASE s.k = "null" -> Done(st, Nil)
    [] s.k = "expr" -> Then(Eval(st, s.expr), LAMBDA t, v : Done(t, Nil))
    [] s.k = "out" -> Then(Eval(st, s.expr), LAMBDA t, v :
                        Done([t EXCEPT !.out = Append(@, Text(v))], Nil))
    [] s.k = "var" -> Then(Eval(st, s.initializer), LAMBDA t, v :
         Done(IF st.scope > 0 THEN NewLocal(t, s.name, v)
              ELSE WriteVar(t, s.name, v), Nil))
    [] s.k = "block" -> InScope(st, LAMBDA t : ExecAll(Declared(t, s.statements), s.statements))
    [] s.k = "when" -> Then(Eval(st, s.condition), LAMBDA t, v :
                         Exec(t, IF isTruthy(v) THEN s.thenBranch ELSE s.elseBranch))
    [] s.k = "while" -> LoopEnd(Looping(st, s))
    [] s.k = "repeat" -> InScope(st, LAMBDA t : LoopEnd(ExecRepeat(t, s)))
    [] s.k = "get" -> InScope(st, LAMBDA t : LoopEnd(ExecGet(t, s)))
    [] s.k = "match" -> Then(Eval(st, s.subject), LAMBDA t, v : Matching(t, v, s.arms))
    [] s.k = "task" -> ExecTask(st, s)
    [] s.k = "give" -> ExecGive(st, s)
    [] s.k = "escape" -> Res(st, "brk", Nil)
    [] s.k = "skip" -> Res(st, "cont", Nil)
    [] s.k = "static" -> ExecStatic(st, s)
    [] s.k = "try" -> ExecTry(st, s)
    [] s.k = "throw" -> Then(Eval(st, s.expr), LAMBDA t, v : Res(t, "exc", v))
    [] s.k = "use" -> ExecUse(st, s)
    [] s.k = "export" -> Exec(st, s.inner)

Mean(st, kind, x) ==
  CASE kind = "expr" -> MeanExpr(st, x)
    [] kind = "stmt" -> MeanStmt(st, x)
    [] kind = "call" -> MeanCall(st, x[1], x[2], x[3])

\* What a program prints and how it ends.
Outcome(r) ==
  [out |-> IF r.sig \in {"brk", "cont", "bad"} THEN <<>> ELSE r.st.out,
   status |-> CASE r.sig \in {"ok", "ret"} -> <<"done">>
                [] r.sig = "exc" -> <<"uncaught", r.v>>
                [] r.sig = "brk" -> <<"rejected", "escape">>
                [] r.sig = "cont" -> <<"rejected", "skip">>
                [] r.sig = "bad" -> <<"rejected", r.v>>]
Meaning(stmts, where, builtins) ==
  LET s0 == [env |-> <<>>, genv |-> <<>>, cells |-> <<>>, heap |-> <<>>, out |-> <<>>,
             stats |-> <<>>, mods |-> <<>>, loading |-> {}, where |-> where, dir |-> <<".">>,
             fn |-> Task("<main>", <<>>, <<>>), depth |-> 1, scope |-> 0, ismod |-> FALSE,
             intry |-> FALSE, old |-> <<>>]
  IN Outcome(ExecAll(FoldLeft(LAMBDA s, b : NewGlobal(s, b, <<"class", b>>), s0, builtins), stmts))
=============================================================================
