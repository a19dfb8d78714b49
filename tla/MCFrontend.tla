---------------------------- MODULE MCFrontend ----------------------------
(***************************************************************************)
(* Texts for the front end: the ways a tree is written (SYNTAX.md), texts  *)
(* in the shorter forms with the tree they stand for, texts to refuse, and *)
(* texts with a slip of the keyboard in them.                              *)
(***************************************************************************)
EXTENDS Frontend

(***************************************************************************)
(* Writing lexemes                                                         *)
(***************************************************************************)
Lex(kind, x) == [kind |-> kind, text |-> x]
W(x) == <<Lex("word", x)>>
P(x) == <<Lex("punct", x)>>
Num(n) == <<Lex("number", n)>>
Str(s) == <<Lex("string", s)>>
NL == <<Lex("break", "\n")>>
Joined(parts, sep) ==
  FoldLeft(LAMBDA t, q : IF t = <<>> THEN q ELSE t \o sep \o q, <<>>, parts)

(***************************************************************************)
(* Writing trees.  A layout says how statements are separated, whether     *)
(* lines are broken after infix operators and before dots, and whether     *)
(* every operation is put in parentheses.                                  *)
(***************************************************************************)
Plain == [sep |-> "\n", breaks |-> FALSE, parens |-> FALSE]
OneLine == [Plain EXCEPT !.sep = ";"]
Broken == [Plain EXCEPT !.breaks = TRUE]
Bracketed == [Plain EXCEPT !.parens = TRUE]

\* The table "Precedence" of SYNTAX.md, with **, which binds tighter than *,
\* ?: and lambdas (README.md).
Symbol ==
  "QUESTION_QUESTION" :> "??" @@ "OR" :> "or" @@ "AND" :> "and" @@ "PIPE" :> "|" @@
  "CARET" :> "^" @@ "AMPERSAND" :> "&" @@ "EQUAL_EQUAL" :> "==" @@ "BANG_EQUAL" :> "!=" @@
  "GREATER" :> ">" @@ "GREATER_EQUAL" :> ">=" @@ "LESS" :> "<" @@ "LESS_EQUAL" :> "<=" @@
  "IN" :> "in" @@ "LSHIFT" :> "<<" @@ "RSHIFT" :> ">>" @@ "PLUS" :> "+" @@ "MINUS" :> "-" @@
  "STAR" :> "*" @@ "SLASH" :> "/" @@ "PERCENT" :> "%" @@ "STAR_STAR" :> "**" @@
  "BANG" :> "!" @@ "NOT" :> "not" @@ "TILDE" :> "~" @@ "EQUAL" :> "=" @@ "" :> "=" @@
  "PLUS_EQUAL" :> "+=" @@ "MINUS_EQUAL" :> "-=" @@ "STAR_EQUAL" :> "*=" @@
  "STAR_STAR_EQUAL" :> "**=" @@ "SLASH_EQUAL" :> "/="
Binds(op) ==
  CASE op = "QUESTION_QUESTION" -> 2 [] op = "OR" -> 3 [] op = "AND" -> 4 [] op = "PIPE" -> 5
    [] op = "CARET" -> 6 [] op = "AMPERSAND" -> 7 [] op \in {"EQUAL_EQUAL", "BANG_EQUAL"} -> 8
    [] op \in {"LESS", "LESS_EQUAL", "GREATER", "GREATER_EQUAL", "IN"} -> 9
    [] op \in {"LSHIFT", "RSHIFT"} -> 10 [] op \in {"PLUS", "MINUS"} -> 11
    [] op \in {"STAR", "SLASH", "PERCENT"} -> 12 [] op = "STAR_STAR" -> 13
AsyncBlock(e) == e.k = "call" /\ e.callee.k = "lambda" /\ e.callee.isAsync
                 /\ e.callee.params = <<>> /\ e.callee.body = Null
\* How tightly an expression holds together: 0 assignments and lambdas, 1 the
\* conditional, 14 prefix operators, 15 what needs no parentheses.
Holds(e) ==
  CASE e.k \in {"assign", "set", "destructure", "lambda", "spread"} -> 0
    [] e.k = "ternary" -> 1
    [] e.k \in {"bin", "logical"} -> Binds(e.op)
    [] e.k \in {"un", "await"} -> 14
    [] OTHER -> 15

RECURSIVE Show(_, _, _)
E1(e, lay) == Show(e, 0, lay)
Commas(es, lay) == Joined([i \in DOMAIN es |-> E1(es[i], lay)], P(","))
Op(op) == IF Symbol[op] \in DOMAIN Keywords THEN W(Symbol[op]) ELSE P(Symbol[op])
InfixOp(op, lay) == Op(op) \o (IF lay.breaks /\ op \notin {"IN", "QUESTION_QUESTION"} THEN NL ELSE <<>>)
Sep(lay) == <<Lex("break", lay.sep)>>
Lines(ss, lay) == Joined([i \in DOMAIN ss |-> Show(ss[i], 0, lay)], Sep(lay))
Braces(ss, lay) ==
  P("{") \o (IF ss = <<>> THEN <<>> ELSE Sep(lay) \o Lines(ss, lay) \o Sep(lay)) \o P("}")
Type(t) == W(t.baseType)
           \o (IF t.typeArgs = <<>> THEN <<>>
               ELSE P("[") \o Joined([i \in DOMAIN t.typeArgs |-> W(t.typeArgs[i].baseType)], P(","))
                    \o P("]"))
Hint(t) == IF t = AnyType \/ t = Null THEN <<>> ELSE P(":") \o Type(t)
Generic(ts) == IF ts = <<>> THEN <<>>
               ELSE P("[") \o Joined([i \in DOMAIN ts |-> W(ts[i])], P(",")) \o P("]")
Default(e, lay) == IF e = Null THEN <<>> ELSE P("=") \o Show(e, 1, lay)
Rest(f, i) == IF f.isVariadic /\ i = Len(f.params) THEN P("...") ELSE <<>>
Params(f, lay) ==
  P("(") \o Joined([i \in DOMAIN f.params |->
                     Rest(f, i) \o W(f.params[i]) \o Hint(f.paramTypes[i])
                     \o Default(f.defaultValues[i], lay)], P(",")) \o P(")")
Clauses(word, cs, lay) ==
  IF cs = <<>> THEN <<>>
  ELSE NL \o W(word)
       \o Joined([i \in DOMAIN cs |-> E1(cs[i][1], lay)
                                      \o (IF cs[i][2] = "" THEN <<>> ELSE P(",") \o Str(cs[i][2]))],
                 P(","))
Marks(n, lay) ==
  FlattenSeq([i \in DOMAIN n.userDecorators |-> P("@") \o E1(n.userDecorators[i], lay) \o NL])
Flag(b, x) == IF b THEN P("@") \o W(x) \o NL ELSE <<>>
TaskText(t, lay) ==
  W("task") \o W(t.name) \o Generic(t.typeParams) \o Params(t, lay)
  \o (IF t.returnType = AnyType THEN <<>> ELSE P("->") \o Type(t.returnType))
  \o Clauses("requires", t.requires, lay) \o Clauses("ensures", t.ensures, lay)
Async(b) == IF b THEN W("async") ELSE <<>>
Rules(vs, lay) ==
  FlattenSeq([i \in DOMAIN vs |->
    NL \o P("@") \o W("validate") \o P("(") \o Str(vs[i][1])
    \o (IF vs[i][2] = Null THEN <<>> ELSE P(",") \o E1(vs[i][2], lay))
    \o (IF vs[i][3] = "" THEN <<>> ELSE P(",") \o Str(vs[i][3])) \o P(")")])
Member(m, lay) ==
  (IF m.hidden THEN W("hidden") ELSE <<>>) \o (IF m.isStatic THEN W("static") ELSE <<>>)
  \o (IF m.isMethod
      THEN Async(m.task.isAsync) \o Flag(m.task.isCached, "cached") \o Marks(m.task, lay)
           \o TaskText(m.task, lay) \o Braces(m.task.body, lay)
      ELSE W(m.name) \o Hint(m.typeHint)
           \o (IF m.initializer = Null THEN <<>> ELSE P("=") \o E1(m.initializer, lay))
           \o Rules(m.validators, lay))
ModelText(m, lay) ==
  Flag(m.audited, "audited") \o Flag(m.snapshot, "snapshot") \o Marks(m, lay)
  \o W("model") \o W(m.name) \o Generic(m.typeParams)
  \o (IF m.parentName = "" THEN <<>> ELSE W("extends") \o W(m.parentName))
  \o (IF m.interfaces = <<>> THEN <<>>
      ELSE W("implements") \o Joined([i \in DOMAIN m.interfaces |-> W(m.interfaces[i])], P(",")))
  \o P("{") \o NL
  \o (IF m.init = NoParameters /\ m.initBody = <<>> THEN <<>>
      ELSE W("init") \o Params(m.init, lay) \o Braces(m.initBody, lay) \o NL)
  \o Joined([i \in DOMAIN m.members |-> Member(m.members[i], lay)], NL) \o NL \o P("}")
Body(s, lay) == Show(s, 0, lay)

Constant(v) == CASE v[1] = "int" -> Num(v[2]) [] v[1] = "string" -> Str(v[2])
                 [] v[1] = "bool" -> W(IF v[2] THEN "true" ELSE "false") [] OTHER -> W("nil")
Dots(lay) == IF lay.breaks THEN NL ELSE <<>>
ExpressionText(e, lay) ==
  CASE e.k = "lit" -> Constant(e.value)
    [] e.k = "id" -> W(e.name)
    [] e.k = "self" -> W("self")
    [] e.k = "super" -> W("super")
    [] e.k \in {"bin", "logical"} ->
         Show(e.left, IF e.op = "STAR_STAR" THEN 14 ELSE Binds(e.op), lay) \o InfixOp(e.op, lay)
         \o Show(e.right, IF e.op = "STAR_STAR" THEN 13 ELSE Binds(e.op) + 1, lay)
    [] e.k = "un" -> Op(e.op) \o Show(e.operand, 14, lay)
    [] e.k = "await" -> W("await") \o Show(e.expression, 14, lay)
    [] e.k = "ternary" -> Show(e.condition, 2, lay) \o P("?") \o E1(e.thenBranch, lay)
                          \o P(":") \o Show(e.elseBranch, 1, lay)
    [] e.k = "assign" ->
         (IF e.index = Null THEN W(e.name) \o P("=")
          ELSE Show(e.object, 15, lay) \o P("[") \o E1(e.index, lay) \o P("]") \o Op(e.compoundOp))
         \o E1(e.value, lay)
    [] e.k = "set" -> Show(e.object, 15, lay) \o P(".") \o W(e.property) \o Op(e.compoundOp)
                      \o E1(e.value, lay)
    [] e.k = "destructure" -> E1(Tuple(e.targets), lay) \o P("=") \o E1(e.value, lay)
    [] e.k = "prop" -> Show(e.object, 15, lay) \o Dots(lay)
                       \o P(IF e.isOptional THEN "?." ELSE ".") \o W(e.property)
    [] e.k = "index" -> Show(e.object, 15, lay) \o P("[") \o E1(e.index, lay) \o P("]")
    [] e.k = "call" /\ AsyncBlock(e) -> W("async") \o Braces(e.callee.stmtBody, lay)
    [] e.k = "call" /\ e.callee = Id("__input__") -> W("in")
    [] e.k = "call" ->
         Show(e.callee, 15, lay) \o P("(")
         \o Joined([i \in DOMAIN e.arguments |->
              (IF e.argNames[i] = "" THEN <<>> ELSE W(e.argNames[i]) \o P("="))
              \o E1(e.arguments[i], lay)], P(",")) \o P(")")
    [] e.k = "new" -> W("new") \o W(e.name)
                      \o (IF e.typeArgs = <<>> THEN <<>> ELSE
                          P("[") \o Joined([i \in DOMAIN e.typeArgs |-> Type(e.typeArgs[i])], P(","))
                          \o P("]"))
                      \o P("(") \o Commas(e.arguments, lay) \o P(")")
    [] e.k = "spread" -> P("...") \o E1(e.expression, lay)
    [] e.k = "array" -> P("[") \o Commas(e.elements, lay) \o P("]")
    [] e.k = "tuple" -> P("(") \o Commas(e.elements, lay)
                        \o (IF Len(e.elements) = 1 THEN P(",") ELSE <<>>) \o P(")")
    [] e.k = "dict" -> P("{") \o Joined([i \in DOMAIN e.pairs |->
                         Show(e.pairs[i][1], 1, lay) \o P(":") \o E1(e.pairs[i][2], lay)], P(","))
                       \o P("}")
    [] e.k = "lambda" ->
         Async(e.isAsync) \o P("|")
         \o Joined([i \in DOMAIN e.params |-> Rest(e, i) \o W(e.params[i])], P(",")) \o P("|")
         \o (IF e.body = Null THEN Braces(e.stmtBody, lay) ELSE P("=>") \o E1(e.body, lay))
StatementText(s, lay) ==
  CASE s.k = "expr" -> E1(s.expr, lay)
    [] s.k = "out" -> W("out") \o E1(s.expr, lay)
    [] s.k = "throw" -> W("throw") \o E1(s.expr, lay)
    [] s.k = "var" -> W(s.name) \o P(":") \o Type(s.typeHint)
                      \o (IF s.initializer = Null THEN <<>> ELSE P("=") \o E1(s.initializer, lay))
    [] s.k = "block" -> Braces(s.statements, lay)
    [] s.k = "when" -> W("when") \o E1(s.condition, lay) \o Body(s.thenBranch, lay)
                       \o (IF s.elseBranch = Null THEN <<>>
                           ELSE W("other") \o Body(s.elseBranch, lay))
    [] s.k = "while" -> W("while") \o E1(s.condition, lay) \o Body(s.body, lay)
    [] s.k = "repeat" -> W("repeat") \o W(s.variable) \o P("=") \o E1(s.start, lay) \o W("to")
                         \o E1(s.end, lay)
                         \o (IF s.step = Null THEN <<>> ELSE W("step") \o E1(s.step, lay))
                         \o Body(s.body, lay)
    [] s.k = "get" -> W("get")
                      \o (IF s.valueVariable = "" THEN W(s.variable)
                          ELSE P("[") \o W(s.variable) \o P(",") \o W(s.valueVariable) \o P("]"))
                      \o W("in") \o E1(s.iterable, lay) \o Body(s.body, lay)
    [] s.k = "match" -> W("match") \o E1(s.subject, lay) \o P("{") \o Sep(lay)
                        \o Joined([i \in DOMAIN s.arms |->
                             (IF s.arms[i][1] = Null THEN W("other") ELSE E1(s.arms[i][1], lay))
                             \o P("=>") \o Body(s.arms[i][2], lay)], Sep(lay)) \o Sep(lay) \o P("}")
    [] s.k = "task" -> Flag(s.isCached, "cached")
                       \o (IF s.rateLimit = <<>> THEN <<>>
                           ELSE P("@") \o W("ratelimit") \o P("(") \o Num(s.rateLimit[1]) \o P(",")
                                \o Str(s.rateLimit[2]) \o P(")") \o NL)
                       \o Marks(s, lay) \o Async(s.isAsync) \o TaskText(s, lay)
                       \o Braces(s.body, lay)
    [] s.k = "give" -> W("give") \o (IF s.value = Null THEN <<>> ELSE E1(s.value, lay))
    [] s.k = "escape" -> W("escape")
    [] s.k = "skip" -> W("skip")
    [] s.k = "static" -> W("static") \o W(s.name) \o P("=") \o E1(s.initializer, lay)
    [] s.k = "use" -> W("use") \o Str(s.path)
                      \o (IF s.alias = "" THEN <<>>
                          ELSE W("as") \o (IF s.alias = "*" THEN P("*") ELSE W(s.alias)))
    [] s.k = "export" -> W("export") \o Body(s.inner, lay)
    [] s.k = "try" ->
         W("try") \o Body(s.tryBlock, lay)
         \o FlattenSeq([i \in DOMAIN s.catchBlocks |->
              W("catch") \o (IF s.catchBlocks[i].typeName = "" THEN <<>>
                             ELSE W(s.catchBlocks[i].typeName))
              \o (IF s.catchBlocks[i].varName = "" THEN <<>> ELSE W(s.catchBlocks[i].varName))
              \o Body(s.catchBlocks[i].body, lay)])
         \o (IF s.finallyBlock = Null THEN <<>> ELSE W("finally") \o Body(s.finallyBlock, lay))
    [] s.k = "model" -> ModelText(s, lay)
    [] s.k = "interface" ->
         W("interface") \o W(s.name) \o Generic(s.typeParams) \o P("{") \o NL
         \o Joined([i \in DOMAIN s.methods |->
              W("task") \o W(s.methods[i].name) \o P("(")
              \o Joined([j \in DOMAIN s.methods[i].params |->
                   W(s.methods[i].params[j][1]) \o Hint(s.methods[i].params[j][2])], P(","))
              \o P(")") \o (IF s.methods[i].returnType = AnyType THEN <<>>
                            ELSE P("->") \o Type(s.methods[i].returnType))], NL)
         \o NL \o P("}")
IsExpression(n) ==
  n.k \in {"lit", "id", "self", "super", "bin", "logical", "un", "await", "ternary", "assign",
           "set", "destructure", "prop", "index", "call", "new", "spread", "array", "tuple",
           "dict", "lambda"}
Operation(e) == e.k \in {"bin", "logical", "un", "await", "ternary"}
Show(n, min, lay) ==
  IF ~IsExpression(n) THEN StatementText(n, lay)
  ELSE IF Holds(n) < min \/ (lay.parens /\ Operation(n))
  THEN P("(") \o ExpressionText(n, lay) \o P(")")
  ELSE ExpressionText(n, lay)

(***************************************************************************)
(* Trees                                                                   *)
(***************************************************************************)
a == Id("a")
b == Id("b")
c == Id("c")
Int1 == Lit(<<"int", 1>>)
Text1 == Lit(<<"string", "s">>)
InfixOps == {"QUESTION_QUESTION", "OR", "AND", "PIPE", "CARET", "AMPERSAND", "EQUAL_EQUAL",
            "LESS", "IN", "LSHIFT", "PLUS", "MINUS", "STAR", "PERCENT", "STAR_STAR"}
PrefixOps == {"MINUS", "NOT", "TILDE"}
TwoInfix ==
  UNION {{Infix(Infix(a, o, b), q, c), Infix(a, o, Infix(b, q, c))} : o \in InfixOps, q \in InfixOps}
Prefixed2 ==
  UNION {{Un(u, Infix(a, o, b)), Infix(Un(u, a), o, b), Infix(a, o, Un(u, b)), Un(u, Un("MINUS", a))} :
           u \in PrefixOps, o \in InfixOps}
Conditionals ==
  UNION {{Ternary(Infix(a, o, b), c, a), Ternary(a, Infix(a, o, b), Infix(c, o, b)),
          Infix(Ternary(a, b, c), o, a), Infix(a, o, Ternary(a, b, c))} : o \in InfixOps}
  \cup {Ternary(Ternary(a, b, c), a, b), Ternary(a, Ternary(a, b, c), b),
        Ternary(a, b, Ternary(b, c, a)), Ternary(a, Assign("b", c), b)}
Fun(ps, e) == LambdaExpr(ps, FALSE, FALSE, e, <<>>)
Doing(ps, ss) == LambdaExpr(ps, FALSE, FALSE, Null, ss)
Dot(o, n) == Property(o, n, FALSE)
Suffixed ==
  {Call(Dot(Index(Dot(a, "b"), b), "give"), <<c>>),
   Dot(Infix(a, "PLUS", b), "x"), Un("MINUS", Dot(a, "x")), Dot(Un("MINUS", a), "x"),
   Call(Await(a), <<>>), Await(Call(a, <<b>>)), Await(Un("NOT", a)), Bin(Await(a), "STAR_STAR", b),
   Property(Property(Dot(Self, "x"), "y", TRUE), "nil", TRUE),
   Call(Dot(Super, "init"), <<a, b>>), Call(Fun(<<"x">>, a), <<b>>),
   CallKw(a, <<b, Int1, Text1>>, <<"", "n", "m">>), Call(a, <<Spread(Array(<<b>>)), c>>),
   New("M", <<a, Fun(<<"x", "y">>, b)>>, <<>>), New("M", <<>>, <<Typed("T", <<>>), Typed("U", <<Typed("V", <<>>)>>)>>),
   Array(<<>>), Array(<<Spread(a), Infix(b, "PLUS", c)>>), Tuple(<<>>), Tuple(<<a>>), Tuple(<<a, b, c>>),
   Call(Id("f"), <<Dictionary(<< <<Text1, a>>, <<Infix(a, "OR", b), Tuple(<<b, c>>)>> >>)>>),
   LambdaExpr(<<"x", "r">>, TRUE, TRUE, Infix(a, "PIPE", b), <<>>), Fun(<<"x">>, Fun(<<"y">>, Assign("a", b))),
   Bin(Fun(<<"x">>, a), "PLUS", b), Bin(a, "PLUS", Fun(<<"x">>, b)),
   Call(LambdaExpr(<<>>, FALSE, TRUE, Null, <<Give(a)>>), <<>>),
   Await(Call(LambdaExpr(<<>>, FALSE, TRUE, Null, <<Out(a), Give(b)>>), <<>>)),
   Bin(Call(Id("__input__"), <<>>), "IN", a)}
Assignments ==
  {Assign("a", Assign("b", c)), Assign("a", Ternary(a, b, c)), SetProperty(Dot(a, "x"), "y", Assign("b", c), ""),
   SetProperty(Self, "y", c, "PLUS_EQUAL"), AssignIdx(Dot(a, "x"), Infix(b, "PLUS", c), Infix(a, "OR", b), "STAR_STAR_EQUAL"),
   AssignIdx(Index(a, b), Text1, Fun(<<"x">>, c), ""), DestructureAssign(<<a, Dot(b, "x"), Index(c, Int1)>>, Tuple(<<b, a>>)),
   Bin(a, "PLUS", Assign("b", c)), Call(Id("f"), <<Tuple(<<Assign("a", b)>>)>>)}
ExpressionTrees ==
  {<<Out(e)>> : e \in TwoInfix \cup Prefixed2 \cup Conditionals \cup Suffixed \cup Assignments}

PlainTask(n, ps, ss) ==
  TaskDecl(n, FALSE, <<>>,
           [NoParameters EXCEPT !.params = ps, !.paramTypes = [i \in DOMAIN ps |-> AnyType],
                                !.defaultValues = [i \in DOMAIN ps |-> Null]],
           AnyType, NoClauses, ss)
Do == ExprS(Call(Id("f"), <<a>>))
Braced(ss) == Block(ss)
\* A body that holds a statement, whose own last part is open to what follows.
Inner ==
  {When(a, Braced(<<Do>>), Null), When(a, Braced(<<Do>>), Braced(<<Skip>>)),
   When(a, Braced(<<>>), When(b, Out(c), Braced(<<Escape>>))), While(a, Braced(<<Escape, Do>>)),
   Repeat("i", Int1, Infix(a, "PLUS", b), Null, Braced(<<Do>>)),
   Repeat("i", a, Int1, Un("MINUS", Int1), Out(a)), Get("x", "", Dot(a, "l"), Braced(<<Out(Id("x"))>>)),
   Get("x", "y", a, Out(b)), Match(a, << <<Int1, Out(a)>>, <<Tuple(<<a, b>>), Braced(<<Do>>)>>, <<Null, Give(Null)>> >>),
   Try(Braced(<<Throw(a)>>), <<Catch("E", "e", Braced(<<Do>>)), Catch("", "e", Braced(<<>>))>>, Null),
   Try(Braced(<<Do>>), <<>>, Braced(<<Give(b)>>)), Braced(<<Static("n", Int1), Do>>)}
StatementTrees ==
  {<<s, Out(b)>> : s \in Inner}
  \cup {<<PlainTask("f", <<"x">>, <<s, Give(c)>>)>> : s \in Inner}
  \cup {<<Use("m", FALSE, ""), Use("m", FALSE, "*"), Use("m", FALSE, "n"),
          Export(TypedVar("x", a, Typed("List", <<Typed("int", <<>>)>>))), TypedVar("y", Null, Typed("T", <<>>))>>,
        <<ExprS(Assign("g", Doing(<<"x">>, <<When(a, Out(b), Null), Give(c)>>))), Do>>}
Declarations ==
  { <<[TaskDecl("g", TRUE, <<"T", "U">>,
         [params |-> <<"x", "y", "z">>, paramTypes |-> <<Typed("T", <<>>), AnyType, AnyType>>,
          defaultValues |-> <<Null, Infix(a, "PLUS", b), Null>>, isVariadic |-> TRUE],
         Typed("int", <<>>),
         [requires |-> << <<Infix(a, "LESS", b), "s">>, <<a, "">> >>, ensures |-> << <<b, "t">> >>],
         <<Give(Await(a)), Give(Null)>>) EXCEPT !.isCached = TRUE, !.userDecorators = <<Call(Id("d"), <<Int1>>)>>],
      [PlainTask("h", <<>>, <<>>) EXCEPT !.rateLimit = <<3, "minute">>], Do>>,
    <<[ModelDecl("M", <<"T">>, "N", <<"I", "J">>,
         [NoParameters EXCEPT !.params = <<"x">>, !.paramTypes = <<AnyType>>, !.defaultValues = <<Int1>>],
         <<ExprS(SetProperty(Self, "x", Id("x"), ""))>>,
         << Field(TRUE, FALSE, "p", Null, Null, << <<"email", Null, "s">>, <<"min", Int1, "">>, <<"in", Text1, "t">> >>),
            Field(FALSE, TRUE, "q", Typed("int", <<>>), Int1, <<>>),
            Method(TRUE, FALSE, [PlainTask("get", <<"x">>, <<Give(Dot(Self, "p"))>>) EXCEPT !.isAsync = TRUE]),
            Method(FALSE, TRUE, [PlainTask("make", <<>>, <<>>) EXCEPT !.isCached = TRUE, !.userDecorators = <<a>>]),
            Field(FALSE, FALSE, "r", Null, a, <<>>)>>)
       EXCEPT !.audited = TRUE, !.userDecorators = <<Call(a, <<b>>)>>], Do>>,
    <<InterfaceDecl("I", <<"T">>,
        <<[name |-> "m", params |-> << <<"x", AnyType>>, <<"y", Typed("T", <<>>)>> >>, returnType |-> Typed("T", <<>>)],
          [name |-> "n", params |-> <<>>, returnType |-> AnyType]>>), Do>> }

\* A text to be read as a tree, to be refused, or only to be accounted for.
Expecting(text, expect, tree) == [text |-> text, expect |-> expect, tree |-> tree]
Written(tree, lay) == Expecting(Lines(tree, lay), "tree", tree)
WrittenSources ==
  {Written(t, lay) : t \in ExpressionTrees, lay \in {Plain, Broken, Bracketed}}
  \cup {Written(t, lay) : t \in StatementTrees \cup Declarations, lay \in {Plain, OneLine, Bracketed}}

(***************************************************************************)
(* The shorter forms, with the tree each stands for                        *)
(***************************************************************************)
Quotes == "'s'" :> "s" @@ "'t'" :> "t" @@ "'minute'" :> "minute" @@ "'min'" :> "min"
Digits == "0" :> 0 @@ "1" :> 1 @@ "3" :> 3 @@ "5" :> 5
Lexeme(x) ==
  CASE x \in DOMAIN Punctuation -> Lex("punct", x)
    [] x \in DOMAIN Quotes -> Lex("string", Quotes[x])
    [] x \in DOMAIN Digits -> Lex("number", Digits[x])
    [] x \in {"\n", ";"} -> Lex("break", x)
    [] x = "bad" -> Lex("bad", x)
    [] OTHER -> Lex("word", x)
Lexemes(xs) == [i \in DOMAIN xs |-> Lexeme(xs[i])]
Template(parts) == <<Lex("template", parts)>>
Text(s) == [isExpr |-> FALSE, text |-> s]
Hole(xs) == [isExpr |-> TRUE, text |-> Lexemes(xs)]

Statics(ns, es) ==
  ModelDecl("E", <<>>, "", <<>>, NoParameters, <<>>,
            [i \in DOMAIN ns |-> Field(FALSE, TRUE, ns[i], Null, es[i], <<>>)])
Number(n) == Lit(<<"int", n>>)
Str1(e) == Call(Id("str"), <<e>>)
Block1(s) == Block(<<s>>)
ShortForms ==
  { <<Lexemes(<<"when", "a", "\n", "out", "b", "\n", "other", "out", "c">>), <<When(a, Out(b), Out(c))>> >>,
    <<Lexemes(<<"when", "a", "{", "out", "b", "}", "\n", "other", "when", "b", "{", "}", "\n", "\n", "other",
                "{", "out", "c", "}">>),
      <<When(a, Block1(Out(b)), When(b, Block(<<>>), Block1(Out(c))))>> >>,
    <<Lexemes(<<"when", "a", "{", "when", "b", "\n", "out", "a", "\n", "other", "{", "}", "}", "\n", "out", "c">>),
      <<When(a, Block1(When(b, Out(a), Block(<<>>))), Null), Out(c)>> >>,
    <<Lexemes(<<"while", "a", "\n", "out", "b", ";", "out", "c">>), <<While(a, Out(b)), Out(c)>> >>,
    <<Lexemes(<<"task", "f", "(", "x", ")", "give", "x", ";", "out", "c">>),
      <<PlainTask("f", <<"x">>, <<Give(Id("x"))>>), Out(c)>> >>,
    <<Lexemes(<<"a", "+=", "b", "\n", "b", "**=", "c", "/", "a", "\n", "c", "-=", "a", "=", "b">>),
      <<ExprS(Assign("a", Bin(a, "PLUS", b))), ExprS(Assign("b", Bin(b, "STAR_STAR", Bin(c, "SLASH", a)))),
        ExprS(Assign("c", Bin(c, "MINUS", Assign("a", b))))>> >>,
    <<Lexemes(<<"struct", "P", "[", "T", "]", "{", "\n", "x", ":", "int", ",", "y", "=", "a", "\n", "z", ":", "T", "}">>),
      <<ModelDecl("P", <<"T">>, "", <<>>,
         [params |-> <<"x", "y", "z">>, paramTypes |-> <<Typed("int", <<>>), AnyType, Typed("T", <<>>)>>,
          defaultValues |-> <<Number(0), a, Lit(<<"nil">>)>>, isVariadic |-> FALSE],
         [i \in 1..3 |-> LET f == <<"x", "y", "z">>[i] IN ExprS(SetProperty(Self, f, Id(f), ""))], <<>>)>> >>,
    <<Lexemes(<<"enum", "E", "{", "x", ",", "\n", "y", "=", "5", "\n", "z", ",", "w", "=", "'s'", ",", "v", "}">>),
      <<Statics(<<"x", "y", "z", "w", "v">>, <<Number(0), Number(5), Number(6), Text1, Number(7)>>)>> >>,
    <<Lexemes(<<"a", "=">>) \o Template(<<Text("s"), Hole(<<"a", "+", "b">>), Text("t")>>) \o Lexemes(<<"+", "c">>),
      <<ExprS(Assign("a", Bin(Bin(Bin(Text1, "PLUS", Str1(Bin(a, "PLUS", b))), "PLUS", Lit(<<"string", "t">>)),
                              "PLUS", c)))>> >>,
    <<Lexemes(<<"out">>) \o Template(<<Text("s")>>) \o Lexemes(<<".", "x">>), <<Out(Dot(Text1, "x"))>> >>,
    <<Lexemes(<<"test", "'s'", "{", "\n", "out", "a", "}">>),
      <<ExprS(Call(Id("ez_register_test"), <<Text1, Doing(<<>>, <<Out(a)>>)>>))>> >>,
    <<Lexemes(<<"try", "{", "}", "catch", "(", "E", "e", ")", "{", "}", "\n", "catch", "(", "e", ")", "{", "}",
                "catch", "{", "}", "\n", "finally", "{", "out", "a", "}", "out", "b">>),
      <<Try(Block(<<>>), <<Catch("E", "e", Block(<<>>)), Catch("", "e", Block(<<>>)), Catch("", "", Block(<<>>))>>,
            Block1(Out(a))), Out(b)>> >>,
    <<Lexemes(<<"a", "\n", ".", "x", "(", ")", "\n", "\n", "?.", "y", "\n", "out", "a">>),
      <<ExprS(Property(Call(Dot(a, "x"), <<>>), "y", TRUE)), Out(a)>> >>,
    <<Lexemes(<<"task", "f", "(", ")", "{", "give", "a", ",", "b", "}">>),
      <<PlainTask("f", <<>>, <<Give(Array(<<a, b>>))>>)>> >>,
    <<Lexemes(<<"@", "persist", "(", "'s'", ")", "\n", "@", "snapshot", "\n", "model", "M", "{",
                "shown", "x", "\n", "shown", "static", "y", "=", "1", "}">>),
      <<[ModelDecl("M", <<>>, "", <<>>, NoParameters, <<>>,
           <<Field(FALSE, FALSE, "x", Null, Null, <<>>), Field(FALSE, TRUE, "y", Null, Int1, <<>>)>>)
         EXCEPT !.persistPath = "s", !.snapshot = TRUE]>> >>,
    <<Lexemes(<<"a", "=", "[", "\n", "yes", ",", "\n", "(", "no", ",", "\n", "b", ")", "\n", "]", "\n",
                "f", "(", "\n", "a", ",", "\n", "n", "=", "b", "\n", ")">>),
      <<ExprS(Assign("a", Array(<<Lit(<<"bool", TRUE>>), Tuple(<<Lit(<<"bool", FALSE>>), b>>)>>))),
        ExprS(CallKw(Id("f"), <<a, b>>, <<"", "n">>))>> >>,
    <<Lexemes(<<"a", "=", "{", "\n", "x", ":", "1", ",", "\n", "'s'", ":", "b", "\n", "(", "x", ")", ":", "new", "M", "}">>),
      <<ExprS(Assign("a", Dictionary(<< <<Lit(<<"string", "x">>), Int1>>, <<Text1, b>>,
                                        <<Lit(<<"string", "x">>), New("M", <<>>, <<>>)>> >>)))>> >>,
    <<Lexemes(<<"a", "=", "|", "x", ",", "...", "r", "|", "x", "+", "b", "\n", "b", "=", "|", "|", "a">>),
      <<ExprS(Assign("a", LambdaExpr(<<"x", "r">>, TRUE, FALSE, Bin(Id("x"), "PLUS", b), <<>>))),
        ExprS(Assign("b", Fun(<<>>, a)))>> >>,
    <<Lexemes(<<"match", "a", "{", "1", "=>", "out", "b", "\n", "\n", "other", "=>", "{", "}", "}", "\n", "out", "c">>),
      <<Match(a, << <<Int1, Out(b)>>, <<Null, Block(<<>>)>> >>), Out(c)>> >>,
    <<Lexemes(<<"async", "task", "f", "(", ")", "requires", "a", ",", "\n", "b", ",", "'s'", ",", "\n", "{", "\n", "}">>),
      <<[PlainTask("f", <<>>, <<>>) EXCEPT !.isAsync = TRUE, !.requires = << <<a, "">>, <<b, "s">> >>]>> >>,
    <<Lexemes(<<"export", "\n", "task", "f", "(", ")", "{", "}", "\n", "export", "a", ":", "T", "=", "1">>),
      <<Export(PlainTask("f", <<>>, <<>>)), Export(TypedVar("a", Int1, Typed("T", <<>>)))>> >> }

(***************************************************************************)
(* Texts to refuse                                                         *)
(***************************************************************************)
Repeated(x, n) == [i \in 1..n |-> x]
Refused ==
  { Lexemes(xs) : xs \in {
      <<"wen", "a", "{", "out", "b", "}">>, <<"otu", "a">>, <<"out", "bad", "a">>, <<"out", "a", "+">>,
      <<"enum", "E", "{", "}">>, <<"enum", "E", "{", "x", ",", "y", ",", "x", "}">>,
      <<"task", "f", "(", "x", "=", "1", ",", "y", ")", "{", "}">>,
      <<"task", "f", "(", "...", "x", ",", "y", ")", "{", "}">>, <<"task", "f", "(", "x", "{", "}">>,
      <<"a", "=", "|", "...", "x", ",", "y", "|", "x">>, <<"try", "{", "}">>, <<"async", "when", "a", "{", "}">>,
      <<"@", "d", "\n", "while", "a", "{", "}">>, <<"@", "d", "\n", "out", "a">>,
      <<"model", "M", "{", "static", "init", "(", ")", "{", "}", "}">>, <<"model", "M", "{", "x", "}">>,
      <<"model", "M", "{", "async", "x", "=", "1", "}">>, <<"a", "+", "b", "=", "c">>, <<"(", "a", ",", "b", ")", "+=", "c">>,
      <<"f", "(", "a", "b", ")">>, <<"f", "(", "a", ",", ")">>, <<"a", "=", "{", "x", ":", "1", "y", ":", "1", "}">>,
      <<"use", "a">>, <<"when", "a", "{", "out", "b">>, <<"}">>, <<"export", "\n", "wen", "b", "{", "}">>,
      <<"out", "a", "\n", "when", "\n", "out", "b">> } }
  \cup { Lexemes(Repeated("(", MaxDepth) \o <<"a">> \o Repeated(")", MaxDepth)),
         Lexemes(Repeated("{", MaxDepth + 1) \o Repeated("}", MaxDepth + 1) \o <<"out", "a">>) }
\* As deep as it may be.
Deepest == << Lexemes(Repeated("(", MaxDepth - 2) \o <<"a">> \o Repeated(")", MaxDepth - 2) \o <<"\n", "out", "a">>),
              <<ExprS(a), Out(a)>> >>
GivenSources ==
  {Expecting(t[1], "tree", t[2]) : t \in ShortForms \cup {Deepest}}
  \cup {Expecting(t, "error", <<>>) : t \in Refused}
(***************************************************************************)
(* Slips: a lexeme left out, written twice or changed over with the next   *)
(***************************************************************************)
Slips(t) ==
  {RemoveAt(t, i) : i \in DOMAIN t} \cup {InsertAt(t, i, t[i]) : i \in DOMAIN t}
  \cup {[t EXCEPT ![i] = t[i + 1], ![i + 1] = t[i]] : i \in 1..Len(t) - 1}
SlippedTexts ==
  UNION {Slips(Lines(t, Plain)) :
           t \in {<<s, Out(b)>> : s \in Inner} \cup {<<Out(e)>> : e \in Suffixed} \cup Declarations}
(***************************************************************************)
(* Programs with types: two tasks that use each other and a model and its  *)
(* parent, side by side in the program, in a task and in a block           *)
(***************************************************************************)
Hinted(n, ps, types, defaults, ret, ss) ==
  TaskDecl(n, FALSE, <<>>, [NoParameters EXCEPT !.params = ps, !.paramTypes = types, !.defaultValues = defaults],
           ret, NoClauses, ss)
aNumber == Typed("number", <<>>)
aString == Typed("string", <<>>)
F(ss) == Hinted("f", <<"x">>, <<aNumber>>, <<Null>>, aString, ss)
G(ss) == Hinted("g", <<"y", "z">>, <<aString, aNumber>>, <<Null, Int1>>, Typed("B", <<aNumber>>), ss)
fx == Call(Id("f"), <<Int1>>)
gx == Call(Id("g"), <<Text1>>)
x == Id("x")
Using ==
  {Out(fx), Out(Call(Id("f"), <<Text1>>)), Out(Call(Id("f"), <<fx>>)), Out(Un("MINUS", fx)),
   Out(Bin(gx, "MINUS", Int1)), Out(Bin(Bin(Int1, "PLUS", fx), "STAR", Int1)), Out(Call(Id("g"), <<>>)),
   Out(CallKw(Id("g"), <<Int1, fx>>, <<"z", "y">>)), Out(CallKw(Id("g"), <<Int1, Int1>>, <<"", "y">>)),
   Out(Call(Id("f"), <<Spread(Array(<<fx>>))>>)), Out(Index(Array(<<Int1, fx>>), fx)),
   Out(Index(Dictionary(<< <<fx, Int1>> >>), Int1)), Out(Index(fx, Dot(gx, "p"))),
   Out(Un("MINUS", Dot(gx, "p"))), Out(Call(Dot(gx, "m"), <<fx>>)), Out(Call(Dot(gx, "init"), <<Text1, Text1>>)),
   Out(Dot(Lit(<<"nil">>), "p")), Out(Call(Text1, <<>>)), ExprS(Assign("v", fx)), Out(Id("v")), Escape,
   TypedVar("v", fx, aNumber), While(Text1, Block1(Escape)),
   Repeat("i", fx, Int1, Null, Block1(ExprS(Assign("i", gx)))),
   Get("k", "w", fx, Block1(Out(Tuple(<<Id("k"), Id("w"), Id("i")>>)))),
   Try(Block(<<Throw(fx), Out(Id("lost"))>>), <<Catch("E", "e", Block1(Out(Un("MINUS", Id("e")))))>>, Block1(Out(gx))),
   Match(fx, << <<Id("B"), Out(fx)>>, <<Id("I"), Out(x)>>, <<Int1, Give(gx)>> >>),
   ExprS(Assign("w", Fun(<<"x">>, Call(x, <<gx>>)))), ExprS(DestructureAssign(<<Id("v"), Dot(gx, "p")>>, Tuple(<<fx, gx>>))),
   ExprS(AssignIdx(Array(<<Int1>>), Int1, fx, "")), Out(Ternary(x, fx, Await(gx))), Static("s", fx), Out(Self)}
Parent ==
  ModelDecl("A", <<"T">>, "", <<>>,
    [NoParameters EXCEPT !.params = <<"x">>, !.paramTypes = <<Typed("T", <<>>)>>, !.defaultValues = <<Null>>],
    <<ExprS(SetProperty(Self, "n", x, "")), When(x, Block1(ExprS(SetProperty(Self, "q", x, ""))), Null)>>,
    <<Field(FALSE, FALSE, "p", Typed("T", <<>>), Null, <<>>),
      Method(FALSE, FALSE, Hinted("m", <<"x">>, <<aNumber>>, <<Null>>, aNumber, <<Give(Un("MINUS", Dot(Self, "p")))>>))>>)
Child ==
  ModelDecl("B", <<"T">>, "A", <<"I">>, NoParameters, <<ExprS(Call(Dot(Super, "init"), <<Int1>>))>>,
    <<Field(FALSE, FALSE, "p", aString, Int1, <<>>), Method(FALSE, FALSE, PlainTask("m", <<"x">>, <<Give(gx)>>))>>)
Promise ==
  InterfaceDecl("I", <<>>, <<[name |-> "m", params |-> << <<"x", aString>> >>, returnType |-> aNumber]>>)
\* The places where two tasks stand side by side.
Sides(ss, place) ==
  CASE place = "program" -> ss \o <<Out(fx), Out(gx)>>
    [] place = "task" -> <<PlainTask("h", <<"x">>, ss \o <<Give(fx), Out(Id("lost"))>>)>>
    [] place = "block" -> <<Block(ss \o <<Out(gx)>>)>>
    [] place = "models" -> <<Parent, Child, Promise, Export(Child)>> \o ss
TypedPrograms ==
  {Sides(<<F(<<s>>), G(<<Out(fx)>>)>>, place) : s \in Using, place \in {"program", "task", "block", "models"}}
  \cup {Sides(<<F(<<>>), G(<<s, Out(fx)>>), F(<<>>)>>, "models") : s \in Using}
  \cup {<<Use("m", FALSE, "n"), Export(F(<<s>>)), G(<<Out(Id("f"))>>), PlainTask("h", <<"f">>, <<Out(gx)>>)>> : s \in Using}
TypedSources == {Written(t, Plain) : t \in TypedPrograms}

AllTexts ==
  WrittenSources \cup GivenSources \cup TypedSources
  \cup {Expecting(t, "accounted", <<>>) : t \in SlippedTexts}

\* The tokens of a text but for those that only group or separate.
Grouping == {"NEWLINE", "END_OF_FILE", "LPAREN", "RPAREN", "LBRACKET", "RBRACKET", "LBRACE",
             "RBRACE", "COMMA", "ARROW", "SHOWN"}
Words(text) == SelectSeq(tokenize(text).tokens, LAMBDA t : t.type \notin Grouping)
\* A text the parser takes, slips and all, is read in full: the statements it
\* built hold every word of it, in order (synchronize() and the optional
\* separators must not pass over what was written).
NothingDropped ==
  Done /\ phase = "accepted" /\ source.expect # "tree"
    => Words(source.text) = Words(Lines(statements, Plain))

\* Whatever slips a text has, the parser gets to its end (EveryTurnReads), and what
\* it takes it has read in full.
RecoverySound == EveryTurnReads /\ NothingDropped

\* A program with two tasks that stand side by side, in it, in a task or in a block,
\* changed over.
ChangedOver(ss) ==
  {[ss EXCEPT ![i] = ss[i + 1], ![i + 1] = ss[i]] :
     i \in {i \in 1..Len(ss) - 1 : ss[i].k = "task" /\ ss[i + 1].k = "task" /\ ss[i].name # ss[i + 1].name}}
Rearranged(ss) ==
  ChangedOver(ss)
  \cup UNION {{[ss EXCEPT ![i].body = b1] : b1 \in ChangedOver(ss[i].body)} : i \in {i \in DOMAIN ss : ss[i].k = "task"}}
  \cup UNION {{[ss EXCEPT ![i].statements = b1] : b1 \in ChangedOver(ss[i].statements)} :
                 i \in {i \in DOMAIN ss : ss[i].k = "block"}}
\* Sibling tasks may call each other whichever is written first: the verdict of the
\* checker does not depend on their order (the first pass of check() and
\* predeclareLocalTasks(), TypeChecker.h).
SiblingsInAnyOrder ==
  verdict # "" =>
    \A ss \in Rearranged(statements) : checkProgram(ss, Builtins) = (verdict = "typed")

\* A text written for a tree is read back as that tree, with the precedence,
\* associativity and line joining of the grammar, and a text that belongs to no
\* program is refused (the levels of ParserExpr.cpp, where Lexer.cpp keeps a line break).
TextMeansTree ==
  Done => CASE source.expect = "tree" -> phase = "accepted" /\ statements = source.tree
            [] source.expect = "error" -> phase = "rejected"
            [] OTHER -> TRUE
=============================================================================
