---------------------------- MODULE TypeChecker ----------------------------
(***************************************************************************)
(* The static type checker (src/typechecker) over the trees of the parser. *)
(* A checker is the record t:                                              *)
(*   envs      the scopes, innermost last: variables to types and          *)
(*             functions to signatures                                     *)
(*   type, types   what the last expression, the members of the last list  *)
(*             of expressions were found to be                             *)
(*   hadError, hasImports, loopDepth, currentModel, declaredModels,        *)
(*   modelHierarchy, genericParameters   as in the code                    *)
(* A name is a pair: <<"", "x">> for x and <<"M", "x">> for the member the *)
(* code files under "M.x".  Warnings, and what only warnings need (return  *)
(* types of the task being checked, async), are left out, and so is the    *)
(* limit of 100 nested nodes.                                              *)
(***************************************************************************)
EXTENDS Parser

TypeInfo(n) == Typed(n, <<>>)
Name(n) == <<"", n>>
fromAST(hint) == IF hint = Null THEN AnyType ELSE hint

\* Any is equal to everything, on either side and inside type arguments.
RECURSIVE Equal(_, _)
Equal(x, y) ==
  \/ "Any" \in {x.baseType, y.baseType}
  \/ /\ x.baseType = y.baseType /\ Len(x.typeArgs) = Len(y.typeArgs)
     /\ \A i \in DOMAIN x.typeArgs : Equal(x.typeArgs[i], y.typeArgs[i])

RECURSIVE substituteType(_, _)
substituteType(x, bindings) ==
  IF x.baseType \in DOMAIN bindings THEN bindings[x.baseType]
  ELSE [x EXCEPT !.typeArgs = [i \in DOMAIN @ |-> substituteType(@[i], bindings)]]

(***************************************************************************)
(* Scopes                                                                  *)
(***************************************************************************)
NoNames == [variables |-> <<>>, functions |-> <<>>]
beginScope(t) == [t EXCEPT !.envs = Append(@, NoNames)]
endScope(t) == [t EXCEPT !.envs = Front(@)]
declareVariable(t, name, x) ==
  [t EXCEPT !.envs[Len(t.envs)].variables = (name :> x) @@ @]
declareFunction(t, name, sig) ==
  [t EXCEPT !.envs[Len(t.envs)].functions = (name :> sig) @@ @]
ScopesOf(t, name) == {i \in DOMAIN t.envs : name \in DOMAIN t.envs[i].variables}
TasksOf(t, name) == {i \in DOMAIN t.envs : name \in DOMAIN t.envs[i].functions}
resolveVariable(t, name) == t.envs[Max(ScopesOf(t, name))].variables[name]
resolveFunction(t, name) == t.envs[Max(TasksOf(t, name))].functions[name]
Error(t, wrong) == [t EXCEPT !.hadError = @ \/ wrong]
Is(t, x) == [t EXCEPT !.type = x]

\* minArgs counts the parameters without a default value.
Signature(ps, returns, variadic) ==
  [paramNames |-> ps.params, isVariadic |-> variadic, returnType |-> returns,
   paramTypes |-> [i \in DOMAIN ps.paramTypes |-> fromAST(ps.paramTypes[i])],
   minArgs |-> Cardinality({i \in DOMAIN ps.defaultValues : ps.defaultValues[i] = Null})]
Exported(sig) == [sig EXCEPT !.minArgs = 0]
TaskSignature(s) == Signature(s, s.returnType, s.isVariadic)
predeclareLocalTasksNone(t, ss) == t      \* mutant: only what was declared above
predeclareLocalTasks(t, ss) ==
  FoldLeft(LAMBDA u, s : IF s.k = "task" THEN declareFunction(u, Name(s.name), TaskSignature(s))
                         ELSE u, t, ss)
Parameters(t, ps) ==
  FoldLeft(LAMBDA u, i : declareVariable(u, Name(ps.params[i]), fromAST(ps.paramTypes[i])),
           t, [i \in DOMAIN ps.params |-> i])

(***************************************************************************)
(* Calls: the arguments against a signature                                *)
(***************************************************************************)
\* The parameter an argument is for, 0 when there is none.
SlotOf(sig, e, i) ==
  IF e.argNames[i] = "" THEN IF i \in DOMAIN sig.paramTypes THEN i ELSE 0
  ELSE Max({0} \cup {j \in DOMAIN sig.paramNames : sig.paramNames[j] = e.argNames[i]})
minRequired(sig) == IF sig.isVariadic /\ sig.minArgs > 0 THEN sig.minArgs - 1 ELSE sig.minArgs
KeywordsFit(sig, e, types) ==
  LET slots == [i \in DOMAIN types |-> SlotOf(sig, e, i)]
  IN /\ 0 \notin {slots[i] : i \in DOMAIN slots}
     /\ \A i, j \in DOMAIN slots : slots[i] = slots[j] => i = j
     /\ \A i \in DOMAIN slots : Equal(types[i], sig.paramTypes[slots[i]])
     /\ 1..Min({minRequired(sig), Len(sig.paramNames)}) \subseteq {slots[i] : i \in DOMAIN slots}
PositionsFit(sig, types) ==
  /\ Len(types) >= minRequired(sig)
  /\ ~sig.isVariadic => Len(types) <= Len(sig.paramTypes)
  /\ \A i \in DOMAIN types :
       i \in DOMAIN sig.paramTypes /\ (sig.isVariadic => i < Len(sig.paramTypes))
         => Equal(types[i], sig.paramTypes[i])
Fits(sig, e, types) ==
  IF \E i \in DOMAIN e.argNames : e.argNames[i] # "" THEN KeywordsFit(sig, e, types)
  ELSE (\E i \in DOMAIN e.arguments : e.arguments[i].k = "spread") \/ PositionsFit(sig, types)
\* The type arguments of the receiver, or of the callee, for the parameters of its model.
Bindings(t, generic, args) ==
  LET names == IF generic \in DOMAIN t.genericParameters THEN t.genericParameters[generic] ELSE <<>>
      n == Min({Len(names), Len(args)})
  IN [x \in {names[i] : i \in 1..n} |-> args[Max({i \in 1..n : names[i] = x})]]
Bound(sig, bindings) ==
  [sig EXCEPT !.returnType = substituteType(@, bindings),
              !.paramTypes = [i \in DOMAIN @ |-> substituteType(@[i], bindings)]]
\* A task, or a model by its name, stands for what is filed under that name.
Receiver(x, object) ==
  IF x.baseType = "Callable" /\ object.k = "id" THEN object.name ELSE x.baseType

(***************************************************************************)
(* Expressions.  Those of AND, OR and ?? are not looked into.              *)
(***************************************************************************)
RECURSIVE Expr(_, _), Stmt(_, _), Stmts(_, _), exprsLeft(_, _)
\* What follows an error does not change the verdict.
Stmts(t, ss) ==
  IF ss = <<>> \/ t.hadError THEN t ELSE Stmts(Stmt(t, Head(ss)), Tail(ss))
Listed(t, e) == LET v == Expr(t, e) IN [v EXCEPT !.types = Append(t.types, v.type)]
exprsLeft(t, es) ==
  IF Len(t.types) = Len(es) THEN t ELSE exprsLeft(Listed(t, es[Len(t.types) + 1]), es)
Exprs(t, es) == exprsLeft([t EXCEPT !.types = <<>>], es)

checkIdentifier(t, e) ==
  LET name == Name(e.name)
      scopes == ScopesOf(t, name) \cup TasksOf(t, name)
  IN IF scopes = {} THEN Is(Error(t, ~t.hasImports), AnyType)
     ELSE IF Max(scopes) \in ScopesOf(t, name) THEN Is(t, resolveVariable(t, name))
     ELSE Is(t, TypeInfo("Callable"))
checkLiteral(t, e) ==
  Is(t, TypeInfo(CASE e.value[1] = "nil" -> "nil" [] e.value[1] = "bool" -> "bool"
               [] e.value[1] = "string" -> "string" [] OTHER -> "number"))

\* `x = e`: an unknown name becomes a dynamic variable of the innermost scope.
Introduced(t, n) ==
  IF ScopesOf(t, Name(n)) = {} THEN declareVariable(t, Name(n), AnyType) ELSE t
AssignName(t, e) ==
  LET v == Expr(t, e.value)
      name == Name(e.name)
      known == ScopesOf(v, name) # {}
      x == resolveVariable(v, name)
  IN Introduced(Error(v, known /\ "nil" \notin {x.baseType, v.type.baseType} /\ ~Equal(x, v.type)),
                e.name)
AssignIndex(t, e) ==
  LET v == Exprs(t, <<e.value, e.object, e.index>>)
      value == v.types[1]
      object == v.types[2]
      index == v.types[3]
  IN Is(CASE object.baseType = "Array" /\ Len(object.typeArgs) = 1 ->
               Error(v, ~Equal(index, TypeInfo("number")) \/ ~Equal(value, object.typeArgs[1]))
          [] object.baseType = "Dict" /\ Len(object.typeArgs) = 2 ->
               Error(v, ~Equal(index, object.typeArgs[1]) \/ ~Equal(value, object.typeArgs[2]))
          [] OTHER -> v, value)
checkAssign(t, e) == IF e.index = Null THEN AssignName(t, e) ELSE AssignIndex(t, e)
checkDestructureAssign(t, e) ==
  LET v == Expr(t, e.value)
      u == FoldLeft(LAMBDA w, target : IF target.k = "id" THEN Introduced(w, target.name)
                                       ELSE Expr(w, target), v, e.targets)
  IN Is(u, v.type)

\* What the machine adds, repeats, subtracts and divides.
Arithmetic == {"PLUS", "MINUS", "STAR", "SLASH"}
Operable(op, x, y) ==
  \/ x = "number" /\ y = "number"
  \/ op = "PLUS" /\ ("string" \in {x, y} \/ (x = "Array" /\ y = "Array"))
  \/ op = "STAR" /\ x = "string" /\ y = "number"
checkBinary(t, e) ==
  LET v == Exprs(t, <<e.left, e.right>>)
      x == v.types[1]
      y == v.types[2]
      open == ({x.baseType, y.baseType} \cap (t.declaredModels \cup {"Any"})) # {}
  IN IF e.op \in Arithmetic
     THEN Is(Error(v, ~open /\ ~Operable(e.op, x.baseType, y.baseType)),
             IF e.op \in {"PLUS", "STAR"} /\ "string" \in {x.baseType, y.baseType} THEN TypeInfo("string")
             ELSE IF x.baseType = "Any" THEN y ELSE x)
     ELSE Is(v, IF e.op \in {"EQUAL_EQUAL", "BANG_EQUAL", "LESS", "LESS_EQUAL", "GREATER",
                             "GREATER_EQUAL", "IN"} THEN TypeInfo("bool") ELSE AnyType)
checkUnary(t, e) ==
  LET v == Expr(t, e.operand)
  IN IF e.op = "NOT" THEN Is(v, TypeInfo("bool"))
     ELSE Error(v, e.op = "MINUS" /\ v.type.baseType \notin t.declaredModels \cup {"Any", "number"})

NotCallable == {"number", "string", "bool", "Array", "Dict", "nil"}
\* The code looks at the receiver again, for its type, after the arguments.
checkCall(t, e) ==
  LET f == Expr(t, e.callee)
      v == Exprs(Error(f, f.type.baseType \in NotCallable), e.arguments)
      onMember == e.callee.k = "prop"
      owner == IF onMember THEN Expr(v, e.callee.object).type ELSE f.type
      name == IF onMember THEN <<Receiver(owner, e.callee.object), e.callee.property>>
              ELSE IF e.callee.k = "id" THEN Name(e.callee.name) ELSE Name("")
      sig == Bound(resolveFunction(v, name),
                   Bindings(t, IF onMember THEN owner.baseType ELSE name[2], owner.typeArgs))
  IN IF TasksOf(v, name) = {} THEN Is(v, AnyType)
     ELSE Is(Error(v, ~Fits(sig, e, v.types)), sig.returnType)

checkLambda(t, e) ==
  LET u == FoldLeft(LAMBDA w, p : declareVariable(w, Name(p), AnyType), beginScope(t), e.params)
  IN Is(endScope(IF e.body # Null THEN Expr(u, e.body) ELSE Stmts(u, e.stmtBody)), AnyType)

\* A model and the models it extends, as far as they are known.  (On a model
\* that extends itself the code goes round for ever.)
RECURSIVE Ancestry(_, _)
Ancestry(t, models) ==
  LET last == models[Len(models)]
  IN IF last \notin DOMAIN t.modelHierarchy \/ t.modelHierarchy[last] \in {models[i] : i \in DOMAIN models}
     THEN models ELSE Ancestry(t, Append(models, t.modelHierarchy[last]))
checkPropertyAccess(t, e) ==
  LET v == Expr(t, e.object)
      x == v.type
      line == Ancestry(v, <<Receiver(x, e.object)>>)
      Member(i) == <<line[i], e.property>>
      known == {i \in DOMAIN line : ScopesOf(v, Member(i)) \cup TasksOf(v, Member(i)) # {}}
      name == Member(Min(known))
      scope == Max(ScopesOf(v, name) \cup TasksOf(v, name))
  IN IF x.baseType = "nil"
     THEN Is(Error(v, ~e.isOptional), IF e.isOptional THEN TypeInfo("nil") ELSE AnyType)
     ELSE IF x.baseType \in {"Any", "Dict"} \/ known = {} THEN Is(v, AnyType)
     ELSE IF scope \in ScopesOf(v, name)
     THEN Is(v, substituteType(resolveVariable(v, name), Bindings(v, x.baseType, x.typeArgs)))
     ELSE Is(v, TypeInfo("Callable"))

checkSelf(t) ==
  IF t.currentModel = "" THEN Is(Error(t, TRUE), AnyType) ELSE Is(t, TypeInfo(t.currentModel))
checkSuper(t) ==
  IF t.currentModel \in DOMAIN t.modelHierarchy THEN Is(t, TypeInfo(t.modelHierarchy[t.currentModel]))
  ELSE Is(Error(t, TRUE), AnyType)
checkIndex(t, e) ==
  LET v == Exprs(t, <<e.object, e.index>>)
      x == v.types[1]
      Indexed(by, result) == Is(Error(v, ~Equal(v.types[2], by)), result)
  IN CASE x.baseType = "Array" /\ Len(x.typeArgs) = 1 -> Indexed(TypeInfo("number"), x.typeArgs[1])
       [] x.baseType = "Dict" /\ Len(x.typeArgs) = 2 -> Indexed(x.typeArgs[1], x.typeArgs[2])
       [] x.baseType = "string" -> Indexed(TypeInfo("number"), TypeInfo("string"))
       [] OTHER -> Is(v, AnyType)
\* Elements after the first that differs from the others are not looked at.
checkArray(t, e) ==
  LET Mixed(u) == u.types # <<>> /\ ~Equal(u.types[1], Last(u.types))
      v == FoldLeft(LAMBDA u, x : IF Mixed(u) THEN u ELSE Listed(u, x),
                    [t EXCEPT !.types = <<>>], e.elements)
  IN Is(v, Typed("Array", <<IF v.types = <<>> \/ Mixed(v) THEN AnyType ELSE v.types[1]>>))
checkTuple(t, e) == LET v == Exprs(t, e.elements) IN Is(v, Typed("Tuple", v.types))
\* The common type of a list, as the keys and the values of a dictionary get it.
Common(types) ==
  FoldLeft(LAMBDA x, y : IF Equal(x, y) THEN x ELSE AnyType,
           IF types = <<>> THEN AnyType ELSE types[1], types)
checkDictionary(t, e) ==
  LET v == Exprs(t, FlattenSeq(e.pairs))
      Every(r) == [i \in 1..Len(e.pairs) |-> v.types[2 * i - r]]
  IN Is(v, Typed("Dict", <<Common(Every(1)), Common(Every(0))>>))
checkTernary(t, e) ==
  LET v == Exprs(t, <<e.condition, e.thenBranch, e.elseBranch>>)
  IN Is(v, IF Equal(v.types[2], v.types[3]) THEN v.types[2] ELSE AnyType)
checkAwait(t, e) ==
  LET v == Expr(t, e.expression)
  IN IF v.type.baseType \in {"Task", "Future"} /\ Len(v.type.typeArgs) = 1
     THEN Is(v, v.type.typeArgs[1]) ELSE v

Expr(t, e) ==
  CASE e.k = "assign" -> checkAssign(t, e)
    [] e.k = "destructure" -> checkDestructureAssign(t, e)
    [] e.k = "bin" -> checkBinary(t, e)
    [] e.k = "un" -> checkUnary(t, e)
    [] e.k = "call" -> checkCall(t, e)
    [] e.k = "id" -> checkIdentifier(t, e)
    [] e.k = "lit" -> checkLiteral(t, e)
    [] e.k = "lambda" -> checkLambda(t, e)
    [] e.k = "prop" -> checkPropertyAccess(t, e)
    [] e.k = "set" -> Exprs(t, <<e.object, e.value>>)
    [] e.k = "self" -> checkSelf(t)
    [] e.k = "super" -> checkSuper(t)
    [] e.k = "new" -> Is(Exprs(t, e.arguments), Typed(e.name, e.typeArgs))
    [] e.k = "index" -> checkIndex(t, e)
    [] e.k = "array" -> checkArray(t, e)
    [] e.k = "tuple" -> checkTuple(t, e)
    [] e.k = "dict" -> checkDictionary(t, e)
    [] e.k = "spread" -> Expr(t, e.expression)
    [] e.k = "ternary" -> checkTernary(t, e)
    [] e.k = "await" -> checkAwait(t, e)
    [] OTHER -> Is(t, AnyType)

(***************************************************************************)
(* Statements                                                              *)
(***************************************************************************)
RECURSIVE isTerminal(_)
isTerminal(s) ==
  \/ s.k \in {"give", "throw", "escape", "skip"}
  \/ s.k = "block" /\ \E i \in DOMAIN s.statements : isTerminal(s.statements[i])
  \/ s.k = "when" /\ isTerminal(s.thenBranch) /\ isTerminal(s.elseBranch)
  \/ s.k = "try" /\ isTerminal(s.tryBlock)
     /\ \A i \in DOMAIN s.catchBlocks : isTerminal(s.catchBlocks[i].body)
  \/ s.k = "match" /\ (\E i \in DOMAIN s.arms : s.arms[i][1] = Null)
     /\ \A i \in DOMAIN s.arms : isTerminal(s.arms[i][2])
\* What follows a terminal statement is not looked at.
Reachable(ss) ==
  LET ends == {i \in DOMAIN ss : isTerminal(ss[i])}
  IN IF ends = {} THEN ss ELSE SubSeq(ss, 1, Min(ends))
\* The statements of a block or of a task, their tasks known from the start.
checkBody(t, ss) == endScope(Stmts(predeclareLocalTasks(t, ss), Reachable(ss)))
LoopBody(t, s) ==
  [Stmt([t EXCEPT !.loopDepth = @ + 1], s) EXCEPT !.loopDepth = t.loopDepth]

checkVarDecl(t, s) ==
  LET v == Expr(t, s.initializer)
      x == fromAST(s.typeHint)
  IN declareVariable(Error(v, s.initializer # Null /\ ~Equal(x, v.type)), Name(s.name), x)
checkTask(t, s) ==
  checkBody(Parameters(beginScope(declareFunction(t, Name(s.name), TaskSignature(s))), s), s.body)
checkRepeat(t, s) ==
  LET u == declareVariable(beginScope(t), Name(s.variable), TypeInfo("number"))
  IN endScope(LoopBody(Exprs(u, <<s.start, s.end>>), s.body))
checkGet(t, s) ==
  LET u == declareVariable(beginScope(t), Name(s.variable), AnyType)
      v == IF s.valueVariable = "" THEN u ELSE declareVariable(u, Name(s.valueVariable), AnyType)
  IN endScope(LoopBody(Expr(v, s.iterable), s.body))
checkTry(t, s) ==
  LET Handler(u, c) ==
        endScope(Stmt(declareVariable(beginScope(u), Name(c.varName),
                        IF c.typeName = "" THEN AnyType ELSE TypeInfo(c.typeName)), c.body))
  IN Stmt(FoldLeft(LAMBDA u, c : Handler(u, c), Stmt(t, s.tryBlock), s.catchBlocks), s.finallyBlock)

builtinTypes ==
  {"Integer", "Float", "Number", "String", "Boolean", "Array", "Dictionary", "Function", "Nil",
   "File", "Buffer", "Regex", "DateTime", "Timer", "Atomic", "Channel", "Exception", "TypeError",
   "ValueError", "IndexError", "KeyError", "FileNotFoundError", "NetworkError", "PermissionError",
   "IOError", "SyntaxError", "RegexError"}
isTypePattern(t, p) ==
  /\ p.k = "id"
  /\ \/ p.name \in builtinTypes \cup t.declaredModels
     \/ \E i \in ScopesOf(t, Name(p.name)) :
          t.envs[i].variables[Name(p.name)].baseType \in {"Interface", "Struct"}
checkMatch(t, s) ==
  LET Arm(u, way) ==
        LET v == IF isTypePattern(u, way[1]) THEN u ELSE Expr(u, way[1])
        IN endScope(Stmt(beginScope(v), way[2]))
  IN FoldLeft(LAMBDA u, way : Arm(u, way), Expr(t, s.subject), s.arms)

checkMember(t, m) ==
  IF m.isMethod THEN endScope(Stmts(Parameters(beginScope(t), m.task), m.task.body))
  ELSE IF m.initializer = Null THEN t
  ELSE LET v == Expr(t, m.initializer) IN Error(v, ~Equal(fromAST(m.typeHint), v.type))
Known(t, s) ==
  [t EXCEPT !.declaredModels = @ \cup {s.name}, !.currentModel = s.name,
            !.genericParameters = IF s.typeParams = <<>> THEN @ ELSE (s.name :> s.typeParams) @@ @,
            !.modelHierarchy = IF s.parentName = "" THEN @ ELSE (s.name :> s.parentName) @@ @]
checkModel(t, s) ==
  LET u == beginScope(Known(t, s))
      v == endScope(Stmts(Parameters(beginScope(u), s.init), s.initBody))
  IN [endScope(FoldLeft(LAMBDA w, m : checkMember(w, m), v, s.members))
        EXCEPT !.currentModel = t.currentModel]

Stmt(t, s) ==
  CASE s.k = "var" -> checkVarDecl(t, s)
    [] s.k = "task" -> checkTask(t, s)
    [] s.k = "give" -> Expr(t, s.value)
    [] s.k \in {"expr", "out", "throw"} -> Expr(t, s.expr)
    [] s.k = "block" -> checkBody(beginScope(t), s.statements)
    [] s.k = "when" -> Stmt(Stmt(Expr(t, s.condition), s.thenBranch), s.elseBranch)
    [] s.k = "while" -> LoopBody(Expr(t, s.condition), s.body)
    [] s.k = "repeat" -> checkRepeat(t, s)
    [] s.k = "get" -> checkGet(t, s)
    [] s.k = "model" -> checkModel(t, s)
    [] s.k = "interface" -> declareVariable(t, Name(s.name), TypeInfo("Interface"))
    [] s.k = "try" -> checkTry(t, s)
    [] s.k = "match" -> checkMatch(t, s)
    [] s.k = "static" -> LET v == Expr(t, s.initializer) IN declareVariable(v, Name(s.name), v.type)
    [] s.k \in {"escape", "skip"} -> Error(t, t.loopDepth = 0)
    [] s.k = "use" -> LET u == [t EXCEPT !.hasImports = TRUE]
                      IN IF s.alias = "" THEN u ELSE declareVariable(u, Name(s.alias), AnyType)
    [] s.k = "export" -> Stmt(t, s.inner)
    [] OTHER -> t

(***************************************************************************)
(* The first pass: what the top-level declarations make known              *)
(***************************************************************************)
\* Members a body sets on self, in it and in its blocks and branches.
RECURSIVE SelfProperties(_)
SelfProperties(s) ==
  CASE s.k = "expr" /\ s.expr.k = "set" -> IF s.expr.object = Self THEN {s.expr.property} ELSE {}
    [] s.k = "block" -> UNION {SelfProperties(s.statements[i]) : i \in DOMAIN s.statements}
    [] s.k = "when" -> SelfProperties(s.thenBranch) \cup SelfProperties(s.elseBranch)
    [] OTHER -> {}
scanBodyForSelfProps(t, model, ss) ==
  LET found == {<<model, n>> : n \in SelfProperties(Block(ss))}
  IN [t EXCEPT !.envs[Len(t.envs)].variables = @ @@ [name \in found |-> AnyType]]
declareMember(t, model, m, exported) ==
  LET sig == Signature(m.task, m.task.returnType, FALSE)
  IN IF m.isMethod THEN declareFunction(t, <<model, m.task.name>>, IF exported THEN Exported(sig) ELSE sig)
     ELSE declareVariable(t, <<model, m.name>>, fromAST(m.typeHint))
declareModel(t, s, exported) ==
  LET init == Signature(s.init, AnyType, FALSE)
      new == [init EXCEPT !.returnType = TypeInfo(s.name)]
      load == Signature(NoParameters, TypeInfo(s.name), FALSE)
      t1 == IF exported THEN declareFunction(t, Name(s.name), Exported(new))
            ELSE declareFunction(declareFunction([t EXCEPT !.declaredModels = @ \cup {s.name}],
                                                 Name(s.name), new), <<s.name, "init">>, init)
      t2 == IF exported \/ s.persistPath = "" THEN t1 ELSE declareFunction(t1, <<s.name, "load">>, load)
      t3 == FoldLeft(LAMBDA u, m : declareMember(u, s.name, m, exported), t2, s.members)
      bodies == <<s.initBody>> \o [i \in DOMAIN s.members |->
                                    IF s.members[i].isMethod THEN s.members[i].task.body ELSE <<>>]
  IN FoldLeft(LAMBDA u, ss : scanBodyForSelfProps(u, s.name, ss), t3, bodies)
declareInterface(t, s) ==
  LET Promise(u, m) ==
        declareFunction(u, <<s.name, m.name>>,
          Signature([params |-> [i \in DOMAIN m.params |-> m.params[i][1]],
                     paramTypes |-> [i \in DOMAIN m.params |-> m.params[i][2]],
                     defaultValues |-> <<>>], m.returnType, FALSE))
  IN FoldLeft(LAMBDA u, m : Promise(u, m), declareVariable(t, Name(s.name), TypeInfo("Interface")), s.methods)
FirstPass(t, s, exported) ==
  CASE s.k = "task" -> declareFunction(t, Name(s.name),
                         IF exported THEN Exported(TaskSignature(s)) ELSE TaskSignature(s))
    [] s.k = "model" -> declareModel(t, s, exported)
    [] s.k = "interface" -> declareInterface(t, s)
    [] OTHER -> t
NewTypeChecker(builtins) ==
  [envs |-> <<[NoNames EXCEPT !.variables = [n \in {Name(b) : b \in builtins} |-> TypeInfo("Task")]]>>,
   type |-> AnyType, types |-> <<>>, hadError |-> FALSE, hasImports |-> FALSE, loopDepth |-> 0,
   currentModel |-> "", declaredModels |-> {}, modelHierarchy |-> <<>>, genericParameters |-> <<>>]
\* Whether a program may be compiled.
checkProgram(ss, builtins) ==
  ~Stmts(FoldLeft(LAMBDA t, s : IF s.k = "export" THEN FirstPass(t, s.inner, TRUE)
                                ELSE FirstPass(t, s, FALSE), NewTypeChecker(builtins), ss), ss).hadError
=============================================================================
