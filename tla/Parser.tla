------------------------------- MODULE Parser -------------------------------
(***************************************************************************)
(* The recursive-descent parser (src/parser).  A parser is the record p:   *)
(*   tokens, current   the input and the index of the next token           *)
(*   currentDepth      how many DepthGuards are alive                      *)
(*   hadError          an error was reported                               *)
(*   failed            a ParseError is being thrown                        *)
(*   spins             a loop went round without reading a token: it reads *)
(*                     none the next time either                           *)
(*   node              what the last rule built                            *)
(* Each method is an operator from parser to parser.  They call each other *)
(* through Parse(rule, n, p), n being the argument of the rules that take  *)
(* one.  Trees are those of Syntax; types and the flags of declarations    *)
(* are kept, positions and the texts of messages are not.                  *)
(***************************************************************************)
EXTENDS Syntax, Lexer, FiniteSetsExt

\* The nesting DepthGuard allows.
CONSTANT MaxDepth
ASSUME MaxDepthAssumption == MaxDepth \in Nat \ {0}

(***************************************************************************)
(* The nodes Syntax leaves out, or whose flags it leaves out               *)
(***************************************************************************)
AnyType == [baseType |-> "Any", typeArgs |-> <<>>]
Typed(t, args) == [baseType |-> t, typeArgs |-> args]
Self  == [k |-> "self"]
Super == [k |-> "super"]
Await(e) == [k |-> "await", expression |-> e]
New(n, args, types) == [k |-> "new", name |-> n, arguments |-> args, typeArgs |-> types]
Property(o, n, opt) == PropertyAccess(o, n) @@ [isOptional |-> opt]
SetProperty(o, n, e, op) ==
  [k |-> "set", object |-> o, property |-> n, value |-> e, compoundOp |-> op]
LambdaExpr(ps, rest, async, e, ss) ==
  [k |-> "lambda", params |-> ps, isVariadic |-> rest, isAsync |-> async,
   body |-> e, stmtBody |-> ss]
TypedVar(n, e, t) == VarDecl(n, e) @@ [typeHint |-> t]

NoParameters == [params |-> <<>>, paramTypes |-> <<>>, defaultValues |-> <<>>,
                 isVariadic |-> FALSE]
NoClauses == [requires |-> <<>>, ensures |-> <<>>]
NoDecorators == [userDecorators |-> <<>>, isCached |-> FALSE, audited |-> FALSE,
                 snapshot |-> FALSE, persistPath |-> "", rateLimit |-> <<>>]
TaskDecl(name, async, types, ps, ret, clauses, body) ==
  [k |-> "task", name |-> name, isAsync |-> async, typeParams |-> types,
   returnType |-> ret, body |-> body, userDecorators |-> <<>>, isCached |-> FALSE,
   rateLimit |-> <<>>] @@ ps @@ clauses
ModelDecl(name, types, parent, interfaces, ps, body, members) ==
  [k |-> "model", name |-> name, typeParams |-> types, parentName |-> parent,
   interfaces |-> interfaces, init |-> ps, initBody |-> body, members |-> members,
   audited |-> FALSE, snapshot |-> FALSE, persistPath |-> "", userDecorators |-> <<>>]
Field(hid, static, name, type, e, rules) ==
  [isMethod |-> FALSE, hidden |-> hid, isStatic |-> static, name |-> name,
   typeHint |-> type, initializer |-> e, validators |-> rules]
Method(hid, static, task) ==
  [isMethod |-> TRUE, hidden |-> hid, isStatic |-> static, task |-> task]
InterfaceDecl(name, types, ms) ==
  [k |-> "interface", name |-> name, typeParams |-> types, methods |-> ms]

(***************************************************************************)
(* Reading tokens.  While a ParseError is being thrown nothing is read and *)
(* no node is built.                                                       *)
(***************************************************************************)
NewParser(tokens) ==
  [tokens |-> tokens, current |-> 1, currentDepth |-> 0, hadError |-> FALSE,
   failed |-> FALSE, spins |-> FALSE, node |-> Null]

peek(p)       == p.tokens[p.current].type
isAtEnd(p)    == peek(p) = "END_OF_FILE"
previous(p)   == p.tokens[p.current - 1]
check(p, t)   == ~isAtEnd(p) /\ peek(p) = t
checkNext(p, t) == p.current < Len(p.tokens) /\ p.tokens[p.current + 1].type = t
advance(p)    == IF p.failed \/ isAtEnd(p) THEN p ELSE [p EXCEPT !.current = @ + 1]
skipNewlines(p) ==
  IF p.failed THEN p
  ELSE [p EXCEPT !.current = Min({i \in @..Len(p.tokens) : p.tokens[i].type # "NEWLINE"})]
fail(p)       == [p EXCEPT !.failed = TRUE]
At(p, node)   == IF p.failed THEN p ELSE [p EXCEPT !.node = node]
consume(p, t) == IF check(p, t) THEN At(advance(p), p.tokens[p.current].lexeme) ELSE fail(p)
skipComma(p)  == IF check(p, "COMMA") THEN advance(p) ELSE p

\* synchronize(): from an error to the end of its line, or to a keyword that
\* starts a statement, outside the brackets opened on the way.
Restarts == {"TASK", "WHEN", "WHILE", "REPEAT", "GET", "OUT", "GIVE", "ESCAPE", "SKIP"}
RECURSIVE skipTo(_, _)
skipTo(p, depth) ==
  IF \/ isAtEnd(p)
     \/ depth = 0 /\ (previous(p).type = "NEWLINE" \/ peek(p) \in Restarts)
  THEN p
  ELSE skipTo(advance(p),
              CASE peek(p) \in {"LBRACE", "LPAREN", "LBRACKET"} -> depth + 1
                [] peek(p) \in {"RBRACE", "RPAREN", "RBRACKET"} -> Closed(depth)
                [] OTHER -> depth)
synchronize(p) == skipTo(advance(p), 0)

(***************************************************************************)
(* Ways to combine rules                                                   *)
(***************************************************************************)
RECURSIVE Parse(_, _, _)

\* Token types and rules, one after the other; the node is the sequence of
\* what the rules stand for, and of the names and strings among the tokens.
Signs == {"nl", "LPAREN", "RPAREN", "LBRACKET", "RBRACKET", "LBRACE", "RBRACE", "COMMA",
          "COLON", "EQUAL", "ARROW", "TO", "IN", "TASK"}
Read(p, item) ==
  CASE item = "nl" -> skipNewlines(p)
    [] item # "nl" /\ item \in Signs \cup {"IDENTIFIER", "STRING"} -> consume(p, item)
    [] OTHER -> Parse(item, 0, p)
inOrder(items, p) ==
  IF items = <<>> THEN p
  ELSE LET q == Read(p, Head(items))
       IN Parse("inOrder", Tail(items),
                At(q, IF Head(items) \in Signs THEN p.node ELSE Append(p.node, q.node)))
InOrder(p, items) == Parse("inOrder", items, At(p, <<>>))
\* A part introduced by a token, or a given value.
Optional(p, t, item, default) ==
  IF check(p, t) THEN Parse(item, 0, advance(p)) ELSE At(p, default)
Prefixed(head, p) == At(p, <<head>> \o p.node)

\* do { item } while (match(COMMA))
Lists == [types |-> "type", names |-> "name", arguments |-> "expression",
          callArguments |-> "argument", typedNames |-> "typedName",
          elements |-> "listedElement", tupleRest |-> "listedExpression"]
separated(list, p) ==
  LET q == Parse(Lists[list], 0, p)
  IN IF check(q, "COMMA") THEN Prefixed(q.node, Parse(list, 0, advance(q)))
     ELSE At(q, <<q.node>>)
\* while (!check(RBRACE) && !isAtEnd()) { item; skipNewlines(); }
Blocks == [declarations |-> "declaration", arms |-> "arm", fields |-> "field",
           signatures |-> "interfaceMethod", entries |-> "entry"]
untilBrace(block, p) ==
  LET q == Parse(Blocks[block], 0, p)
      r == skipNewlines(q)
  IN CASE peek(p) \in {"RBRACE", "END_OF_FILE"} -> At(p, <<>>)
       [] peek(p) \notin {"RBRACE", "END_OF_FILE"} /\ r.current = p.current ->
            [fail(r) EXCEPT !.spins = @ \/ ~q.failed]
       [] OTHER -> IF block = "declarations" /\ q.node = Null THEN Parse(block, 0, r)
                   ELSE Prefixed(q.node, Parse(block, 0, r))

\* DepthGuard.  Its destructor does not run when its constructor throws.
Guarded(rule, p) ==
  LET in == [p EXCEPT !.currentDepth = @ + 1]
  IN IF in.currentDepth > MaxDepth THEN [fail(in) EXCEPT !.hadError = TRUE]
     ELSE [Parse(rule, 0, in) EXCEPT !.currentDepth = @ - 1]

\* An optional list of type parameters or of type arguments in brackets.
bracketed(list, p) ==
  LET q == InOrder(advance(p), <<list, "RBRACKET">>)
  IN IF check(p, "LBRACKET") THEN At(q, q.node[1]) ELSE At(p, <<>>)
parseType(p) ==
  LET q == InOrder(p, <<"IDENTIFIER", "typeArguments">>)
  IN At(q, Typed(q.node[1], q.node[2]))

(***************************************************************************)
(* Expressions                                                             *)
(***************************************************************************)
\* Mutant: the bitwise operators bind tighter than the comparisons.
LevelsBitwiseTighter ==
  << {"QUESTION_QUESTION"}, {"OR"}, {"AND"}, {"EQUAL_EQUAL", "BANG_EQUAL"},
     {"GREATER", "GREATER_EQUAL", "LESS", "LESS_EQUAL", "IN"}, {"PIPE"}, {"CARET"},
     {"AMPERSAND"}, {"LSHIFT", "RSHIFT"}, {"PLUS", "MINUS"}, {"STAR", "SLASH", "PERCENT"} >>
\* The left-associative operators, from nullCoalescing() to factor().
Levels == << {"QUESTION_QUESTION"}, {"OR"}, {"AND"}, {"PIPE"}, {"CARET"}, {"AMPERSAND"},
             {"EQUAL_EQUAL", "BANG_EQUAL"},
             {"GREATER", "GREATER_EQUAL", "LESS", "LESS_EQUAL", "IN"},
             {"LSHIFT", "RSHIFT"}, {"PLUS", "MINUS"}, {"STAR", "SLASH", "PERCENT"} >>
Infix(l, op, r) ==
  IF op \in {"QUESTION_QUESTION", "OR", "AND"} THEN Logical(l, op, r) ELSE Bin(l, op, r)
Tighter(level, p) ==
  IF level = Len(Levels) THEN Parse("power", 0, p) ELSE Parse("binary", level + 1, p)
\* while (match(op)) { right; expr = (expr op right) }, for every level from the
\* tightest to this one: a looser loop only sees what the tighter ones leave.
operators(level, p) ==
  LET found == {i \in level..Len(Levels) : peek(p) \in Levels[i]}
      q == Tighter(Max(found), advance(p))
  IN IF found = {} THEN p
     ELSE Parse("operators", level, At(q, Infix(p.node, peek(p), q.node)))
leftAssociative(level, p) == Parse("operators", level, Parse("power", 0, p))

power(p) ==
  LET q == Parse("unary", 0, p)
      r == Parse("power", 0, advance(q))
  IN IF check(q, "STAR_STAR") THEN At(r, Bin(q.node, "STAR_STAR", r.node)) ELSE q

unary(p) ==
  LET q == Parse("unary", 0, advance(p))
  IN CASE peek(p) \in {"BANG", "MINUS", "NOT", "TILDE"} -> At(q, Un(peek(p), q.node))
       [] peek(p) = "AWAIT" -> At(q, Await(q.node))
       [] OTHER -> Parse("suffixes", 0, Parse("primary", 0, p))

ternary(p) ==
  LET q == Parse("binary", 1, p)
      r == InOrder(advance(q), <<"expression", "COLON", "ternary">>)
  IN IF check(q, "QUESTION_MARK") THEN At(r, Ternary(q.node, r.node[1], r.node[2])) ELSE q

\* The operator a compound assignment to a variable is rewritten with.
CompoundOps == [PLUS_EQUAL |-> "PLUS", MINUS_EQUAL |-> "MINUS", STAR_EQUAL |-> "STAR",
                STAR_STAR_EQUAL |-> "STAR_STAR", SLASH_EQUAL |-> "SLASH"]
Assigned(p, target, op) ==
  LET compound == IF op = "EQUAL" THEN "" ELSE op
      value == p.node
  IN CASE target.k = "id" ->
            At(p, Assign(target.name,
                         IF op = "EQUAL" THEN value ELSE Bin(target, CompoundOps[op], value)))
       [] target.k = "index" -> At(p, AssignIdx(target.object, target.index, value, compound))
       [] target.k = "prop" -> At(p, SetProperty(target.object, target.property, value, compound))
       [] target.k = "tuple" /\ op = "EQUAL" -> At(p, DestructureAssign(target.elements, value))
       [] OTHER -> fail(p)
assignment(p) ==
  LET q == Parse("ternary", 0, p)
  IN IF q.failed \/ peek(q) \notin DOMAIN CompoundOps \cup {"EQUAL"} THEN q
     ELSE Assigned(Parse("assignment", 0, advance(q)), q.node, peek(q))

\* The loop of call(): p.node is the expression so far.  A line that starts
\* with '.' or '?.' continues the one before.
PropertyNames == {"IDENTIFIER"} \cup {Keywords[w] : w \in DOMAIN Keywords}
propertyName(p) ==
  LET q == advance(p)
  IN IF peek(q) \notin PropertyNames THEN fail(q)
     ELSE At(advance(q), Property(p.node, q.tokens[q.current].lexeme, peek(p) = "QUESTION_DOT"))
finishCall(p) ==
  LET q == IF check(p, "RPAREN") THEN At(p, <<>>) ELSE Parse("callArguments", 0, p)
  IN At(consume(q, "RPAREN"), CallKw(p.node, [i \in DOMAIN q.node |-> q.node[i][2]],
                                             [i \in DOMAIN q.node |-> q.node[i][1]]))
suffixes(p) ==
  LET q == skipNewlines(p)
      index == InOrder(advance(p), <<"expression", "RBRACKET">>)
      More(r) == Parse("suffixes", 0, r)
  IN CASE peek(p) = "LPAREN" -> More(finishCall(advance(p)))
       [] peek(p) = "LBRACKET" -> More(At(index, Index(p.node, index.node[1])))
       [] peek(q) \in {"DOT", "QUESTION_DOT"} -> More(propertyName(q))
       [] OTHER -> p
\* An argument is <<name or "", value>>.
argument(p) ==
  IF check(p, "IDENTIFIER") /\ checkNext(p, "EQUAL")
  THEN InOrder(p, <<"IDENTIFIER", "EQUAL", "expression">>)
  ELSE Prefixed("", InOrder(p, <<"element">>))
\* An element of a call or of an array; inside an array or a tuple, on lines of its own.
element(p) ==
  LET q == Parse("expression", 0, advance(p))
  IN IF check(p, "ELLIPSIS") THEN At(q, Spread(q.node)) ELSE Parse("expression", 0, p)
listed(item, p) == skipNewlines(Parse(item, 0, skipNewlines(p)))

newExpression(p) ==
  LET q == InOrder(p, <<"IDENTIFIER", "typeArguments">>)
      r == InOrder(advance(q), <<"arguments", "RPAREN">>)
  IN CASE ~check(q, "LPAREN") -> At(q, New(q.node[1], <<>>, q.node[2]))
       [] check(q, "LPAREN") /\ checkNext(q, "RPAREN") ->
            At(advance(advance(q)), New(q.node[1], <<>>, q.node[2]))
       [] OTHER -> At(r, New(q.node[1], r.node[1], q.node[2]))

arrayLiteral(p) ==
  LET q == InOrder(p, <<"elements", "RBRACKET">>)
  IN IF check(p, "RBRACKET") THEN At(advance(p), Array(<<>>)) ELSE At(q, Array(q.node[1]))
dictionary(p) ==
  LET q == InOrder(p, <<"nl", "entries", "RBRACE">>) IN At(q, Dictionary(q.node[1]))
\* A bare name is the key it spells.
entry(p) ==
  LET q == InOrder(p, <<"ternary", "COLON", "expression">>)
      key == q.node[1]
  IN IF peek(q) \notin {"COMMA", "NEWLINE", "RBRACE"} THEN fail(q)
     ELSE At(skipComma(q),
             <<IF key.k = "id" THEN Lit(<<"string", key.name>>) ELSE key, q.node[2]>>)

parenthesized(p) ==
  LET q == Parse("expression", 0, p)
      r == InOrder(advance(q), <<"tupleRest", "RPAREN">>)
  IN CASE check(p, "RPAREN") -> At(advance(p), Tuple(<<>>))
       [] ~check(p, "RPAREN") /\ ~check(q, "COMMA") -> At(consume(q, "RPAREN"), q.node)
       [] ~check(p, "RPAREN") /\ check(q, "COMMA") /\ checkNext(q, "RPAREN") ->
            At(advance(advance(q)), Tuple(<<q.node>>))
       [] OTHER -> At(r, Tuple(<<q.node>> \o r.node[1]))

\* Lambdas: n tells |..| (0), async |..| (1), async {..} (2) and a test's
\* block (3); the last two have no parameters.  A rest parameter followed by
\* a comma is reported, and the comma then refused.
lambdaNames(p) ==
  LET rest == check(p, "ELLIPSIS")
      q == consume(IF rest THEN advance(p) ELSE p, "IDENTIFIER")
      r == At(q, [p.node EXCEPT !.params = Append(@, q.node), !.isVariadic = rest])
  IN CASE rest -> [r EXCEPT !.hadError = @ \/ (~q.failed /\ check(q, "COMMA"))]
       [] ~rest /\ check(q, "COMMA") -> Parse("lambdaNames", 0, advance(r))
       [] OTHER -> r
lambdaExpression(n, p) ==
  LET none == At(p, [params |-> <<>>, isVariadic |-> FALSE])
      names == CASE n \in {2, 3} -> none
                 [] n \in {0, 1} /\ check(p, "PIPE") -> skipNewlines(advance(none))
                 [] OTHER -> Parse("lambdaPipe", 0, Parse("lambdaNames", 0, none))
      block == InOrder(names, <<"LBRACE", "nl", "declarations", "RBRACE">>)
      value == Parse("expression", 0,
                     IF check(names, "ARROW") THEN skipNewlines(advance(names)) ELSE names)
      Made(e, ss) == LambdaExpr(names.node.params, names.node.isVariadic, n \in {1, 2}, e, ss)
  IN IF check(names, "LBRACE") THEN At(block, Made(Null, block.node[1]))
     ELSE At(value, Made(value.node, <<>>))
asyncExpression(p) ==
  LET q == Parse("lambdaExpression", 2, p)
  IN CASE peek(p) = "PIPE" -> Parse("lambdaExpression", 1, advance(p))
       [] peek(p) = "LBRACE" -> At(q, Call(q.node, <<>>))
       [] OTHER -> fail(p)

primary(p) ==
  LET x == p.tokens[p.current].lexeme  q == advance(p)
  IN CASE peek(p) = "FALSE" -> At(q, Lit(<<"bool", FALSE>>))
       [] peek(p) = "TRUE" -> At(q, Lit(<<"bool", TRUE>>))
       [] peek(p) = "NIL" -> At(q, Lit(<<"nil">>))
       [] peek(p) = "NUMBER" -> At(q, Lit(<<"int", x>>))
       [] peek(p) = "STRING" -> At(q, Lit(<<"string", x>>))
       [] peek(p) = "IDENTIFIER" -> At(q, Id(x))
       [] peek(p) = "SUPER" -> At(q, Super)
       [] peek(p) = "SELF" -> At(q, Self)
       [] peek(p) = "IN" -> At(q, Call(Id("__input__"), <<>>))
       [] peek(p) = "NEW" -> newExpression(q)
       [] peek(p) = "PIPE" -> Parse("lambdaExpression", 0, q)
       [] peek(p) = "ASYNC" -> asyncExpression(q)
       [] peek(p) = "LBRACKET" -> arrayLiteral(q)
       [] peek(p) = "LBRACE" -> dictionary(q)
       [] peek(p) = "LPAREN" -> parenthesized(q)
       [] OTHER -> fail(p)

(***************************************************************************)
(* Statements.  Each starts after its keyword.                             *)
(***************************************************************************)
body(p)  == IF check(p, "LBRACE") THEN Parse("blockStatement", 0, advance(p))
            ELSE Parse("statement", 0, p)
block(p) == LET q == InOrder(p, <<"nl", "declarations", "RBRACE">>) IN At(q, Block(q.node[1]))

varDeclStatement(p) ==
  LET q == InOrder(p, <<"IDENTIFIER", "COLON", "type", "initializer">>)
  IN At(q, TypedVar(q.node[1], q.node[3], q.node[2]))
outStatement(p) == LET q == Parse("expression", 0, p) IN At(q, Out(q.node))
throwStatement(p) == LET q == Parse("expression", 0, p) IN At(q, Throw(q.node))

\* Without braces: one statement, none at all before the keywords that start
\* another one.
unbraced(p) ==
  LET q == skipNewlines(Parse("statement", 0, p))
  IN IF peek(p) \in {"END_OF_FILE", "OTHER", "TASK", "WHEN", "WHILE", "REPEAT", "GET"}
     THEN At(p, Block(<<>>))
     ELSE IF ~q.failed /\ q.node = Null THEN Parse("unbraced", 0, q) ELSE q
thenBranch(p) ==
  IF check(p, "LBRACE") THEN Parse("blockStatement", 0, advance(p))
  ELSE Parse("unbraced", 0, skipNewlines(p))
\* `other` belongs to the nearest `when`, whatever the lines between them.
otherBranch(p) ==
  LET q == skipNewlines(advance(p))
  IN IF ~check(p, "OTHER") THEN At(p, Null)
     ELSE IF check(q, "WHEN") THEN Parse("whenStatement", 0, advance(q)) ELSE Parse("body", 0, q)
whenStatement(p) ==
  LET q == InOrder(p, <<"expression", "nl", "thenBranch", "nl", "otherBranch">>)
  IN At(q, When(q.node[1], q.node[2], q.node[3]))
whileStatement(p) ==
  LET q == InOrder(p, <<"expression", "nl", "body">>) IN At(q, While(q.node[1], q.node[2]))
repeatStatement(p) ==
  LET q == InOrder(p, <<"IDENTIFIER", "EQUAL", "expression", "TO", "expression", "step", "nl", "body">>)
  IN At(q, Repeat(q.node[1], q.node[2], q.node[3], q.node[4], q.node[5]))
loopVariables(p) ==
  LET q == consume(p, "IDENTIFIER")
  IN IF check(p, "LBRACKET")
     THEN InOrder(p, <<"LBRACKET", "IDENTIFIER", "COMMA", "IDENTIFIER", "RBRACKET">>)
     ELSE At(q, <<q.node, "">>)
getStatement(p) ==
  LET q == InOrder(p, <<"loopVariables", "IN", "expression", "nl", "body">>)
  IN At(q, Get(q.node[1][1], q.node[1][2], q.node[2], q.node[3]))
matchStatement(p) ==
  LET q == InOrder(p, <<"expression", "nl", "LBRACE", "nl", "arms", "RBRACE">>)
  IN At(q, Match(q.node[1], q.node[2]))
arm(p) == InOrder(p, <<"pattern", "ARROW", "body">>)
pattern(p) == IF check(p, "OTHER") THEN At(advance(p), Null) ELSE Parse("expression", 0, p)

\* Several values given are an array of them.  At the end of the file, where
\* check() is always false, a value is expected.
giveStatement(p) ==
  LET q == Parse("arguments", 0, p)
  IN IF peek(p) \in {"NEWLINE", "RBRACE"} THEN At(p, Give(Null))
     ELSE At(q, Give(IF Len(q.node) = 1 THEN q.node[1] ELSE Array(q.node)))
staticStatement(p) ==
  LET q == InOrder(p, <<"IDENTIFIER", "EQUAL", "expression">>)
  IN At(q, Static(q.node[1], q.node[2]))

tryStatement(p) ==
  LET q == InOrder(p, <<"nl", "LBRACE", "blockStatement", "nl", "catches", "finally">>)
  IN IF ~q.failed /\ q.node[2] = <<>> /\ q.node[3] = Null THEN fail(q)
     ELSE At(q, Try(q.node[1], q.node[2], q.node[3]))
catches(p) ==
  LET q == InOrder(advance(p), <<"caught", "nl", "LBRACE", "blockStatement", "nl">>)
  IN IF ~check(p, "CATCH") THEN At(p, <<>>)
     ELSE Prefixed(Catch(q.node[1][1], q.node[1][2], q.node[2]), Parse("catches", 0, q))
\* <<type, variable>>, in parentheses or not, either or both left out.
caught(p) ==
  LET paren == check(p, "LPAREN")
      q == IF paren THEN advance(p) ELSE p
      two == check(q, "IDENTIFIER") /\ checkNext(q, "IDENTIFIER")
      r == IF two THEN InOrder(q, <<"IDENTIFIER", "IDENTIFIER">>)
           ELSE Prefixed("", InOrder(q, <<"IDENTIFIER">>))
  IN IF ~paren /\ ~check(p, "IDENTIFIER") THEN At(p, <<"", "">>)
     ELSE IF paren THEN At(consume(r, "RPAREN"), r.node) ELSE r
finallyBlock(p) ==
  LET q == InOrder(p, <<"nl", "LBRACE", "blockStatement">>) IN At(q, q.node[1])

useStatement(p) ==
  LET q == consume(p, "STRING")
      alias == check(q, "IDENTIFIER") /\ q.tokens[q.current].lexeme = "as"
      r == consume(advance(q), "IDENTIFIER")
  IN CASE ~alias -> At(q, Use(q.node, FALSE, ""))
       [] alias /\ check(advance(q), "STAR") -> At(advance(advance(q)), Use(q.node, FALSE, "*"))
       [] OTHER -> At(r, Use(q.node, FALSE, r.node))
\* A declaration that failed has reported its error; it is reported anew
\* unless it is the first.
exportStatement(p) ==
  LET q == Parse("declaration", 0, skipNewlines(p))
  IN IF q.node # Null THEN At(q, Export(q.node))
     ELSE IF q.hadError /\ ~p.hadError THEN q ELSE fail(q)
testStatement(p) ==
  LET q == InOrder(p, <<"STRING", "testBlock">>)
  IN At(q, ExprS(Call(Id("ez_register_test"), <<Lit(<<"string", q.node[1]>>), q.node[2]>>)))

\* Two names side by side are a misspelt keyword.
expressionStatement(p) ==
  LET q == Parse("expression", 0, p)
  IN IF ~q.failed /\ q.node.k = "id" /\ peek(q) \in {"IDENTIFIER", "LBRACE"} THEN fail(q)
     ELSE At(q, ExprS(q.node))

(***************************************************************************)
(* Tasks and their signatures                                              *)
(***************************************************************************)
\* n = 1: a last `...name` is allowed.
parameters(n, p) ==
  LET acc == p.node
      rest == n = 1 /\ check(p, "ELLIPSIS")
      q == InOrder(IF rest THEN advance(p) ELSE p, <<"IDENTIFIER", "typeHint">>)
      default == check(q, "EQUAL")
      r == Parse("ternary", 0, advance(q))
      Added(s, e) ==
        At(s, [acc EXCEPT !.params = Append(@, q.node[1]), !.paramTypes = Append(@, q.node[2]),
                          !.defaultValues = Append(@, e), !.isVariadic = rest])
      new == IF default THEN Added(r, r.node) ELSE Added(q, Null)
  IN CASE rest -> IF check(q, "COMMA") THEN fail(q) ELSE Added(q, Null)
       [] ~rest /\ ~default /\ (\E i \in DOMAIN acc.params : acc.defaultValues[i] # Null) -> fail(q)
       [] OTHER -> IF check(new, "COMMA") THEN Parse("parameters", n, advance(new)) ELSE new
parameterList(n, p) ==
  LET q == At(consume(p, "LPAREN"), NoParameters)
      r == IF check(q, "RPAREN") THEN q ELSE Parse("parameters", n, q)
  IN At(consume(r, "RPAREN"), r.node)

\* requires / ensures: conditions, each with a message or not, separated by
\* commas and line breaks.
Ends == {"REQUIRES", "ENSURES", "LBRACE"}
contracts(p) ==
  IF peek(p) \notin {"REQUIRES", "ENSURES"} THEN p
  ELSE Parse("contracts", 0,
         skipNewlines(Parse("clauses", IF check(p, "REQUIRES") THEN 1 ELSE 2, advance(p))))
clauses(n, p) ==
  LET q     == Parse("expression", 0, skipNewlines(p))
      told  == check(q, "COMMA") /\ checkNext(q, "STRING")
      pair  == <<q.node, IF told THEN q.tokens[q.current + 1].lexeme ELSE "">>
      r     == At(IF told THEN advance(advance(q)) ELSE q,
                  IF n = 1 THEN [p.node EXCEPT !.requires = Append(@, pair)]
                  ELSE [p.node EXCEPT !.ensures = Append(@, pair)])
      next  == skipNewlines(advance(r))
  IN CASE ~check(r, "COMMA") -> r
       [] check(r, "COMMA") /\ peek(next) \in Ends -> next
       [] OTHER -> Parse("clauses", n, next)

taskBody(p) ==
  LET q == InOrder(p, <<"LBRACE", "nl", "declarations", "RBRACE">>)
      s == Parse("statement", 0, p)
  IN IF check(p, "LBRACE") THEN At(q, q.node[1])
     ELSE At(s, IF s.node = Null THEN <<>> ELSE <<s.node>>)
\* A method may have no body, and its result type may be on the next line.
methodBody(p) == IF check(p, "LBRACE") THEN Parse("taskBody", 0, p) ELSE At(p, <<>>)
\* Any token names a task: those that overload operators are named by them.
\* n: 0 a task, 1 an async task, 2 a method, 3 an async method.
signature(n, p) ==
  LET name == previous(advance(p)).lexeme
      parts == IF n \in {0, 1} THEN <<"typeParameters", "taskParameters", "returnType", "nl">>
               ELSE <<"typeParameters", "taskParameters", "nl", "returnType", "nl">>
      head == InOrder(advance(p), parts)
      clause == Parse("contracts", 0, At(head, NoClauses))
      inside == Parse(IF n \in {0, 1} THEN "taskBody" ELSE "methodBody", 0, clause)
  IN At(inside, TaskDecl(name, n \in {1, 3}, head.node[1], head.node[2], head.node[3],
                         clause.node, inside.node))

(***************************************************************************)
(* Models, structs, enums, interfaces                                      *)
(***************************************************************************)
NoMembers == [init |-> NoParameters, initBody |-> <<>>, members |-> <<>>]
modelStatement(p) ==
  LET q == InOrder(p, <<"IDENTIFIER", "typeParameters", "extends", "implements", "nl", "LBRACE",
                        "nl", "allMembers", "RBRACE">>)
      m == q.node[5]
  IN At(q, ModelDecl(q.node[1], q.node[2], q.node[3], q.node[4], m.init, m.initBody, m.members))
members(p) ==
  IF peek(p) \in {"RBRACE", "END_OF_FILE"} THEN p
  ELSE Parse("members", 0, skipNewlines(Parse("member", 0, p)))
\* hidden / shown, static, then a constructor, a method or a property.
member(p) ==
  LET q == IF peek(p) \in {"HIDDEN", "SHOWN"} THEN advance(p) ELSE p
      static == check(q, "STATIC")
      r == IF static THEN skipNewlines(advance(q)) ELSE q
      async == check(r, "ASYNC")
      d == Parse("methodDecorators", 0, At(IF async THEN advance(r) ELSE r, NoDecorators))
      t == Parse("signature", IF async THEN 3 ELSE 2, advance(d))
      f == Parse("property", IF q.current > p.current THEN 1 ELSE 0, d)
      With(s, m) == At(s, [p.node EXCEPT !.members = Append(@, m)])
  IN CASE check(r, "INIT") -> IF static THEN fail(r) ELSE Parse("constructor", 0, advance(r))
       [] ~check(r, "INIT") /\ check(d, "TASK") ->
            With(t, Method(check(p, "HIDDEN"), static,
                           [t.node EXCEPT !.isCached = d.node.isCached,
                                          !.userDecorators = d.node.userDecorators]))
       [] ~check(r, "INIT") /\ ~async /\ check(d, "IDENTIFIER") ->
            With(f, Field(check(p, "HIDDEN"), static, f.node[1], f.node[2], f.node[3], f.node[4]))
       [] OTHER -> fail(d)
\* A second constructor adds its parameters and its body to the first's.
constructor(p) ==
  LET q == InOrder(p, <<"initParameters", "nl", "methodBody">>)
      ps == q.node[1]
  IN At(q, [p.node EXCEPT
              !.init = [params |-> @.params \o ps.params,
                        paramTypes |-> @.paramTypes \o ps.paramTypes,
                        defaultValues |-> @.defaultValues \o ps.defaultValues,
                        isVariadic |-> FALSE],
              !.initBody = @ \o q.node[2]])
\* n = 1: a visibility was given; without one a value or a type must be.
property(n, p) ==
  LET q == InOrder(p, <<"IDENTIFIER", "typeOrNone", "initializer">>)
      v == Parse("validators", 0, skipNewlines(q))
  IN IF ~q.failed /\ n = 0 /\ q.node[2] = Null /\ q.node[3] = Null THEN fail(q)
     ELSE At(v, Append(q.node, v.node))
\* @validate("rule"), ("rule", "message"), ("rule", value), ("rule", value, "message")
validators(p) ==
  LET q == InOrder(advance(advance(p)), <<"LPAREN", "STRING", "ruleArguments", "RPAREN">>)
  IN IF ~(check(p, "AT") /\ checkNext(p, "IDENTIFIER")
          /\ p.tokens[p.current + 1].lexeme = "validate") THEN At(p, <<>>)
     ELSE Prefixed(<<q.node[1]>> \o q.node[2], Parse("validators", 0, skipNewlines(q)))
ruleArguments(p) ==
  LET q == advance(p)
      text == q.tokens[q.current].lexeme
      param == IF check(q, "STRING") THEN At(advance(q), Lit(<<"string", text>>))
               ELSE Parse("expression", 0, q)
      message == Optional(param, "COMMA", "string", "")
  IN CASE ~check(p, "COMMA") -> At(p, <<Null, "">>)
       [] check(p, "COMMA") /\ check(q, "STRING") /\ ~checkNext(q, "COMMA") ->
            At(advance(q), <<Null, text>>)
       [] OTHER -> At(message, <<param.node, message.node>>)

\* A struct is a model whose constructor takes its fields.
Zero(t) == CASE t \in {"int", "int64", "byte", "number", "ptr"} -> Lit(<<"int", 0>>)
             [] t \in {"float", "double"} -> Lit(<<"float", 0>>)
             [] t \in {"string", "str"} -> Lit(<<"string", "">>)
             [] t = "bool" -> Lit(<<"bool", FALSE>>)
             [] OTHER -> Lit(<<"nil">>)
structStatement(p) ==
  LET q == InOrder(p, <<"IDENTIFIER", "typeParameters", "nl", "LBRACE", "nl", "fields", "RBRACE">>)
      fs == q.node[3]
      Fill(f) == ExprS(SetProperty(Self, f[1], Id(f[1]), ""))
  IN At(q, ModelDecl(q.node[1], q.node[2], "", <<>>,
             [params |-> [i \in DOMAIN fs |-> fs[i][1]],
              paramTypes |-> [i \in DOMAIN fs |-> fs[i][2]],
              defaultValues |-> [i \in DOMAIN fs |->
                IF fs[i][3] = Null THEN Zero(fs[i][2].baseType) ELSE fs[i][3]],
              isVariadic |-> FALSE],
             [i \in DOMAIN fs |-> Fill(fs[i])], <<>>))
field(p) == skipComma(InOrder(p, <<"IDENTIFIER", "typeHint", "initializer">>))

\* An enum is a model of statics, numbered on from the last integer given.
enumStatement(p) ==
  LET q == InOrder(p, <<"IDENTIFIER", "nl", "LBRACE", "nl", "allEnumMembers", "RBRACE">>)
  IN At(q, ModelDecl(q.node[1], <<>>, "", <<>>, NoParameters, <<>>, q.node[2]))
allEnumMembers(p) ==
  LET q == Parse("enumMembers", 0, At(p, <<>>))
  IN IF ~q.failed /\ q.node = <<>> THEN fail(q) ELSE q
NextValue(ms) ==
  LET ints == {i \in DOMAIN ms : ms[i].initializer.k = "lit" /\ ms[i].initializer.value[1] = "int"}
  IN IF ints = {} THEN 0 ELSE ms[Max(ints)].initializer.value[2] + 1
enumMembers(p) ==
  LET q == consume(p, "IDENTIFIER")
      r == Optional(q, "EQUAL", "expression", Lit(<<"int", NextValue(p.node)>>))
  IN CASE peek(p) \in {"RBRACE", "END_OF_FILE"} -> p
       [] ~q.failed /\ (\E i \in DOMAIN p.node : p.node[i].name = q.node) -> fail(q)
       [] OTHER -> Parse("enumMembers", 0, skipNewlines(skipComma(
                     At(r, Append(p.node, Field(FALSE, TRUE, q.node, Null, r.node, <<>>))))))

interfaceStatement(p) ==
  LET q == InOrder(p, <<"IDENTIFIER", "typeParameters", "nl", "LBRACE", "nl", "signatures", "RBRACE">>)
  IN At(q, InterfaceDecl(q.node[1], q.node[2], q.node[3]))
interfaceMethod(p) ==
  LET q == InOrder(p, <<"TASK", "IDENTIFIER", "plainParameters", "returnType">>)
  IN At(q, [name |-> q.node[1], params |-> q.node[2], returnType |-> q.node[3]])
\* Neither defaults nor a rest parameter.
plainParameters(p) ==
  LET q == InOrder(p, <<"LPAREN", "typedNames", "RPAREN">>)
  IN IF check(p, "LPAREN") /\ checkNext(p, "RPAREN") THEN At(advance(advance(p)), <<>>)
     ELSE At(q, q.node[1])

(***************************************************************************)
(* Decorators, and the choice of a statement                               *)
(***************************************************************************)
IsLiteral(e, type) == e.k = "lit" /\ e.value[1] = type
Calls(e, name) == e.k = "call" /\ e.callee = Id(name)
Decorated(acc, e) ==
  CASE e = Id("cached") -> [acc EXCEPT !.isCached = TRUE]
    [] e = Id("audited") -> [acc EXCEPT !.audited = TRUE]
    [] e = Id("snapshot") -> [acc EXCEPT !.snapshot = TRUE]
    [] Calls(e, "persist") /\ Len(e.arguments) = 1 /\ IsLiteral(e.arguments[1], "string") ->
         [acc EXCEPT !.persistPath = e.arguments[1].value[2]]
    [] Calls(e, "ratelimit") /\ Len(e.arguments) >= 2
       /\ IsLiteral(e.arguments[1], "int") /\ IsLiteral(e.arguments[2], "string") ->
         [acc EXCEPT !.rateLimit = <<e.arguments[1].value[2], e.arguments[2].value[2]>>]
    [] OTHER -> [acc EXCEPT !.userDecorators = Append(@, e)]
decorators(p) ==
  LET q == Parse("expression", 0, advance(p))
  IN IF ~check(p, "AT") THEN p
     ELSE Parse("decorators", 0, skipNewlines(At(q, Decorated(p.node, q.node))))
\* On a method only @cached is built in.
methodDecorators(p) ==
  LET q == Parse("expression", 0, advance(p))
  IN IF ~check(p, "AT") THEN p
     ELSE Parse("methodDecorators", 0, skipNewlines(
            At(q, IF q.node = Id("cached") THEN Decorated(p.node, q.node)
                  ELSE [p.node EXCEPT !.userDecorators = Append(@, q.node)])))

Undecorated ==
  [INTERFACE |-> "interfaceStatement", OUT |-> "outStatement", WHEN |-> "whenStatement",
   WHILE |-> "whileStatement", REPEAT |-> "repeatStatement", GET |-> "getStatement",
   MATCH |-> "matchStatement", STATIC |-> "staticStatement"]
Others ==
  [GIVE |-> "giveStatement", ESCAPE |-> "escapeStatement", SKIP |-> "skipStatement",
   LBRACE |-> "blockStatement", STRUCT |-> "structStatement", ENUM |-> "enumStatement",
   TRY |-> "tryStatement", THROW |-> "throwStatement", EXPORT |-> "exportStatement",
   TEST |-> "testStatement"] @@ "USE" :> "useStatement"
chooseStatement(p) ==
  LET d == Parse("decorators", 0, At(p, NoDecorators))
      async == check(d, "ASYNC")
      q == IF async THEN advance(d) ELSE d
      t == Parse("signature", IF async THEN 1 ELSE 0, advance(q))
      m == Parse("modelStatement", 0, advance(q))
      ordinary == ~async /\ ~d.failed /\ d.node = NoDecorators
  IN IF peek(p) \in DOMAIN Undecorated THEN Parse(Undecorated[peek(p)], 0, advance(p))
     ELSE CASE peek(q) \in {"TASK", "DECORATOR_KW"} ->
                 At(t, [t.node EXCEPT !.userDecorators = d.node.userDecorators,
                                      !.isCached = d.node.isCached,
                                      !.rateLimit = d.node.rateLimit])
            [] peek(q) = "MODEL" /\ ~async ->
                 At(m, [m.node EXCEPT !.userDecorators = d.node.userDecorators,
                                      !.audited = d.node.audited,
                                      !.snapshot = d.node.snapshot,
                                      !.persistPath = d.node.persistPath])
            [] peek(q) \in DOMAIN Others /\ ordinary -> Parse(Others[peek(q)], 0, advance(q))
            [] peek(q) \notin DOMAIN Others \cup {"TASK", "DECORATOR_KW", "MODEL"} /\ ordinary ->
                 Parse("expressionStatement", 0, q)
            [] OTHER -> fail(q)

\* Mutant: an error is skipped without being counted, as the handler in parse() would.
declarationUncounted(p) ==
  LET q == Parse(IF check(p, "IDENTIFIER") /\ checkNext(p, "COLON") THEN "varDeclStatement"
                 ELSE "statement", 0, p)
  IN IF q.failed THEN At(synchronize([q EXCEPT !.failed = FALSE]), Null) ELSE q
\* An error is reported and skipped; the declaration is then nullptr.
declaration(p) ==
  LET q == Parse(IF check(p, "IDENTIFIER") /\ checkNext(p, "COLON") THEN "varDeclStatement"
                 ELSE "statement", 0, p)
  IN IF q.failed THEN At(synchronize([q EXCEPT !.failed = FALSE, !.hadError = TRUE]), Null)
     ELSE q

(***************************************************************************)
(* The rules by name                                                       *)
(***************************************************************************)
ExpressionRules ==
  {"expression", "assignment", "ternary", "binary", "operators", "power", "unary", "primary",
   "suffixes", "argument", "element", "listedElement", "listedExpression", "entry",
   "lambdaNames", "lambdaPipe", "lambdaExpression"}
ExpressionRule(r, n, p) ==
  CASE r = "expression" -> Guarded("assignment", p)
    [] r = "assignment" -> assignment(p)
    [] r = "ternary" -> ternary(p)
    [] r = "binary" -> leftAssociative(n, p)
    [] r = "operators" -> operators(n, p)
    [] r = "power" -> power(p)
    [] r = "unary" -> unary(p)
    [] r = "primary" -> primary(p)
    [] r = "suffixes" -> suffixes(p)
    [] r = "argument" -> argument(p)
    [] r = "element" -> element(p)
    [] r = "listedElement" -> listed("element", p)
    [] r = "listedExpression" -> listed("expression", p)
    [] r = "entry" -> entry(p)
    [] r = "lambdaNames" -> lambdaNames(p)
    [] r = "lambdaPipe" -> At(skipNewlines(consume(p, "PIPE")), p.node)
    [] r = "lambdaExpression" -> lambdaExpression(n, p)
\* Parts of statements introduced by a token, or left out.
OptionalRules ==
  {"initializer", "typeHint", "typeOrNone", "returnType", "step", "finally", "extends",
   "implements", "typeParameters", "typeArguments"}
OptionalRule(r, p) ==
  CASE r = "initializer" -> Optional(p, "EQUAL", "expression", Null)
    [] r = "typeHint" -> Optional(p, "COLON", "type", AnyType)
    [] r = "typeOrNone" -> Optional(p, "COLON", "type", Null)
    [] r = "returnType" -> Optional(p, "ARROW", "type", AnyType)
    [] r = "step" -> Optional(p, "STEP", "expression", Null)
    [] r = "finally" -> Optional(p, "FINALLY", "finallyBlock", Null)
    [] r = "extends" -> Optional(p, "EXTENDS", "name", "")
    [] r = "implements" -> Optional(p, "IMPLEMENTS", "names", <<>>)
    [] r = "typeParameters" -> bracketed("names", p)
    [] r = "typeArguments" -> bracketed("types", p)
PartRule(r, n, p) ==
  CASE r = "inOrder" -> inOrder(n, p)
    [] r = "name" -> consume(p, "IDENTIFIER")
    [] r = "string" -> consume(p, "STRING")
    [] r = "type" -> parseType(p)
    [] r = "typedName" -> InOrder(p, <<"IDENTIFIER", "typeHint">>)
    [] r = "parameters" -> parameters(n, p)
    [] r = "taskParameters" -> parameterList(1, p)
    [] r = "initParameters" -> parameterList(0, p)
    [] r = "plainParameters" -> plainParameters(p)
    [] r = "contracts" -> contracts(p)
    [] r = "clauses" -> clauses(n, p)
    [] r = "taskBody" -> taskBody(p)
    [] r = "methodBody" -> methodBody(p)
    [] r = "signature" -> signature(n, p)
    [] r = "interfaceMethod" -> interfaceMethod(p)
    [] r = "allMembers" -> Parse("members", 0, At(p, NoMembers))
    [] r = "members" -> members(p)
    [] r = "member" -> member(p)
    [] r = "constructor" -> constructor(p)
    [] r = "property" -> property(n, p)
    [] r = "validators" -> validators(p)
    [] r = "ruleArguments" -> ruleArguments(p)
    [] r = "field" -> field(p)
    [] r = "allEnumMembers" -> allEnumMembers(p)
    [] r = "enumMembers" -> enumMembers(p)
    [] r = "decorators" -> decorators(p)
    [] r = "methodDecorators" -> methodDecorators(p)
    [] r = "body" -> body(p)
    [] r = "thenBranch" -> thenBranch(p)
    [] r = "unbraced" -> unbraced(p)
    [] r = "otherBranch" -> otherBranch(p)
    [] r = "loopVariables" -> loopVariables(p)
    [] r = "arm" -> arm(p)
    [] r = "pattern" -> pattern(p)
    [] r = "catches" -> catches(p)
    [] r = "caught" -> caught(p)
    [] r = "finallyBlock" -> finallyBlock(p)
    [] r = "testBlock" -> Parse("lambdaExpression", 3, p)
Statements ==
  {"chooseStatement", "expressionStatement", "modelStatement", "varDeclStatement"}
  \cup {Undecorated[t] : t \in DOMAIN Undecorated} \cup {Others[t] : t \in DOMAIN Others}
StatementRule(r, p) ==
  CASE r = "chooseStatement" -> chooseStatement(p)
    [] r = "varDeclStatement" -> varDeclStatement(p)
    [] r = "expressionStatement" -> expressionStatement(p)
    [] r = "outStatement" -> outStatement(p)
    [] r = "whenStatement" -> whenStatement(p)
    [] r = "whileStatement" -> whileStatement(p)
    [] r = "repeatStatement" -> repeatStatement(p)
    [] r = "getStatement" -> getStatement(p)
    [] r = "matchStatement" -> matchStatement(p)
    [] r = "giveStatement" -> giveStatement(p)
    [] r = "escapeStatement" -> At(p, Escape)
    [] r = "skipStatement" -> At(p, Skip)
    [] r = "staticStatement" -> staticStatement(p)
    [] r = "blockStatement" -> block(p)
    [] r = "tryStatement" -> tryStatement(p)
    [] r = "throwStatement" -> throwStatement(p)
    [] r = "useStatement" -> useStatement(p)
    [] r = "exportStatement" -> exportStatement(p)
    [] r = "testStatement" -> testStatement(p)
    [] r = "modelStatement" -> modelStatement(p)
    [] r = "structStatement" -> structStatement(p)
    [] r = "enumStatement" -> enumStatement(p)
    [] r = "interfaceStatement" -> interfaceStatement(p)

Parse(r, n, p) ==
  IF p.failed THEN p
  ELSE CASE r \in ExpressionRules -> ExpressionRule(r, n, p)
         [] r \in Statements -> StatementRule(r, p)
         [] r \in OptionalRules -> OptionalRule(r, p)
         [] r \in DOMAIN Lists -> separated(r, p)
         [] r \in DOMAIN Blocks -> untilBrace(r, p)
         [] r = "statement" -> Guarded("chooseStatement", p)
         [] r = "declaration" -> declaration(p)
         [] OTHER -> PartRule(r, n, p)
=============================================================================
