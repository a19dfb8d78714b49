------------------------------- MODULE Lexer -------------------------------
(***************************************************************************)
(* The lexer (src/lexer/Lexer.cpp), from the characters of one lexeme up:  *)
(* a source text is a sequence of lexemes [kind, text], and the lexer      *)
(* decides which token each becomes, where a line break separates          *)
(* statements and what a template string expands to.  How characters make  *)
(* up a lexeme, escapes, comments' nesting and positions are left out.     *)
(*                                                                         *)
(*   kind      text                                                        *)
(*   word      the characters of a keyword or an identifier                *)
(*   punct     an operator or a bracket                                    *)
(*   number    the integer                                                 *)
(*   string    the characters between the quotes                           *)
(*   template  its parts: [isExpr, text], the text of an expression being  *)
(*             a source text                                               *)
(*   break     "\n" or ";"                                                 *)
(*   bad       characters no token starts with, or an unclosed string      *)
(***************************************************************************)
EXTENDS Naturals, Sequences, SequencesExt, TLC

Keywords ==
  [out |-> "OUT", in |-> "IN", when |-> "WHEN", other |-> "OTHER", repeat |-> "REPEAT",
   to |-> "TO", step |-> "STEP", while |-> "WHILE", use |-> "USE", task |-> "TASK",
   decorator |-> "DECORATOR_KW", give |-> "GIVE", escape |-> "ESCAPE", skip |-> "SKIP",
   get |-> "GET", match |-> "MATCH", async |-> "ASYNC", await |-> "AWAIT", test |-> "TEST",
   and |-> "AND", or |-> "OR", not |-> "NOT", true |-> "TRUE", false |-> "FALSE",
   yes |-> "TRUE", no |-> "FALSE", nil |-> "NIL", model |-> "MODEL", init |-> "INIT",
   self |-> "SELF", hidden |-> "HIDDEN", shown |-> "SHOWN", extends |-> "EXTENDS",
   struct |-> "STRUCT", enum |-> "ENUM", new |-> "NEW", super |-> "SUPER",
   static |-> "STATIC", interface |-> "INTERFACE", implements |-> "IMPLEMENTS",
   try |-> "TRY", catch |-> "CATCH", throw |-> "THROW", finally |-> "FINALLY",
   export |-> "EXPORT", requires |-> "REQUIRES", ensures |-> "ENSURES"]

\* The operators and brackets scanToken() tells apart by their characters.
Punctuation ==
  "(" :> "LPAREN" @@ ")" :> "RPAREN" @@ "[" :> "LBRACKET" @@ "]" :> "RBRACKET" @@
  "{" :> "LBRACE" @@ "}" :> "RBRACE" @@ "," :> "COMMA" @@ "..." :> "ELLIPSIS" @@
  "." :> "DOT" @@ ":" :> "COLON" @@ "@" :> "AT" @@ "??" :> "QUESTION_QUESTION" @@
  "?." :> "QUESTION_DOT" @@ "?" :> "QUESTION_MARK" @@ "+=" :> "PLUS_EQUAL" @@
  "+" :> "PLUS" @@ "-=" :> "MINUS_EQUAL" @@ "->" :> "ARROW" @@ "-" :> "MINUS" @@
  "**=" :> "STAR_STAR_EQUAL" @@ "**" :> "STAR_STAR" @@ "*=" :> "STAR_EQUAL" @@
  "*" :> "STAR" @@ "/=" :> "SLASH_EQUAL" @@ "/" :> "SLASH" @@ "%" :> "PERCENT" @@
  "==" :> "EQUAL_EQUAL" @@ "=>" :> "ARROW" @@ "=" :> "EQUAL" @@ "!=" :> "BANG_EQUAL" @@
  "!" :> "BANG" @@ "<<" :> "LSHIFT" @@ "<=" :> "LESS_EQUAL" @@ "<" :> "LESS" @@
  ">>" :> "RSHIFT" @@ ">=" :> "GREATER_EQUAL" @@ ">" :> "GREATER" @@
  "&" :> "AMPERSAND" @@ "|" :> "PIPE" @@ "^" :> "CARET" @@ "~" :> "TILDE"

\* The tokens after which a line break does not end the line.
Continues ==
  {"PLUS", "MINUS", "STAR", "STAR_STAR", "SLASH", "PERCENT", "EQUAL_EQUAL", "BANG_EQUAL",
   "LESS", "LESS_EQUAL", "GREATER", "GREATER_EQUAL", "AND", "OR", "COMMA", "DOT", "EQUAL",
   "PLUS_EQUAL", "MINUS_EQUAL", "STAR_EQUAL", "STAR_STAR_EQUAL", "SLASH_EQUAL",
   "AMPERSAND", "PIPE", "CARET", "LSHIFT", "RSHIFT", "ARROW"}

Token(t, x) == [type |-> t, lexeme |-> x]
EndOfFile == Token("END_OF_FILE", "")
NewLexer == [current |-> 1, tokens |-> <<>>, openParens |-> 0, openBrackets |-> 0, hadError |-> FALSE]
addToken(l, t, x) == [l EXCEPT !.tokens = Append(@, Token(t, x))]

\* A bracket that closes nothing leaves the count at 0.
Closed(n) == IF n > 0 THEN n - 1 ELSE 0
scanPunctuation(l, x) ==
  LET m == addToken(l, Punctuation[x], x)
  IN CASE x = "(" -> [m EXCEPT !.openParens = @ + 1]
       [] x = ")" -> [m EXCEPT !.openParens = Closed(@)]
       [] x = "[" -> [m EXCEPT !.openBrackets = @ + 1]
       [] x = "]" -> [m EXCEPT !.openBrackets = Closed(@)]
       [] OTHER   -> m

scanIdentifier(l, x) ==
  addToken(l, IF x \in DOMAIN Keywords THEN Keywords[x] ELSE "IDENTIFIER", x)

\* '\n' is a token unless it is inside parentheses or square brackets or the
\* line plainly continues; ';' always is one.
Continued(l) ==
  \/ l.openParens > 0 \/ l.openBrackets > 0
  \/ l.tokens # <<>> /\ Last(l.tokens).type \in Continues
scanBreak(l, x) ==
  IF x = "\n" /\ Continued(l) THEN l ELSE addToken(l, "NEWLINE", x)

\* The loop of tokenize(): current is the lexeme to read next.
RECURSIVE scanTokens(_, _)
tokenize(source) == scanTokens(NewLexer, source)

\* An expression part becomes str(...), lexed by a lexer of its own whose
\* errors are reported but not counted here.
scanPart(p) ==
  IF ~p.isExpr THEN <<Token("STRING", p.text)>>
  ELSE <<Token("IDENTIFIER", "str"), Token("LPAREN", "(")>>
       \o SelectSeq(tokenize(p.text).tokens, LAMBDA t : t.type \notin {"END_OF_FILE", "NEWLINE"})
       \o <<Token("RPAREN", ")")>>
\* ( "text" + str(expression) + ... ), or one string if nothing is interpolated.
scanInterpolatedString(l, parts) ==
  LET Joined == FoldLeft(LAMBDA ts, p : (IF ts = <<>> THEN ts ELSE Append(ts, Token("PLUS", "+")))
                                        \o scanPart(p), <<>>, parts)
  IN IF \E i \in DOMAIN parts : parts[i].isExpr
     THEN [l EXCEPT !.tokens = @ \o <<Token("LPAREN", "(")>> \o Joined \o <<Token("RPAREN", ")")>>]
     ELSE addToken(l, "STRING", parts[1].text)

scanToken(l, x) ==
  LET m == CASE x.kind = "word"     -> scanIdentifier(l, x.text)
             [] x.kind = "punct"    -> scanPunctuation(l, x.text)
             [] x.kind = "number"   -> addToken(l, "NUMBER", x.text)
             [] x.kind = "string"   -> addToken(l, "STRING", x.text)
             [] x.kind = "template" -> scanInterpolatedString(l, x.text)
             [] x.kind = "break"    -> scanBreak(l, x.text)
             [] x.kind = "bad"      -> [l EXCEPT !.hadError = TRUE]
  IN [m EXCEPT !.current = @ + 1]
scanTokens(l, source) ==
  IF l.current > Len(source) THEN [l EXCEPT !.tokens = Append(@, EndOfFile)]
  ELSE scanTokens(scanToken(l, source[l.current]), source)
=============================================================================
