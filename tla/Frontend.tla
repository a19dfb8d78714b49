------------------------------ MODULE Frontend ------------------------------
(***************************************************************************)
(* From source text to statements, as runFile() and the module loader do   *)
(* it: the lexer reads the whole text, then the loop of Parser::parse()    *)
(* takes one declaration after the other, an error costing the rest of its *)
(* line; statements are handed on to the type checker only if neither      *)
(* reported an error, and to the compiler only if that found none.         *)
(***************************************************************************)
EXTENDS TypeChecker

\* The texts of a run: records with the lexemes in the field text.
CONSTANT Sources
\* The names bound before the program.
CONSTANT Builtins

VARIABLES source,      \* the text read
          phase,       \* "lexing", "parsing", "accepted" or "rejected"
          verdict,     \* "", or what the type checker says: "typed" or "ill-typed"
          parser,
          statements   \* what parse() has collected
vars == <<source, phase, verdict, parser, statements>>

Init == /\ source \in Sources
        /\ phase = "lexing" /\ verdict = ""
        /\ parser = NewParser(<<EndOfFile>>)
        /\ statements = <<>>

Tokenize ==
  /\ phase = "lexing"
  /\ LET l == tokenize(source.text)
     IN /\ phase' = IF l.hadError THEN "rejected" ELSE "parsing"
        /\ parser' = skipNewlines(NewParser(l.tokens))
  /\ UNCHANGED <<source, verdict, statements>>

\* One turn of the loop of parse().
Declaration(q) ==
  /\ parser' = [skipNewlines(At(q, Null))
                  EXCEPT !.spins = @ \/ skipNewlines(q).current = parser.current]
  /\ statements' = IF q.node = Null THEN statements ELSE Append(statements, q.node)
  /\ UNCHANGED <<source, phase, verdict>>
Declare ==
  /\ phase = "parsing" /\ ~isAtEnd(parser) /\ ~parser.spins
  /\ \E q \in {declaration(parser)} : Declaration(q)

Finish ==
  /\ phase = "parsing" /\ isAtEnd(parser)
  /\ phase' = IF parser.hadError THEN "rejected" ELSE "accepted"
  /\ UNCHANGED <<source, verdict, parser, statements>>

CheckTypes ==
  /\ phase = "accepted" /\ verdict = ""
  /\ verdict' = IF checkProgram(statements, Builtins) THEN "typed" ELSE "ill-typed"
  /\ UNCHANGED <<source, phase, parser, statements>>

Next == Tokenize \/ Declare \/ Finish \/ CheckTypes
Spec == Init /\ [][Next]_vars

Done == phase \in {"accepted", "rejected"}
\* Reading comes to an end whatever the text: no loop of the parser, the one
\* that recovers from errors and those inside a block included, goes round
\* without reading a token (the tokens are finitely many).
EveryTurnReads == ~parser.spins
=============================================================================
