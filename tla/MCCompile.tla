----------------------------- MODULE MCCompile -----------------------------
(***************************************************************************)
(* The compiler and the virtual machine against the meaning of programs:   *)
(* families of small programs, each compiled, run and compared.            *)
(***************************************************************************)
EXTENDS Machine, Compiler, Semantics

\* The programs of a run.
CONSTANT Programs

(***************************************************************************)
(* Building programs                                                       *)
(***************************************************************************)
N(n) == Lit(IntV(n))
S(s) == Lit(Chr(s))
Say(s) == Out(S(s))
Set(n, e) == ExprS(Assign(n, e))
Do(f, as) == ExprS(Call(Id(f), as))
Add(a, b) == Bin(a, "ADD", b)
Plain(body) == [body |-> body, files |-> <<>>, vfs |-> <<>>, pkgs |-> <<>>, where |-> <<>>]
\* The program made of each element of a sequence of choices.
Each(ss, F(_)) == [i \in 1..Len(ss) |-> Plain(F(ss[i]))]
Cross(ss, ts) ==
  FlattenSeq([i \in 1..Len(ss) |-> [j \in 1..Len(ts) |-> Append(ss[i], ts[j])]])
Ones(ss) == [i \in 1..Len(ss) |-> <<ss[i]>>]

(***************************************************************************)
(* Leaving a try statement inside a loop in every way.                     *)
(***************************************************************************)
Leaving(a) ==
  CASE a = "give" -> <<Give(S("given"))>>
    [] a = "escape" -> <<Escape>>
    [] a = "skip" -> <<Skip>>
    [] a = "throw" -> <<Throw(S("x"))>>
    [] a = "fault" -> <<ExprS(Bin(Id("i"), "DIV", N(0)))>>
    [] a = "fall" -> <<>>
LoopOf(kind, body) ==
  CASE kind = "while" -> While(Bin(Id("i"), "LESS", N(2)), body)
    [] kind = "repeat" -> Repeat("k", N(1), N(2), Null, body)
    [] kind = "step" -> Repeat("k", N(2), N(1), N(0 - 1), body)
    [] kind = "get" -> Get("k", "", Array(<<N(1), N(2)>>), body)
    [] kind = "pairs" -> Get("k", "w", Dictionary(<< <<S("a"), N(1)>>, <<S("b"), N(2)>> >>), body)
TryOf(form, a, b) ==
  LET t == Block(<<Say("try")>> \o Leaving(a))
      c == <<Catch("", "e", Block(<<Out(Id("e"))>> \o Leaving(b)))>>
      f == Block(<<Say("finally")>>)
  IN CASE form = "catch" -> Try(t, c, Null)
       [] form = "finally" -> Try(t, <<>>, f)
       [] form = "both" -> Try(t, c, f)
       [] form = "nested" -> Try(Block(<<Try(t, <<Catch("TypeError", "e", Block(<<Say("no")>>))>>, f)>>),
                                 c, Block(<<Say("outer finally")>>))
Exits(x) ==
  << Task("f", <<>>,
       << VarDecl("i", N(0)),
          LoopOf(x[1], Block(<<Set("i", Add(Id("i"), N(1))), VarDecl("r", N(5)),
                               TryOf(x[2], x[3], x[4]), Say("after")>>)),
          Out(Id("i")), Give(S("end"))>>),
     Try(Block(<<Out(Call(Id("f"), <<>>))>>), <<Catch("", "e", Block(<<Say("caught")>>))>>, Null),
     Say("last") >>
ExitPrograms ==
  Each(Cross(Cross(Cross(Ones(<<"while", "repeat", "step", "get", "pairs">>),
                         <<"catch", "finally", "both", "nested">>),
                   <<"fall", "give", "escape", "skip", "throw", "fault">>),
             <<"fall">>), Exits)
  \o Each(Cross(Cross(Cross(Ones(<<"repeat">>), <<"catch", "both">>), <<"throw">>),
                <<"give", "throw", "escape", "skip">>), Exits)

(***************************************************************************)
(* Closures, recursion, tail calls.                                        *)
(***************************************************************************)
Fn(body) == Lambda(<<>>, body)
Inc(n) == Set(n, Add(Id(n), N(1)))
Guarded(s) == Try(Block(<<s>>), <<Catch("", "e", Block(<<Out(Id("e"))>>))>>, Null)
ClosurePrograms == Each(
  << \* counters over separate instances of one captured local
     << Task("mk", <<>>, <<VarDecl("n", N(0)), Give(Fn(<<Inc("n"), Give(Id("n"))>>))>>),
        Set("a", Call(Id("mk"), <<>>)), Set("b", Call(Id("mk"), <<>>)),
        Out(Call(Id("a"), <<>>)), Out(Call(Id("a"), <<>>)), Out(Call(Id("b"), <<>>)) >>,
     \* a fresh local per iteration, the loop variable shared
     << Task("f", <<>>,
          << VarDecl("fs", Array(<<>>)), VarDecl("gs", Array(<<>>)),
             Repeat("i", N(0), N(2), Null, Block(
               << VarDecl("v", Bin(Id("i"), "MUL", N(2))),
                  ExprS(AssignIdx(Id("fs"), Id("i"), Fn(<<Inc("v"), Give(Id("v"))>>), "")),
                  ExprS(AssignIdx(Id("gs"), Id("i"), Fn(<<Give(Id("i"))>>), "")) >>)),
             Get("g", "", Id("fs"), Block(<<Out(Call(Id("g"), <<>>)), Out(Call(Id("g"), <<>>))>>)),
             Get("g", "", Id("gs"), Block(<<Out(Call(Id("g"), <<>>))>>)) >>),
        Do("f", <<>>) >>,
     \* two closures share a local, three levels deep, and outlive it
     << Task("f", <<"p">>,
          << VarDecl("n", Id("p")),
             VarDecl("get2", Fn(<<Give(Fn(<<Set("n", Add(Id("n"), Id("p"))), Give(Id("n"))>>))>>)),
             Set("n", N(5)),
             Give(Array(<<Call(Id("get2"), <<>>), Fn(<<Give(Id("n"))>>)>>)) >>),
        Set("fs", Call(Id("f"), <<N(3)>>)),
        Out(Call(Index(Id("fs"), N(0)), <<>>)), Out(Call(Index(Id("fs"), N(0)), <<>>)),
        Out(Call(Index(Id("fs"), N(1)), <<>>)) >>,
     \* local tasks that call each other
     << Task("f", <<"n">>,
          << Task("even", <<"k">>, <<When(Bin(Id("k"), "EQUAL", N(0)), Block(<<Give(S("even"))>>), Null),
                                     Give(Call(Id("odd"), <<Bin(Id("k"), "SUB", N(1))>>))>>),
             Task("odd", <<"k">>, <<When(Bin(Id("k"), "EQUAL", N(0)), Block(<<Give(S("odd"))>>), Null),
                                    Give(Call(Id("even"), <<Bin(Id("k"), "SUB", N(1))>>))>>),
             Give(Call(Id("even"), <<Id("n")>>)) >>),
        Out(Call(Id("f"), <<N(3)>>)), Out(Call(Id("f"), <<N(2)>>)),
        Guarded(Do("f", <<N(9)>>)) >>,
     \* a tail call deeper than the frame limit, capturing its parameter each time
     << VarDecl("fs", Array(<<>>)),
        Task("f", <<"n", "acc">>,
          << When(Bin(Id("n"), "EQUAL", N(0)), Block(<<Give(Id("acc"))>>), Null),
             VarDecl("l", Add(Id("n"), Id("acc"))),
             ExprS(AssignIdx(Id("fs"), Id("n"), Fn(<<Set("l", Add(Id("l"), N(1))), Give(Id("l"))>>), "")),
             Give(Call(Id("f"), <<Bin(Id("n"), "SUB", N(1)), Id("l")>>)) >>),
        Out(Call(Id("f"), <<N(7), N(0)>>)),
        Repeat("i", N(5), N(7), Null, Block(<<Out(Call(Index(Id("fs"), Id("i")), <<>>))>>)) >>,
     \* unbounded recursion that is not a tail call, and one inside a try
     << Task("f", <<"n">>, <<Give(Add(N(1), Call(Id("f"), <<Id("n")>>)))>>),
        Guarded(Do("f", <<N(0)>>)),
        Task("g", <<"n">>, <<Try(Block(<<Give(Call(Id("g"), <<Id("n")>>))>>),
                                 <<Catch("RecursionError", "", Block(<<Say("deep"), Give(N(1))>>))>>, Null)>>),
        Out(Call(Id("g"), <<N(0)>>)) >>,
     \* leaving a loop whose body locals are captured
     << VarDecl("h", Lit(Nil)), VarDecl("h2", Lit(Nil)),
        Task("f", <<>>,
          << While(Lit(BoolV(TRUE)), Block(
               << VarDecl("v", N(1)), Set("h", Fn(<<Inc("v"), Give(Id("v"))>>)),
                  Block(<<VarDecl("w", N(7)), Set("h2", Fn(<<Inc("w"), Give(Id("w"))>>)), Escape>>) >>)),
             VarDecl("z", N(9)), VarDecl("y", N(8)),
             Out(Call(Id("h"), <<>>)), Out(Call(Id("h2"), <<>>)), Out(Add(Id("z"), Id("y"))) >>),
        Do("f", <<>>), Out(Call(Id("h"), <<>>)), Out(Call(Id("h2"), <<>>)) >>
  >>, LAMBDA p : p)

(***************************************************************************)
(* Expressions: an operator on constants (folded), on globals, on locals,  *)
(* and as the fused assignment x = x op y.                                 *)
(***************************************************************************)
Operands == <<IntV(2), IntV(0 - 3), IntV(31), <<"float", 1, 2>>, Chr("a"), BoolV(TRUE), Nil>>
\* comparing texts by order is not modelled
OpsFor(a, b) ==
  <<"ADD", "SUB", "MUL", "DIV", "MOD", "EQUAL", "NOT_EQUAL">>
  \o (IF Is(a, "str") /\ Is(b, "str") THEN <<>> ELSE <<"LESS", "GREATER_EQ">>)
  \o (IF b = IntV(2) THEN <<"POW">> ELSE <<>>)
\* "a" * n for a negative n folds to "" and raises unfolded: left out
SameFolded(op, a, b) == ~ (op = "MUL" /\ Is(a, "str") /\ Is(b, "int") /\ b[2] < 0)
\* two literals that the folder cannot read are left to MixedPrograms
Folded(a, op, b) ==
  IF MisreadAsFloat(op, a, b) /\ op \notin {"EQUAL", "NOT_EQUAL"} THEN <<>>
  ELSE <<Guarded(Out(Bin(Lit(a), op, Lit(b))))>>
FoldProgram(x) ==
  LET a == x[1]  b == x[2]
      ops == SelectSeq(OpsFor(a, b), LAMBDA op : SameFolded(op, a, b))
      Forms(op) ==
        Folded(a, op, b) \o
        << Guarded(Out(Bin(Id("x"), op, Lit(b)))),
           Guarded(Out(Bin(Id("x"), op, Id("y")))),
           Guarded(Block(<<VarDecl("u", Lit(a)), VarDecl("v", Lit(b)),
                           Set("u", Bin(Id("u"), op, Id("v"))), Out(Id("u")),
                           Set("g", Lit(a)), Set("g", Bin(Id("g"), op, Id("v"))), Out(Id("g"))>>)) >>
  IN <<VarDecl("x", Lit(a)), VarDecl("y", Lit(b)), VarDecl("g", Lit(a))>>
     \o FlattenSeq([i \in 1..Len(ops) |-> Forms(ops[i])])
FoldPrograms == Each(Cross(Ones(Operands), Operands), FoldProgram)

ExprPrograms == Each(
  << \* increments by small constants, on an integer and on a float
     << Task("f", <<"x">>,
          << Set("x", Add(Id("x"), N(3))), Set("x", Bin(Id("x"), "SUB", N(4))),
             Set("x", Add(Id("x"), N(4))), Set("x", Bin(Id("x"), "SUB", N(5))), Give(Id("x"))>>),
        Out(Call(Id("f"), <<N(30)>>)), Out(Call(Id("f"), <<Lit(<<"float", 1, 2>>)>>)) >>,
     \* short circuits, ternary, negation, nil coalescing, membership
     << Task("t", <<"v">>, <<Out(Id("v")), Give(Id("v"))>>),
        Out(Logical(Call(Id("t"), <<N(0)>>), "AND", Call(Id("t"), <<N(2)>>))),
        Out(Logical(Call(Id("t"), <<Lit(BoolV(FALSE))>>), "AND", Call(Id("t"), <<N(2)>>))),
        Out(Logical(Call(Id("t"), <<N(1)>>), "OR", Call(Id("t"), <<N(2)>>))),
        Out(Logical(Call(Id("t"), <<Lit(Nil)>>), "QUESTION_QUESTION", Call(Id("t"), <<N(2)>>))),
        Out(Ternary(Call(Id("t"), <<Lit(Nil)>>), N(1), Un("NEGATE", Call(Id("t"), <<N(3)>>)))),
        Out(Un("NOT", Call(Id("t"), <<N(0)>>))),
        VarDecl("xs", Array(<<N(1), Lit(<<"float", 4, 2>>)>>)),
        Out(Bin(N(2), "MEMBER_IN", Id("xs"))), Out(Bin(S("k"), "MEMBER_IN", Id("xs"))),
        Out(Bin(S("k"), "MEMBER_IN", Dictionary(<< <<S("k"), N(1)>> >>))),
        When(Lit(BoolV(FALSE)), Block(<<Say("no")>>), Block(<<Say("else")>>)),
        When(Lit(BoolV(TRUE)), Block(<<Say("then")>>), Null), While(Lit(BoolV(FALSE)), Block(<<Say("no")>>)) >>,
     \* destructuring, indexed and compound assignment, growth, errors of the index
     << Task("f", <<>>,
          << VarDecl("xs", Array(<<N(1), Spread(Array(<<N(2), N(3)>>)), Spread(S("c"))>>)),
             ExprS(DestructureAssign(<<Id("a"), Id("b"), Index(Id("xs"), N(0))>>,
                                     Tuple(<<N(7), N(8), N(9)>>))),
             Out(Add(Id("a"), Id("b"))), Out(Index(Id("xs"), N(0))),
             ExprS(DestructureAssign(<<Id("a"), Id("b")>>, Array(<<Id("b"), Id("a")>>))), Out(Id("a")),
             ExprS(AssignIdx(Id("xs"), N(1), N(4), "ADD")), Out(Index(Id("xs"), N(1))),
             ExprS(AssignIdx(Id("xs"), N(6), N(5), "")), Out(Index(Id("xs"), N(5))),
             VarDecl("d", Dictionary(<< <<S("k"), N(1)>>, <<S("k"), N(2)>>, <<N(3), N(4)>> >>)),
             ExprS(AssignIdx(Id("d"), S("k"), N(5), "MUL")), Out(Index(Id("d"), S("k"))),
             Out(PropertyAccess(Id("d"), "k")), Out(Index(Id("d"), S("none"))),
             Guarded(Out(PropertyAccess(Id("d"), "none"))), Guarded(Out(PropertyAccess(N(1), "k"))),
             Guarded(Out(Index(Id("xs"), N(9)))), Guarded(Out(Index(Id("xs"), Lit(Nil)))),
             Guarded(ExprS(AssignIdx(N(1), N(0), N(1), ""))),
             Guarded(ExprS(Array(<<Spread(N(1))>>))),
             Guarded(ExprS(DestructureAssign(<<Id("a"), Id("b")>>, Array(<<N(1)>>)))) >>),
        Do("f", <<>>) >>,
     \* match on values, on types, on nothing
     << Task("m", <<"v">>,
          << Match(Id("v"), << <<N(1), Block(<<VarDecl("q", N(2)), Out(Id("q"))>>)>>,
                               <<S("a"), Block(<<Say("is a"), Give(N(0))>>)>>,
                               <<Id("Float"), Block(<<Say("float")>>)>>,
                               <<Id("Exception"), Block(<<Say("exception")>>)>> >>),
             Match(Id("v"), << <<Id("Number"), Block(<<Say("number")>>)>>,
                               <<Null, Block(<<Say("other")>>)>> >>), Give(N(1))>>),
        Get("v", "", Array(<<N(1), S("a"), Lit(<<"float", 1, 2>>), Call(Id("AssertionError"), <<S("x")>>), Lit(Nil)>>),
            Block(<<Do("m", <<Id("v")>>)>>)) >>,
     \* loops over texts, dictionaries, an array that grows, what cannot be looped over
     << Task("f", <<>>,
          << VarDecl("xs", Array(<<N(1), N(2)>>)),
             Get("x", "", Id("xs"), Block(<<Out(Id("x")), When(Bin(Id("x"), "LESS", N(3)),
                 Block(<<ExprS(AssignIdx(Id("xs"), Add(Id("x"), N(1)), Add(Id("x"), N(2)), ""))>>), Null)>>)),
             Get("c", "", Bin(S("a"), "ADD", S("b")), Block(<<Out(Id("c"))>>)),
             VarDecl("d", Dictionary(<< <<S("k"), N(1)>>, <<S("l"), N(2)>> >>)),
             Get("k", "", Id("d"), Block(<<Out(Id("k")), ExprS(AssignIdx(Id("d"), S("new"), N(1), ""))>>)),
             Get("k", "v", Id("d"), Block(<<Out(Id("k")), Out(Id("v"))>>)),
             Guarded(Get("k", "", N(1), Block(<<>>))), Guarded(Get("k", "v", N(1), Block(<<>>))),
             Guarded(Repeat("i", N(3), N(2), N(0), Block(<<>>))),
             Guarded(Repeat("i", S("a"), N(2), Null, Block(<<Say("no")>>))),
             Guarded(Repeat("i", S("a"), N(2), N(1), Block(<<Say("no")>>))),
             Repeat("i", N(1), N(5), N(2), Block(<<Out(Id("i")), Set("i", Add(Id("i"), N(1)))>>)),
             Repeat("i", N(3), N(1), Null, Block(<<Say("no")>>)) >>),
        Do("f", <<>>) >>,
     \* more locals than a narrow slot addresses
     << Task("f", <<"a", "b", "c", "d", "e">>,
          << VarDecl("p", N(1)), VarDecl("q", N(2)), VarDecl("r", N(3)), VarDecl("s", N(4)),
             Repeat("i", N(1), N(3), Null, Block(<<Set("s", Add(Id("s"), Id("i"))), Set("p", Add(Id("p"), Id("s"))),
                    When(Bin(Id("i"), "EQUAL", N(2)), Block(<<Skip>>), Null), Out(Id("p"))>>)),
             Repeat("i", N(3), N(1), N(0 - 1), Block(<<Set("s", Bin(Id("s"), "SUB", N(1)))>>)),
             Set("s", Add(Id("s"), N(1))), Give(Add(Id("s"), Id("e")))>>),
        Out(Call(Id("f"), <<N(1), N(1), N(1), N(1), N(9)>>)) >>
  >>, LAMBDA p : p)

(***************************************************************************)
(* Calls: defaults, rest parameters, named and spread arguments, arity,    *)
(* decorators, statics, contracts.                                         *)
(***************************************************************************)
Kw(f, as, ns) == CallKw(Id(f), as, ns)
CallPrograms == Each(
  << << TaskFull("g", <<"a", "b">>, <<Null, Add(Id("a"), N(1))>>, <<Give(Add(Bin(Id("a"), "MUL", N(10)), Id("b")))>>,
                 FALSE, <<>>, <<>>, <<>>),
        Out(Call(Id("g"), <<N(1)>>)), Out(Call(Id("g"), <<N(1), N(5)>>)),
        Guarded(Do("g", <<>>)), Guarded(Do("g", <<N(1), N(2), N(3)>>)),
        Out(Kw("g", <<N(4), N(2)>>, <<"b", "a">>)), Out(Kw("g", <<N(2), N(4)>>, <<"", "b">>)),
        Guarded(Out(Kw("g", <<N(2), N(4)>>, <<"", "z">>))),
        Guarded(Out(Kw("g", <<N(2), N(4), N(1)>>, <<"", "", "b">>))),
        Out(Call(Id("g"), <<Spread(Array(<<N(2), N(3)>>))>>)),
        Guarded(Do("g", <<Spread(N(2))>>)), Guarded(Do("none", <<N(2)>>)) >>,
     << TaskFull("h", <<"a", "rest">>, <<Null, Null>>,
                 <<Out(Id("a")), Get("r", "", Id("rest"), Block(<<Out(Id("r"))>>)), Say("/")>>, TRUE, <<>>, <<>>, <<>>),
        Do("h", <<>>), Do("h", <<N(1)>>), Do("h", <<N(1), N(2)>>), Do("h", <<N(1), N(2), N(3)>>),
        Do("h", <<N(1), Spread(Array(<<N(5), N(6)>>))>>) >>,
     << Task("inc", <<"f">>, <<Give(Lambda(<<"x">>, <<Give(Add(Call(Id("f"), <<Id("x")>>), N(1)))>>))>>),
        Task("dbl", <<"f">>, <<Give(Lambda(<<"x">>, <<Give(Bin(Call(Id("f"), <<Id("x")>>), "MUL", N(2)))>>))>>),
        TaskFull("k", <<"x">>, <<Null>>, <<Give(Id("x"))>>, FALSE, <<>>, <<>>, <<Id("inc"), Id("dbl")>>),
        Out(Call(Id("k"), <<N(5)>>)) >>,
     << Task("f", <<"by">>, <<Static("n", Add(Id("by"), N(1))), Set("n", Add(Id("n"), Id("by"))), Give(Id("n"))>>),
        Task("g", <<"by">>, <<Static("n", N(9)), Set("n", Add(Id("n"), Id("by"))), Give(Id("n"))>>),
        Out(Call(Id("f"), <<N(1)>>)), Out(Call(Id("f"), <<N(2)>>)), Out(Call(Id("g"), <<N(1)>>)),
        Out(Call(Id("f"), <<N(3)>>)) >>,
     << TaskFull("f", <<"x">>, <<Null>>,
          <<Set("x", Add(Id("x"), N(1))), When(Bin(Id("x"), "GREATER", N(6)), Block(<<Give(N(0))>>), Null), Give(Id("x"))>>,
          FALSE, <<Bin(Id("x"), "GREATER", N(0))>>,
          <<Bin(Id("result"), "EQUAL", Add(Call(Id("old"), <<Id("x")>>), N(1)))>>, <<>>),
        Out(Call(Id("f"), <<N(1)>>)), Guarded(Do("f", <<N(0)>>)), Guarded(Do("f", <<N(6)>>)),
        Try(Block(<<Do("f", <<N(0)>>)>>), <<Catch("TypeError", "e", Block(<<Say("no")>>)),
                                            Catch("AssertionError", "", Block(<<Say("assertion")>>))>>, Null),
        Throw(Call(Id("Exception"), <<S("x")>>)) >>
  >>, LAMBDA p : p)

(***************************************************************************)
(* Modules                                                                 *)
(***************************************************************************)
File(loc, dir, ss) == [loc |-> loc, dir |-> dir, stmts |-> ss]
AFile == File(<<".", "a">>, <<".">>,
  << Say("load a"), VarDecl("n", N(1)), Export(VarDecl("top", N(2))), Set("shared", N(3)),
     Export(Task("bump", <<>>, <<Set("n", Add(Id("n"), N(1))), Give(Add(Id("n"), Id("top")))>>)) >>)
BFile == File(<<".", "b">>, <<".">>, << Say("load b"), Use("a", FALSE, ""), Export(Task("twice", <<>>,
            <<Do("bump", <<>>), Give(Call(Id("bump"), <<>>))>>)) >>)
SubFile == File(<<"pkg", "a">>, <<"pkg">>, << Say("load pkg/a"), Export(VarDecl("top", N(5))) >>)
PFile == File(<<"lib", "p", "/", "start">>, <<"pkg">>, << Use("a", FALSE, "m"), Export(Set("q", PropertyAccess(Id("m"), "top"))) >>)
Loop1 == File(<<".", "l1">>, <<".">>, << Use("l2", FALSE, "") >>)
Loop2 == File(<<".", "l2">>, <<".">>, << Use("l1", FALSE, "") >>)
Where(d, p, f) == <<d, p, f>>
WithFiles(body, fs, where) ==
  [Plain(body) EXCEPT !.files = fs, !.where = where, !.pkgs = [x \in {"p"} |-> "start"]]
Dot == <<".">>
ModulePrograms ==
  LET fs == <<AFile, BFile, SubFile, PFile, Loop1, Loop2>>
      wh == << Where(Dot, "a", AFile), Where(Dot, "b", BFile), Where(<<"pkg">>, "a", SubFile),
               Where(Dot, "p", PFile), Where(Dot, "l1", Loop1), Where(Dot, "l2", Loop2) >>
  IN << \* imported once, by two importers; only exports are bound; state is shared
        WithFiles(<< VarDecl("n", N(9)), VarDecl("shared", N(8)), Use("a", FALSE, ""), Use("b", FALSE, ""),
                     Out(Call(Id("bump"), <<>>)), Out(Call(Id("twice"), <<>>)), Out(Id("n")), Out(Id("shared")),
                     Use("a", FALSE, "again"), Out(CallKw(PropertyAccess(Id("again"), "bump"), <<>>, <<>>)),
                     Guarded(Out(PropertyAccess(Id("again"), "n"))),
                     Guarded(ExprS(CallKw(PropertyAccess(Id("again"), "gone"), <<>>, <<>>))),
                     Guarded(ExprS(CallKw(PropertyAccess(N(1), "f"), <<>>, <<>>))) >>, fs, wh),
        \* everything of a file named by its path; inside a task
        WithFiles(<< Use("a", TRUE, ""), Out(Id("n")), Out(Id("shared")) >>, fs, wh),
        WithFiles(<< Task("f", <<>>, <<Use("a", FALSE, ""), Give(Call(Id("bump"), <<>>))>>),
                     Out(Call(Id("f"), <<>>)), Out(Call(Id("f"), <<>>)), Out(Id("bump")) >>, fs, wh),
        \* a package's entry file; a module beside its importer
        WithFiles(<< Use("p", FALSE, ""), Out(Id("q")), Use("a", FALSE, ""), Out(Id("top")) >>, fs, wh),
        \* the same, served from a bundle
        [WithFiles(<< Use("b", FALSE, ""), Out(Call(Id("twice"), <<>>)) >>, <<>>, wh) EXCEPT
           !.vfs = <<[AFile EXCEPT !.loc = <<"a">>], [BFile EXCEPT !.loc = <<"b">>]>>],
        \* rejected: a cycle, an unknown module
        WithFiles(<< Say("no"), Use("l1", FALSE, "") >>, fs, wh),
        WithFiles(<< Use("nowhere", FALSE, "") >>, fs, wh),
        Plain(<< Escape >>), Plain(<< Skip >>), Plain(<< ExprS(Spread(N(1))) >>) >>

AllPrograms == ExitPrograms \o ClosurePrograms \o FoldPrograms \o ExprPrograms \o CallPrograms \o ModulePrograms
\* Where the code departs from the meaning: the folder and the machine do not take
\* the same numbers for true.
TruthPrograms == Each(
  << << Out(Un("NOT", N(0))), VarDecl("z", N(0)), Out(Un("NOT", Id("z"))) >> >>, LAMBDA p : p)
\* Where the folder throws out of compile(): a float beside what is not a number, on
\* either side, under another operator, as a condition.
Half == Lit(<<"float", 1, 2>>)
MixedPrograms == Each(
  << << Guarded(Out(Bin(Half, "LESS", S("a")))), Say("last") >>,
     << Guarded(Out(Bin(Lit(Nil), "ADD", Half))), Say("last") >>,
     << Guarded(Out(Un("NEGATE", Bin(Half, "MUL", Lit(BoolV(TRUE)))))), Say("last") >>,
     << Guarded(When(Bin(S("a"), "GREATER_EQ", Half), Block(<<Say("no")>>), Null)), Say("last") >> >>, LAMBDA p : p)
\* Where the handler does not find the operands it was compiled with (Unwind): the
\* variables a and b are popped at the end of a scope that has lost them, and the
\* operands of the sum then stand in the slot of q.
ScopeCatch == << Task("f", <<>>,
  << When(Lit(BoolV(TRUE)), Block(<<VarDecl("a", N(1)), VarDecl("b", N(2)), Guarded(Throw(S("x")))>>), Null),
     Set("p", N(1)), Set("q", N(2)), Give(Add(Id("p"), Id("q"))) >>),
  Out(Call(Id("f"), <<>>)) >>
CatchPrograms == Each(<<ScopeCatch>>, LAMBDA p : p)
\* In no family: a task with more locals than one byte counts, the first and
\* the last of them captured. The operand of CLOSE_UPVALUE wraps to slot 0.
WideClose(ns) ==
  << Task("f", <<>>,
       << VarDecl("a", N(1)), VarDecl("g", Fn(<<Give(Id("a"))>>)) >> \o [i \in 1..Len(ns) |-> VarDecl(ns[i], N(0))]
       \o << When(Lit(BoolV(TRUE)), Block(<<VarDecl("z", N(2)), VarDecl("h", Fn(<<Give(Id("z"))>>))>>), Null),
             Set("a", N(3)), Give(Call(Id("g"), <<>>)) >>),
     Out(Call(Id("f"), <<>>)) >>
WideClosePrograms == Each(
  << <<"p", "q", "r", "s", "t">>, <<"p", "q", "r", "s", "t", "u">> >>, WideClose)
MCBuiltins == <<"Exception", "AssertionError">>
\* The image of a program carries, beside its code, what the program means.
Image(i) ==
  LET p == Programs[i]
      c == compile(NewBytecodeCompiler(MCBuiltins, p.files, p.vfs, p.pkgs), p.body)
  IN [funs |-> c.funs, globals |-> c.globals, err |-> c.err, prog |-> i,
      meaning |-> Meaning(p.body, p.where, MCBuiltins)]
Init == \E i \in 1..Len(Programs) : execute(Image(i))
Spec == Init /\ [][Next]_vars /\ WF_vars(Next)

(***************************************************************************)
(* Properties                                                              *)
(***************************************************************************)
\* A program that ran to its end printed what it means and ended as it means
\* (compile() and run() together, against the definitional interpreter).
MeansTheSame ==
  status # <<"run">> => out = code.meaning.out /\ status = code.meaning.status

\* Every slot an instruction addresses lies in the slots pushCallFrame() reserved
\* for the frame, so that no local is overwritten by operands (addLocal and
\* maxLocals against localCount).  Unless Unwind() took operands of the frame: the
\* code then pops what is not there, and the stack sinks into the locals.
LocalsReserved ==
  status = <<"run">> =>
    /\ I[1] \in {"LOAD_LOCAL", "LOAD_LOCAL_W", "STORE_LOCAL", "STORE_LOCAL_W", "INC_LOCAL",
                 "INC_LOCAL_BY", "ADD_LOCAL_LOCAL", "SUB_LOCAL_LOCAL"} => I[2] < Fun.localCount
    /\ I[1] \in {"ADD_LOCAL_LOCAL", "SUB_LOCAL_LOCAL", "ADD_GLOBAL_LOCAL"} => I[3] < Fun.localCount
    /\ I[1] = "LOOP_LESS_EQ_LOCAL" => {I[3], I[4]} \subseteq 0..(Fun.localCount - 1)
    /\ Frame.left >= 0 => Len(stack) >= Frame.base + Fun.localCount

\* An open upvalue aliases a local of a frame that is still there, and no slot
\* has two (captureUpvalue and closeUpvalues over every way out of a scope).
OpenUpvaluesLive ==
  status = <<"run">> =>
    \A i \in 1..Len(upvalues) : upvalues[i].loc # 0 =>
      /\ \E k \in 1..Len(frames) :
           upvalues[i].loc \in (frames[k].base + 1)..(frames[k].base + code.funs[frames[k].fn].localCount)
      /\ \A j \in 1..Len(upvalues) : upvalues[j].loc = upvalues[i].loc => i = j

\* A try block belongs to a live frame, above its locals and inside the stack (in
\* frames that kept their operands), and none is left when the program ends (TRY_START / TRY_END on every path).
TriesSound ==
  /\ status = <<"run">> =>
       \A i \in 1..Len(tries) :
         /\ tries[i].frame \in 1..Len(frames)
         /\ frames[tries[i].frame].left >= 0 =>
              tries[i].top \in (frames[tries[i].frame].base
                               + code.funs[frames[tries[i].frame].fn].localCount)..Len(stack)
         /\ i > 1 => tries[i - 1].frame <= tries[i].frame
  /\ status = <<"done">> => tries = <<>>

\* When the main function ends, its result and what caught exceptions left behind
\* are all that stands above its locals: every statement, on every other path,
\* leaves the operand stack as it found it.
StackBalanced ==
  status = <<"done">> => Len(stack) = code.funs[Len(code.funs)].localCount + 1 + Frame.left

\* The operand stack is what the compiler planned for: locals keep to their
\* reserved slots, and statements leave above them what they found.
StackAsPlanned == LocalsReserved /\ StackBalanced

\* Every program of the families ends (each of their loops and recursions does).
Terminates == <>(status # <<"run">>)
=============================================================================
