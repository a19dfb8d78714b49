------------------------------- MODULE Syntax -------------------------------
(***************************************************************************)
(* The abstract syntax of EZ (src/ast): one constructor per node, a record *)
(* whose field "k" is the alternative of the Expr / Stmt variant and whose *)
(* other fields keep the names of the C++ members.  Positions, type hints  *)
(* and type parameters are left out: no code is generated from them.       *)
(* Absent children (null pointers) are Null; absent names are "".          *)
(***************************************************************************)
EXTENDS Naturals, Sequences

Null == [k |-> "null"]

(***************************************************************************)
(* Expressions                                                             *)
(***************************************************************************)
Lit(v)               == [k |-> "lit", value |-> v]
Id(n)                == [k |-> "id", name |-> n]
Bin(l, op, r)        == [k |-> "bin", left |-> l, op |-> op, right |-> r]
Un(op, e)            == [k |-> "un", op |-> op, operand |-> e]
\* argNames[i] = "" for a positional argument
CallKw(f, args, ns)  == [k |-> "call", callee |-> f, arguments |-> args,
                         argNames |-> ns]
Call(f, args)        == CallKw(f, args, [i \in 1..Len(args) |-> ""])
Index(o, i)          == [k |-> "index", object |-> o, index |-> i]
Array(es)            == [k |-> "array", elements |-> es]
Tuple(es)            == [k |-> "tuple", elements |-> es]
Assign(n, e)         == [k |-> "assign", name |-> n, value |-> e, index |-> Null]
AssignIdx(o, i, e, op) == [k |-> "assign", name |-> "", object |-> o, index |-> i,
                           value |-> e, compoundOp |-> op]
Logical(l, op, r)    == [k |-> "logical", left |-> l, op |-> op, right |-> r]
Lambda(ps, body)     == [k |-> "lambda", params |-> ps, body |-> body]
PropertyAccess(o, n) == [k |-> "prop", object |-> o, property |-> n]
Dictionary(pairs)    == [k |-> "dict", pairs |-> pairs]
Spread(e)            == [k |-> "spread", expression |-> e]
Ternary(c, t, e)     == [k |-> "ternary", condition |-> c, thenBranch |-> t,
                         elseBranch |-> e]
DestructureAssign(ts, e) == [k |-> "destructure", targets |-> ts, value |-> e]

(***************************************************************************)
(* Statements                                                              *)
(***************************************************************************)
ExprS(e)             == [k |-> "expr", expr |-> e]
Out(e)               == [k |-> "out", expr |-> e]
VarDecl(n, e)        == [k |-> "var", name |-> n, initializer |-> e]
Block(ss)            == [k |-> "block", statements |-> ss]
When(c, t, e)        == [k |-> "when", condition |-> c, thenBranch |-> t,
                         elseBranch |-> e]
While(c, b)          == [k |-> "while", condition |-> c, body |-> b]
Repeat(v, s, e, st, b) == [k |-> "repeat", variable |-> v, start |-> s, end |-> e,
                           step |-> st, body |-> b]
Get(v, vv, e, b)     == [k |-> "get", variable |-> v, valueVariable |-> vv,
                         iterable |-> e, body |-> b]
\* arms: <<pattern, body>>, the pattern Null for `other`
Match(e, arms)       == [k |-> "match", subject |-> e, arms |-> arms]
\* Everything a task may carry; Task is the plain one.
TaskFull(n, ps, ds, body, var, req, ens, decs) ==
  [k |-> "task", name |-> n, params |-> ps, defaultValues |-> ds, body |-> body,
   isVariadic |-> var, requiresClauses |-> req, ensuresClauses |-> ens,
   userDecorators |-> decs]
Task(n, ps, body)    == TaskFull(n, ps, [i \in 1..Len(ps) |-> Null], body,
                                 FALSE, <<>>, <<>>, <<>>)
Give(e)              == [k |-> "give", value |-> e]
Escape               == [k |-> "escape"]
Skip                 == [k |-> "skip"]
Static(n, e)         == [k |-> "static", name |-> n, initializer |-> e]
\* path: the module named; file: the path as written ends in ".ez"
Use(path, file, a)   == [k |-> "use", path |-> path, file |-> file, alias |-> a]
\* catches: [typeName, varName, body]
Catch(t, v, b)       == [typeName |-> t, varName |-> v, body |-> b]
Try(b, cs, f)        == [k |-> "try", tryBlock |-> b, catchBlocks |-> cs,
                         finallyBlock |-> f]
Throw(e)             == [k |-> "throw", expr |-> e]
Export(s)            == [k |-> "export", inner |-> s]
=============================================================================
