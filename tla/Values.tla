------------------------------- MODULE Values -------------------------------
(***************************************************************************)
(* Values of EZ and the operators of the virtual machine on them           *)
(* (runtime/Value.h, the doXXX helpers of BytecodeVMExecute.cpp).          *)
(*                                                                         *)
(* A value is a tuple tagged with its type.  A string is a sequence of     *)
(* atoms: characters, and one atom for the text of a value that was        *)
(* converted.  A float is the exact rational it stands for (rounding is    *)
(* left out).  Arrays, tuples and dictionaries are references into a heap, *)
(* a sequence of [t, e]: e is the elements, or the <<key, value>> pairs of *)
(* a dictionary in one of the orders its hash table may have.              *)
(***************************************************************************)
EXTENDS Integers, Sequences, SequencesExt

\* The width of an EZ integer (64 in the code).
CONSTANT IntBits
ASSUME IntBitsAssumption == IntBits \in 4..12

Nil     == <<"nil">>
BoolV(b) == <<"bool", b>>
IntV(n)  == <<"int", n>>
StrV(s)  == <<"str", s>>
Chr(a)  == StrV(<< <<"c", a>> >>)
\* An exception instance, of one of the built-in exception classes.
Exc(c)  == <<"exc", c>>

Is(v, t)    == v[1] = t
IsNumber(v) == v[1] \in {"int", "float"}

isTruthy(v) == ~ (Is(v, "nil") \/ (Is(v, "bool") /\ ~v[2]))

(***************************************************************************)
(* Numbers: wrapping integers, exact rationals.                            *)
(***************************************************************************)
Wrap(n) == ((n + 2^(IntBits - 1)) % 2^IntBits) - 2^(IntBits - 1)
MinInt  == 0 - 2^(IntBits - 1)
wrapAdd(a, b) == Wrap(a + b)
wrapSub(a, b) == Wrap(a - b)
wrapMul(a, b) == Wrap(a * b)
wrapNeg(a)    == Wrap(0 - a)
divIsUB(a, b)    == b = 0 \/ (a = MinInt /\ b = 0 - 1)
Abs(n)           == IF n < 0 THEN 0 - n ELSE n
divIsExact(a, b) == Abs(a) % Abs(b) = 0
\* C++ division and remainder truncate towards zero.
Quot(a, b) == LET q == Abs(a) \div Abs(b) IN IF (a < 0) = (b < 0) THEN q ELSE 0 - q
Rem(a, b)  == a - b * Quot(a, b)

Num(v) == IF Is(v, "int") THEN <<v[2], 1>> ELSE <<v[2], v[3]>>
Float(n, d) ==
  LET m == Abs(n)  e == Abs(d)
      g == CHOOSE g \in 1..(IF m < e THEN e ELSE m) :
             /\ m % g = 0 /\ e % g = 0
             /\ \A f \in (g + 1)..(IF m < e THEN e ELSE m) : m % f # 0 \/ e % f # 0
      s == IF d < 0 THEN 0 - 1 ELSE 1
  IN <<"float", (s * n) \div g, e \div g>>
NumLess(a, b)  == LET x == Num(a) y == Num(b) IN x[1] * y[2] < y[1] * x[2]
NumEqual(a, b) == LET x == Num(a) y == Num(b) IN x[1] * y[2] = y[1] * x[2]

(***************************************************************************)
(* Conversion to text: a string is itself, every other value one atom (an  *)
(* integral float prints as the integer does).                             *)
(***************************************************************************)
Text(v) == IF Is(v, "str") THEN v[2]
           ELSE IF Is(v, "float") /\ v[3] = 1 THEN << <<"int", v[2]>> >>
           ELSE << v >>

(***************************************************************************)
(* Results of helpers: a value and the heap, or the exception raised.      *)
(***************************************************************************)
Ok(h, v)     == [ok |-> TRUE, v |-> v, h |-> h]
\* runtimeError() raises its message as a string, throwException() an instance.
RunErr(h, m) == [ok |-> FALSE, v |-> StrV(<< <<"c", m>> >>), h |-> h]
Raise(h, c)  == [ok |-> FALSE, v |-> Exc(c), h |-> h]

Alloc(h, t, e) == Ok(Append(h, [t |-> t, e |-> e]), <<t, Len(h) + 1>>)
Elems(h, v)    == h[v[2]].e
Keys(h, v)     == [i \in 1..Len(Elems(h, v)) |-> Elems(h, v)[i][1]]
HasKey(h, v, k) == \E i \in 1..Len(Elems(h, v)) : Elems(h, v)[i][1] = k
Lookup(h, v, k) ==
  IF HasKey(h, v, k)
  THEN Elems(h, v)[CHOOSE i \in 1..Len(Elems(h, v)) : Elems(h, v)[i][1] = k][2]
  ELSE Nil
DictSet(h, v, k, x) ==
  [h EXCEPT ![v[2]].e =
     IF HasKey(h, v, k)
     THEN [i \in 1..Len(@) |-> IF @[i][1] = k THEN <<k, x>> ELSE @[i]]
     ELSE Append(@, <<k, x>>)]

RECURSIVE equals(_, _, _)
equals(h, a, b) ==
  IF IsNumber(a) /\ IsNumber(b) THEN NumEqual(a, b)
  ELSE IF a[1] # b[1] THEN FALSE
  ELSE IF a[1] \in {"arr", "tup"} /\ a # b
       THEN LET x == Elems(h, a)  y == Elems(h, b) IN
            /\ Len(x) = Len(y)
            /\ \A i \in 1..Len(x) : equals(h, x[i], y[i])
  ELSE a = b

(***************************************************************************)
(* Binary operators: doAdd ... doGreaterEq, and the integer fast paths of  *)
(* run() that agree with them.                                             *)
(***************************************************************************)
Repeated(s, n) == FlattenSeq([i \in 1..n |-> s])
RatOp(op, a, b) ==
  LET x == Num(a)  y == Num(b) IN
  CASE op = "ADD" -> Float(x[1] * y[2] + y[1] * x[2], x[2] * y[2])
    [] op = "SUB" -> Float(x[1] * y[2] - y[1] * x[2], x[2] * y[2])
    [] op = "MUL" -> Float(x[1] * y[1], x[2] * y[2])
    [] op = "DIV" -> Float(x[1] * y[2], x[2] * y[1])
BothInt(a, b) == Is(a, "int") /\ Is(b, "int")
BothNum(a, b) == IsNumber(a) /\ IsNumber(b)

doAdd(h, a, b) ==
  IF BothInt(a, b) THEN Ok(h, IntV(wrapAdd(a[2], b[2])))
  ELSE IF BothNum(a, b) THEN Ok(h, RatOp("ADD", a, b))
  ELSE IF Is(a, "str") \/ Is(b, "str") THEN Ok(h, StrV(Text(a) \o Text(b)))
  ELSE IF Is(a, "arr") /\ Is(b, "arr") THEN Alloc(h, "arr", Elems(h, a) \o Elems(h, b))
  ELSE RunErr(h, "operands")

doSubtract(h, a, b) ==
  IF BothInt(a, b) THEN Ok(h, IntV(wrapSub(a[2], b[2])))
  ELSE IF BothNum(a, b) THEN Ok(h, RatOp("SUB", a, b)) ELSE RunErr(h, "operands")

doMultiply(h, a, b) ==
  IF BothInt(a, b) THEN Ok(h, IntV(wrapMul(a[2], b[2])))
  ELSE IF BothNum(a, b) THEN Ok(h, RatOp("MUL", a, b))
  ELSE IF Is(a, "str") /\ Is(b, "int") /\ b[2] >= 0
       THEN Ok(h, StrV(Repeated(a[2], b[2])))
  ELSE RunErr(h, "operands")

doDivide(h, a, b) ==
  IF IsNumber(b) /\ b[2] = 0 THEN Raise(h, "ZeroDivisionError")
  ELSE IF BothInt(a, b) /\ divIsExact(a[2], b[2]) THEN Ok(h, IntV(Quot(a[2], b[2])))
  ELSE IF BothNum(a, b) THEN Ok(h, RatOp("DIV", a, b)) ELSE RunErr(h, "operands")

doModulo(h, a, b) ==
  IF BothInt(a, b)
  THEN IF b[2] = 0 THEN Raise(h, "ZeroDivisionError") ELSE Ok(h, IntV(Rem(a[2], b[2])))
  ELSE RunErr(h, "operands")

RECURSIVE doPower(_, _, _)
doPower(h, a, b) ==
  IF BothInt(a, b) /\ b[2] >= 0
  THEN IF b[2] = 0 THEN Ok(h, IntV(1))
       ELSE Ok(h, IntV(wrapMul(a[2], doPower(h, a, IntV(b[2] - 1)).v[2])))
  ELSE RunErr(h, "operands")

doCompare(op, h, a, b) ==
  IF BothNum(a, b)
  THEN Ok(h, BoolV(CASE op = "LESS"       -> NumLess(a, b)
                    [] op = "LESS_EQ"    -> ~ NumLess(b, a)
                    [] op = "GREATER"    -> NumLess(b, a)
                    [] op = "GREATER_EQ" -> ~ NumLess(a, b)))
  ELSE RunErr(h, "operands")

\* `needle in haystack`
memberIn(h, a, b) ==
  IF b[1] \in {"arr", "tup"}
  THEN Ok(h, BoolV(\E i \in 1..Len(Elems(h, b)) : equals(h, Elems(h, b)[i], a)))
  ELSE IF Is(b, "dict") THEN Ok(h, BoolV(HasKey(h, b, Text(a))))
  ELSE IF Is(b, "str") /\ Is(a, "str")
       THEN Ok(h, BoolV(\E i \in 0..(Len(b[2]) - Len(a[2])) :
                          SubSeq(b[2], i + 1, i + Len(a[2])) = a[2]))
  ELSE Raise(h, "TypeError")

BinaryOps == {"ADD", "SUB", "MUL", "DIV", "MOD", "POW", "EQUAL", "NOT_EQUAL",
              "LESS", "LESS_EQ", "GREATER", "GREATER_EQ", "MEMBER_IN"}
BinaryOp(op, h, a, b) ==
  CASE op = "ADD" -> doAdd(h, a, b)
    [] op = "SUB" -> doSubtract(h, a, b)
    [] op = "MUL" -> doMultiply(h, a, b)
    [] op = "DIV" -> doDivide(h, a, b)
    [] op = "MOD" -> doModulo(h, a, b)
    [] op = "POW" -> doPower(h, a, b)
    [] op = "EQUAL" -> Ok(h, BoolV(equals(h, a, b)))
    [] op = "NOT_EQUAL" -> Ok(h, BoolV(~ equals(h, a, b)))
    [] op = "MEMBER_IN" -> memberIn(h, a, b)
    [] OTHER -> doCompare(op, h, a, b)

UnaryOp(op, h, a) ==
  IF op = "NOT" THEN Ok(h, BoolV(~ isTruthy(a)))
  ELSE IF Is(a, "int") THEN Ok(h, IntV(wrapNeg(a[2])))
  ELSE IF Is(a, "float") THEN Ok(h, <<"float", 0 - a[2], a[3]>>)
  ELSE RunErr(h, "operand")

doIndexGet(h, o, i) ==
  IF o[1] \in {"arr", "tup", "str"} /\ ~ IsNumber(i) THEN Raise(h, "TypeError")
  ELSE IF o[1] \in {"arr", "tup", "str"}
  THEN LET s == IF Is(o, "str") THEN o[2] ELSE Elems(h, o) IN
       IF i[2] < 0 \/ i[2] >= Len(s) THEN Raise(h, "IndexError")
       ELSE Ok(h, IF Is(o, "str") THEN StrV(<<s[i[2] + 1]>>) ELSE s[i[2] + 1])
  ELSE IF Is(o, "dict")
  THEN IF i[1] \in {"str", "int", "float", "bool"} THEN Ok(h, Lookup(h, o, Text(i)))
       ELSE Raise(h, "TypeError")
  ELSE Raise(h, "TypeError")

\* The assigned value is the result; an array grows to hold the index.
doIndexSet(h, o, i, x) ==
  IF Is(o, "arr")
  THEN IF ~ IsNumber(i) THEN Raise(h, "TypeError")
       ELSE IF i[2] < 0 THEN RunErr(h, "index")
       ELSE Ok([h EXCEPT ![o[2]].e =
                  [j \in 1..(IF i[2] < Len(@) THEN Len(@) ELSE i[2] + 1) |->
                     IF j = i[2] + 1 THEN x ELSE IF j <= Len(@) THEN @[j] ELSE Nil]], x)
  ELSE IF Is(o, "dict") /\ i[1] \in {"str", "int", "float", "bool"}
  THEN Ok(DictSet(h, o, Text(i), x), x)
  ELSE RunErr(h, "index")

\* IS_INSTANCE_OF; every exception class derives from Exception.
isInstanceOf(v, c) ==
  CASE c = "Number"     -> IsNumber(v)
    [] c = "Boolean"    -> Is(v, "bool")
    [] c = "Integer"    -> Is(v, "int")
    [] c = "Float"      -> Is(v, "float")
    [] c = "String"     -> Is(v, "str")
    [] c = "Array"      -> Is(v, "arr")
    [] c = "Dictionary" -> Is(v, "dict")
    [] c = "Function"   -> Is(v, "clo")
    [] c = "Nil"        -> Is(v, "nil")
    [] OTHER            -> v[1] \in {"exc", "class"} /\ (v[2] = c \/ c = "Exception")
=============================================================================
