------------------------------ MODULE WeedLang ------------------------------
(***************************************************************************)
(* The part of the language that compile-time evaluation deals with, as    *)
(* trees (AST.h), and its operations on values, which are numbers; texts,  *)
(* sequences of characters; and addresses of variables.                    *)
(***************************************************************************)
EXTENDS Integers, SequencesExt

CONSTANTS
    Words,  \* names and operators, and the empty word
    Depth   \* bound: nesting of expressions, and of statements

ASSUME WordsAssumption == {"", "="} \subseteq Words
ASSUME DepthAssumption == Depth \in Nat

FromInt(n)    == [kind |-> "int", n |-> n, s |-> <<>>]
FromString(s) == [kind |-> "text", n |-> 0, s |-> s]
Place(x)      == [kind |-> "place", n |-> 0, s |-> <<x>>]

\* The values that literals have.
Values == [kind : {"int", "text"}, n : Int, s : Seq(STRING)]

\* Expressions: kind, name or operator, literal, operands.
Node(k, x, v, a) == [k |-> k, x |-> x, v |-> v, a |-> a]
Num(n)        == Node("lit", "", FromInt(n), <<>>)
Str(s)        == Node("lit", "", FromString(s), <<>>)
Ref(x)        == Node("ref", x, FromInt(0), <<>>)
Bin(op, l, r) == Node("bin", op, FromInt(0), <<l, r>>)
Cast(e)       == Node("cast", "", FromInt(0), <<e>>)
ComptimeE(e)  == Node("comptime", "", FromInt(0), <<e>>)
Deref(e)      == Node("deref", "", FromInt(0), <<e>>)
AddressOf(e)  == Node("addr", "", FromInt(0), <<e>>)

\* Statements: kind, name, expression, and the blocks they contain.
Stmt(k, x, e, b, c) == [k |-> k, x |-> x, e |-> e, b |-> b, c |-> c]
Const(x, e)    == Stmt("const", x, e, <<>>, <<>>)
Var(x, e)      == Stmt("var", x, e, <<>>, <<>>)
Assign(t, e)   == Stmt("assign", "", Bin("=", t, e), <<>>, <<>>)
Write(e)       == Stmt("write", "", e, <<>>, <<>>)
Return(e)      == Stmt("return", "", e, <<>>, <<>>)
Block(b)       == Stmt("block", "", Num(0), b, <<>>)
If(e, b, c)    == Stmt("if", "", e, b, c)
While(e, b)    == Stmt("while", "", e, b, <<>>)
Func(p, b)     == Stmt("func", p, Num(0), b, <<>>)  \* defined, and called once
ComptimeS(s)   == Stmt("comptime", "", Num(0), <<s>>, <<>>)

\* The trees of a nesting up to Depth, with the comptime keyword in them or without:
\* marks is {"comptime"} or empty.
Arity(k) == IF k = "bin" THEN 2 ELSE IF k \in {"lit", "ref"} THEN 0 ELSE 1
ExpressionsOver(marks, operands) ==
    {e \in [k : {"lit", "ref", "bin", "cast", "deref", "addr"} \cup marks,
            x : Words, v : Values, a : Seq(operands)] : Len(e.a) = Arity(e.k)}
Expressions(marks) ==
    LET up[n \in 0..Depth] == IF n = 0 THEN {} ELSE ExpressionsOver(marks, up[n - 1])
    IN  up

\* What a statement of each kind has.
WellFormed(s) ==
    /\ s.k = "assign" => s.e.k = "bin"
    /\ s.k = "comptime" => Len(s.b) = 1
    /\ s.k \in {"block", "func", "comptime"} => s.e = Num(0)
    /\ s.k \in {"const", "var", "assign", "write", "return"} => s.b = <<>>
    /\ s.k # "if" => s.c = <<>>
StatementsOver(marks, expressions, parts) ==
    {s \in [k : {"const", "var", "assign", "write", "return", "block", "if", "while", "func"} \cup marks,
            x : Words, e : expressions, b : Seq(parts), c : Seq(parts)] : WellFormed(s)}
Programs(marks, expressions) ==
    LET up[n \in 0..Depth] == IF n = 0 THEN {} ELSE StatementsOver(marks, expressions, up[n - 1])
    IN  up

MarkedExpressions   == Expressions({"comptime"})[Depth]
UnmarkedExpressions == Expressions({})[Depth]
MarkedPrograms      == Programs({"comptime"}, MarkedExpressions)[Depth]
UnmarkedPrograms    == Programs({}, UnmarkedExpressions)[Depth]

TargetOf(s) == s.e.a[1]
ValueOf(s)  == s.e.a[2]

Magnitude(n) == IF n < 0 THEN -n ELSE n

Bit(b) == IF b THEN 1 ELSE 0

\* Division rounds towards zero.
Quotient(l, r) ==
    LET q == Magnitude(l) \div Magnitude(r) IN IF (l < 0) = (r < 0) THEN q ELSE -q

\* The value of an operation on numbers, as a set: division by zero has none.
Compute(op, l, r) ==
    CASE op = "+"  -> {l + r}
      [] op = "-"  -> {l - r}
      [] op = "*"  -> {l * r}
      [] op = "/"  -> IF r = 0 THEN {} ELSE {Quotient(l, r)}
      [] op = "<"  -> {Bit(l < r)}
      [] op = ">"  -> {Bit(l > r)}
      [] op = "<=" -> {Bit(l <= r)}
      [] op = ">=" -> {Bit(l >= r)}
      [] op = "==" -> {Bit(l = r)}
      [] op = "!=" -> {Bit(l # r)}
      [] op = "&&" -> {Bit(l # 0 /\ r # 0)}
      [] op = "||" -> {Bit(l # 0 \/ r # 0)}
      [] OTHER -> {}

\* Two texts can be joined, and a text compared with anything.
Apply(op, l, r) ==
    CASE {l.kind, r.kind} = {"int"} -> {FromInt(v) : v \in Compute(op, l.n, r.n)}
      [] op = "+" /\ {l.kind, r.kind} = {"text"} -> {FromString(l.s \o r.s)}
      [] op \in {"==", "!="} /\ "text" \in {l.kind, r.kind} -> {FromInt(Bit((l = r) = (op = "==")))}
      [] OTHER -> {}

Truthy(v) == IF v.kind = "int" THEN v.n # 0 ELSE v.s # <<>>

Bind(f, x, v) == [y \in DOMAIN f \cup {x} |-> IF y = x THEN v ELSE f[y]]
=============================================================================
