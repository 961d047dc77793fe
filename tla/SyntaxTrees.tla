---------------------------- MODULE SyntaxTrees ----------------------------
(***************************************************************************)
(* Programs as the code generator gets them (AST.h).                       *)
(***************************************************************************)
EXTENDS WeedTypes, Sequences, TLC

T(b)         == [base |-> b, ptr |-> 0, arr |-> 0]
PointerTo(t) == [t EXCEPT !.ptr = @ + 1]
ArrayOf(t, n) == [t EXCEPT !.arr = n]
VoidT == T("void")
I8 == T("i8")   U8 == T("u8")   I16 == T("i16")
I32 == T("i32") I64 == T("i64")
Unsigned == {"u8", "u16", "u32", "u64"}

\* A node: kind, name or operator, number, type, further parts, operands.
Node(k, x, n, t, p, a) == [k |-> k, x |-> x, n |-> n, t |-> t, p |-> p, a |-> a]
Tree(k, x, a)  == Node(k, x, 0, VoidT, <<>>, a)
Num(n)         == Node("num", "", n, VoidT, <<>>, <<>>)
Var(x)         == Tree("var", x, <<>>)
Bin(op, l, r)  == Tree("bin", op, <<l, r>>)
Assign(l, r)   == Tree("assign", "", <<l, r>>)
AddrOf(e)      == Tree("addr", "", <<e>>)
Deref(e)       == Tree("deref", "", <<e>>)
CastTo(t, e)   == Node("cast", "", 0, t, <<>>, <<e>>)
CallOf(f, as)  == Tree("call", f, as)
Subscript(e, i)      == Tree("index", "", <<e, i>>)
Dot(e, m)      == Tree("member", m, <<e>>)
Str(bytes)     == Node("str", "", 0, VoidT, [i \in DOMAIN bytes |-> [byte |-> bytes[i]]], <<>>)
BytesOf(e)     == [i \in DOMAIN e.p |-> e.p[i].byte]       \* of a string literal
Decl(t, x, is) == Node("vardecl", x, 0, t, <<>>, is)       \* with or without initialiser
Constant(t, x, e) == Node("const", x, 0, t, <<>>, <<e>>)
Block(ss)      == Tree("block", "", ss)
If(c, s, else) == Tree("if", "", <<c, s>> \o else)
While(c, s)    == Tree("while", "", <<c, s>>)
Return(es)     == Tree("return", "", es)
Param(t, x)    == [type |-> t, name |-> x]
Func(f, t, ps, b) == Node("func", f, 0, t, ps, <<b>>)
Field(t, x, off) == [type |-> t, name |-> x, offset |-> off]
Struct(s, fs)  == Node("struct", s, 0, VoidT, fs, <<>>)
Asm(code)      == Node("asm", "", 0, VoidT, code, <<>>)
Comptime(s)    == Tree("comptime", "", <<s>>)

Bind(f, x, v) == (x :> v) @@ f
=============================================================================
