----------------------------- MODULE MCCodegen -----------------------------
(* Programs for Execution: a few operands under every kind of expression node, *)
(* two and three levels deep, and statements of every kind.                  *)
EXTENDS Execution

X == Var("x") C == Var("c") U == Var("u") P == Var("p") A == Var("a") S == Var("s") Q == Var("q")
Minus(n) == Bin("-", Num(0), Num(n))
Out(e)     == CallOf("out", <<e>>)
Out2(d, e) == CallOf("out2", <<d, e>>)
Inc(e)     == Assign(e, Bin("+", e, Num(1)))
Stmts(S_)  == {<<s>> : s \in S_}

\* Scalars: the narrow ones hold values whose sign and width matter.
Scalars1 == <<Decl(I64, "x", <<Num(3)>>), Decl(I8, "c", <<Minus(2)>>), Decl(U8, "u", <<C>>)>>
Ops   == {"+", "-", "*", "/", "==", "!=", "<", ">", "<=", ">=", "&&", "||"}
Ops3  == {"-", "/", "<", "&&", "||"}

Binaries == {Bin(op, l, r) : op \in Ops, l \in {Num(1), C, U}, r \in {Num(0), X, C}}
Nested   == {Bin(o, Bin(p, l, C), X) : o \in Ops3, p \in Ops3, l \in {Num(0), U}}
            \cup {Bin(o, X, Bin(p, C, r)) : o \in Ops3, p \in Ops3, r \in {Num(1), U}}
Casts    == {CastTo(T(t), e) : t \in Scalars, e \in {Bin("*", X, Num(71)), C}}

\* Pointers, arrays, structs.
Point == Struct("pt", <<Field(I8, "m", 0), Field(I16, "n", 2), Field(I32, "k", 4)>>)
PtT   == T("pt")
Memory == <<Point, Decl(ArrayOf(I16, 3), "a", <<>>), Decl(PointerTo(I16), "p", <<A>>), Decl(I8, "c", <<Num(1)>>),
            Decl(PtT, "s", <<>>), Decl(PointerTo(PtT), "q", <<AddrOf(S)>>)>>
Places == {C, Deref(P), Subscript(A, C), Subscript(P, Num(2)), Deref(Bin("+", C, P)),
           Subscript(Bin("-", Bin("+", P, Num(2)), C), Num(0)), Dot(S, "m"), Dot(Q, "n"), Dot(AddrOf(S), "m")}
Values == {Num(5), Bin("-", C, Num(7)), Subscript(P, C), Inc(C)}
Stores == {<<Assign(l, v), Out(l), Out2(Subscript(A, Num(1)), Dot(S, "n")), Out(C)>> : l \in Places, v \in Values}
Compares == {<<Out(Bin(op, l, r))>> : op \in {"==", "<", "&&"}, l \in {P, Q}, r \in {Num(0), P, Bin("+", A, Num(1))}}
Pointees == {<<Decl(PointerTo(PointerTo(I16)), "r", <<AddrOf(P)>>), Assign(Deref(Deref(Var("r"))), Num(4)),
               Assign(Deref(Var("r")), Bin("+", P, Num(1))), Assign(Deref(P), Num(2)),
               Out2(Subscript(A, Num(0)), Subscript(A, Num(1)))>>,
             <<Decl(I64, "i", <<Num(0)>>), Assign(Subscript(A, Assign(Var("i"), Num(1))), Out(Num(7))), Out(Subscript(A, Var("i")))>>,
             <<Decl(PointerTo(I8), "t", <<Str(<<2, 1>>)>>), Out2(Subscript(Var("t"), Num(1)), Subscript(Str(<<3>>), Num(0))),
               Out(Subscript(Var("t"), Num(2)))>>,
             <<Out(Dot(S, "z"))>>, <<Assign(A, P)>>, <<Assign(Num(1), C)>>, <<Dot(S, "m"), Out(Dot(S, "m"))>>,
             <<Comptime(C), Dot(Q, "n"), Out(C)>>, <<Assign(Deref(P), Assign(C, Num(1))), Out(Subscript(C, Num(0)))>>,
             <<Struct("odd", <<Field(I8, "m", 0)>>), Decl(I64, "i", <<Num(9)>>), Decl(T("odd"), "o", <<>>), Out(Var("i"))>>,
             <<Decl(ArrayOf(PtT, 2), "b", <<>>), Assign(Dot(Bin("+", Var("b"), Num(1)), "n"), Num(1)), Out(Dot(S, "m"))>>}

\* Calls.
Sub == Func("sub", I64, <<Param(I64, "x"), Param(I8, "c")>>, Block(<<Return(<<Bin("-", X, C)>>)>>))
Six == Func("six", I64, [i \in 1..6 |-> Param(IF i % 2 = 0 THEN I8 ELSE I64, <<"x", "c", "u", "p", "a", "s">>[i])],
            Block(<<Decl(I16, "q", <<Bin("*", X, C)>>), Out2(Bin("-", U, P), Bin("-", A, S)), Bin("+", Q, S)>>))
Fact == Func("fact", I64, <<Param(I64, "x")>>,
             Block(<<If(Bin("<", X, Num(2)), Return(<<Num(1)>>), <<>>),
                     Return(<<Bin("*", X, CallOf("fact", <<Bin("-", X, Num(1))>>))>>)>>))
Swap == Func("swap", VoidT, <<Param(PointerTo(I8), "p"), Param(PointerTo(I8), "q")>>,
             Block(<<Decl(I8, "c", <<Deref(P)>>), Assign(Deref(P), Deref(Q)), Assign(Deref(Q), C)>>))
SubOf(a, b) == CallOf("sub", <<a, b>>)
CallsIn == {SubOf(X, C), Bin("-", Num(9), SubOf(C, X)), SubOf(SubOf(Num(1), X), SubOf(C, Num(1))),
            SubOf(Out(Num(1)), Out(Num(2))), Bin("-", Out(X), SubOf(Num(4), Out(C))),
            CallOf("six", <<X, Num(1), Num(2), C, SubOf(X, C), Out(X)>>),
            SubOf(Num(1), CallOf("six", <<C, C, X, X, Num(1), Num(2)>>)),
            CallOf("fact", <<X>>), Bin("&&", SubOf(X, X), Out(X)), Bin("||", Bin("<", C, X), Out(X)),
            CallOf("out2", <<Out2(X, C), SubOf(Num(0), C)>>), CallOf("sub", <<X>>), CallOf("gone", <<X>>)}
Called == {<<Sub, Six, Fact>> \o SubSeq(Scalars1, 1, 2) \o <<Out(e)>> : e \in CallsIn}
          \cup {<<Swap>> \o SubSeq(Scalars1, 2, 3) \o <<CallOf("swap", <<AddrOf(C), AddrOf(U)>>), Out2(C, U)>>}
          \cup {<<Func("main", I8, <<>>, Block(b))>> :
                   b \in {<<Num(1)>>, <<Return(<<Num(300)>>)>>, <<Return(<<>>)>>, <<>>,
                          <<Func("in", I64, <<>>, Block(<<Return(<<Num(2)>>)>>)), Out(Num(1))>>}}
          \cup {<<Sub, Return(<<SubOf(Num(7), Num(1))>>), Out(Num(0))>>}

\* Functions whose labels are not the only ones of their name, or nearly.
One(f) == Func(f, I64, <<>>, Block(<<Return(<<Num(1)>>)>>))
Clashing ==
    {<<One("f"), One("f_ret_0"), Out(CallOf("f", <<>>))>>, <<One("f"), One("f_ret"), Out(CallOf("f_ret", <<>>))>>,
     <<One("f"), One("f"), Out(CallOf("f", <<>>))>>, <<One("_toplevel"), Out(Num(1))>>}

\* Statements.
Control ==
    {<<If(c, Out(Num(1)), <<>>), Out(Num(3))>> : c \in {X, Num(0)}}
    \cup {<<If(c, Block(<<Out(Num(1)), Assign(X, Num(0))>>), <<Block(<<Out(Num(2))>>)>>), Out(X)>> : c \in {C, Bin("<", X, C)}}
    \cup {<<While(Bin("<", C, Num(1)), Inc(C)), Out(C)>>,
          <<While(Bin("<", C, X), Block(<<Decl(I64, "i", <<Bin("*", C, C)>>), If(Bin("==", C, Num(1)), Out(C), <<Out(Var("i"))>>), Inc(C)>>)), Out(X)>>,
          <<While(Bin("<", C, Num(0)), Block(<<Decl(I64, "j", <<Num(0)>>), While(Bin("<", Var("j"), Num(2)), Block(<<Out2(C, Var("j")), Inc(Var("j"))>>)), Inc(C)>>))>>,
          <<While(Num(1), Block(<<Inc(X), If(Bin(">", X, Num(4)), Return(<<X>>), <<>>)>>)), Out(X)>>,
          <<While(Num(1), Block(<<>>))>>,
          <<Constant(I16, "k", Bin("*", X, Num(7))), Asm(<<MovI("rbx", 1)>>), Out(Var("k"))>>,
          <<Block(<<Decl(I64, "i", <<X>>), Inc(Var("i")), Out(Var("i"))>>), Block(<<Decl(I8, "i", <<>>), Out(Var("i"))>>)>>,
          <<Block(<<Decl(I64, "x", <<Num(1)>>), Inc(X)>>), Out(X)>>,
          <<Decl(I64, "i", <<Var("i")>>), Out(Num(1))>>, <<Out(Var("gone"))>>, <<AddrOf(Var("gone")), Out(Num(1))>>,
          <<Comptime(Block(<<Out(X)>>)), X>>,
          <<Out(Assign(X, Assign(U, Num(9))))>>, <<Out(Bin("||", X, Num(1)))>>}

ProgramsV ==
    {Scalars1 \o <<Out(e)>> : e \in Binaries \cup Nested \cup Casts}
    \cup {Memory \o b : b \in Stores \cup Compares \cup Pointees}
    \cup Called \cup Clashing \cup {Scalars1 \o b : b \in Control}
\* The trees of the programs, with all that they contain.
RECURSIVE Within(_)
Within(e) == {e} \cup UNION {Within(e.a[i]) : i \in DOMAIN e.a}
NodesV == UNION {Within(s) : s \in UNION {ToSet(p) : p \in ProgramsV}}
ExternalsV == [out |-> 1, out2 |-> 2]
=============================================================================
