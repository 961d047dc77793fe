----------------------------- MODULE MCComptime -----------------------------
(***************************************************************************)
(* A small instance of Lowering for TLC: programs of a few statements over *)
(* names k and n, mostly of compile time, and v, of run time, in every     *)
(* order, with what the pass gets wrong among them.                        *)
(***************************************************************************)
EXTENDS Lowering

K == Ref("k")
N == Ref("n")
V == Ref("v")
A == Str(<<"a">>)
Input == Ref("in")

\* Any string.
MCWords == STRING

MCStatements ==
    { Const("k", Num(3)),
      Const("k", Bin("+", N, Num(1))),
      Const("k", Input),
      Var("v", Bin("+", K, Input)),
      Var("k", Num(2)),
      Assign(V, Bin("&&", N, Input)),
      Assign(N, Num(0)),
      Write(Bin("+", K, N)),
      Write(Bin("&&", N, Bin("/", V, Num(0)))),
      Write(ComptimeE(Bin("/", Num(6), N))),
      Const("k", A),
      Const("n", Bin("+", K, Str(<<"b">>))),
      Var("v", A),
      Write(V),
      Write(Bin("==", V, A)),
      Write(Bin("!=", N, Bin("+", A, Str(<<"b">>)))),
      ComptimeS(Const("n", Bin("-", K, Num(4)))),
      Var("v", AddressOf(Input)),
      Var("v", AddressOf(K)),
      Assign(Deref(V), Bin("||", N, Input)),
      If(Input, <<Write(Deref(V)), Return(N)>>, <<>>),
      Write(Cast(Bin("+", K, Num(1)))),
      Write(Bin("<", Cast(Bin("+", V, K)), Cast(Num(2)))),
      ComptimeS(Block(<<Const("n", Bin("+", K, Num(1)))>>)),
      ComptimeS(Block(<<Var("n", Num(0)), Assign(N, Num(1))>>)),
      ComptimeS(Block(<<If(Num(0), <<Const("n", Num(4))>>, <<>>)>>)),
      ComptimeS(Var("n", Num(0))),
      ComptimeS(Assign(N, Bin("+", N, Num(1)))),
      ComptimeS(If(Bin("<", N, K), <<Const("n", Num(5))>>, <<ComptimeS(Assign(N, Num(0)))>>)),
      ComptimeS(While(Bin("<", N, K), <<ComptimeS(Assign(N, Bin("+", N, Num(1))))>>)),
      ComptimeS(Write(N)),
      Block(<<Const("k", Num(1)), Write(K)>>),
      If(Input, <<Write(N)>>, <<Const("k", Num(0))>>),
      While(Bin("<", V, K), <<Assign(V, Bin("+", V, Num(1)))>>),
      Func("v", <<Const("k", Num(1)), ComptimeS(Const("n", Num(2))), Return(Bin("+", V, N)), Write(V)>>),
      Func("k", <<Write(K)>>) }

\* Only declarations and assignments under the comptime keyword.
AssignStatements ==
    {ComptimeS(Var("n", Num(0))), ComptimeS(Assign(N, Num(1))),
     ComptimeS(Block(<<Assign(N, Num(2))>>)), ComptimeS(Block(<<Assign(K, Num(2))>>)),
     ComptimeS(Var("k", Bin("+", Num(1), Num(1)))), ComptimeS(Assign(K, Bin("<", Num(1), Num(2))))}
=============================================================================
