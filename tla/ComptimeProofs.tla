--------------------------- MODULE ComptimeProofs ---------------------------
(***************************************************************************)
(* Proofs about module Comptime, for every set of statements of any        *)
(* nesting: what compile-time evaluation leaves, and what it binds.        *)
(***************************************************************************)
EXTENDS Comptime, NumberLemmas

\* What holds at 0 and goes on from each number to the next holds up to n.
LEMMA FromZero ==
    ASSUME NEW n \in Nat, NEW T, 0 \in T, \A i \in 0..n - 1 : i \in T => i + 1 \in T
    PROVE  \A i \in 0..n : i \in T
<1> DEFINE B == {i \in 0..n : i \notin T}
<1>1. SUFFICES ASSUME B # {} PROVE FALSE  OBVIOUS
<1>2. PICK x \in B : \A y \in B : x <= y
  <2>1. B \subseteq Nat  OBVIOUS
  <2> HIDE DEF B
  <2>2. QED  BY <1>1, <2>1, LeastElement
<1>3. x \in 0..n /\ x # 0 /\ x \notin T  OBVIOUS
<1>4. x - 1 \in 0..n - 1 /\ x - 1 + 1 = x  BY <1>3
<1>5. x - 1 \in T
  <2>1. x - 1 \in 0..n /\ ~(x <= x - 1)  BY <1>3
  <2>2. x - 1 \notin B  BY <1>2, <2>1
  <2>3. QED  BY <2>1, <2>2
<1>6. QED  BY <1>3, <1>4, <1>5

-----------------------------------------------------------------------------
(* Trees *)

\* The trees of each nesting are made of those of the one before.
LEMMA ExpressionsAre ==
    ASSUME NEW marks
    PROVE  /\ Expressions(marks)[0] = {}
           /\ \A n \in 0..Depth - 1 :
                Expressions(marks)[n + 1] = ExpressionsOver(marks, Expressions(marks)[n])
<1> DEFINE Over(S) == ExpressionsOver(marks, S)
           At(f, n) == IF n = 0 THEN {} ELSE Over(f[n - 1])
           Is(f) == f = [n \in 0..Depth |-> At(f, n)]
           T == {n \in 0..Depth : \E f : \A m \in 0..n : f[m] = At(f, m)}
<1>1. Depth \in Nat  BY DepthAssumption
<1> HIDE DEF Over
<1>2. 0 \in T
  <2> DEFINE f == [m \in {0} |-> {}]
  <2>1. f[0] = At(f, 0)  OBVIOUS
  <2> HIDE DEF f
  <2>2. \A m \in 0..0 : f[m] = At(f, m)  BY <2>1
  <2>3. QED  BY <1>1, <2>2
<1>3. ASSUME NEW n \in 0..Depth - 1, n \in T  PROVE n + 1 \in T
  <2>1. PICK f : \A m \in 0..n : f[m] = At(f, m)  BY <1>3
  <2> DEFINE g == [m \in 0..n + 1 |-> At(f, m)]
  <2>2. \A m \in 0..n : g[m] = f[m]  BY <2>1
  <2>3. \A m \in 0..n + 1 : m # 0 => m - 1 \in 0..n  OBVIOUS
  <2>4. \A m \in 0..n + 1 : g[m] = At(g, m)
    <3>1. \A m \in 0..n + 1 : g[m] = At(f, m)  OBVIOUS
    <3> HIDE DEF g
    <3>2. \A m \in 0..n + 1 : At(f, m) = At(g, m)  BY <2>2, <2>3
    <3>3. QED  BY <3>1, <3>2
  <2> HIDE DEF g
  <2>5. n + 1 \in 0..Depth  BY <1>1
  <2>6. QED  BY <2>4, <2>5
<1>4. Depth \in T
  <2>1. Depth \in 0..Depth  BY <1>1
  <2> HIDE DEF T
  <2>2. QED  BY <1>1, <1>2, <1>3, <2>1, FromZero
<1>5. \E f : Is(f)
  <2>1. PICK f : \A m \in 0..Depth : f[m] = At(f, m)  BY <1>4
  <2> DEFINE g == [m \in 0..Depth |-> At(f, m)]
  <2>2. \A m \in 0..Depth : g[m] = f[m]  BY <2>1
  <2>3. \A m \in 0..Depth : m # 0 => m - 1 \in 0..Depth  BY <1>1
  <2>4. \A m \in 0..Depth : At(f, m) = At(g, m)
    <3> HIDE DEF g
    <3>1. QED  BY <2>2, <2>3
  <2>5. g = [m \in 0..Depth |-> At(g, m)]  BY <2>4
  <2> HIDE DEF g
  <2>6. QED  BY <2>5
<1>6. Expressions(marks) = CHOOSE f : Is(f)  BY DEF Expressions, Over
<1> DEFINE up == CHOOSE f : Is(f)
<1>7. Is(up)
  <2> HIDE DEF Is
  <2>1. QED  BY <1>5
<1> HIDE DEF up
<1>8. up[0] = {}  BY <1>1, <1>7
<1>9. ASSUME NEW n \in 0..Depth - 1  PROVE up[n + 1] = Over(up[n])
  <2>1. n + 1 \in 0..Depth /\ n + 1 # 0 /\ n + 1 - 1 = n  BY <1>1
  <2>2. up[n + 1] = At(up, n + 1)  BY <1>7, <2>1
  <2>3. QED  BY <2>1, <2>2
<1>10. QED  BY <1>6, <1>8, <1>9 DEF up, Over

LEMMA ProgramsAre ==
    ASSUME NEW marks, NEW exprs
    PROVE  /\ Programs(marks, exprs)[0] = {}
           /\ \A n \in 0..Depth - 1 :
                Programs(marks, exprs)[n + 1] = StatementsOver(marks, exprs, Programs(marks, exprs)[n])
<1> DEFINE Over(S) == StatementsOver(marks, exprs, S)
           At(f, n) == IF n = 0 THEN {} ELSE Over(f[n - 1])
           Is(f) == f = [n \in 0..Depth |-> At(f, n)]
           T == {n \in 0..Depth : \E f : \A m \in 0..n : f[m] = At(f, m)}
<1>1. Depth \in Nat  BY DepthAssumption
<1> HIDE DEF Over
<1>2. 0 \in T
  <2> DEFINE f == [m \in {0} |-> {}]
  <2>1. f[0] = At(f, 0)  OBVIOUS
  <2> HIDE DEF f
  <2>2. \A m \in 0..0 : f[m] = At(f, m)  BY <2>1
  <2>3. QED  BY <1>1, <2>2
<1>3. ASSUME NEW n \in 0..Depth - 1, n \in T  PROVE n + 1 \in T
  <2>1. PICK f : \A m \in 0..n : f[m] = At(f, m)  BY <1>3
  <2> DEFINE g == [m \in 0..n + 1 |-> At(f, m)]
  <2>2. \A m \in 0..n : g[m] = f[m]  BY <2>1
  <2>3. \A m \in 0..n + 1 : m # 0 => m - 1 \in 0..n  OBVIOUS
  <2>4. \A m \in 0..n + 1 : g[m] = At(g, m)
    <3>1. \A m \in 0..n + 1 : g[m] = At(f, m)  OBVIOUS
    <3> HIDE DEF g
    <3>2. \A m \in 0..n + 1 : At(f, m) = At(g, m)  BY <2>2, <2>3
    <3>3. QED  BY <3>1, <3>2
  <2> HIDE DEF g
  <2>5. n + 1 \in 0..Depth  BY <1>1
  <2>6. QED  BY <2>4, <2>5
<1>4. Depth \in T
  <2>1. Depth \in 0..Depth  BY <1>1
  <2> HIDE DEF T
  <2>2. QED  BY <1>1, <1>2, <1>3, <2>1, FromZero
<1>5. \E f : Is(f)
  <2>1. PICK f : \A m \in 0..Depth : f[m] = At(f, m)  BY <1>4
  <2> DEFINE g == [m \in 0..Depth |-> At(f, m)]
  <2>2. \A m \in 0..Depth : g[m] = f[m]  BY <2>1
  <2>3. \A m \in 0..Depth : m # 0 => m - 1 \in 0..Depth  BY <1>1
  <2>4. \A m \in 0..Depth : At(f, m) = At(g, m)
    <3> HIDE DEF g
    <3>1. QED  BY <2>2, <2>3
  <2>5. g = [m \in 0..Depth |-> At(g, m)]  BY <2>4
  <2> HIDE DEF g
  <2>6. QED  BY <2>5
<1>6. Programs(marks, exprs) = CHOOSE f : Is(f)  BY DEF Programs, Over
<1> DEFINE up == CHOOSE f : Is(f)
<1>7. Is(up)
  <2> HIDE DEF Is
  <2>1. QED  BY <1>5
<1> HIDE DEF up
<1>8. up[0] = {}  BY <1>1, <1>7
<1>9. ASSUME NEW n \in 0..Depth - 1  PROVE up[n + 1] = Over(up[n])
  <2>1. n + 1 \in 0..Depth /\ n + 1 # 0 /\ n + 1 - 1 = n  BY <1>1
  <2>2. up[n + 1] = At(up, n + 1)  BY <1>7, <2>1
  <2>3. QED  BY <2>1, <2>2
<1>10. QED  BY <1>6, <1>8, <1>9 DEF up, Over

LEMMA SeqMonotone ==
    ASSUME NEW A, NEW B, A \subseteq B
    PROVE  Seq(A) \subseteq Seq(B)
OBVIOUS

\* The trees of a nesting are among those of the next.
LEMMA ExpressionsGrow ==
    ASSUME NEW marks
    PROVE  \A n \in 0..Depth - 1 : Expressions(marks)[n] \subseteq Expressions(marks)[n + 1]
<1> DEFINE X(n) == Expressions(marks)[n]
           T == {n \in 0..Depth - 1 : X(n) \subseteq X(n + 1)}
<1>1. Depth \in Nat  BY DepthAssumption
<1>2. X(0) = {} /\ \A n \in 0..Depth - 1 : X(n + 1) = ExpressionsOver(marks, X(n))
  BY ExpressionsAre
<1> HIDE DEF X
<1>3. ASSUME NEW n \in 0..Depth - 1 - 1, n \in T  PROVE n + 1 \in T
  <2>1. X(n) \subseteq X(n + 1) /\ n + 1 \in 0..Depth - 1 /\ n \in 0..Depth - 1  BY <1>1, <1>3
  <2>2. Seq(X(n)) \subseteq Seq(X(n + 1))  BY <2>1, SeqMonotone
  <2>3. ExpressionsOver(marks, X(n)) \subseteq ExpressionsOver(marks, X(n + 1))
    BY <2>2 DEF ExpressionsOver
  <2>4. X(n + 1) \subseteq X(n + 1 + 1)  BY <1>2, <2>1, <2>3
  <2>5. QED  BY <2>1, <2>4
<1>4. ASSUME NEW n \in 0..Depth - 1  PROVE n \in T
  <2>1. Depth - 1 \in Nat /\ 0 \in 0..Depth - 1  BY <1>1
  <2>2. 0 \in T  BY <1>2, <2>1
  <2> HIDE DEF T
  <2>3. \A m \in 0..Depth - 1 : m \in T  BY <1>3, <2>1, <2>2, FromZero
  <2>4. QED  BY <2>3
<1>5. QED  BY <1>4 DEF X

LEMMA ProgramsGrow ==
    ASSUME NEW marks, NEW exprs
    PROVE  \A n \in 0..Depth - 1 : Programs(marks, exprs)[n] \subseteq Programs(marks, exprs)[n + 1]
<1> DEFINE X(n) == Programs(marks, exprs)[n]
           T == {n \in 0..Depth - 1 : X(n) \subseteq X(n + 1)}
<1>1. Depth \in Nat  BY DepthAssumption
<1>2. X(0) = {} /\ \A n \in 0..Depth - 1 : X(n + 1) = StatementsOver(marks, exprs, X(n))
  BY ProgramsAre
<1> HIDE DEF X
<1>3. ASSUME NEW n \in 0..Depth - 1 - 1, n \in T  PROVE n + 1 \in T
  <2>1. X(n) \subseteq X(n + 1) /\ n + 1 \in 0..Depth - 1 /\ n \in 0..Depth - 1  BY <1>1, <1>3
  <2>2. Seq(X(n)) \subseteq Seq(X(n + 1))  BY <2>1, SeqMonotone
  <2>3. StatementsOver(marks, exprs, X(n)) \subseteq StatementsOver(marks, exprs, X(n + 1))
    BY <2>2 DEF StatementsOver
  <2>4. X(n + 1) \subseteq X(n + 1 + 1)  BY <1>2, <2>1, <2>3
  <2>5. QED  BY <2>1, <2>4
<1>4. ASSUME NEW n \in 0..Depth - 1  PROVE n \in T
  <2>1. Depth - 1 \in Nat /\ 0 \in 0..Depth - 1  BY <1>1
  <2>2. 0 \in T  BY <1>2, <2>1
  <2> HIDE DEF T
  <2>3. \A m \in 0..Depth - 1 : m \in T  BY <1>3, <2>1, <2>2, FromZero
  <2>4. QED  BY <2>3
<1>5. QED  BY <1>4 DEF X

LEMMA Topmost ==
    ASSUME NEW X, \A n \in 0..Depth - 1 : X[n] \subseteq X[n + 1]
    PROVE  \A n \in 0..Depth : X[n] \subseteq X[Depth]
<1> DEFINE T == {d \in 0..Depth : X[Depth - d] \subseteq X[Depth]}
<1>1. Depth \in Nat  BY DepthAssumption
<1>2. 0 \in T  BY <1>1
<1>3. ASSUME NEW d \in 0..Depth - 1, d \in T  PROVE d + 1 \in T
  <2>1. Depth - (d + 1) \in 0..Depth - 1 /\ Depth - (d + 1) + 1 = Depth - d /\ d + 1 \in 0..Depth
    BY <1>1
  <2>2. X[Depth - (d + 1)] \subseteq X[Depth - d]  BY <2>1
  <2>3. QED  BY <1>3, <2>1, <2>2
<1>4. ASSUME NEW n \in 0..Depth  PROVE X[n] \subseteq X[Depth]
  <2>1. Depth - n \in 0..Depth /\ Depth - (Depth - n) = n  BY <1>1
  <2> HIDE DEF T
  <2>2. Depth - n \in T  BY <1>1, <1>2, <1>3, <2>1, FromZero
  <2>3. QED  BY <2>1, <2>2 DEF T
<1>5. QED  BY <1>4

\* The trees before and after the pass, of each nesting.
Exprs(n)      == Expressions({"comptime"})[n]
LeftExprs(n)  == Expressions({})[n]
Blocks(n)     == Programs({"comptime"}, MarkedExpressions)[n]
LeftBlocks(n) == Programs({}, UnmarkedExpressions)[n]

LEMMA TreesAre ==
    /\ Depth \in Nat
    /\ Exprs(0) = {} /\ LeftExprs(0) = {} /\ Blocks(0) = {} /\ LeftBlocks(0) = {}
    /\ \A n \in 0..Depth - 1 :
         /\ Exprs(n + 1) = ExpressionsOver({"comptime"}, Exprs(n))
         /\ LeftExprs(n + 1) = ExpressionsOver({}, LeftExprs(n))
         /\ Blocks(n + 1) = StatementsOver({"comptime"}, MarkedExpressions, Blocks(n))
         /\ LeftBlocks(n + 1) = StatementsOver({}, UnmarkedExpressions, LeftBlocks(n))
BY DepthAssumption, ExpressionsAre, ProgramsAre DEF Exprs, LeftExprs, Blocks, LeftBlocks

LEMMA TreesGrow ==
    /\ \A n \in 0..Depth - 1 :
         /\ Exprs(n) \subseteq Exprs(n + 1) /\ LeftExprs(n) \subseteq LeftExprs(n + 1)
         /\ Blocks(n) \subseteq Blocks(n + 1) /\ LeftBlocks(n) \subseteq LeftBlocks(n + 1)
    /\ \A n \in 0..Depth :
         /\ Exprs(n) \subseteq MarkedExpressions /\ LeftExprs(n) \subseteq UnmarkedExpressions
         /\ Blocks(n) \subseteq MarkedPrograms /\ LeftBlocks(n) \subseteq UnmarkedPrograms
    /\ Exprs(Depth) = MarkedExpressions /\ LeftExprs(Depth) = UnmarkedExpressions
    /\ Blocks(Depth) = MarkedPrograms /\ LeftBlocks(Depth) = UnmarkedPrograms
BY ExpressionsGrow, ProgramsGrow, Topmost
DEF Exprs, LeftExprs, Blocks, LeftBlocks, MarkedExpressions, UnmarkedExpressions, MarkedPrograms,
    UnmarkedPrograms

\* The operands of an expression, and what a statement contains, are nested less.
LEMMA Operands ==
    ASSUME NEW n \in 0..Depth, NEW e \in Exprs(n)
    PROVE  /\ n - 1 \in 0..Depth - 1 /\ n - 1 + 1 = n
           /\ e \in ExpressionsOver({"comptime"}, Exprs(n - 1))
           /\ e.k \in {"lit", "ref", "bin", "cast", "deref", "addr", "comptime"}
           /\ e.x \in Words /\ e.v \in Values /\ e.a \in Seq(Exprs(n - 1))
           /\ DOMAIN e.a = 1..Arity(e.k) /\ \A i \in 1..Arity(e.k) : e.a[i] \in Exprs(n - 1)
           /\ e = [k |-> e.k, x |-> e.x, v |-> e.v, a |-> e.a]
<1>1. Depth \in Nat /\ n # 0  BY TreesAre
<1>2. n - 1 \in 0..Depth - 1 /\ n - 1 + 1 = n  BY <1>1
<1>3. e \in ExpressionsOver({"comptime"}, Exprs(n - 1))  BY <1>2, TreesAre
<1>4. e \in [k : {"lit", "ref", "bin", "cast", "deref", "addr", "comptime"},
             x : Words, v : Values, a : Seq(Exprs(n - 1))]
      /\ Len(e.a) = Arity(e.k)
  BY <1>3 DEF ExpressionsOver
<1>5. QED  BY <1>2, <1>3, <1>4

LEMMA Contents ==
    ASSUME NEW n \in 0..Depth, NEW s \in Blocks(n)
    PROVE  /\ n - 1 \in 0..Depth - 1 /\ n - 1 + 1 = n /\ n >= 1
           /\ s.k \in {"const", "var", "assign", "write", "return", "block", "if", "while", "func",
                       "comptime"}
           /\ s.x \in Words /\ s.e \in MarkedExpressions
           /\ s.b \in Seq(Blocks(n - 1)) /\ s.c \in Seq(Blocks(n - 1)) /\ WellFormed(s)
           /\ s = [k |-> s.k, x |-> s.x, e |-> s.e, b |-> s.b, c |-> s.c]
<1>1. Depth \in Nat /\ n # 0  BY TreesAre
<1>2. n - 1 \in 0..Depth - 1 /\ n - 1 + 1 = n  BY <1>1
<1>3. s \in StatementsOver({"comptime"}, MarkedExpressions, Blocks(n - 1))  BY <1>2, TreesAre
<1>4. s \in [k : {"const", "var", "assign", "write", "return", "block", "if", "while", "func", "comptime"},
             x : Words, e : MarkedExpressions, b : Seq(Blocks(n - 1)), c : Seq(Blocks(n - 1))]
      /\ WellFormed(s)
  BY <1>3 DEF StatementsOver
<1>5. QED  BY <1>1, <1>2, <1>4

-----------------------------------------------------------------------------
(* Expressions *)

\* The recursive functions exist, as operands are nested less.
LEMMA EvalIs ==
    ASSUME NEW en, NEW e \in MarkedExpressions
    PROVE  Eval(e, en) = EvalNode(e, [i \in DOMAIN e.a |-> Eval(e.a[i], en)], en)
<1> DEFINE Step(x, f) == EvalNode(x, [i \in DOMAIN x.a |-> f[x.a[i]]], en)
           Is(f) == f = [x \in MarkedExpressions |-> Step(x, f)]
           T == {n \in 0..Depth : \E f : \A x \in Exprs(n) : f[x] = Step(x, f)}
<1>1. Depth \in Nat /\ Exprs(0) = {}  BY TreesAre
<1>2. ASSUME NEW n \in 0..Depth, NEW x \in Exprs(n), NEW f, NEW g,
             \A y \in Exprs(n - 1) : f[y] = g[y]
      PROVE  Step(x, f) = Step(x, g)
  <2>1. \A i \in DOMAIN x.a : f[x.a[i]] = g[x.a[i]]  BY <1>2, Operands
  <2>2. [i \in DOMAIN x.a |-> f[x.a[i]]] = [i \in DOMAIN x.a |-> g[x.a[i]]]  BY <2>1
  <2>3. QED  BY <2>2
<1> HIDE DEF Step
<1>3. 0 \in T  BY <1>1
<1>4. ASSUME NEW n \in 0..Depth - 1, n \in T  PROVE n + 1 \in T
  <2>1. PICK f : \A x \in Exprs(n) : f[x] = Step(x, f)  BY <1>4
  <2> DEFINE g == [x \in Exprs(n + 1) |-> Step(x, f)]
  <2>2. n + 1 \in 0..Depth /\ n + 1 - 1 = n /\ Exprs(n) \subseteq Exprs(n + 1)  BY <1>1, TreesGrow
  <2>3. \A x \in Exprs(n) : f[x] = g[x]  BY <2>1, <2>2
  <2>4. \A x \in Exprs(n + 1) : g[x] = Step(x, f)  OBVIOUS
  <2> HIDE DEF g
  <2>5. \A x \in Exprs(n + 1) : Step(x, f) = Step(x, g)  BY <1>2, <2>2, <2>3
  <2>6. QED  BY <2>2, <2>4, <2>5
<1>5. Depth \in T
  <2>1. Depth \in 0..Depth  BY <1>1
  <2> HIDE DEF T
  <2>2. QED  BY <1>1, <1>3, <1>4, <2>1, FromZero
<1>6. Exprs(Depth) = MarkedExpressions /\ Depth \in 0..Depth
      /\ Exprs(Depth - 1) \subseteq MarkedExpressions
  BY <1>1, TreesGrow, Operands
<1>7. \E f : Is(f)
  <2>1. PICK f : \A x \in MarkedExpressions : f[x] = Step(x, f)  BY <1>5, <1>6
  <2> DEFINE g == [x \in MarkedExpressions |-> Step(x, f)]
  <2>2. \A x \in MarkedExpressions : f[x] = g[x]  BY <2>1
  <2>3. \A x \in MarkedExpressions : Step(x, f) = Step(x, g)
    <3> HIDE DEF g
    <3>1. QED  BY <1>2, <1>6, <2>2
  <2>4. g = [x \in MarkedExpressions |-> Step(x, g)]  BY <2>3
  <2> HIDE DEF g
  <2>5. QED  BY <2>4
<1> DEFINE fn == CHOOSE f : Is(f)
<1>8. Is(fn)
  <2> HIDE DEF Is
  <2>1. QED  BY <1>7
<1>9. \A x : Eval(x, en) = fn[x]  BY DEF Eval, Step
<1> HIDE DEF fn
<1>10. fn[e] = Step(e, fn)  BY <1>8
<1>11. QED  BY <1>9, <1>10 DEF Step

LEMMA LowerIs ==
    ASSUME NEW en, NEW e \in MarkedExpressions
    PROVE  LowerExpr(e, en) = LowerNode(e, [i \in DOMAIN e.a |-> LowerExpr(e.a[i], en)], en)
<1> DEFINE Step(x, f) == LowerNode(x, [i \in DOMAIN x.a |-> f[x.a[i]]], en)
           Is(f) == f = [x \in MarkedExpressions |-> Step(x, f)]
           T == {n \in 0..Depth : \E f : \A x \in Exprs(n) : f[x] = Step(x, f)}
<1>1. Depth \in Nat /\ Exprs(0) = {}  BY TreesAre
<1>2. ASSUME NEW n \in 0..Depth, NEW x \in Exprs(n), NEW f, NEW g,
             \A y \in Exprs(n - 1) : f[y] = g[y]
      PROVE  Step(x, f) = Step(x, g)
  <2>1. \A i \in DOMAIN x.a : f[x.a[i]] = g[x.a[i]]  BY <1>2, Operands
  <2>2. [i \in DOMAIN x.a |-> f[x.a[i]]] = [i \in DOMAIN x.a |-> g[x.a[i]]]  BY <2>1
  <2>3. QED  BY <2>2
<1> HIDE DEF Step
<1>3. 0 \in T  BY <1>1
<1>4. ASSUME NEW n \in 0..Depth - 1, n \in T  PROVE n + 1 \in T
  <2>1. PICK f : \A x \in Exprs(n) : f[x] = Step(x, f)  BY <1>4
  <2> DEFINE g == [x \in Exprs(n + 1) |-> Step(x, f)]
  <2>2. n + 1 \in 0..Depth /\ n + 1 - 1 = n /\ Exprs(n) \subseteq Exprs(n + 1)  BY <1>1, TreesGrow
  <2>3. \A x \in Exprs(n) : f[x] = g[x]  BY <2>1, <2>2
  <2>4. \A x \in Exprs(n + 1) : g[x] = Step(x, f)  OBVIOUS
  <2> HIDE DEF g
  <2>5. \A x \in Exprs(n + 1) : Step(x, f) = Step(x, g)  BY <1>2, <2>2, <2>3
  <2>6. QED  BY <2>2, <2>4, <2>5
<1>5. Depth \in T
  <2>1. Depth \in 0..Depth  BY <1>1
  <2> HIDE DEF T
  <2>2. QED  BY <1>1, <1>3, <1>4, <2>1, FromZero
<1>6. Exprs(Depth) = MarkedExpressions /\ Depth \in 0..Depth
      /\ Exprs(Depth - 1) \subseteq MarkedExpressions
  BY <1>1, TreesGrow, Operands
<1>7. \E f : Is(f)
  <2>1. PICK f : \A x \in MarkedExpressions : f[x] = Step(x, f)  BY <1>5, <1>6
  <2> DEFINE g == [x \in MarkedExpressions |-> Step(x, f)]
  <2>2. \A x \in MarkedExpressions : f[x] = g[x]  BY <2>1
  <2>3. \A x \in MarkedExpressions : Step(x, f) = Step(x, g)
    <3> HIDE DEF g
    <3>1. QED  BY <1>2, <1>6, <2>2
  <2>4. g = [x \in MarkedExpressions |-> Step(x, g)]  BY <2>3
  <2> HIDE DEF g
  <2>5. QED  BY <2>4
<1> DEFINE fn == CHOOSE f : Is(f)
<1>8. Is(fn)
  <2> HIDE DEF Is
  <2>1. QED  BY <1>7
<1>9. \A x : LowerExpr(x, en) = fn[x]  BY DEF LowerExpr, Step
<1> HIDE DEF fn
<1>10. fn[e] = Step(e, fn)  BY <1>8
<1>11. QED  BY <1>9, <1>10 DEF Step

LEMMA InnerNested ==
    ASSUME NEW n \in 0..Depth, NEW s \in Blocks(n)
    PROVE  /\ n - 1 \in 0..Depth - 1
           /\ Inner(s) \in Seq(Blocks(n - 1)) /\ \A i \in DOMAIN Inner(s) : Inner(s)[i] \in Blocks(n - 1)
<1>1. n - 1 \in 0..Depth - 1 /\ s.b \in Seq(Blocks(n - 1)) /\ s.c \in Seq(Blocks(n - 1))  BY Contents
<1>2. Inner(s) \in Seq(Blocks(n - 1))
  <2>1. s.b \o s.c \in Seq(Blocks(n - 1)) /\ <<>> \in Seq(Blocks(n - 1))  BY <1>1
  <2>2. QED  BY <2>1 DEF Inner
<1>3. QED  BY <1>1, <1>2

LEMMA NamedIs ==
    ASSUME NEW s \in MarkedPrograms
    PROVE  Named(s) = Names(s) \cup UNION {Named(Inner(s)[i]) : i \in DOMAIN Inner(s)}
<1> DEFINE Step(x, f) == Names(x) \cup UNION {f[Inner(x)[i]] : i \in DOMAIN Inner(x)}
           Is(f) == f = [x \in MarkedPrograms |-> Step(x, f)]
           T == {n \in 0..Depth : \E f : \A x \in Blocks(n) : f[x] = Step(x, f)}
<1>1. Depth \in Nat /\ Blocks(0) = {}  BY TreesAre
<1>2. ASSUME NEW n \in 0..Depth, NEW x \in Blocks(n), NEW f, NEW g,
             \A y \in Blocks(n - 1) : f[y] = g[y]
      PROVE  Step(x, f) = Step(x, g)
  <2>1. \A i \in DOMAIN Inner(x) : f[Inner(x)[i]] = g[Inner(x)[i]]  BY <1>2, InnerNested
  <2>2. {f[Inner(x)[i]] : i \in DOMAIN Inner(x)} = {g[Inner(x)[i]] : i \in DOMAIN Inner(x)}  BY <2>1
  <2>3. QED  BY <2>2
<1> HIDE DEF Step
<1>3. 0 \in T  BY <1>1
<1>4. ASSUME NEW n \in 0..Depth - 1, n \in T  PROVE n + 1 \in T
  <2>1. PICK f : \A x \in Blocks(n) : f[x] = Step(x, f)  BY <1>4
  <2> DEFINE g == [x \in Blocks(n + 1) |-> Step(x, f)]
  <2>2. n + 1 \in 0..Depth /\ n + 1 - 1 = n /\ Blocks(n) \subseteq Blocks(n + 1)  BY <1>1, TreesGrow
  <2>3. \A x \in Blocks(n) : f[x] = g[x]  BY <2>1, <2>2
  <2>4. \A x \in Blocks(n + 1) : g[x] = Step(x, f)  OBVIOUS
  <2> HIDE DEF g
  <2>5. \A x \in Blocks(n + 1) : Step(x, f) = Step(x, g)  BY <1>2, <2>2, <2>3
  <2>6. QED  BY <2>2, <2>4, <2>5
<1>5. Depth \in T
  <2>1. Depth \in 0..Depth  BY <1>1
  <2> HIDE DEF T
  <2>2. QED  BY <1>1, <1>3, <1>4, <2>1, FromZero
<1>6. Blocks(Depth) = MarkedPrograms /\ Depth \in 0..Depth
      /\ Blocks(Depth - 1) \subseteq MarkedPrograms
  BY <1>1, TreesGrow, InnerNested
<1>7. \E f : Is(f)
  <2>1. PICK f : \A x \in MarkedPrograms : f[x] = Step(x, f)  BY <1>5, <1>6
  <2> DEFINE g == [x \in MarkedPrograms |-> Step(x, f)]
  <2>2. \A x \in MarkedPrograms : f[x] = g[x]  BY <2>1
  <2>3. \A x \in MarkedPrograms : Step(x, f) = Step(x, g)
    <3> HIDE DEF g
    <3>1. QED  BY <1>2, <1>6, <2>2
  <2>4. g = [x \in MarkedPrograms |-> Step(x, g)]  BY <2>3
  <2> HIDE DEF g
  <2>5. QED  BY <2>4
<1> DEFINE fn == CHOOSE f : Is(f)
<1>8. Is(fn)
  <2> HIDE DEF Is
  <2>1. QED  BY <1>7
<1>9. \A x : Named(x) = fn[x]  BY DEF Named, Step
<1> HIDE DEF fn
<1>10. fn[s] = Step(s, fn)  BY <1>8
<1>11. QED  BY <1>9, <1>10 DEF Step

-----------------------------------------------------------------------------
(* Values and what is left of expressions *)

\* Bindings are numbers or texts.
Typed(en) == \A x \in DOMAIN en : en[x] \in Values

LEMMA NumbersAreValues ==
    ASSUME NEW n \in Int
    PROVE  FromInt(n) \in Values
BY DEF FromInt, Values

LEMMA ComputeNumbers ==
    ASSUME NEW op, NEW l \in Int, NEW r \in Int
    PROVE  Compute(op, l, r) \subseteq Int
<1>1. Magnitude(l) \in Nat /\ Magnitude(r) \in Nat  BY DEF Magnitude
<1>2. r # 0 => Magnitude(r) # 0  BY DEF Magnitude
<1>3. r # 0 => Magnitude(l) \div Magnitude(r) \in Int  BY <1>1, <1>2
<1>4. r # 0 => Quotient(l, r) \in Int  BY <1>3 DEF Quotient
<1>5. l + r \in Int /\ l - r \in Int /\ l * r \in Int  OBVIOUS
<1> DEFINE logical == op \in {"<", ">", "<=", ">=", "==", "!=", "&&", "||"}
<1>6. CASE logical
  <2>1. CASE op \in {"<", ">", "<=", ">="}  BY <2>1 DEF Compute, Bit
  <2>2. CASE op \in {"==", "!=", "&&", "||"}  BY <2>2 DEF Compute, Bit
  <2>3. QED  BY <1>6, <2>1, <2>2
<1>7. CASE op = "+" \/ op = "-" \/ op = "*"  BY <1>5, <1>7 DEF Compute
<1>8. CASE op = "/"  BY <1>4, <1>8 DEF Compute
<1>9. CASE ~logical /\ op \notin {"+", "-", "*", "/"}  BY <1>9 DEF Compute
<1>10. QED  BY <1>6, <1>7, <1>8, <1>9

LEMMA ApplyValues ==
    ASSUME NEW op, NEW l \in Values, NEW r \in Values
    PROVE  Apply(op, l, r) \subseteq Values
<1>1. \A v \in Compute(op, l.n, r.n) : FromInt(v) \in Values
  <2>1. l.n \in Int /\ r.n \in Int  BY DEF Values
  <2>2. QED  BY <2>1, ComputeNumbers, NumbersAreValues
<1>2. FromString(l.s \o r.s) \in Values
  <2>1. l.s \in Seq(STRING) /\ r.s \in Seq(STRING)  BY DEF Values
  <2>2. l.s \o r.s \in Seq(STRING)  BY <2>1
  <2>3. QED  BY <2>2 DEF FromString, Values
<1>3. \A b : FromInt(Bit(b)) \in Values
  <2>1. \A b : Bit(b) \in Int  BY DEF Bit
  <2>2. QED  BY <2>1, NumbersAreValues
<1>4. QED  BY <1>1, <1>2, <1>3 DEF Apply

\* evalExpr gives numbers and texts, if bindings are such.
LEMMA EvalValues ==
    ASSUME NEW en, Typed(en), NEW e \in MarkedExpressions
    PROVE  Eval(e, en) \subseteq Values
<1> DEFINE T == {n \in 0..Depth : \A x \in Exprs(n) : Eval(x, en) \subseteq Values}
<1>1. Depth \in Nat /\ Exprs(0) = {} /\ Exprs(Depth) = MarkedExpressions  BY TreesAre, TreesGrow
<1>2. 0 \in T  BY <1>1
<1>3. ASSUME NEW n \in 0..Depth - 1, n \in T  PROVE n + 1 \in T
  <2>1. n + 1 \in 0..Depth /\ n + 1 - 1 = n  BY <1>1
  <2>2. ASSUME NEW x \in Exprs(n + 1)  PROVE Eval(x, en) \subseteq Values
    <3> DEFINE vs == [i \in DOMAIN x.a |-> Eval(x.a[i], en)]
    <3>1. x \in MarkedExpressions /\ Exprs(n) \subseteq MarkedExpressions  BY <2>1, TreesGrow
    <3>2. Eval(x, en) = EvalNode(x, vs, en)  BY <3>1, EvalIs
    <3>3. x.v \in Values /\ \A i \in 1..Arity(x.k) : vs[i] \subseteq Values
      <4>1. x.v \in Values /\ DOMAIN x.a = 1..Arity(x.k)
            /\ \A i \in 1..Arity(x.k) : x.a[i] \in Exprs(n)
        BY <2>1, Operands
      <4>2. QED  BY <1>3, <4>1
    <3> HIDE DEF vs
    <3>4. CASE x.k \in {"lit", "ref"}  BY <3>2, <3>3, <3>4 DEF EvalNode, Typed
    <3>5. CASE x.k \in {"cast", "comptime"}
      <4>1. vs[1] \subseteq Values  BY <3>3, <3>5 DEF Arity
      <4>2. QED  BY <3>2, <3>5, <4>1 DEF EvalNode
    <3>6. CASE x.k = "bin"
      <4>1. vs[1] \subseteq Values /\ vs[2] \subseteq Values  BY <3>3, <3>6 DEF Arity
      <4>2. \A l \in vs[1], r \in vs[2] : Apply(x.x, l, r) \subseteq Values  BY <4>1, ApplyValues
      <4>3. EvalNode(x, vs, en) = UNION {Apply(x.x, l, r) : l \in vs[1], r \in vs[2]}
        BY <3>6 DEF EvalNode
      <4>4. QED  BY <3>2, <4>2, <4>3
    <3>7. CASE x.k \in {"deref", "addr"}  BY <3>2, <3>7 DEF EvalNode
    <3>8. QED  BY <2>1, <3>4, <3>5, <3>6, <3>7, Operands
  <2>3. QED  BY <2>1, <2>2
<1>4. Depth \in T
  <2>1. Depth \in 0..Depth  BY <1>1
  <2> HIDE DEF T
  <2>2. QED  BY <1>1, <1>2, <1>3, <2>1, FromZero
<1>5. QED  BY <1>1, <1>4

LEMMA TheIs ==
    ASSUME NEW S, S # {}
    PROVE  The(S) \in S
BY DEF The

\* Trees without the keyword are trees.
LEMMA LeftAreMarked == UnmarkedExpressions \subseteq MarkedExpressions
<1> DEFINE T == {n \in 0..Depth : LeftExprs(n) \subseteq Exprs(n)}
<1>1. Depth \in Nat /\ LeftExprs(0) = {} /\ LeftExprs(Depth) = UnmarkedExpressions
      /\ Exprs(Depth) = MarkedExpressions
  BY TreesAre, TreesGrow
<1>2. 0 \in T  BY <1>1
<1>3. ASSUME NEW n \in 0..Depth - 1, n \in T  PROVE n + 1 \in T
  <2>1. n + 1 \in 0..Depth  BY <1>1
  <2>2. Seq(LeftExprs(n)) \subseteq Seq(Exprs(n))  BY <1>3, SeqMonotone
  <2>3. ExpressionsOver({}, LeftExprs(n)) \subseteq ExpressionsOver({"comptime"}, Exprs(n))
    BY <2>2 DEF ExpressionsOver
  <2>4. QED  BY <2>1, <2>3, TreesAre
<1>4. Depth \in T
  <2>1. Depth \in 0..Depth  BY <1>1
  <2> HIDE DEF T
  <2>2. QED  BY <1>1, <1>2, <1>3, <2>1, FromZero
<1>5. QED  BY <1>1, <1>4

LEMMA LeftNode ==
    ASSUME NEW A, NEW k \in {"lit", "ref", "bin", "cast", "deref", "addr"}, NEW x \in Words,
           NEW v \in Values, NEW a \in Seq(A), Len(a) = Arity(k)
    PROVE  [k |-> k, x |-> x, v |-> v, a |-> a] \in ExpressionsOver({}, A)
<1> DEFINE e == [k |-> k, x |-> x, v |-> v, a |-> a]
<1>1. e.k = k /\ e.a = a /\ {"lit", "ref", "bin", "cast", "deref", "addr"} \cup {} =
      {"lit", "ref", "bin", "cast", "deref", "addr"}
  OBVIOUS
<1>2. e \in [k : {"lit", "ref", "bin", "cast", "deref", "addr"}, x : Words, v : Values, a : Seq(A)]
  OBVIOUS
<1> HIDE DEF e
<1>3. e \in ExpressionsOver({}, A)  BY <1>1, <1>2 DEF ExpressionsOver
<1>4. QED  BY <1>3 DEF e

LEMMA LiteralsLeft ==
    ASSUME NEW n \in 0..Depth - 1, NEW v \in Values
    PROVE  Literal(v) \in LeftExprs(n + 1)
<1> DEFINE none == <<>>
           k == "lit"
<1>1. none \in Seq(LeftExprs(n)) /\ Len(none) = Arity(k)  BY DEF Arity
<1>2. k \in {"lit", "ref", "bin", "cast", "deref", "addr"}  OBVIOUS
<1>3. Literal(v) = [k |-> k, x |-> "", v |-> v, a |-> none]  BY DEF Literal, Node
<1> HIDE DEF none, k
<1>4. [k |-> k, x |-> "", v |-> v, a |-> none] \in ExpressionsOver({}, LeftExprs(n))
  BY <1>1, <1>2, WordsAssumption, LeftNode
<1>5. QED  BY <1>3, <1>4, TreesAre

\* lowerExpr leaves no comptime expression, and nests nothing deeper.
LEMMA LowerLeaves ==
    ASSUME NEW en, Typed(en)
    PROVE  \A n \in 0..Depth : \A e \in Exprs(n) : LowerExpr(e, en) \in LeftExprs(n)
<1> DEFINE T == {n \in 0..Depth : \A x \in Exprs(n) : LowerExpr(x, en) \in LeftExprs(n)}
<1>1. Depth \in Nat /\ Exprs(0) = {}  BY TreesAre
<1>2. 0 \in T  BY <1>1
<1>3. ASSUME NEW n \in 0..Depth - 1, n \in T  PROVE n + 1 \in T
  <2>1. n + 1 \in 0..Depth /\ n + 1 - 1 = n  BY <1>1
  <2>2. ASSUME NEW x \in Exprs(n + 1)  PROVE LowerExpr(x, en) \in LeftExprs(n + 1)
    <3> DEFINE as == [i \in DOMAIN x.a |-> LowerExpr(x.a[i], en)]
    <3>1. x \in MarkedExpressions /\ Exprs(n) \subseteq MarkedExpressions  BY <2>1, TreesGrow
    <3>2. LowerExpr(x, en) = LowerNode(x, as, en)  BY <3>1, LowerIs
    <3>3. /\ x.k \in {"lit", "ref", "bin", "cast", "deref", "addr", "comptime"}
          /\ x.x \in Words /\ x.v \in Values /\ x.a \in Seq(Exprs(n)) /\ Len(x.a) = Arity(x.k)
          /\ x = [k |-> x.k, x |-> x.x, v |-> x.v, a |-> x.a]
      BY <2>1, Operands DEF ExpressionsOver
    <3>4. x.k = "comptime" => as[1] \in LeftExprs(n)
      <4>1. ASSUME x.k = "comptime"  PROVE 1 \in DOMAIN x.a /\ x.a[1] \in Exprs(n)
        <5>1. Arity(x.k) = 1  BY <4>1 DEF Arity
        <5>2. DOMAIN x.a = 1..Arity(x.k) /\ \A i \in 1..Arity(x.k) : x.a[i] \in Exprs(n)
          BY <2>1, Operands
        <5>3. QED  BY <5>1, <5>2
      <4>2. QED  BY <1>3, <4>1
    <3>5. as \in Seq(LeftExprs(n)) /\ Len(as) = Arity(x.k)
      <4>1. Len(x.a) \in Nat /\ DOMAIN x.a = 1..Len(x.a)  BY <3>3
      <4>2. as \in [1..Len(x.a) -> LeftExprs(n)]  BY <1>3, <3>3, <4>1
      <4>3. QED  BY <3>3, <4>1, <4>2
    <3> HIDE DEF as
    <3>6. CASE Eval(x, en) # {} /\ x.k \in {"ref", "bin", "cast"}
      <4>1. The(Eval(x, en)) \in Values  BY <3>1, <3>6, EvalValues, TheIs
      <4>2. QED  BY <3>2, <3>6, <4>1, LiteralsLeft DEF LowerNode
    <3>7. CASE x.k = "comptime"
      <4>1. as[1] \in LeftExprs(n)  BY <3>7, <3>4
      <4>2. QED  BY <3>2, <3>7, <4>1, TreesGrow DEF LowerNode
    <3>8. CASE x.k = "lit"
      <4>1. Arity(x.k) = 0  BY <3>8 DEF Arity
      <4>2. x.a \in Seq(LeftExprs(n))  BY <3>3, <4>1
      <4>3. x \in ExpressionsOver({}, LeftExprs(n))  BY <3>3, <3>8, <4>2, LeftNode
      <4>4. QED  BY <3>2, <3>8, <4>3, TreesAre DEF LowerNode
    <3>9. CASE x.k \in {"ref", "bin", "cast", "deref", "addr"}
               /\ ~(Eval(x, en) # {} /\ x.k \in {"ref", "bin", "cast"})
      <4>1. LowerExpr(x, en) = [k |-> x.k, x |-> x.x, v |-> x.v, a |-> as]
        BY <3>2, <3>3, <3>9 DEF LowerNode
      <4>2. [k |-> x.k, x |-> x.x, v |-> x.v, a |-> as] \in ExpressionsOver({}, LeftExprs(n))
        BY <3>3, <3>5, <3>9, LeftNode
      <4>3. QED  BY <4>1, <4>2, TreesAre
    <3>10. QED  BY <3>3, <3>6, <3>7, <3>8, <3>9
  <2>3. QED  BY <2>1, <2>2
<1>4. QED
  <2>1. 0 \in T /\ Depth \in Nat  BY <1>1, <1>2
  <2>2. \A n \in 0..Depth : n \in T
    <3> HIDE DEF T
    <3>1. QED  BY <1>3, <2>1, FromZero
  <2>3. QED  BY <2>2

LEMMA LowerTyped ==
    ASSUME NEW en, Typed(en), NEW e \in MarkedExpressions
    PROVE  LowerExpr(e, en) \in UnmarkedExpressions /\ LowerExpr(e, en) \in MarkedExpressions
           /\ Eval(LowerExpr(e, en), en) \subseteq Values
<1>1. Depth \in 0..Depth /\ Exprs(Depth) = MarkedExpressions /\ LeftExprs(Depth) = UnmarkedExpressions
  BY TreesAre, TreesGrow
<1>2. LowerExpr(e, en) \in UnmarkedExpressions  BY <1>1, LowerLeaves
<1>3. LowerExpr(e, en) \in MarkedExpressions  BY <1>2, LeftAreMarked
<1>4. QED  BY <1>2, <1>3, EvalValues

LEMMA EmptyEnvIs == DOMAIN EmptyEnv = {} /\ Typed(EmptyEnv)
BY DEF EmptyEnv, Typed

LEMMA LiteralKind == \A v : Literal(v).k = "lit"
BY DEF Literal, Node

LEMMA NamesLeft ==
    ASSUME NEW en, NEW e \in MarkedExpressions, e.k = "ref"
    PROVE  /\ Eval(e, EmptyEnv) = {}
           /\ Eval(e, en) = {} => LowerExpr(e, en).k = "ref" /\ LowerExpr(e, en).x = e.x
           /\ Eval(e, en) # {} => LowerExpr(e, en).k = "lit"
<1>1. Eval(e, EmptyEnv) = EvalNode(e, [i \in DOMAIN e.a |-> Eval(e.a[i], EmptyEnv)], EmptyEnv)
  BY EvalIs
<1>2. Eval(e, EmptyEnv) = {}  BY <1>1, EmptyEnvIs DEF EvalNode
<1>3. PICK as : LowerExpr(e, en) = LowerNode(e, as, en)  BY LowerIs
<1>4. Depth \in 0..Depth /\ e \in Exprs(Depth)  BY TreesAre, TreesGrow
<1>5. e = [k |-> e.k, x |-> e.x, v |-> e.v, a |-> e.a]  BY <1>4, Operands
<1>6. Eval(e, en) = {} => LowerExpr(e, en) = [k |-> e.k, x |-> e.x, v |-> e.v, a |-> as]
  BY <1>3, <1>5 DEF LowerNode
<1>7. Eval(e, en) # {} => LowerExpr(e, en) = Literal(The(Eval(e, en)))  BY <1>3 DEF LowerNode
<1>8. Eval(e, en) = {} => LowerExpr(e, en).k = "ref" /\ LowerExpr(e, en).x = e.x  BY <1>6
<1>9. QED  BY <1>2, <1>7, <1>8, LiteralKind

\* What is still a name is the name it is when nothing has a value.
LEMMA NamesKept ==
    ASSUME NEW en, NEW e \in MarkedExpressions, LowerExpr(e, en).k = "ref"
    PROVE  LowerExpr(e, EmptyEnv).k = "ref" /\ LowerExpr(e, EmptyEnv).x = LowerExpr(e, en).x
<1> DEFINE Same(x) == LowerExpr(x, en).k = "ref" =>
                        /\ LowerExpr(x, EmptyEnv).k = "ref"
                        /\ LowerExpr(x, EmptyEnv).x = LowerExpr(x, en).x
           T == {n \in 0..Depth : \A x \in Exprs(n) : Same(x)}
<1>1. Depth \in Nat /\ Exprs(0) = {} /\ Exprs(Depth) = MarkedExpressions  BY TreesAre, TreesGrow
<1>2. 0 \in T  BY <1>1
<1>3. ASSUME NEW n \in 0..Depth - 1, n \in T  PROVE n + 1 \in T
  <2>1. n + 1 \in 0..Depth /\ n + 1 - 1 = n  BY <1>1
  <2>2. ASSUME NEW x \in Exprs(n + 1)  PROVE Same(x)
    <3> DEFINE As(m) == [i \in DOMAIN x.a |-> LowerExpr(x.a[i], m)]
    <3>1. x \in MarkedExpressions  BY <2>1, TreesGrow
    <3>2. \A m : LowerExpr(x, m) = LowerNode(x, As(m), m)  BY <3>1, LowerIs
    <3>3. /\ x.k \in {"lit", "ref", "bin", "cast", "deref", "addr", "comptime"}
          /\ x = [k |-> x.k, x |-> x.x, v |-> x.v, a |-> x.a]
      BY <2>1, Operands
    <3>4. CASE x.k = "ref"  BY <3>1, <3>4, NamesLeft
    <3>5. CASE x.k = "comptime"
      <4>1. DOMAIN x.a = 1..Arity(x.k) /\ \A i \in 1..Arity(x.k) : x.a[i] \in Exprs(n)
        BY <2>1, Operands
      <4>2. Arity(x.k) = 1  BY <3>5 DEF Arity
      <4>3. 1 \in DOMAIN x.a /\ x.a[1] \in Exprs(n)  BY <4>1, <4>2
      <4>4. Same(x.a[1])  BY <1>3, <4>3
      <4>5. \A m : As(m)[1] = LowerExpr(x.a[1], m)  BY <4>3
      <4> HIDE DEF As
      <4>6. \A m : LowerExpr(x, m) = LowerExpr(x.a[1], m)  BY <3>2, <3>5, <4>5 DEF LowerNode
      <4>7. QED  BY <4>4, <4>6
    <3>6. CASE x.k \in {"lit", "bin", "cast", "deref", "addr"}
      <4> HIDE DEF As
      <4>1. \/ LowerExpr(x, en) = Literal(The(Eval(x, en)))
            \/ LowerExpr(x, en) = x
            \/ LowerExpr(x, en) = [k |-> x.k, x |-> x.x, v |-> x.v, a |-> As(en)]
        BY <3>2, <3>3, <3>6 DEF LowerNode
      <4>2. LowerExpr(x, en).k # "ref"  BY <3>6, <4>1, LiteralKind
      <4>3. QED  BY <4>2
    <3>7. QED  BY <3>3, <3>4, <3>5, <3>6
  <2> HIDE DEF Same
  <2>3. QED  BY <2>1, <2>2
<1>4. Depth \in T
  <2>1. Depth \in 0..Depth  BY <1>1
  <2> HIDE DEF T
  <2>2. QED  BY <1>1, <1>2, <1>3, <2>1, FromZero
<1>5. Same(e)
  <2> HIDE DEF Same
  <2>1. QED  BY <1>1, <1>4
<1>6. QED  BY <1>5

-----------------------------------------------------------------------------
(* Statements without statements in them *)

AllNotes == {"diagnostic", "cut", "skipped"}

LeftKinds == {"const", "var", "assign", "write", "return", "block", "if", "while", "func"}

LEMMA LeftStatement ==
    ASSUME NEW n \in 0..Depth - 1, NEW k \in LeftKinds, NEW x \in Words, NEW e \in UnmarkedExpressions,
           NEW b \in Seq(LeftBlocks(n)), NEW c \in Seq(LeftBlocks(n)),
           WellFormed([k |-> k, x |-> x, e |-> e, b |-> b, c |-> c])
    PROVE  [k |-> k, x |-> x, e |-> e, b |-> b, c |-> c] \in LeftBlocks(n + 1)
<1> DEFINE s == [k |-> k, x |-> x, e |-> e, b |-> b, c |-> c]
<1>1. {"const", "var", "assign", "write", "return", "block", "if", "while", "func"} \cup {} = LeftKinds
  BY DEF LeftKinds
<1>2. s \in [k : LeftKinds, x : Words, e : UnmarkedExpressions, b : Seq(LeftBlocks(n)),
             c : Seq(LeftBlocks(n))]
  OBVIOUS
<1>3. WellFormed(s)  OBVIOUS
<1> HIDE DEF s
<1>4. s \in StatementsOver({}, UnmarkedExpressions, LeftBlocks(n))  BY <1>1, <1>2, <1>3 DEF StatementsOver
<1>5. QED  BY <1>4, TreesAre DEF s

\* A statement without statements in it.
LEMMA LeftSimple ==
    ASSUME NEW n \in 1..Depth, NEW k \in {"const", "var", "assign", "write", "return"}, NEW x \in Words,
           NEW e \in UnmarkedExpressions, k = "assign" => e.k = "bin"
    PROVE  /\ [k |-> k, x |-> x, e |-> e, b |-> <<>>, c |-> <<>>] \in LeftBlocks(n)
           /\ <<[k |-> k, x |-> x, e |-> e, b |-> <<>>, c |-> <<>>]>> \in Seq(LeftBlocks(n))
<1> DEFINE none == <<>>
           s == [k |-> k, x |-> x, e |-> e, b |-> none, c |-> none]
<1>1. n - 1 \in 0..Depth - 1 /\ n - 1 + 1 = n  BY TreesAre
<1>2. none \in Seq(LeftBlocks(n - 1))  OBVIOUS
<1>3. WellFormed(s)  BY DEF WellFormed
<1>4. k \in LeftKinds  BY DEF LeftKinds
<1> HIDE DEF none
<1>5. s \in LeftBlocks(n)  BY <1>1, <1>2, <1>3, <1>4, LeftStatement
<1>6. <<s>> \in Seq(LeftBlocks(n))
  <2> HIDE DEF s
  <2>1. QED  BY <1>5
<1>7. QED  BY <1>5, <1>6 DEF none

LEMMA AssignParts ==
    ASSUME NEW n \in 0..Depth, NEW s \in Blocks(n), s.k = "assign"
    PROVE  /\ Depth - 1 \in 0..Depth
           /\ TargetOf(s) \in Exprs(Depth - 1) /\ ValueOf(s) \in Exprs(Depth - 1)
           /\ TargetOf(s) \in MarkedExpressions /\ ValueOf(s) \in MarkedExpressions
<1>1. s.e \in MarkedExpressions /\ s.e.k = "bin"  BY Contents DEF WellFormed
<1>2. Depth \in 0..Depth /\ s.e \in Exprs(Depth)  BY <1>1, TreesAre, TreesGrow
<1>3. Depth - 1 \in 0..Depth - 1 /\ \A i \in 1..Arity(s.e.k) : s.e.a[i] \in Exprs(Depth - 1)
  BY <1>2, Operands
<1>4. Arity(s.e.k) = 2  BY <1>1 DEF Arity
<1>5. s.e.a[1] \in Exprs(Depth - 1) /\ s.e.a[2] \in Exprs(Depth - 1)  BY <1>3, <1>4
<1>6. Depth - 1 \in 0..Depth  BY <1>3, TreesAre
<1>7. QED  BY <1>5, <1>6, TreesGrow DEF TargetOf, ValueOf

LEMMA AssignsLeft ==
    ASSUME NEW n \in 1..Depth, NEW t \in LeftExprs(Depth - 1), NEW v \in LeftExprs(Depth - 1)
    PROVE  <<Assign(t, v)>> \in Seq(LeftBlocks(n))
<1> DEFINE k == "bin"
           w == "="
           a == <<t, v>>
           zero == FromInt(0)
           m == Depth - 1
<1>1. m \in 0..Depth - 1 /\ m + 1 = Depth  BY TreesAre
<1>2. zero \in Values  BY NumbersAreValues
<1>3. a \in Seq(LeftExprs(m)) /\ Len(a) = Arity(k)
  <2> HIDE DEF m
  <2>1. t \in LeftExprs(m) /\ v \in LeftExprs(m)  BY DEF m
  <2>2. QED  BY <2>1 DEF Arity
<1>4. k \in {"lit", "ref", "bin", "cast", "deref", "addr"}  OBVIOUS
<1>5. w \in Words  BY WordsAssumption
<1>6. Bin(w, t, v) = [k |-> k, x |-> w, v |-> zero, a |-> a]  BY DEF Bin, Node
<1>7. Bin(w, t, v).k = "bin"  BY DEF Bin, Node
<1> HIDE DEF k, w, a, zero, m
<1>8. [k |-> k, x |-> w, v |-> zero, a |-> a] \in ExpressionsOver({}, LeftExprs(m))
  BY <1>2, <1>3, <1>4, <1>5, LeftNode
<1>9. Bin(w, t, v) \in UnmarkedExpressions  BY <1>1, <1>6, <1>8, TreesAre, TreesGrow
<1> DEFINE e == Bin(w, t, v)
           kind == "assign"
           x == ""
<1>10. kind \in {"const", "var", "assign", "write", "return"} /\ x \in Words  BY WordsAssumption
<1>11. e.k = "bin"  BY <1>7
<1>12. Assign(t, v) = [k |-> kind, x |-> x, e |-> e, b |-> <<>>, c |-> <<>>]
  BY DEF Assign, Stmt, w
<1> HIDE DEF e, kind, x
<1>13. <<[k |-> kind, x |-> x, e |-> e, b |-> <<>>, c |-> <<>>]>> \in Seq(LeftBlocks(n))
  BY <1>9, <1>10, <1>11, LeftSimple DEF e
<1>14. QED  BY <1>12, <1>13

\* Lowering a simple statement binds only the name that it gives, to a value, and leaves
\* a statement without the keyword.
ResultOK(r, s, en, n) ==
    /\ Typed(r.env) /\ DOMAIN r.env \subseteq DOMAIN en \cup Names(s)
    /\ r.out \in Seq(LeftBlocks(n)) /\ r.notes \subseteq AllNotes

LEMMA ResultIs ==
    ASSUME NEW s, NEW en, NEW n, NEW m, Typed(m), DOMAIN m \subseteq DOMAIN en \cup Names(s),
           NEW out \in Seq(LeftBlocks(n)), NEW ns, ns \subseteq AllNotes
    PROVE  ResultOK(Result(m, out, ns), s, en, n)
BY DEF ResultOK, Result

LEMMA BindTyped ==
    ASSUME NEW en, Typed(en), NEW x, NEW v, v \subseteq Values
    PROVE  Typed(BindIf(en, x, v)) /\ DOMAIN BindIf(en, x, v) \subseteq DOMAIN en \cup {x}
<1>1. CASE v = {}  BY <1>1 DEF BindIf
<1>2. CASE v # {}
  <2>1. The(v) \in Values  BY <1>2, TheIs
  <2>2. BindIf(en, x, v) = [y \in DOMAIN en \cup {x} |-> IF y = x THEN The(v) ELSE en[y]]
    BY <1>2 DEF BindIf, Bind
  <2>3. QED  BY <2>1, <2>2 DEF Typed
<1>3. QED  BY <1>1, <1>2

LEMMA NotesAre ==
    /\ \A b : Diag(b) \subseteq AllNotes
    /\ \A b : Skips(b) \subseteq AllNotes
BY DEF Diag, Skips, AllNotes

LEMMA BindingOK ==
    ASSUME NEW n \in 0..Depth, NEW s \in Blocks(n), s.k \in {"const", "var"}, NEW en, Typed(en)
    PROVE  ResultOK(LowerBinding(s, en), s, en, n)
<1> DEFINE init == LowerExpr(s.e, en)
<1>1. s.e \in MarkedExpressions  BY Contents
<1>2. Eval(init, en) \subseteq Values  BY <1>1, LowerTyped
<1>3. Typed(BindIf(en, s.x, Eval(init, en)))
      /\ DOMAIN BindIf(en, s.x, Eval(init, en)) \subseteq DOMAIN en \cup {s.x}
  BY <1>2, BindTyped
<1>4. <<>> \in Seq(LeftBlocks(n)) /\ Names(s) = {s.x}  BY DEF Names
<1>5. Diag(LowerComplains(s.e, en) \/ Complains(init, en)) \cup Skips(Eval(init, en) = {})
      \subseteq AllNotes
  BY NotesAre
<1>6. QED  BY <1>3, <1>4, <1>5 DEF ResultOK, LowerBinding, Result

LEMMA ConstOK ==
    ASSUME NEW n \in 0..Depth, NEW s \in Blocks(n), s.k \in {"const", "var"}, NEW en, Typed(en),
           NEW inComptime
    PROVE  /\ ResultOK(LowerConst(s, en, inComptime), s, en, n)
           /\ ResultOK(LowerVar(s, en, inComptime), s, en, n)
<1> DEFINE r == LowerBinding(s, en)
           e == LowerExpr(s.e, en)
<1>1. ResultOK(r, s, en, n)  BY BindingOK
<1>2. n \in 1..Depth /\ s.x \in Words /\ s.e \in MarkedExpressions  BY Contents
<1>3. e \in UnmarkedExpressions  BY <1>2, LowerTyped
<1>4. <<Const(s.x, e)>> \in Seq(LeftBlocks(n)) /\ <<Var(s.x, e)>> \in Seq(LeftBlocks(n))
  BY <1>2, <1>3, LeftSimple DEF Const, Var, Stmt
<1>5. Typed(r.env) /\ DOMAIN r.env \subseteq DOMAIN en \cup Names(s) /\ r.notes \subseteq AllNotes
      /\ r.notes \ {"skipped"} \subseteq AllNotes
  BY <1>1 DEF ResultOK
<1>6. \/ LowerConst(s, en, inComptime) = Result(r.env, <<Const(s.x, e)>>, r.notes)
      \/ LowerConst(s, en, inComptime) = Result(r.env, <<Const(s.x, e)>>, r.notes \ {"skipped"})
  BY DEF LowerConst
<1>7. ResultOK(LowerConst(s, en, inComptime), s, en, n)
  <2> HIDE DEF r, e
  <2>1. ResultOK(Result(r.env, <<Const(s.x, e)>>, r.notes), s, en, n)  BY <1>4, <1>5, ResultIs
  <2>2. ResultOK(Result(r.env, <<Const(s.x, e)>>, r.notes \ {"skipped"}), s, en, n)
    BY <1>4, <1>5, ResultIs
  <2>3. QED  BY <1>6, <2>1, <2>2
<1>8. \/ LowerVar(s, en, inComptime) = Result(en, <<Var(s.x, e)>>, Diag(LowerComplains(s.e, en)))
      \/ LowerVar(s, en, inComptime) = Result(r.env, <<Var(s.x, e)>>, r.notes)
      \/ LowerVar(s, en, inComptime) = r
  BY DEF LowerVar
<1>9. ResultOK(LowerVar(s, en, inComptime), s, en, n)
  <2>1. Diag(LowerComplains(s.e, en)) \subseteq AllNotes /\ DOMAIN en \subseteq DOMAIN en \cup Names(s)
    BY NotesAre
  <2>2. QED  BY <1>1, <1>4, <1>5, <1>8, <2>1, ResultIs
<1>10. QED  BY <1>7, <1>9

LEMMA AssignOK ==
    ASSUME NEW n \in 0..Depth, NEW s \in Blocks(n), s.k = "assign", NEW en, Typed(en), NEW inComptime
    PROVE  ResultOK(LowerAssign(s, en, inComptime), s, en, n)
<1> DEFINE target == LowerExpr(TargetOf(s), en)
           value  == LowerExpr(ValueOf(s), en)
           odd    == Diag(LowerComplains(TargetOf(s), en) \/ LowerComplains(ValueOf(s), en))
           r      == LowerAssign(s, en, inComptime)
<1>1. n \in 1..Depth /\ TargetOf(s) \in MarkedExpressions /\ ValueOf(s) \in MarkedExpressions
      /\ target \in LeftExprs(Depth - 1) /\ value \in LeftExprs(Depth - 1)
  BY Contents, AssignParts, LowerLeaves
<1>2. <<Assign(target, value)>> \in Seq(LeftBlocks(n)) /\ <<>> \in Seq(LeftBlocks(n))
  BY <1>1, AssignsLeft
<1>3. Eval(value, en) \subseteq Values  BY <1>1, LowerTyped
<1>4. Typed(BindIf(en, target.x, Eval(value, en)))
      /\ DOMAIN BindIf(en, target.x, Eval(value, en)) \subseteq DOMAIN en \cup {target.x}
  BY <1>3, BindTyped
<1>5. target.k = "ref" => target.x \in Names(s)
  <2>1. target.k = "ref" => LowerExpr(TargetOf(s), EmptyEnv).k = "ref"
                            /\ LowerExpr(TargetOf(s), EmptyEnv).x = target.x
    BY <1>1, NamesKept
  <2>2. target.k = "ref" => target.x \in Assigned(s)  BY <2>1 DEF Assigned
  <2>3. QED  BY <2>2 DEF Names
<1>6. odd \subseteq AllNotes /\ Diag(TRUE) \subseteq AllNotes  BY NotesAre
<1>7. \/ r = Result(en, <<Assign(target, value)>>, odd)
      \/ r = Result(BindIf(en, target.x, Eval(value, en)), <<>>, odd) /\ target.k = "ref"
      \/ r = Result(en, <<>>, Diag(TRUE))
  BY DEF LowerAssign
<1> HIDE DEF target, value, odd, r
<1>8. QED
  <2>1. ResultOK(r, s, en, n)
    <3>1. DOMAIN en \subseteq DOMAIN en \cup Names(s)  OBVIOUS
    <3>2. target.k = "ref" => DOMAIN BindIf(en, target.x, Eval(value, en)) \subseteq DOMAIN en \cup Names(s)
      BY <1>4, <1>5
    <3>3. CASE r = Result(en, <<Assign(target, value)>>, odd)  BY <1>2, <1>6, <3>1, <3>3, ResultIs
    <3>4. CASE r = Result(BindIf(en, target.x, Eval(value, en)), <<>>, odd) /\ target.k = "ref"
      BY <1>2, <1>4, <1>6, <3>2, <3>4, ResultIs
    <3>5. CASE r = Result(en, <<>>, Diag(TRUE))  BY <1>2, <1>6, <3>1, <3>5, ResultIs
    <3>6. QED  BY <1>7, <3>3, <3>4, <3>5
  <2>2. QED  BY <2>1 DEF r

LEMMA ComptimeAssignOK ==
    ASSUME NEW n \in 0..Depth, NEW s \in Blocks(n), s.k = "assign", NEW en, Typed(en)
    PROVE  ResultOK(LowerComptimeAssign(s, en), s, en, n)
<1> DEFINE value == Eval(ValueOf(s), en)
           done  == TargetOf(s).k = "ref" /\ value # {}
           r     == LowerComptimeAssign(s, en)
<1>1. TargetOf(s) \in MarkedExpressions /\ ValueOf(s) \in MarkedExpressions  BY AssignParts
<1>2. value \subseteq Values  BY <1>1, EvalValues
<1>3. Typed(BindIf(en, TargetOf(s).x, value))
      /\ DOMAIN BindIf(en, TargetOf(s).x, value) \subseteq DOMAIN en \cup {TargetOf(s).x}
  BY <1>2, BindTyped
<1>4. TargetOf(s).k = "ref" => TargetOf(s).x \in Names(s)
  <2>1. TargetOf(s).k = "ref" => LowerExpr(TargetOf(s), EmptyEnv).k = "ref"
                                 /\ LowerExpr(TargetOf(s), EmptyEnv).x = TargetOf(s).x
    BY <1>1, NamesLeft
  <2>2. TargetOf(s).k = "ref" => TargetOf(s).x \in Assigned(s)  BY <2>1 DEF Assigned
  <2>3. QED  BY <2>2 DEF Names
<1>5. Diag(TRUE) \subseteq AllNotes /\ Diag(FALSE) \subseteq AllNotes  BY NotesAre
<1>6. \/ done /\ r = Result(BindIf(en, TargetOf(s).x, value), <<>>, Diag(FALSE))
      \/ r = Result(en, <<>>, Diag(TRUE))
  BY DEF LowerComptimeAssign, Diag
<1>7. done => TargetOf(s).k = "ref"  OBVIOUS
<1>8. <<>> \in Seq(LeftBlocks(n))  OBVIOUS
<1> HIDE DEF value, done, r
<1>9. ResultOK(r, s, en, n)
  <2>1. DOMAIN en \subseteq DOMAIN en \cup Names(s)  OBVIOUS
  <2>2. done => DOMAIN BindIf(en, TargetOf(s).x, value) \subseteq DOMAIN en \cup Names(s)
    BY <1>3, <1>4, <1>7
  <2>3. CASE done /\ r = Result(BindIf(en, TargetOf(s).x, value), <<>>, Diag(FALSE))
    BY <1>3, <1>5, <1>8, <2>2, <2>3, ResultIs
  <2>4. CASE r = Result(en, <<>>, Diag(TRUE))  BY <1>5, <1>8, <2>1, <2>4, ResultIs
  <2>5. QED  BY <1>6, <2>3, <2>4
<1>10. QED  BY <1>9 DEF r

LEMMA SimpleOK ==
    ASSUME NEW n \in 0..Depth, NEW s \in Blocks(n), s.k \in {"write", "return"}, NEW en, Typed(en)
    PROVE  ResultOK(LowerSimple(s, en), s, en, n)
<1> DEFINE e == LowerExpr(s.e, en)
<1>1. /\ n \in 1..Depth /\ s.x \in Words /\ s.e \in MarkedExpressions
      /\ s.b = <<>> /\ s.c = <<>>
      /\ s = [k |-> s.k, x |-> s.x, e |-> s.e, b |-> s.b, c |-> s.c]
  BY Contents DEF WellFormed
<1>2. e \in UnmarkedExpressions  BY <1>1, LowerTyped
<1>3. <<[k |-> s.k, x |-> s.x, e |-> e, b |-> <<>>, c |-> <<>>]>> \in Seq(LeftBlocks(n))
  BY <1>1, <1>2, LeftSimple
<1>4. [s EXCEPT !.e = e] = [k |-> s.k, x |-> s.x, e |-> e, b |-> <<>>, c |-> <<>>]  BY <1>1
<1>5. <<[s EXCEPT !.e = e]>> \in Seq(LeftBlocks(n))  BY <1>3, <1>4
<1>6. LowerSimple(s, en) = Result(en, <<[s EXCEPT !.e = e]>>, Diag(LowerComplains(s.e, en)))
  BY DEF LowerSimple
<1>7. QED  BY <1>5, <1>6, NotesAre DEF ResultOK, Result

-----------------------------------------------------------------------------
(* The calls under way *)

IsStack(cs) == \E S : cs \in Seq(S)

LEMMA Pushed ==
    ASSUME NEW cs, IsStack(cs), NEW c
    PROVE  /\ IsStack(Append(cs, c)) /\ Len(cs) \in Nat /\ Len(Append(cs, c)) = Len(cs) + 1
           /\ \A i \in 1..Len(cs) : Append(cs, c)[i] = cs[i]
           /\ Append(cs, c)[Len(cs) + 1] = c
<1>1. PICK S : cs \in Seq(S)  BY DEF IsStack
<1>2. cs \in Seq(S \cup {c})  BY <1>1
<1>3. Append(cs, c) \in Seq(S \cup {c})  BY <1>2
<1>4. QED  BY <1>2, <1>3 DEF IsStack

LEMMA Popped ==
    ASSUME NEW cs, IsStack(cs), Len(cs) > 0
    PROVE  /\ IsStack(Front(cs)) /\ Len(cs) \in Nat /\ Len(Front(cs)) = Len(cs) - 1
           /\ \A i \in 1..Len(cs) - 1 : Front(cs)[i] = cs[i]
           /\ Last(cs) = cs[Len(cs)]
<1>1. PICK S : cs \in Seq(S)  BY DEF IsStack
<1>2. Len(cs) \in Nat /\ cs \in [1..Len(cs) -> S]  BY <1>1
<1>3. Front(cs) = [i \in 1..Len(cs) - 1 |-> cs[i]]  BY <1>1, <1>2, SMT DEF Front
<1>4. [i \in 1..Len(cs) - 1 |-> cs[i]] \in Seq(S)
      /\ Len([i \in 1..Len(cs) - 1 |-> cs[i]]) = Len(cs) - 1
  BY <1>2
<1>5. QED  BY <1>2, <1>3, <1>4 DEF IsStack, Last

LEMMA Changed ==
    ASSUME NEW cs, IsStack(cs), NEW n \in 1..Len(cs), NEW c
    PROVE  /\ IsStack([cs EXCEPT ![n] = c]) /\ Len([cs EXCEPT ![n] = c]) = Len(cs)
           /\ \A i \in 1..Len(cs) : [cs EXCEPT ![n] = c][i] = IF i = n THEN c ELSE cs[i]
<1>1. PICK S : cs \in Seq(S)  BY DEF IsStack
<1>2. cs \in [1..Len(cs) -> S \cup {c}] /\ Len(cs) \in Nat  BY <1>1
<1>3. [cs EXCEPT ![n] = c] \in [1..Len(cs) -> S \cup {c}]  BY <1>2
<1>4. [cs EXCEPT ![n] = c] \in Seq(S \cup {c}) /\ Len([cs EXCEPT ![n] = c]) = Len(cs)  BY <1>2, <1>3
<1>5. \A i \in 1..Len(cs) : [cs EXCEPT ![n] = c][i] = IF i = n THEN c ELSE cs[i]  BY <1>2
<1>6. QED  BY <1>4, <1>5 DEF IsStack

\* A statement but for the statements it contains, those in s.b lowered.
Shell(s, n) ==
    /\ s.k \in LeftKinds /\ s.x \in Words /\ s.e \in UnmarkedExpressions
    /\ s.c \in Seq(Blocks(n))
    /\ s = [k |-> s.k, x |-> s.x, e |-> s.e, b |-> s.b, c |-> s.c]

\* What the caller of a call does then, if the call is for statements of nesting n.
ThenOK(t, n) ==
    CASE t.do \in {"drop", "pass"} -> TRUE
      [] t.do = "first" ->
           /\ Shell(t.s, n) /\ t.s.k \in {"block", "if", "while"}
           /\ t.s.k = "block" => t.s.e = Num(0)
           /\ t.s.k # "if" => t.s.c = <<>>
      [] t.do = "second" -> Shell(t.s, n) /\ t.s.k = "if" /\ t.s.b \in Seq(LeftBlocks(n))
      [] t.do = "body" -> Shell(t.s, n) /\ t.s.k = "func" /\ t.s.e = Num(0) /\ t.s.c = <<>> /\ Typed(t.env)
      [] t.do = "turn" -> t.s \in Blocks(n) /\ t.s.k = "while"
      [] OTHER -> FALSE

CallOK(c, n) ==
    /\ c = [left |-> c.left, out |-> c.out, inComptime |-> c.inComptime, then |-> c.then]
    /\ c.left \in Seq(Blocks(n)) /\ c.out \in Seq(LeftBlocks(n))
    /\ ThenOK(c.then, n)

\* Each call has statements of one nesting less than its caller; what the call for the
\* whole program returns is lowered.
Nesting(cs) == Depth + 1 - Len(cs)
StackOK(cs) ==
    /\ IsStack(cs) /\ Len(cs) \in 1..Depth + 1
    /\ cs[1].then.do = "drop"
    /\ \A i \in 1..Len(cs) : CallOK(cs[i], Depth + 1 - i)

\* Outside functions, only names in A are bound, or will be.
AllNamed(ss, A) == \A i \in DOMAIN ss : Named(ss[i]) \subseteq A
CallNames(c, A) ==
    /\ AllNamed(c.left, A)
    /\ c.then.do = "first" => AllNamed(c.then.s.c, A)
    /\ c.then.do = "turn" => AllNamed(c.then.s.b, A)
    /\ c.then.do # "body"
Outside(cs, n) == \A j \in 1..n : cs[j].then.do # "body"
Scoped(en, cs, A) ==
    /\ \A i \in 1..Len(cs) : Outside(cs, i) => CallNames(cs[i], A)
    /\ \A i \in 1..Len(cs) :
         Outside(cs, i - 1) /\ cs[i].then.do = "body" => DOMAIN cs[i].then.env \subseteq A
    /\ Outside(cs, Len(cs)) => DOMAIN en \subseteq A

StateOK(en, cs, A) == Typed(en) /\ StackOK(cs) /\ Scoped(en, cs, A)

\* The result of lowering a statement as far as the next call.
DoOK(d, A) == StateOK(d.env, d.calls, A) /\ d.notes \subseteq AllNotes

LEMMA DoIs ==
    ASSUME NEW en, NEW cs, NEW ns, NEW A, StateOK(en, cs, A), ns \subseteq AllNotes
    PROVE  DoOK(Do(en, cs, ns), A)
BY DEF DoOK, Do

LEMMA DoSame ==
    ASSUME NEW en, NEW cs, NEW A, StateOK(en, cs, A)
    PROVE  DoOK(Do(en, cs, {}), A) /\ DoOK(Do(en, cs, {"cut"}), A) /\ DoOK(Do(en, cs, Diag(TRUE)), A)
<1>1. {} \subseteq AllNotes /\ {"cut"} \subseteq AllNotes /\ Diag(TRUE) \subseteq AllNotes
  BY NotesAre DEF AllNotes
<1>2. DoOK(Do(en, cs, {}), A)  BY <1>1, DoIs
<1>3. DoOK(Do(en, cs, {"cut"}), A)  BY <1>1, DoIs
<1>4. DoOK(Do(en, cs, Diag(TRUE)), A)  BY <1>1, DoIs
<1>5. QED  BY <1>2, <1>3, <1>4

LEMMA NestingIs ==
    ASSUME NEW cs, StackOK(cs)
    PROVE  Nesting(cs) \in 0..Depth /\ Len(cs) \in Nat /\ Len(cs) >= 1
           /\ CallOK(cs[Len(cs)], Nesting(cs))
BY TreesAre DEF StackOK, Nesting

\* The environment may change, as long as what is bound is in A.
LEMMA Rebound ==
    ASSUME NEW en, NEW cs, NEW A, StateOK(en, cs, A), NEW m, Typed(m),
           Outside(cs, Len(cs)) => DOMAIN m \subseteq A
    PROVE  StateOK(m, cs, A)
BY DEF StateOK, Scoped

\* Another call is made.
LEMMA PushOK ==
    ASSUME NEW en, NEW cs, NEW A, StateOK(en, cs, A), Nesting(cs) > 0,
           NEW c, CallOK(c, Nesting(cs) - 1),
           Outside(cs, Len(cs)) => \/ CallNames(c, A)
                                   \/ c.then.do = "body" /\ DOMAIN c.then.env \subseteq A
    PROVE  StateOK(en, Append(cs, c), A)
<1> DEFINE ds == Append(cs, c)
           n == Len(cs)
<1>1. IsStack(cs) /\ n \in Nat /\ n >= 1 /\ n \in 1..Depth + 1 /\ Depth \in Nat
  BY NestingIs, TreesAre DEF StateOK, StackOK
<1>2. IsStack(ds) /\ Len(ds) = n + 1 /\ ds[n + 1] = c /\ \A i \in 1..n : ds[i] = cs[i]
  BY <1>1, Pushed
<1> HIDE DEF ds
<1>3. n + 1 \in 1..Depth + 1 /\ Depth + 1 - (n + 1) = Nesting(cs) - 1  BY <1>1 DEF Nesting
<1>4. \A i \in 1..n + 1 : CallOK(ds[i], Depth + 1 - i)
  <2>1. \A i \in 1..n : CallOK(cs[i], Depth + 1 - i)  BY DEF StateOK, StackOK
  <2>2. \A i \in 1..n + 1 : i \in 1..n \/ i = n + 1  BY <1>1
  <2>3. QED  BY <1>2, <1>3, <2>1, <2>2
<1>5. StackOK(ds)
  <2>1. ds[1] = cs[1] /\ cs[1].then.do = "drop"
    <3>1. 1 \in 1..n  BY <1>1
    <3>2. QED  BY <1>2, <3>1 DEF StateOK, StackOK
  <2>2. QED  BY <1>2, <1>3, <1>4, <2>1 DEF StackOK
<1>6. \A i \in 0..n : Outside(ds, i) <=> Outside(cs, i)
  <2>1. \A i \in 0..n : \A j \in 1..i : j \in 1..n  BY <1>1
  <2>2. QED  BY <1>2, <2>1 DEF Outside
<1>7. Outside(ds, n + 1) <=> Outside(cs, n) /\ c.then.do # "body"
  <2>1. \A j \in 1..n + 1 : j \in 1..n \/ j = n + 1  BY <1>1
  <2>2. \A j \in 1..n : j \in 1..n + 1  BY <1>1
  <2>3. n + 1 \in 1..n + 1  BY <1>1
  <2>4. QED  BY <1>2, <2>1, <2>2, <2>3 DEF Outside
<1>8. ASSUME NEW i \in 1..n + 1
      PROVE  /\ Outside(ds, i) => CallNames(ds[i], A)
             /\ Outside(ds, i - 1) /\ ds[i].then.do = "body" => DOMAIN ds[i].then.env \subseteq A
  <2>1. CASE i \in 1..n
    <3>1. i \in 0..n /\ i - 1 \in 0..n  BY <1>1, <2>1
    <3>2. QED  BY <1>2, <1>6, <2>1, <3>1 DEF StateOK, Scoped
  <2>2. CASE i = n + 1
    <3>1. n \in 0..n /\ n + 1 - 1 = n  BY <1>1
    <3>2. QED  BY <1>2, <1>6, <1>7, <2>2, <3>1 DEF CallNames
  <2>3. QED  BY <1>1, <2>1, <2>2
<1>9. Outside(ds, n + 1) => DOMAIN en \subseteq A  BY <1>7 DEF StateOK, Scoped
<1>10. Scoped(en, ds, A)  BY <1>2, <1>8, <1>9 DEF Scoped
<1>11. QED  BY <1>5, <1>10 DEF StateOK, ds

\* The innermost call goes on, with another list of statements to come or left.
LEMMA TopOK ==
    ASSUME NEW en, NEW cs, NEW A, StateOK(en, cs, A), NEW c, CallOK(c, Nesting(cs)),
           c.then = cs[Len(cs)].then,
           Outside(cs, Len(cs)) => AllNamed(c.left, A)
    PROVE  StateOK(en, [cs EXCEPT ![Len(cs)] = c], A)
<1> DEFINE n == Len(cs)
           ds == [cs EXCEPT ![n] = c]
<1>1. IsStack(cs) /\ n \in Nat /\ n >= 1 /\ n \in 1..n /\ n \in 1..Depth + 1 /\ Depth \in Nat
  BY NestingIs, TreesAre DEF StateOK, StackOK
<1>2. IsStack(ds) /\ Len(ds) = n /\ \A i \in 1..n : ds[i] = IF i = n THEN c ELSE cs[i]
  BY <1>1, Changed
<1> HIDE DEF ds
<1>3. ASSUME NEW i \in 1..n  PROVE CallOK(ds[i], Depth + 1 - i)
  <2>1. CASE i = n  BY <1>2, <2>1 DEF Nesting
  <2>2. CASE i # n  BY <1>2, <2>2 DEF StateOK, StackOK
  <2>3. QED  BY <2>1, <2>2
<1>4. \A i \in 1..n : ds[i].then = cs[i].then  BY <1>2
<1>5. StackOK(ds)
  <2>1. 1 \in 1..n /\ cs[1].then.do = "drop"  BY <1>1 DEF StateOK, StackOK
  <2>2. ds[1].then.do = "drop"  BY <1>4, <2>1
  <2>3. QED  BY <1>1, <1>2, <1>3, <2>2 DEF StackOK
<1>6. \A i \in 0..n : Outside(ds, i) <=> Outside(cs, i)
  <2>1. \A i \in 0..n : \A j \in 1..i : j \in 1..n  BY <1>1
  <2>2. QED  BY <1>4, <2>1 DEF Outside
<1>7. ASSUME NEW i \in 1..n
      PROVE  /\ Outside(ds, i) => CallNames(ds[i], A)
             /\ Outside(ds, i - 1) /\ ds[i].then.do = "body" => DOMAIN ds[i].then.env \subseteq A
  <2>1. i \in 0..n /\ i - 1 \in 0..n  BY <1>1
  <2>2. /\ Outside(cs, i) => CallNames(cs[i], A)
        /\ Outside(cs, i - 1) /\ cs[i].then.do = "body" => DOMAIN cs[i].then.env \subseteq A
    BY DEF StateOK, Scoped
  <2>3. CASE i = n  BY <1>2, <1>4, <1>6, <2>1, <2>2, <2>3 DEF CallNames
  <2>4. CASE i # n  BY <1>2, <1>6, <2>1, <2>2, <2>4
  <2>5. QED  BY <2>3, <2>4
<1>8. Outside(ds, n) => DOMAIN en \subseteq A
  <2>1. n \in 0..n  BY <1>1
  <2>2. QED  BY <1>6, <2>1 DEF StateOK, Scoped
<1>9. Scoped(en, ds, A)  BY <1>2, <1>7, <1>8 DEF Scoped
<1>10. QED  BY <1>5, <1>9 DEF StateOK, ds

LEMMA CallExcept ==
    ASSUME NEW c, c = [left |-> c.left, out |-> c.out, inComptime |-> c.inComptime, then |-> c.then], NEW x
    PROVE  /\ [c EXCEPT !.out = x] = [left |-> c.left, out |-> x, inComptime |-> c.inComptime, then |-> c.then]
           /\ [c EXCEPT !.left = x] = [left |-> x, out |-> c.out, inComptime |-> c.inComptime, then |-> c.then]
<1>1. PICK l, o, i, t : /\ c = [left |-> l, out |-> o, inComptime |-> i, then |-> t]
                        /\ l = c.left /\ o = c.out /\ i = c.inComptime /\ t = c.then
  OBVIOUS
<1>2. [c EXCEPT !.out = x] = [left |-> l, out |-> x, inComptime |-> i, then |-> t]
      /\ [c EXCEPT !.left = x] = [left |-> x, out |-> o, inComptime |-> i, then |-> t]
  BY <1>1
<1>3. QED  BY <1>1, <1>2

\* Statements are left.
LEMMA LeaveOK ==
    ASSUME NEW en, NEW cs, NEW A, StateOK(en, cs, A), NEW ss \in Seq(LeftBlocks(Nesting(cs)))
    PROVE  StateOK(en, Leave(cs, ss), A)
<1> DEFINE c == cs[Len(cs)]
           d == [left |-> c.left, out |-> c.out \o ss, inComptime |-> c.inComptime, then |-> c.then]
<1>1. CallOK(c, Nesting(cs)) /\ Len(cs) \in 1..Len(cs)  BY NestingIs DEF StateOK
<1>2. c.out \o ss \in Seq(LeftBlocks(Nesting(cs)))  BY <1>1 DEF CallOK
<1>3. CallOK(d, Nesting(cs))  BY <1>1, <1>2 DEF CallOK
<1>4. Outside(cs, Len(cs)) => AllNamed(d.left, A)  BY <1>1 DEF StateOK, Scoped, CallNames
<1>5. Leave(cs, ss) = [cs EXCEPT ![Len(cs)] = d]
  <2>1. c = [left |-> c.left, out |-> c.out, inComptime |-> c.inComptime, then |-> c.then]
    BY <1>1 DEF CallOK
  <2>2. [c EXCEPT !.out = c.out \o ss] = d  BY <2>1, CallExcept
  <2>3. PICK S : cs \in Seq(S)  BY DEF StateOK, StackOK, IsStack
  <2>4. Leave(cs, ss) = [cs EXCEPT ![Len(cs)] = [c EXCEPT !.out = c.out \o ss]]
    BY <1>1, <2>3 DEF Leave
  <2>5. QED  BY <2>2, <2>4
<1>6. d.then = cs[Len(cs)].then  OBVIOUS
<1> HIDE DEF d
<1>7. StateOK(en, [cs EXCEPT ![Len(cs)] = d], A)  BY <1>3, <1>4, <1>6, TopOK
<1>8. QED  BY <1>5, <1>7

\* The innermost call comes to its next statement.
LEMMA TakeOK ==
    ASSUME NEW en, NEW cs, NEW A, StateOK(en, cs, A), cs[Len(cs)].left # <<>>
    PROVE  /\ StateOK(en, [cs EXCEPT ![Len(cs)].left = Tail(@)], A)
           /\ Len([cs EXCEPT ![Len(cs)].left = Tail(@)]) = Len(cs)
           /\ Head(cs[Len(cs)].left) \in Blocks(Nesting(cs))
           /\ Outside([cs EXCEPT ![Len(cs)].left = Tail(@)], Len(cs))
              => Named(Head(cs[Len(cs)].left)) \subseteq A
<1> DEFINE n == Len(cs)
           c == cs[n]
           d == [left |-> Tail(c.left), out |-> c.out, inComptime |-> c.inComptime, then |-> c.then]
           ds == [cs EXCEPT ![n] = d]
<1>1. CallOK(c, Nesting(cs)) /\ n \in 1..n /\ IsStack(cs)  BY NestingIs DEF StateOK, StackOK
<1>2. /\ c.left \in Seq(Blocks(Nesting(cs))) /\ Tail(c.left) \in Seq(Blocks(Nesting(cs)))
      /\ Head(c.left) = c.left[1] /\ 1 \in DOMAIN c.left /\ c.left[1] \in Blocks(Nesting(cs))
      /\ \A i \in DOMAIN Tail(c.left) : Tail(c.left)[i] = c.left[i + 1] /\ i + 1 \in DOMAIN c.left
  BY <1>1 DEF CallOK
<1>3. CallOK(d, Nesting(cs))  BY <1>1, <1>2 DEF CallOK
<1>4. Outside(cs, n) => AllNamed(c.left, A)  BY <1>1 DEF StateOK, Scoped, CallNames
<1>5. Outside(cs, n) => AllNamed(d.left, A)  BY <1>2, <1>4 DEF AllNamed
<1>6. [cs EXCEPT ![n].left = Tail(@)] = ds
  <2>1. c = [left |-> c.left, out |-> c.out, inComptime |-> c.inComptime, then |-> c.then]
    BY <1>1 DEF CallOK
  <2>2. [c EXCEPT !.left = Tail(c.left)] = d  BY <2>1, CallExcept
  <2>3. PICK S : cs \in Seq(S)  BY <1>1 DEF IsStack
  <2>4. [cs EXCEPT ![n].left = Tail(@)] = [cs EXCEPT ![n] = [c EXCEPT !.left = Tail(c.left)]]
    BY <1>1, <2>3
  <2>5. QED  BY <2>2, <2>4
<1>7. d.then = c.then  OBVIOUS
<1>8. Len(ds) = n /\ \A i \in 1..n : ds[i] = IF i = n THEN d ELSE cs[i]  BY <1>1, Changed
<1>9. Outside(ds, n) => Outside(cs, n)  BY <1>1, <1>7, <1>8 DEF Outside
<1> HIDE DEF d, ds
<1>10. StateOK(en, ds, A)  BY <1>3, <1>5, <1>7, TopOK DEF ds
<1>11. QED  BY <1>2, <1>4, <1>6, <1>8, <1>9, <1>10 DEF AllNamed

\* The innermost call returns; its environment is kept, or the one its caller has saved.
LEMMA PopOK ==
    ASSUME NEW en, NEW cs, NEW A, StateOK(en, cs, A), Len(cs) > 1
    PROVE  /\ Last(cs) = cs[Len(cs)] /\ CallOK(Last(cs), Nesting(cs))
           /\ Nesting(Front(cs)) = Nesting(cs) + 1
           /\ Len(Front(cs)) = Len(cs) - 1
           /\ Last(cs).then.do # "body" => StateOK(en, Front(cs), A)
           /\ Last(cs).then.do = "body" => StateOK(Last(cs).then.env, Front(cs), A)
           /\ Outside(Front(cs), Len(cs) - 1) /\ Last(cs).then.do # "body" => CallNames(Last(cs), A)
<1> DEFINE ds == Front(cs)
           n == Len(cs)
           c == cs[n]
<1>1. IsStack(cs) /\ n \in Nat /\ n > 1 /\ n \in 1..Depth + 1 /\ Depth \in Nat /\ n \in 1..n
  BY NestingIs, TreesAre DEF StateOK, StackOK
<1>2. IsStack(ds) /\ Len(ds) = n - 1 /\ Last(cs) = c /\ \A i \in 1..n - 1 : ds[i] = cs[i]
  BY <1>1, Popped
<1> HIDE DEF ds
<1>3. CallOK(c, Nesting(cs))  BY NestingIs DEF StateOK
<1>4. n - 1 \in 1..Depth + 1 /\ Nesting(ds) = Nesting(cs) + 1  BY <1>1, <1>2 DEF Nesting
<1>5. \A i \in 1..n - 1 : i \in 1..n  BY <1>1
<1>6. StackOK(ds)
  <2>1. 1 \in 1..n - 1 /\ cs[1].then.do = "drop"  BY <1>1 DEF StateOK, StackOK
  <2>2. \A i \in 1..n - 1 : CallOK(ds[i], Depth + 1 - i)  BY <1>2, <1>5 DEF StateOK, StackOK
  <2>3. QED  BY <1>2, <1>4, <2>1, <2>2 DEF StackOK
<1>7. \A i \in 0..n - 1 : Outside(ds, i) <=> Outside(cs, i)
  <2>1. \A i \in 0..n - 1 : \A j \in 1..i : j \in 1..n - 1  BY <1>1
  <2>2. QED  BY <1>2, <2>1 DEF Outside
<1>8. Outside(cs, n) <=> Outside(cs, n - 1) /\ c.then.do # "body"
  <2>1. \A j \in 1..n : j \in 1..n - 1 \/ j = n  BY <1>1
  <2>2. QED  BY <1>1, <1>5, <2>1 DEF Outside
<1>9. ASSUME NEW i \in 1..n - 1
      PROVE  /\ Outside(ds, i) => CallNames(ds[i], A)
             /\ Outside(ds, i - 1) /\ ds[i].then.do = "body" => DOMAIN ds[i].then.env \subseteq A
  <2>1. i \in 0..n - 1 /\ i - 1 \in 0..n - 1 /\ i \in 1..n  BY <1>1
  <2>2. QED  BY <1>2, <1>7, <2>1 DEF StateOK, Scoped
<1>10. n - 1 \in 0..n - 1  BY <1>1
<1>11. ASSUME NEW m, Outside(ds, n - 1) => DOMAIN m \subseteq A  PROVE Scoped(m, ds, A)
  BY <1>2, <1>9, <1>11 DEF Scoped
<1>12. c.then.do # "body" => StateOK(en, ds, A)
  <2>1. Outside(cs, n) => DOMAIN en \subseteq A  BY DEF StateOK, Scoped
  <2>2. c.then.do # "body" => Scoped(en, ds, A)  BY <1>7, <1>8, <1>10, <1>11, <2>1
  <2>3. QED  BY <1>6, <2>2 DEF StateOK
<1>13. c.then.do = "body" => StateOK(c.then.env, ds, A)
  <2>1. c.then.do = "body" => Typed(c.then.env)  BY <1>3 DEF CallOK, ThenOK
  <2>2. Outside(cs, n - 1) /\ c.then.do = "body" => DOMAIN c.then.env \subseteq A
    BY <1>1 DEF StateOK, Scoped
  <2>3. c.then.do = "body" => Scoped(c.then.env, ds, A)  BY <1>7, <1>10, <1>11, <2>2
  <2>4. QED  BY <1>6, <2>1, <2>3 DEF StateOK
<1>14. Outside(ds, n - 1) /\ c.then.do # "body" => CallNames(c, A)
  BY <1>1, <1>7, <1>8, <1>10 DEF StateOK, Scoped
<1>15. QED  BY <1>2, <1>3, <1>4, <1>12, <1>13, <1>14 DEF ds

-----------------------------------------------------------------------------
(* Lowering a statement                                                    *)

LEMMA JoinedLists ==
    ASSUME NEW S, NEW b \in Seq(S), NEW c \in Seq(S)
    PROVE  /\ \A i \in DOMAIN b : i \in DOMAIN (b \o c) /\ (b \o c)[i] = b[i]
           /\ \A i \in DOMAIN c : Len(b) + i \in DOMAIN (b \o c) /\ (b \o c)[Len(b) + i] = c[i]
OBVIOUS

LEMMA NamedParts ==
    ASSUME NEW n \in 0..Depth, NEW s \in Blocks(n), NEW A, Named(s) \subseteq A
    PROVE  Names(s) \subseteq A /\ (s.k # "func" => AllNamed(s.b, A) /\ AllNamed(s.c, A))
<1>1. s \in MarkedPrograms  BY TreesGrow
<1>2. Named(s) = Names(s) \cup UNION {Named(Inner(s)[i]) : i \in DOMAIN Inner(s)}  BY <1>1, NamedIs
<1>3. \A i \in DOMAIN Inner(s) : Named(Inner(s)[i]) \subseteq A  BY <1>2
<1>4. s.b \in Seq(Blocks(n - 1)) /\ s.c \in Seq(Blocks(n - 1))  BY Contents
<1>5. ASSUME s.k # "func"  PROVE AllNamed(s.b, A) /\ AllNamed(s.c, A)
  <2>1. PICK b, c, S : b = s.b /\ c = s.c /\ S = Blocks(n - 1)  OBVIOUS
  <2>2. Inner(s) = b \o c  BY <1>5, <2>1 DEF Inner
  <2>3. b \in Seq(S) /\ c \in Seq(S)  BY <1>4, <2>1
  <2>4. \A i \in DOMAIN s.b : i \in DOMAIN Inner(s) /\ Inner(s)[i] = s.b[i]
    <3>1. \A i \in DOMAIN b : i \in DOMAIN (b \o c) /\ (b \o c)[i] = b[i]  BY <2>3, JoinedLists
    <3>2. QED  BY <2>1, <2>2, <3>1
  <2>5. \A i \in DOMAIN s.c : Len(s.b) + i \in DOMAIN Inner(s) /\ Inner(s)[Len(s.b) + i] = s.c[i]
    <3>1. \A i \in DOMAIN c : Len(b) + i \in DOMAIN (b \o c) /\ (b \o c)[Len(b) + i] = c[i]
      BY <2>3, JoinedLists
    <3>2. QED  BY <2>1, <2>2, <3>1
  <2>6. AllNamed(s.b, A)  BY <1>3, <2>4 DEF AllNamed
  <2>7. AllNamed(s.c, A)  BY <1>3, <2>5 DEF AllNamed
  <2>8. QED  BY <2>6, <2>7
<1>6. QED  BY <1>2, <1>5

\* What holds of a statement that the innermost call has come to.
ComesTo(s, en, cs, A) ==
    /\ StateOK(en, cs, A) /\ s \in Blocks(Nesting(cs))
    /\ Outside(cs, Len(cs)) => Named(s) \subseteq A

LEMMA ComesToIs ==
    ASSUME NEW s, NEW en, NEW cs, NEW A, ComesTo(s, en, cs, A)
    PROVE  /\ StateOK(en, cs, A) /\ Typed(en) /\ s \in Blocks(Nesting(cs))
           /\ Nesting(cs) \in 0..Depth /\ Nesting(cs) > 0 /\ Nesting(cs) - 1 \in 0..Depth - 1
           /\ Nesting(cs) - 1 \in 0..Depth /\ Nesting(cs) - 1 + 1 = Nesting(cs)
           /\ s.e \in MarkedExpressions
           /\ s.b \in Seq(Blocks(Nesting(cs) - 1)) /\ s.c \in Seq(Blocks(Nesting(cs) - 1))
           /\ Outside(cs, Len(cs)) => Names(s) \subseteq A
           /\ Outside(cs, Len(cs)) /\ s.k # "func" => AllNamed(s.b, A) /\ AllNamed(s.c, A)
<1>1. StateOK(en, cs, A) /\ Typed(en) /\ s \in Blocks(Nesting(cs)) /\ Nesting(cs) \in 0..Depth
  BY NestingIs DEF ComesTo, StateOK
<1>2. /\ Nesting(cs) - 1 \in 0..Depth - 1 /\ Nesting(cs) - 1 + 1 = Nesting(cs) /\ Nesting(cs) >= 1
      /\ s.e \in MarkedExpressions
      /\ s.b \in Seq(Blocks(Nesting(cs) - 1)) /\ s.c \in Seq(Blocks(Nesting(cs) - 1))
  BY <1>1, Contents
<1>3. Outside(cs, Len(cs)) => Named(s) \subseteq A  BY DEF ComesTo
<1>4. Outside(cs, Len(cs)) => Names(s) \subseteq A
                               /\ (s.k # "func" => AllNamed(s.b, A) /\ AllNamed(s.c, A))
  BY <1>1, <1>3, NamedParts
<1>5. Nesting(cs) > 0 /\ Nesting(cs) - 1 \in 0..Depth  BY <1>1, <1>2, TreesAre
<1>6. QED  BY <1>1, <1>2, <1>4, <1>5

LEMMA FinishOK ==
    ASSUME NEW s, NEW en, NEW cs, NEW A, ComesTo(s, en, cs, A), NEW r,
           ResultOK(r, s, en, Nesting(cs))
    PROVE  DoOK(Finish(r, cs), A)
<1>1. StateOK(en, cs, A)  BY DEF ComesTo
<1>2. Outside(cs, Len(cs)) => DOMAIN r.env \subseteq A
  <2>1. Outside(cs, Len(cs)) => Names(s) \subseteq A /\ DOMAIN en \subseteq A
    BY ComesToIs DEF StateOK, Scoped
  <2>2. QED  BY <2>1 DEF ResultOK
<1>3. Typed(r.env) /\ r.out \in Seq(LeftBlocks(Nesting(cs))) /\ r.notes \subseteq AllNotes
  BY DEF ResultOK
<1>4. StateOK(r.env, cs, A)  BY <1>1, <1>2, <1>3, Rebound
<1>5. StateOK(r.env, Leave(cs, r.out), A)  BY <1>3, <1>4, LeaveOK
<1>6. QED  BY <1>3, <1>5, DoIs DEF Finish

\* A list of statements is begun.
LEMMA CallBegun ==
    ASSUME NEW en, NEW cs, NEW A, StateOK(en, cs, A), Nesting(cs) > 0,
           NEW ss \in Seq(Blocks(Nesting(cs) - 1)), NEW b, NEW t, ThenOK(t, Nesting(cs) - 1),
           Outside(cs, Len(cs)) => \/ CallNames(Call(ss, b, t), A)
                                   \/ t.do = "body" /\ DOMAIN t.env \subseteq A
    PROVE  StateOK(en, Append(cs, Call(ss, b, t)), A)
<1> DEFINE c == Call(ss, b, t)
<1>1. c = [left |-> ss, out |-> <<>>, inComptime |-> b, then |-> t]  BY DEF Call
<1>2. c.left = ss /\ c.out = <<>> /\ c.inComptime = b /\ c.then = t  BY <1>1
<1>3. <<>> \in Seq(LeftBlocks(Nesting(cs) - 1))  OBVIOUS
<1>4. c = [left |-> c.left, out |-> c.out, inComptime |-> c.inComptime, then |-> c.then]
  BY <1>1, <1>2
<1> HIDE DEF c
<1>5. CallOK(c, Nesting(cs) - 1)  BY <1>2, <1>3, <1>4 DEF CallOK
<1>6. Outside(cs, Len(cs)) => \/ CallNames(c, A)
                              \/ c.then.do = "body" /\ DOMAIN c.then.env \subseteq A
  BY <1>2 DEF c
<1>7. StateOK(en, Append(cs, c), A)  BY <1>5, <1>6, PushOK
<1>8. QED  BY <1>7 DEF c

LEMMA DropOK ==
    ASSUME NEW en, NEW cs, NEW A, StateOK(en, cs, A), Nesting(cs) > 0,
           NEW ss \in Seq(Blocks(Nesting(cs) - 1)), Outside(cs, Len(cs)) => AllNamed(ss, A)
    PROVE  DoOK(LowerAndDrop(ss, en, cs), A)
<1>1. ThenOK(Drop, Nesting(cs) - 1)  BY DEF ThenOK, Drop
<1>2. Outside(cs, Len(cs)) => CallNames(Call(ss, TRUE, Drop), A)  BY DEF CallNames, Call, Drop
<1>3. StateOK(en, Append(cs, Call(ss, TRUE, Drop)), A)  BY <1>1, <1>2, CallBegun
<1>4. QED  BY <1>3, DoSame DEF LowerAndDrop

\* A turn of a comptime while is evaluated.
LEMMA TurnOK ==
    ASSUME NEW en, NEW cs, NEW A, StateOK(en, cs, A), Nesting(cs) > 0,
           NEW s \in Blocks(Nesting(cs) - 1), s.k = "while",
           Outside(cs, Len(cs)) => AllNamed(s.b, A), NEW turns
    PROVE  DoOK(LowerTurn(s, turns, en, cs), A)
<1> DEFINE n == Nesting(cs) - 1
           t == Turn(s, turns - 1)
<1>1. n \in 0..Depth  BY NestingIs, TreesAre DEF StateOK
<1>2. s.b \in Seq(Blocks(n - 1)) /\ n - 1 \in 0..Depth - 1 /\ n - 1 + 1 = n  BY <1>1, Contents
<1>3. s.b \in Seq(Blocks(n))
  <2>1. Blocks(n - 1) \subseteq Blocks(n)  BY <1>2, TreesGrow
  <2>2. QED  BY <1>2, <2>1, SeqMonotone
<1>4. t.do = "turn" /\ t.s = s  BY DEF Turn
<1>5. ThenOK(t, n)  BY <1>4 DEF ThenOK
<1>6. Outside(cs, Len(cs)) => CallNames(Call(s.b, TRUE, t), A)  BY <1>4 DEF CallNames, Call
<1> HIDE DEF t, n
<1>7. StateOK(en, Append(cs, Call(s.b, TRUE, t)), A)  BY <1>3, <1>5, <1>6, CallBegun DEF n
<1>8. DoOK(Do(en, Append(cs, Call(s.b, TRUE, t)), {}), A)  BY <1>7, DoSame
<1>9. /\ DoOK(Do(en, cs, {}), A) /\ DoOK(Do(en, cs, {"cut"}), A) /\ DoOK(Do(en, cs, Diag(TRUE)), A)
  BY DoSame
<1>10. \/ LowerTurn(s, turns, en, cs) = Do(en, Append(cs, Call(s.b, TRUE, t)), {})
       \/ LowerTurn(s, turns, en, cs) = Do(en, cs, {})
       \/ LowerTurn(s, turns, en, cs) = Do(en, cs, {"cut"})
       \/ LowerTurn(s, turns, en, cs) = Do(en, cs, Diag(TRUE))
  BY DEF LowerTurn, t
<1>11. QED  BY <1>8, <1>9, <1>10

LEMMA ComptimeOK ==
    ASSUME NEW s, NEW en, NEW cs, NEW A, ComesTo(s, en, cs, A), s.k = "comptime"
    PROVE  DoOK(LowerComptime(s, en, cs), A)
<1> DEFINE n     == Nesting(cs) - 1
           inner == s.b[1]
           d     == LowerComptime(s, en, cs)
           value == Eval(inner.e, en)
<1>1. /\ StateOK(en, cs, A) /\ Typed(en) /\ Nesting(cs) > 0 /\ Nesting(cs) \in 0..Depth
      /\ n \in 0..Depth - 1 /\ n \in 0..Depth /\ n + 1 = Nesting(cs)
      /\ s.b \in Seq(Blocks(n))
      /\ Outside(cs, Len(cs)) => AllNamed(s.b, A)
  BY ComesToIs
<1>2. Len(s.b) = 1
  <2>1. s \in Blocks(Nesting(cs)) /\ Nesting(cs) \in 0..Depth  BY <1>1 DEF ComesTo
  <2>2. QED  BY <2>1, Contents DEF WellFormed
<1>3. inner \in Blocks(n) /\ (Outside(cs, Len(cs)) => Named(inner) \subseteq A)
  BY <1>1, <1>2 DEF AllNamed
<1>4. Blocks(n) \subseteq Blocks(Nesting(cs))  BY <1>1, TreesGrow
<1>5. inner \in Blocks(Nesting(cs))  BY <1>3, <1>4
<1>6. ComesTo(inner, en, cs, A)  BY <1>1, <1>3, <1>5 DEF ComesTo
<1>7. /\ inner.b \in Seq(Blocks(n)) /\ inner.c \in Seq(Blocks(n))
      /\ Outside(cs, Len(cs)) /\ inner.k # "func" => AllNamed(inner.b, A) /\ AllNamed(inner.c, A)
  BY <1>6, ComesToIs
<1>8. CASE inner.k = "block"
  <2>1. DoOK(LowerAndDrop(inner.b, en, cs), A)  BY <1>1, <1>7, <1>8, DropOK
  <2>2. QED  BY <1>8, <2>1 DEF LowerComptime
<1>9. CASE inner.k \in {"const", "var"}
  <2>1. DoOK(Finish(LowerBinding(inner, en), cs), A)  BY <1>1, <1>5, <1>6, <1>9, BindingOK, FinishOK
  <2>2. QED  BY <1>9, <2>1 DEF LowerComptime
<1>10. CASE inner.k = "assign"
  <2>1. DoOK(Finish(LowerComptimeAssign(inner, en), cs), A)
    BY <1>1, <1>5, <1>6, <1>10, ComptimeAssignOK, FinishOK
  <2>2. QED  BY <1>10, <2>1 DEF LowerComptime
<1>11. CASE inner.k = "if"
  <2>1. DoOK(LowerAndDrop(inner.b, en, cs), A) /\ DoOK(LowerAndDrop(inner.c, en, cs), A)
    BY <1>1, <1>7, <1>11, DropOK
  <2>2. DoOK(Do(en, cs, Diag(TRUE)), A)  BY <1>1, DoSame
  <2>3. \/ d = Do(en, cs, Diag(TRUE))
        \/ d = LowerAndDrop(inner.b, en, cs)
        \/ d = LowerAndDrop(inner.c, en, cs)
    BY <1>11 DEF LowerComptime
  <2>4. QED  BY <2>1, <2>2, <2>3
<1>12. CASE inner.k = "while"
  <2>1. DoOK(LowerTurn(inner, Limit, en, cs), A)  BY <1>1, <1>3, <1>7, <1>12, TurnOK
  <2>2. QED  BY <1>12, <2>1 DEF LowerComptime
<1>13. CASE inner.k \notin {"block", "const", "var", "assign", "if", "while"}
  <2>1. ThenOK(Pass, n)  BY DEF ThenOK, Pass
  <2>2. Outside(cs, Len(cs)) => CallNames(Call(s.b, TRUE, Pass), A)  BY <1>1 DEF CallNames, Call, Pass
  <2>3. StateOK(en, Append(cs, Call(s.b, TRUE, Pass)), A)  BY <1>1, <2>1, <2>2, CallBegun
  <2>4. DoOK(Do(en, Append(cs, Call(s.b, TRUE, Pass)), {}), A)  BY <2>3, DoSame
  <2>5. d = Do(en, Append(cs, Call(s.b, TRUE, Pass)), {})  BY <1>13 DEF LowerComptime
  <2>6. QED  BY <2>4, <2>5
<1>14. QED  BY <1>8, <1>9, <1>10, <1>11, <1>12, <1>13

\* What has no condition has the number 0 in its place, and keeps it.
LEMMA ZeroKept ==
    ASSUME NEW en, Typed(en), Num(0) \in MarkedExpressions
    PROVE  LowerExpr(Num(0), en) = Num(0) /\ Num(0) \in UnmarkedExpressions
<1> DEFINE e == Num(0)
<1>1. e.k = "lit"  BY DEF Num, Node
<1> HIDE DEF e
<1>2. e \in MarkedExpressions  BY DEF e
<1>3. PICK as : LowerExpr(e, en) = LowerNode(e, as, en)  BY <1>2, LowerIs
<1>4. LowerExpr(e, en) = e  BY <1>1, <1>3 DEF LowerNode
<1>5. QED  BY <1>2, <1>4, LowerTyped DEF e

LEMMA NestedOK ==
    ASSUME NEW s, NEW en, NEW cs, NEW A, ComesTo(s, en, cs, A), s.k \in {"block", "if", "while"}, NEW b
    PROVE  DoOK(LowerNested(s, en, cs, b), A)
<1> DEFINE n == Nesting(cs) - 1
           e == LowerExpr(s.e, en)
           f == [k |-> s.k, x |-> s.x, e |-> e, b |-> s.b, c |-> s.c]
           t == First(f)
<1>1. /\ StateOK(en, cs, A) /\ Typed(en) /\ Nesting(cs) > 0 /\ Nesting(cs) \in 0..Depth
      /\ n \in 0..Depth /\ s \in Blocks(Nesting(cs))
      /\ s.b \in Seq(Blocks(n)) /\ s.c \in Seq(Blocks(n)) /\ s.e \in MarkedExpressions
      /\ Outside(cs, Len(cs)) => AllNamed(s.b, A) /\ AllNamed(s.c, A)
  BY ComesToIs
<1>2. /\ s.x \in Words /\ WellFormed(s)
      /\ s = [k |-> s.k, x |-> s.x, e |-> s.e, b |-> s.b, c |-> s.c]
  BY <1>1, Contents
<1>3. e \in UnmarkedExpressions  BY <1>1, LowerTyped
<1>4. s.k = "block" => e = Num(0)  BY <1>1, <1>2, ZeroKept DEF WellFormed
<1>5. s.k # "if" => s.c = <<>>  BY <1>2 DEF WellFormed
<1>6. [s EXCEPT !.e = e] = f
  <2>1. PICK k, x, g, p, q : /\ s = [k |-> k, x |-> x, e |-> g, b |-> p, c |-> q]
                             /\ k = s.k /\ x = s.x /\ p = s.b /\ q = s.c
    BY <1>2
  <2> HIDE DEF e
  <2>2. [s EXCEPT !.e = e] = [k |-> k, x |-> x, e |-> e, b |-> p, c |-> q]  BY <2>1
  <2>3. QED  BY <2>1, <2>2
<1>7. f.k = s.k /\ f.x = s.x /\ f.e = e /\ f.b = s.b /\ f.c = s.c
      /\ f = [k |-> f.k, x |-> f.x, e |-> f.e, b |-> f.b, c |-> f.c]
  OBVIOUS
<1> HIDE DEF e, f
<1>8. Shell(f, n)  BY <1>1, <1>2, <1>3, <1>7 DEF Shell, LeftKinds
<1>9. t.do = "first" /\ t.s = f  BY DEF First
<1>10. ThenOK(t, n)  BY <1>4, <1>5, <1>7, <1>8, <1>9 DEF ThenOK
<1>11. Outside(cs, Len(cs)) => CallNames(Call(s.b, b, t), A)  BY <1>1, <1>7, <1>9 DEF CallNames, Call
<1> HIDE DEF t
<1>12. StateOK(en, Append(cs, Call(s.b, b, t)), A)  BY <1>1, <1>10, <1>11, CallBegun
<1>13. DoOK(Do(en, Append(cs, Call(s.b, b, t)), Diag(LowerComplains(s.e, en))), A)
  BY <1>12, NotesAre, DoIs
<1>14. DoOK(LowerAndDrop(s.b, en, cs), A)  BY <1>1, DropOK
<1>15. \/ LowerNested(s, en, cs, b) = LowerAndDrop(s.b, en, cs)
       \/ LowerNested(s, en, cs, b)
            = Do(en, Append(cs, Call(s.b, b, t)), Diag(LowerComplains(s.e, en)))
  <2>1. t = First([s EXCEPT !.e = LowerExpr(@, en)])  BY <1>6 DEF t, e
  <2>2. QED  BY <2>1 DEF LowerNested
<1>16. QED  BY <1>13, <1>14, <1>15

LEMMA FuncOK ==
    ASSUME NEW s, NEW en, NEW cs, NEW A, ComesTo(s, en, cs, A), s.k = "func"
    PROVE  DoOK(LowerFunc(s, en, cs), A)
<1> DEFINE n == Nesting(cs) - 1
           t == Body(s, en)
<1>1. /\ StateOK(en, cs, A) /\ Typed(en) /\ Nesting(cs) > 0 /\ Nesting(cs) \in 0..Depth
      /\ n \in 0..Depth /\ s \in Blocks(Nesting(cs))
      /\ s.b \in Seq(Blocks(n)) /\ s.c \in Seq(Blocks(n)) /\ s.e \in MarkedExpressions
  BY ComesToIs
<1>2. /\ s.x \in Words /\ WellFormed(s)
      /\ s = [k |-> s.k, x |-> s.x, e |-> s.e, b |-> s.b, c |-> s.c]
  BY <1>1, Contents
<1>3. s.e = Num(0) /\ s.c = <<>>  BY <1>2 DEF WellFormed
<1>4. s.e \in UnmarkedExpressions  BY <1>1, <1>3, ZeroKept
<1>5. Shell(s, n)  BY <1>1, <1>2, <1>4 DEF Shell, LeftKinds
<1>6. t.do = "body" /\ t.s = s /\ t.env = en  BY DEF Body
<1>7. ThenOK(t, n)  BY <1>1, <1>3, <1>5, <1>6 DEF ThenOK
<1>8. Outside(cs, Len(cs)) => DOMAIN t.env \subseteq A  BY <1>1, <1>6 DEF StateOK, Scoped
<1> HIDE DEF t
<1>9. StateOK(en, Append(cs, Call(s.b, FALSE, t)), A)  BY <1>1, <1>6, <1>7, <1>8, CallBegun
<1>10. DoOK(Do(en, Append(cs, Call(s.b, FALSE, t)), {}), A)  BY <1>9, DoSame
<1>11. QED  BY <1>10 DEF LowerFunc, t

\* Whatever statement it is.
LEMMA LowerOK ==
    ASSUME NEW s, NEW en, NEW cs, NEW A, ComesTo(s, en, cs, A), NEW b
    PROVE  DoOK(Lower(s, en, cs, b), A)
<1>1. /\ Typed(en) /\ Nesting(cs) \in 0..Depth /\ s \in Blocks(Nesting(cs))
  BY ComesToIs
<1>2. s.k \in {"const", "var", "assign", "write", "return", "block", "if", "while", "func", "comptime"}
  BY <1>1, Contents
<1>3. CASE s.k = "const"
  <2>1. DoOK(Finish(LowerConst(s, en, b), cs), A)  BY <1>1, <1>3, ConstOK, FinishOK
  <2>2. QED  BY <1>3, <2>1 DEF Lower
<1>4. CASE s.k = "var"
  <2>1. DoOK(Finish(LowerVar(s, en, b), cs), A)  BY <1>1, <1>4, ConstOK, FinishOK
  <2>2. QED  BY <1>4, <2>1 DEF Lower
<1>5. CASE s.k = "assign"
  <2>1. DoOK(Finish(LowerAssign(s, en, b), cs), A)  BY <1>1, <1>5, AssignOK, FinishOK
  <2>2. QED  BY <1>5, <2>1 DEF Lower
<1>6. CASE s.k \in {"write", "return"}
  <2>1. DoOK(Finish(LowerSimple(s, en), cs), A)  BY <1>1, <1>6, SimpleOK, FinishOK
  <2>2. QED  BY <1>6, <2>1 DEF Lower
<1>7. CASE s.k = "func"  BY <1>7, FuncOK DEF Lower
<1>8. CASE s.k = "comptime"  BY <1>8, ComptimeOK DEF Lower
<1>9. CASE s.k \in {"block", "if", "while"}
  <2>1. DoOK(LowerNested(s, en, cs, b), A)  BY <1>9, NestedOK
  <2>2. QED  BY <1>9, <2>1 DEF Lower
<1>10. QED  BY <1>2, <1>3, <1>4, <1>5, <1>6, <1>7, <1>8, <1>9

-----------------------------------------------------------------------------
(* Returns                                                                 *)

\* A statement with the statements it contains lowered.
LEMMA ShellDone ==
    ASSUME NEW n \in 0..Depth - 1, NEW s, Shell(s, n), NEW b \in Seq(LeftBlocks(n)),
           NEW c \in Seq(LeftBlocks(n)), s.k \in {"block", "if", "while", "func"},
           s.k \in {"block", "func"} => s.e = Num(0), s.k # "if" => c = <<>>
    PROVE  <<[k |-> s.k, x |-> s.x, e |-> s.e, b |-> b, c |-> c]>> \in Seq(LeftBlocks(n + 1))
<1> DEFINE t == [k |-> s.k, x |-> s.x, e |-> s.e, b |-> b, c |-> c]
<1>1. t.k = s.k /\ t.e = s.e /\ t.c = c  OBVIOUS
<1>2. s.k \in LeftKinds /\ s.x \in Words /\ s.e \in UnmarkedExpressions  BY DEF Shell
<1>3. WellFormed(t)
  <2> HIDE DEF t
  <2>1. QED  BY <1>1 DEF WellFormed
<1>4. t \in LeftBlocks(n + 1)  BY <1>2, <1>3, LeftStatement
<1> HIDE DEF t
<1>5. <<t>> \in Seq(LeftBlocks(n + 1))  BY <1>4
<1>6. QED  BY <1>5 DEF t

LEMMA ShellExcept ==
    ASSUME NEW s, NEW n, Shell(s, n), NEW y
    PROVE  /\ [s EXCEPT !.b = y] = [k |-> s.k, x |-> s.x, e |-> s.e, b |-> y, c |-> s.c]
           /\ [s EXCEPT !.c = y] = [k |-> s.k, x |-> s.x, e |-> s.e, b |-> s.b, c |-> y]
<1>1. PICK k, x, g, p, q : /\ s = [k |-> k, x |-> x, e |-> g, b |-> p, c |-> q]
                           /\ k = s.k /\ x = s.x /\ g = s.e /\ p = s.b /\ q = s.c
  BY DEF Shell
<1>2. /\ [s EXCEPT !.b = y] = [k |-> k, x |-> x, e |-> g, b |-> y, c |-> q]
      /\ [s EXCEPT !.c = y] = [k |-> k, x |-> x, e |-> g, b |-> p, c |-> y]
  BY <1>1
<1>3. QED  BY <1>1, <1>2

LEMMA ReturnedOK ==
    ASSUME NEW en, NEW ds, NEW A, StateOK(en, ds, A), Len(ds) > 1
    PROVE  DoOK(Returned(Last(ds), en, Front(ds)), A)
<1> DEFINE c  == Last(ds)
           cs == Front(ds)
           n  == Nesting(ds)
           t  == c.then
           d  == Returned(c, en, cs)
<1>1. SUFFICES DoOK(d, A)  OBVIOUS
<1>2. /\ CallOK(c, n) /\ Nesting(cs) = n + 1
      /\ t.do # "body" => StateOK(en, cs, A)
      /\ t.do = "body" => StateOK(t.env, cs, A)
      /\ Outside(cs, Len(cs)) /\ t.do # "body" => CallNames(c, A)
  BY PopOK
<1>3. n \in 0..Depth /\ Depth \in Nat  BY NestingIs, TreesAre DEF StateOK
<1>4. \E en2 : StateOK(en2, cs, A)  BY <1>2
<1>5. n + 1 \in 0..Depth /\ n \in 0..Depth - 1
  <2>1. Nesting(cs) \in 0..Depth  BY <1>4, NestingIs DEF StateOK
  <2>2. QED  BY <1>2, <1>3, <2>1
<1>6. c.out \in Seq(LeftBlocks(n)) /\ ThenOK(t, n)  BY <1>2 DEF CallOK
<1> HIDE DEF c, cs, n
<1>7. Nesting(cs) > 0 /\ Nesting(cs) - 1 = n  BY <1>2, <1>3
<1>8. c.out \in Seq(LeftBlocks(n + 1))
  <2>1. LeftBlocks(n) \subseteq LeftBlocks(n + 1)  BY <1>5, TreesGrow
  <2>2. QED  BY <1>6, <2>1, SeqMonotone
<1>9. Kept(c) \in Seq(LeftBlocks(n))
  <2>1. <<>> \in Seq(LeftBlocks(n))  OBVIOUS
  <2>2. QED  BY <1>6, <2>1 DEF Kept
<1> HIDE DEF t
<1>10. CASE t.do = "drop"
  <2>1. DoOK(Do(en, cs, {}), A)  BY <1>2, <1>10, DoSame
  <2>2. d = Do(en, cs, {})  BY <1>10 DEF Returned, t
  <2>3. QED  BY <2>1, <2>2
<1>11. CASE t.do = "pass"
  <2>1. StateOK(en, Leave(cs, c.out), A)  BY <1>2, <1>8, <1>11, LeaveOK
  <2>2. DoOK(Do(en, Leave(cs, c.out), {}), A)  BY <2>1, DoSame
  <2>3. d = Do(en, Leave(cs, c.out), {})  BY <1>11 DEF Returned, t
  <2>4. QED  BY <2>2, <2>3
<1>12. CASE t.do = "first"
  <2> DEFINE s == [k |-> t.s.k, x |-> t.s.x, e |-> t.s.e, b |-> Kept(c), c |-> t.s.c]
  <2>1. /\ Shell(t.s, n) /\ t.s.k \in {"block", "if", "while"}
        /\ t.s.k = "block" => t.s.e = Num(0)
        /\ t.s.k # "if" => t.s.c = <<>>
    BY <1>6, <1>12 DEF ThenOK
  <2>2. StateOK(en, cs, A)  BY <1>2, <1>12
  <2>3. [t.s EXCEPT !.b = Kept(c)] = s  BY <2>1, ShellExcept
  <2>4. s.k = t.s.k /\ s.x = t.s.x /\ s.e = t.s.e /\ s.b = Kept(c) /\ s.c = t.s.c
        /\ s = [k |-> s.k, x |-> s.x, e |-> s.e, b |-> s.b, c |-> s.c]
    OBVIOUS
  <2>5. s.k # "if" => <<s>> \in Seq(LeftBlocks(n + 1))
    <3>1. ASSUME s.k # "if"  PROVE <<s>> \in Seq(LeftBlocks(n + 1))
      <4>1. <<>> \in Seq(LeftBlocks(n))  OBVIOUS
      <4>2. t.s.c = <<>> /\ t.s.c \in Seq(LeftBlocks(n))  BY <2>1, <2>4, <3>1, <4>1
      <4>3. t.s.k \in {"block", "if", "while", "func"}
            /\ (t.s.k \in {"block", "func"} => t.s.e = Num(0))
            /\ (t.s.k # "if" => t.s.c = <<>>)
        BY <2>1
      <4>4. QED  BY <1>5, <1>9, <2>1, <4>2, <4>3, ShellDone
    <3>2. QED  BY <3>1
  <2> HIDE DEF s
  <2>6. CASE s.k = "if"
    <3>1. Shell(s, n)  BY <2>1, <2>4 DEF Shell
    <3>2. Second(s).do = "second" /\ Second(s).s = s  BY DEF Second
    <3>3. ThenOK(Second(s), n)  BY <1>9, <2>4, <2>6, <3>1, <3>2 DEF ThenOK
    <3>4. s.c \in Seq(Blocks(n))  BY <3>1 DEF Shell
    <3>5. Outside(cs, Len(cs)) => CallNames(Call(s.c, c.inComptime, Second(s)), A)
      <4>1. Outside(cs, Len(cs)) => AllNamed(s.c, A)  BY <1>2, <1>12, <2>4 DEF CallNames, t
      <4>2. QED  BY <3>2, <4>1 DEF CallNames, Call
    <3>6. StateOK(en, Append(cs, Call(s.c, c.inComptime, Second(s))), A)
      BY <1>7, <2>2, <3>3, <3>4, <3>5, CallBegun
    <3>7. DoOK(Do(en, Append(cs, Call(s.c, c.inComptime, Second(s))), {}), A)  BY <3>6, DoSame
    <3>8. d = Do(en, Append(cs, Call(s.c, c.inComptime, Second(s))), {})
      BY <1>12, <2>3, <2>6 DEF Returned, EndFirst, t
    <3>9. QED  BY <3>7, <3>8
  <2>7. CASE s.k # "if"
    <3>1. StateOK(en, Leave(cs, <<s>>), A)  BY <1>2, <2>2, <2>5, <2>7, LeaveOK
    <3>2. DoOK(Do(en, Leave(cs, <<s>>), {}), A)  BY <3>1, DoSame
    <3>3. d = Do(en, Leave(cs, <<s>>), {})  BY <1>12, <2>3, <2>7 DEF Returned, EndFirst, t
    <3>4. QED  BY <3>2, <3>3
  <2>8. QED  BY <2>6, <2>7
<1>13. CASE t.do = "second"
  <2> DEFINE s == [k |-> t.s.k, x |-> t.s.x, e |-> t.s.e, b |-> t.s.b, c |-> Kept(c)]
  <2>1. Shell(t.s, n) /\ t.s.k = "if" /\ t.s.b \in Seq(LeftBlocks(n))  BY <1>6, <1>13 DEF ThenOK
  <2>2. <<s>> \in Seq(LeftBlocks(n + 1))  BY <1>5, <1>9, <2>1, ShellDone
  <2>3. [t.s EXCEPT !.c = Kept(c)] = s  BY <2>1, ShellExcept
  <2> HIDE DEF s
  <2>4. StateOK(en, Leave(cs, <<s>>), A)  BY <1>2, <1>13, <2>2, LeaveOK
  <2>5. DoOK(Do(en, Leave(cs, <<s>>), {}), A)  BY <2>4, DoSame
  <2>6. d = Do(en, Leave(cs, <<s>>), {})  BY <1>13, <2>3 DEF Returned, t
  <2>7. QED  BY <2>5, <2>6
<1>14. CASE t.do = "body"
  <2> DEFINE s == [k |-> t.s.k, x |-> t.s.x, e |-> t.s.e, b |-> c.out, c |-> t.s.c]
  <2>1. Shell(t.s, n) /\ t.s.k = "func" /\ t.s.e = Num(0) /\ t.s.c = <<>>  BY <1>6, <1>14 DEF ThenOK
  <2>2. <<s>> \in Seq(LeftBlocks(n + 1))
    <3>1. t.s.c \in Seq(LeftBlocks(n))  BY <2>1
    <3>2. QED  BY <1>5, <1>6, <2>1, <3>1, ShellDone
  <2>3. [t.s EXCEPT !.b = c.out] = s  BY <2>1, ShellExcept
  <2> HIDE DEF s
  <2>4. StateOK(t.env, Leave(cs, <<s>>), A)  BY <1>2, <1>14, <2>2, LeaveOK
  <2>5. DoOK(Do(t.env, Leave(cs, <<s>>), {}), A)  BY <2>4, DoSame
  <2>6. d = Do(t.env, Leave(cs, <<s>>), {})  BY <1>14, <2>3 DEF Returned, EndFunc, t
  <2>7. QED  BY <2>5, <2>6
<1>15. CASE t.do = "turn"
  <2>1. t.s \in Blocks(n) /\ t.s.k = "while"  BY <1>6, <1>15 DEF ThenOK
  <2>2. Outside(cs, Len(cs)) => AllNamed(t.s.b, A)  BY <1>2, <1>15 DEF CallNames, t
  <2>3. DoOK(LowerTurn(t.s, t.turns, en, cs), A)  BY <1>2, <1>7, <1>15, <2>1, <2>2, TurnOK
  <2>4. d = LowerTurn(t.s, t.turns, en, cs)  BY <1>15 DEF Returned, t
  <2>5. QED  BY <2>3, <2>4
<1>16. t.do \in {"drop", "pass", "first", "second", "body", "turn"}  BY <1>6 DEF ThenOK
<1>17. QED  BY <1>10, <1>11, <1>12, <1>13, <1>14, <1>15, <1>16

-----------------------------------------------------------------------------
(* The pass                                                                *)

\* What the program so far names outside functions.
NamedSoFar == UNION {Named(program[i]) : i \in DOMAIN program}

\* The inductive invariant.
CInv ==
    /\ StateOK(env, calls, NamedSoFar)
    /\ notes \subseteq AllNotes
    /\ program \in Seq(MarkedPrograms)

LEMMA InitCInv == Init => CInv
<1> SUFFICES ASSUME Init PROVE CInv  OBVIOUS
<1> DEFINE c == Call(<<>>, FALSE, Drop)
<1>1. Depth \in Nat  BY TreesAre
<1>2. c = [left |-> <<>>, out |-> <<>>, inComptime |-> FALSE, then |-> Drop]  BY DEF Call
<1>3. ThenOK(Drop, Depth) /\ Drop.do = "drop"  BY DEF ThenOK, Drop
<1>4. /\ c.left = <<>> /\ c.out = <<>> /\ c.then = Drop
      /\ c = [left |-> c.left, out |-> c.out, inComptime |-> c.inComptime, then |-> c.then]
  <2> DEFINE d(b, t) == [left |-> <<>>, out |-> <<>>, inComptime |-> b, then |-> t]
  <2>1. \A b, t : /\ d(b, t).left = <<>> /\ d(b, t).out = <<>> /\ d(b, t).then = t
                  /\ d(b, t) = [left |-> d(b, t).left, out |-> d(b, t).out,
                                inComptime |-> d(b, t).inComptime, then |-> d(b, t).then]
    OBVIOUS
  <2>2. c = d(FALSE, Drop)  BY <1>2
  <2> HIDE DEF c, d
  <2>3. QED  BY <2>1, <2>2
<1>5. <<>> \in Seq(Blocks(Depth)) /\ <<>> \in Seq(LeftBlocks(Depth))  OBVIOUS
<1>6. calls = <<c>> /\ env = EmptyEnv /\ notes = {} /\ program = <<>>  BY DEF Init
<1> HIDE DEF c
<1>7. CallOK(c, Depth)  BY <1>3, <1>4, <1>5 DEF CallOK
<1>8. IsStack(calls) /\ Len(calls) = 1 /\ calls[1] = c
  <2>1. calls \in Seq({c})  BY <1>6
  <2>2. QED  BY <1>6, <2>1 DEF IsStack
<1>9. \A i \in 1..1 : i = 1  OBVIOUS
<1>10. StackOK(calls)
  <2>1. Depth + 1 - 1 = Depth /\ 1 \in 1..Depth + 1  BY <1>1
  <2>2. calls[1].then.do = "drop"  BY <1>3, <1>4, <1>8
  <2>3. QED  BY <1>7, <1>8, <1>9, <2>1, <2>2 DEF StackOK
<1>11. CallNames(c, NamedSoFar)  BY <1>3, <1>4 DEF CallNames, AllNamed
<1>12. DOMAIN env = {} /\ Typed(env)  BY <1>6, EmptyEnvIs
<1>13. Scoped(env, calls, NamedSoFar)
  <2>1. c.then.do # "body"  BY <1>3, <1>4
  <2>2. QED  BY <1>8, <1>9, <1>11, <1>12, <2>1 DEF Scoped
<1>14. <<>> \in Seq(MarkedPrograms)  OBVIOUS
<1>15. QED  BY <1>6, <1>10, <1>12, <1>13, <1>14 DEF CInv, StateOK

\* More may be bound when more is named.
LEMMA ScopeGrows ==
    ASSUME NEW en, NEW cs, NEW A, NEW B, StateOK(en, cs, A), A \subseteq B
    PROVE  StateOK(en, cs, B)
BY DEF StateOK, Scoped, CallNames, AllNamed

LEMMA CInvBecomes ==
    ASSUME CInv, NEW d, NEW A, DoOK(d, A), Becomes(d), A = NamedSoFar', program' \in Seq(MarkedPrograms)
    PROVE  CInv'
<1>1. StateOK(env', calls', A) /\ d.notes \subseteq AllNotes  BY DEF DoOK, Becomes
<1>2. notes' \subseteq AllNotes  BY <1>1 DEF CInv, Becomes
<1>3. QED  BY <1>1, <1>2 DEF CInv

LEMMA StepCInv == CInv /\ [Next]_vars => CInv'
<1> SUFFICES ASSUME CInv, [Next]_vars PROVE CInv'  OBVIOUS
<1>1. /\ StateOK(env, calls, NamedSoFar) /\ notes \subseteq AllNotes
      /\ program \in Seq(MarkedPrograms)
      /\ Len(calls) \in Nat /\ Len(calls) >= 1
  BY NestingIs DEF CInv, StateOK
<1>2. ASSUME NEW s \in Statements, LowerStatement(s)  PROVE CInv'
  <2>1. s \in MarkedPrograms /\ Blocks(Depth) = MarkedPrograms  BY StatementsAssumption, TreesGrow
  <2>2. program' = Append(program, s) /\ Len(calls) = 1 /\ Becomes(Lower(s, env, calls, FALSE))
    BY <1>2 DEF LowerStatement, Settled
  <2>3. program' \in Seq(MarkedPrograms)  BY <1>1, <2>1, <2>2
  <2>4. NamedSoFar \subseteq NamedSoFar' /\ Named(s) \subseteq NamedSoFar'
    <3>1. /\ \A i \in DOMAIN program : i \in DOMAIN program' /\ program'[i] = program[i]
          /\ Len(program) + 1 \in DOMAIN program' /\ program'[Len(program) + 1] = s
      BY <1>1, <2>1, <2>2
    <3>2. QED  BY <3>1 DEF NamedSoFar
  <2>5. Nesting(calls) = Depth  BY <2>2, TreesAre DEF Nesting
  <2> DEFINE A == NamedSoFar'
  <2>6. StateOK(env, calls, A)  BY <1>1, <2>4, ScopeGrows
  <2>7. ComesTo(s, env, calls, A)  BY <2>1, <2>4, <2>5, <2>6 DEF ComesTo
  <2>8. DoOK(Lower(s, env, calls, FALSE), A)  BY <2>7, LowerOK
  <2>9. QED  BY <2>2, <2>3, <2>8, CInvBecomes
<1>3. CASE LowerNext
  <2> DEFINE n  == Len(calls)
             cs == [calls EXCEPT ![n].left = Tail(@)]
             s  == Head(calls[n].left)
  <2>1. innermost = calls[n] /\ n >= 1
    <3>1. IsStack(calls)  BY <1>1 DEF StateOK, StackOK
    <3>2. QED  BY <1>1, <3>1, Popped DEF innermost
  <2>2. /\ calls[n].left # <<>> /\ program' = program
        /\ Becomes(Lower(s, env, cs, calls[n].inComptime))
    BY <1>3, <2>1 DEF LowerNext
  <2>3. /\ StateOK(env, cs, NamedSoFar) /\ Len(cs) = n /\ s \in Blocks(Nesting(calls))
        /\ Outside(cs, n) => Named(s) \subseteq NamedSoFar
    BY <1>1, <2>2, TakeOK
  <2> HIDE DEF cs, s
  <2>4. ComesTo(s, env, cs, NamedSoFar)
    <3>1. Nesting(cs) = Nesting(calls)  BY <2>3 DEF Nesting
    <3>2. QED  BY <2>3, <3>1 DEF ComesTo
  <2>5. DoOK(Lower(s, env, cs, calls[n].inComptime), NamedSoFar)  BY <2>4, LowerOK
  <2>6. NamedSoFar' = NamedSoFar /\ program' \in Seq(MarkedPrograms)  BY <1>1, <2>2 DEF NamedSoFar
  <2>7. QED  BY <2>2, <2>5, <2>6, CInvBecomes
<1>4. CASE ReturnList
  <2>1. /\ program' = program /\ Len(calls) # 1
        /\ Becomes(Returned(Last(calls), env, Front(calls)))
    BY <1>4 DEF ReturnList, Settled, innermost
  <2>2. DoOK(Returned(Last(calls), env, Front(calls)), NamedSoFar)
    <3>1. \A n \in Nat : n >= 1 /\ n # 1 => n > 1  OBVIOUS
    <3>2. Len(calls) > 1
      <4>1. Len(calls) \in Nat /\ Len(calls) >= 1 /\ Len(calls) # 1  BY <1>1, <2>1
      <4>2. QED  BY <3>1, <4>1
    <3>3. QED  BY <1>1, <3>2, ReturnedOK
  <2>3. NamedSoFar' = NamedSoFar /\ program' \in Seq(MarkedPrograms)  BY <1>1, <2>1 DEF NamedSoFar
  <2>4. QED  BY <2>1, <2>2, <2>3, CInvBecomes
<1>5. CASE UNCHANGED vars
  <2>1. program' = program /\ env' = env /\ calls' = calls /\ notes' = notes  BY <1>5 DEF vars
  <2>2. NamedSoFar' = NamedSoFar  BY <2>1 DEF NamedSoFar
  <2>3. QED  BY <1>1, <2>1, <2>2 DEF CInv
<1>6. QED  BY <1>2, <1>3, <1>4, <1>5 DEF Next

\* Nothing that exists at compile time only is left (lowerComptime), in no part of any
\* statement, and what is bound is a number or a text.
THEOREM NothingMarkedIsLeft == Spec => []TypeOK
<1>1. CInv => TypeOK
  <2> SUFFICES ASSUME CInv PROVE TypeOK  OBVIOUS
  <2>1. \A x \in DOMAIN env : env[x] \in Values  BY DEF CInv, StateOK, Typed
  <2>2. notes \subseteq {"diagnostic", "cut", "skipped"}  BY DEF CInv, AllNotes
  <2>3. Settled => lowered \in Seq(UnmarkedPrograms)
    <3>1. CallOK(calls[Len(calls)], Nesting(calls))  BY NestingIs DEF CInv, StateOK
    <3>2. ASSUME Settled  PROVE lowered \in Seq(UnmarkedPrograms)
      <4>1. Len(calls) = 1 /\ Nesting(calls) = Depth  BY <3>2, TreesAre DEF Settled, Nesting
      <4>2. QED  BY <3>1, <4>1, TreesGrow DEF CallOK, lowered
    <3>3. QED  BY <3>2
  <2>4. QED  BY <2>1, <2>2, <2>3 DEF TypeOK
<1>2. QED  BY <1>1, InitCInv, StepCInv, PTL DEF Spec

\* The body of a function binds nothing outside of it (the copy of the environment in
\* lowerStatement, ConstantEvaluator.cpp:480).
THEOREM ScopesAreClosed == Spec => []FunctionScopesClosed
<1>1. CInv => FunctionScopesClosed
  <2> SUFFICES ASSUME CInv, Len(calls) = 1 PROVE DOMAIN env \subseteq NamedSoFar
    BY DEF FunctionScopesClosed, Settled, NamedSoFar
  <2>1. Scoped(env, calls, NamedSoFar) /\ calls[1].then.do = "drop"
    BY DEF CInv, StateOK, StackOK
  <2>2. Outside(calls, 1)
    <3>1. \A j \in 1..1 : j = 1  OBVIOUS
    <3>2. QED  BY <2>1, <3>1 DEF Outside
  <2>3. QED  BY <2>1, <2>2 DEF Scoped
<1>2. QED  BY <1>1, InitCInv, StepCInv, PTL DEF Spec
=============================================================================
