--------------------------- MODULE CodegenProofs ---------------------------
(***************************************************************************)
(* Proofs about module Codegen, for every set of programs: the type stack  *)
(* and the stack of contexts are balanced, whatever is visited.            *)
(***************************************************************************)
EXTENDS Codegen, SequenceTheorems, TLAPS

(* Sequences, whatever they are of.                                        *)

IsList(s) == \E S : s \in Seq(S)

LEMMA ListAppend ==
    ASSUME NEW s, NEW x, IsList(s)
    PROVE  IsList(Append(s, x)) /\ Len(Append(s, x)) = Len(s) + 1
<1>1. PICK S : s \in Seq(S)  BY DEF IsList
<1>2. s \in Seq(S \cup {x})  BY <1>1
<1>3. Append(s, x) \in Seq(S \cup {x}) /\ Len(Append(s, x)) = Len(s) + 1  BY <1>2
<1>4. QED  BY <1>3 DEF IsList

LEMMA ListFront ==
    ASSUME NEW s, IsList(s), Len(s) > 0
    PROVE  IsList(Front(s)) /\ Len(s) \in Nat /\ Len(Front(s)) = Len(s) - 1
<1>1. PICK S : s \in Seq(S)  BY DEF IsList
<1>2. Len(s) \in Nat /\ s \in [1..Len(s) -> S]  BY <1>1
<1>3. Front(s) = [i \in 1..Len(s) - 1 |-> s[i]]  BY <1>1, <1>2, SMT DEF Front
<1>4. [i \in 1..Len(s) - 1 |-> s[i]] \in Seq(S)  BY <1>2
<1>5. Len([i \in 1..Len(s) - 1 |-> s[i]]) = Len(s) - 1  BY <1>2
<1>6. QED  BY <1>2, <1>3, <1>4, <1>5 DEF IsList

LEMMA ListExcept ==
    ASSUME NEW s, NEW i, NEW x, IsList(s)
    PROVE  IsList([s EXCEPT ![i] = x]) /\ Len([s EXCEPT ![i] = x]) = Len(s)
<1>1. PICK S : s \in Seq(S)  BY DEF IsList
<1>2. s \in Seq(S \cup {x})  BY <1>1
<1>3. [s EXCEPT ![i] = x] \in Seq(S \cup {x}) /\ Len([s EXCEPT ![i] = x]) = Len(s)
  <2>1. s \in [1..Len(s) -> S \cup {x}] /\ Len(s) \in Nat  BY <1>2
  <2>2. [s EXCEPT ![i] = x] \in [1..Len(s) -> S \cup {x}]  BY <2>1
  <2>3. QED  BY <2>1, <2>2
<1>4. QED  BY <1>3 DEF IsList

LEMMA ListConcat ==
    ASSUME NEW s, NEW t, IsList(s), IsList(t)
    PROVE  /\ IsList(s \o t) /\ Len(s) \in Nat /\ Len(t) \in Nat /\ Len(s \o t) = Len(s) + Len(t)
           /\ \A i \in 1..Len(s) : (s \o t)[i] = s[i]
           /\ \A i \in 1..Len(t) : (s \o t)[Len(s) + i] = t[i]
<1>1. PICK S : s \in Seq(S)  BY DEF IsList
<1>2. PICK T1 : t \in Seq(T1)  BY DEF IsList
<1>3. s \in Seq(S \cup T1) /\ t \in Seq(S \cup T1)  BY <1>1, <1>2
<1>4. s \o t \in Seq(S \cup T1)  BY <1>3
<1>5. QED  BY <1>3, <1>4 DEF IsList

LEMMA ListTail ==
    ASSUME NEW s, IsList(s), s # <<>>
    PROVE  /\ IsList(Tail(s)) /\ Len(s) \in Nat /\ Len(s) > 0 /\ Len(Tail(s)) = Len(s) - 1
           /\ \A i \in 1..Len(Tail(s)) : Tail(s)[i] = s[i + 1]
<1>1. PICK S : s \in Seq(S)  BY DEF IsList
<1>2. Tail(s) \in Seq(S) /\ Len(Tail(s)) = Len(s) - 1 /\ Len(s) \in Nat /\ Len(s) > 0  BY <1>1
<1>3. \A i \in 1..Len(Tail(s)) : Tail(s)[i] = s[i + 1]  BY <1>1
<1>4. QED  BY <1>2, <1>3 DEF IsList

-----------------------------------------------------------------------------
(* The visitor with n types on the type stack beyond those kept, and m     *)
(* contexts.                                                               *)

Fields == {"out", "types", "ctx", "labels", "structs", "funcs", "strings", "thrown", "kept"}

Holds(types, kept, n) == IsList(types) /\ kept \in Nat /\ n \in Nat /\ Len(types) = kept + n
Nested(ctx, m) == IsList(ctx) /\ m \in Nat /\ Len(ctx) = m
Shape(g, n, m) ==
    /\ DOMAIN g = Fields
    /\ Holds(g.types, g.kept, n) /\ Nested(g.ctx, m) /\ g.thrown = ""

LEMMA HoldsPush ==
    ASSUME NEW s, NEW k, NEW n, NEW t, Holds(s, k, n)
    PROVE  Holds(Append(s, t), k, n + 1)
<1>1. IsList(Append(s, t)) /\ Len(Append(s, t)) = Len(s) + 1  BY ListAppend DEF Holds
<1>2. QED  BY <1>1 DEF Holds

LEMMA HoldsPop ==
    ASSUME NEW s, NEW k, NEW n, Holds(s, k, n), n > 0
    PROVE  /\ s # <<>> /\ Holds(Front(s), k, n - 1)
           /\ Holds(s, k + 1, n - 1)
<1>1. Len(s) > 0  BY DEF Holds
<1>2. IsList(Front(s)) /\ Len(Front(s)) = Len(s) - 1  BY <1>1, ListFront DEF Holds
<1>3. s # <<>>  BY <1>1
<1>4. QED  BY <1>2, <1>3 DEF Holds

LEMMA NestedChange ==
    ASSUME NEW c, NEW m, NEW x, Nested(c, m)
    PROVE  /\ Nested(Append(c, x), m + 1)
           /\ \A i : Nested([c EXCEPT ![i] = x], m)
           /\ m > 0 => c # <<>> /\ Nested(Front(c), m - 1)
<1>1. IsList(Append(c, x)) /\ Len(Append(c, x)) = Len(c) + 1  BY ListAppend DEF Nested
<1>2. ASSUME NEW i  PROVE Nested([c EXCEPT ![i] = x], m)
  BY ListExcept DEF Nested
<1>3. ASSUME m > 0  PROVE c # <<>> /\ Nested(Front(c), m - 1)
  <2>1. Len(c) > 0  BY <1>3 DEF Nested
  <2>2. IsList(Front(c)) /\ Len(Front(c)) = Len(c) - 1  BY <2>1, ListFront DEF Nested
  <2>3. c # <<>>  BY <2>1
  <2>4. QED  BY <1>3, <2>2, <2>3 DEF Nested
<1>4. QED  BY <1>1, <1>2, <1>3 DEF Nested

\* What leaves types, contexts and thrown alone.
LEMMA ShapeSame ==
    ASSUME NEW g, NEW n, NEW m, Shape(g, n, m), NEW h, DOMAIN h = DOMAIN g,
           \A f \in {"types", "ctx", "thrown", "kept"} : h[f] = g[f]
    PROVE  Shape(h, n, m)
BY Zenon DEF Shape

LEMMA ShapeEmit ==
    ASSUME NEW g, NEW n, NEW m, Shape(g, n, m), NEW c
    PROVE  Shape(Emit(g, c), n, m)
<1>1. DOMAIN Emit(g, c) = DOMAIN g /\ \A f \in {"types", "ctx", "thrown", "kept"} : Emit(g, c)[f] = g[f]
  BY DEF Emit, Shape, Fields
<1>2. QED  BY <1>1, ShapeSame

LEMMA ShapeCounted ==
    ASSUME NEW g, NEW n, NEW m, Shape(g, n, m)
    PROVE  Shape(Counted(g), n, m)
<1>1. DOMAIN Counted(g) = DOMAIN g /\ \A f \in {"types", "ctx", "thrown", "kept"} : Counted(g)[f] = g[f]
  BY DEF Counted, Shape, Fields
<1>2. QED  BY <1>1, ShapeSame

\* What changes one of the fields.
LEMMA ShapeTypes ==
    ASSUME NEW g, NEW n, NEW m, Shape(g, n, m), NEW s, NEW n1, Holds(s, g.kept, n1)
    PROVE  Shape([g EXCEPT !.types = s], n1, m)
<1> DEFINE h == [g EXCEPT !.types = s]
<1>1. DOMAIN h = Fields /\ h.types = s  BY DEF Shape, Fields
<1>2. h.kept = g.kept /\ h.ctx = g.ctx /\ h.thrown = g.thrown  BY DEF Shape, Fields
<1> HIDE DEF h
<1>3. Shape(h, n1, m)  BY <1>1, <1>2, Zenon DEF Shape
<1>4. QED  BY <1>3 DEF h

LEMMA ShapeCtxs ==
    ASSUME NEW g, NEW n, NEW m, Shape(g, n, m), NEW c, NEW m1, Nested(c, m1)
    PROVE  Shape([g EXCEPT !.ctx = c], n, m1)
<1> DEFINE h == [g EXCEPT !.ctx = c]
<1>1. DOMAIN h = Fields /\ h.ctx = c  BY DEF Shape, Fields
<1>2. h.kept = g.kept /\ h.types = g.types /\ h.thrown = g.thrown  BY DEF Shape, Fields
<1> HIDE DEF h
<1>3. Shape(h, n, m1)  BY <1>1, <1>2, Zenon DEF Shape
<1>4. QED  BY <1>3 DEF h

LEMMA ShapePush ==
    ASSUME NEW g, NEW n, NEW m, Shape(g, n, m), NEW t
    PROVE  Shape(PushType(g, t), n + 1, m)
<1>1. Holds(Append(g.types, t), g.kept, n + 1)  BY HoldsPush, Zenon DEF Shape
<1>2. QED  BY <1>1, ShapeTypes DEF PushType

LEMMA ShapePop ==
    ASSUME NEW g, NEW n, NEW m, Shape(g, n, m), n > 0
    PROVE  Shape(PopType(g), n - 1, m)
<1>1. g.types # <<>> /\ Holds(Front(g.types), g.kept, n - 1)  BY HoldsPop, Zenon DEF Shape
<1>2. QED  BY <1>1, ShapeTypes DEF PopType

LEMMA ShapeKeep ==
    ASSUME NEW g, NEW n, NEW m, Shape(g, n, m), n > 0
    PROVE  Shape([g EXCEPT !.kept = @ + 1], n - 1, m)
<1> DEFINE h == [g EXCEPT !.kept = @ + 1]
<1>1. DOMAIN h = Fields /\ h.kept = g.kept + 1  BY DEF Shape, Fields
<1>2. h.types = g.types /\ h.ctx = g.ctx /\ h.thrown = g.thrown  BY DEF Shape, Fields
<1>3. Holds(g.types, g.kept + 1, n - 1)  BY HoldsPop, Zenon DEF Shape
<1> HIDE DEF h
<1>4. Shape(h, n - 1, m)  BY <1>1, <1>2, <1>3, Zenon DEF Shape
<1>5. QED  BY <1>4 DEF h

LEMMA ShapeCtx ==
    ASSUME NEW g, NEW n, NEW m, Shape(g, n, m), NEW c
    PROVE  Shape(OnCtx(g, c), n, m)
<1>1. OnCtx(g, c) = [g EXCEPT !.ctx = [g.ctx EXCEPT ![Len(g.ctx)] = c]]  BY DEF OnCtx
<1>2. Nested([g.ctx EXCEPT ![Len(g.ctx)] = c], m)  BY NestedChange, Zenon DEF Shape
<1>3. QED  BY <1>1, <1>2, ShapeCtxs

LEMMA ShapeBegin ==
    ASSUME NEW g, NEW n, NEW m, Shape(g, n, m), NEW r
    PROVE  Shape(BeginFunction(g, r), n, m + 1)
<1>1. Nested(Append(g.ctx, NewContext(r)), m + 1)  BY NestedChange, Zenon DEF Shape
<1>2. QED  BY <1>1, ShapeCtxs DEF BeginFunction

LEMMA ShapeEnd ==
    ASSUME NEW g, NEW n, NEW m, Shape(g, n, m), m > 0
    PROVE  Shape(EndFunction(g), n, m - 1)
<1>1. Nested(Front(g.ctx), m - 1)  BY NestedChange, Zenon DEF Shape
<1>2. QED  BY <1>1, ShapeCtxs DEF EndFunction

LEMMA ShapeTmp ==
    ASSUME NEW g, NEW n, NEW m, Shape(g, n, m)
    PROVE  /\ Shape(PushTmp(g), n, m)
           /\ \A off, r : Shape(PopTmp(g, off, r), n, m)
<1>1. Shape(PushTmp(g), n, m)  BY ShapeCtx, ShapeEmit DEF PushTmp
<1>2. ASSUME NEW off, NEW r  PROVE Shape(PopTmp(g, off, r), n, m)
  <2>1. Shape(Emit(g, <<Load(r, Below(off), 8, TRUE)>>), n, m)  BY ShapeEmit
  <2>2. QED  BY <2>1, ShapeCtx DEF PopTmp, FreeTmp
<1>3. QED  BY <1>1, <1>2

LEMMA ShapeReserve ==
    ASSUME NEW g, NEW n, NEW m, Shape(g, n, m)
    PROVE  /\ \A x, t, size, align : Shape(Reserve(g, x, t, size, align), n, m)
           /\ \A x, t : Shape(ReserveValue(g, x, t), n, m)
BY ShapeCtx DEF Reserve, ReserveValue

LEMMA Thrown ==
    ASSUME NEW g, NEW n, NEW m, Shape(g, n, m)
    PROVE  Throw(g).thrown = "error"
BY DEF Throw, Shape, Fields

\* Nothing is popped from an empty stack, and there is a context where there has to be.
LEMMA ShapeNonEmpty ==
    ASSUME NEW g, NEW n, NEW m, Shape(g, n, m)
    PROVE  /\ n \in Nat /\ m \in Nat /\ g.thrown = ""
           /\ m > 0 => g.ctx # <<>>
BY NestedChange DEF Shape, Holds, Nested

-----------------------------------------------------------------------------
(* What a task does to the two stacks when it and what it gives rise to    *)
(* are done: from n types and m contexts it leads to n1 and m1.            *)

Ends  == {"drop", "keep", "initial", "constant", "return"}
Turns == {"pointed", "right", "operate", "index", "element", "member", "argument", "target",
          "member target", "base target", "element target", "pointed target"}
Gain(t)   == IF t.do = "visit" THEN IF Typed(t.e) THEN 1 ELSE 0
             ELSE IF t.do = "type" THEN 1
             ELSE IF t.do \in Ends THEN -1 ELSE 0
Closes(t) == IF t.do = "end" THEN 1 ELSE 0

KindOf == [right |-> "bin", index |-> "index", argument |-> "call", target |-> "assign", rest |-> "block"]

\* When a task can be carried out.
Fits(t, n, m) ==
    /\ t.do \in {"visit", "code", "type", "rest", "parameter", "end"} \cup Ends \cup Turns
    /\ t.do \in Ends \cup Turns => n > 0
    /\ t.do = "visit" => t.e \in Nodes /\ (t.e.k \notin {"func", "struct"} => m > 0)
    /\ t.do \notin {"visit", "code", "type", "drop", "keep"} => m > 0
    /\ t.do \in DOMAIN KindOf => t.e \in Nodes /\ t.e.k = KindOf[t.do]
    /\ t.do = "argument" => IsList(t.at) /\ Len(t.at) < Len(t.e.a)
    /\ t.do = "base target" => t.e \in Nodes /\ t.e.k = "assign" /\ t.e.a[1].k = "index"
    /\ t.do = "rest" => t.at[1] \in Nat \ {0}

Moves(t, n, m, n1, m1) ==
    /\ n \in Nat /\ m \in Nat /\ n1 \in Nat /\ m1 \in Nat
    /\ Fits(t, n, m) /\ n1 = n + Gain(t) /\ m1 = m - Closes(t)

\* One task after the other.
Chain(s, n, m, n1, m1) ==
    /\ IsList(s)
    /\ \E h, c \in [1..Len(s) + 1 -> Nat] :
          /\ h[1] = n /\ c[1] = m /\ h[Len(s) + 1] = n1 /\ c[Len(s) + 1] = m1
          /\ \A i \in 1..Len(s) : Moves(s[i], h[i], c[i], h[i + 1], c[i + 1])

LEMMA ChainNil ==
    ASSUME NEW n \in Nat, NEW m \in Nat
    PROVE  Chain(<<>>, n, m, n, m)
<1> DEFINE h == [i \in 1..1 |-> n]
           c == [i \in 1..1 |-> m]
<1>1. IsList(<<>>)  BY DEF IsList
<1>2. h \in [1..Len(<<>>) + 1 -> Nat] /\ c \in [1..Len(<<>>) + 1 -> Nat]  OBVIOUS
<1>3. h[1] = n /\ c[1] = m /\ h[Len(<<>>) + 1] = n /\ c[Len(<<>>) + 1] = m  OBVIOUS
<1>4. \A i \in 1..Len(<<>>) : Moves(<<>>[i], h[i], c[i], h[i + 1], c[i + 1])  OBVIOUS
<1>5. QED  BY <1>1, <1>2, <1>3, <1>4 DEF Chain

LEMMA ChainOver ==
    ASSUME NEW n, NEW m, NEW n1, NEW m1, Chain(<<>>, n, m, n1, m1)
    PROVE  n1 = n /\ m1 = m
BY DEF Chain

LEMMA ChainOne ==
    ASSUME NEW t, NEW n, NEW m, NEW n1, NEW m1, Moves(t, n, m, n1, m1)
    PROVE  Chain(<<t>>, n, m, n1, m1)
<1> DEFINE h == [i \in 1..2 |-> IF i = 1 THEN n ELSE n1]
           c == [i \in 1..2 |-> IF i = 1 THEN m ELSE m1]
<1>1. IsList(<<t>>) /\ Len(<<t>>) = 1  
  <2>1. <<t>> \in Seq({t})  OBVIOUS
  <2>2. QED  BY <2>1 DEF IsList
<1>2. n \in Nat /\ m \in Nat /\ n1 \in Nat /\ m1 \in Nat  BY DEF Moves
<1>3. h \in [1..Len(<<t>>) + 1 -> Nat] /\ c \in [1..Len(<<t>>) + 1 -> Nat]  BY <1>1, <1>2
<1>4. h[1] = n /\ c[1] = m /\ h[Len(<<t>>) + 1] = n1 /\ c[Len(<<t>>) + 1] = m1  BY <1>1
<1>5. ASSUME NEW i \in 1..Len(<<t>>)  PROVE Moves(<<t>>[i], h[i], c[i], h[i + 1], c[i + 1])
  <2>1. i = 1  BY <1>1
  <2>2. QED  BY <2>1
<1>6. QED  BY <1>1, <1>3, <1>4, <1>5 DEF Chain

LEMMA ChainConcat ==
    ASSUME NEW s, NEW t, NEW n, NEW m, NEW n1, NEW m1, NEW n2, NEW m2,
           Chain(s, n, m, n1, m1), Chain(t, n1, m1, n2, m2)
    PROVE  Chain(s \o t, n, m, n2, m2)
<1>0. IsList(s) /\ IsList(t)  BY DEF Chain
<1>1. /\ IsList(s \o t) /\ Len(s) \in Nat /\ Len(t) \in Nat /\ Len(s \o t) = Len(s) + Len(t)
      /\ \A i \in 1..Len(s) : (s \o t)[i] = s[i]
      /\ \A i \in 1..Len(t) : (s \o t)[Len(s) + i] = t[i]
  BY <1>0, ListConcat
<1>2. PICK h1 \in [1..Len(s) + 1 -> Nat], c1 \in [1..Len(s) + 1 -> Nat] :
          /\ h1[1] = n /\ c1[1] = m /\ h1[Len(s) + 1] = n1 /\ c1[Len(s) + 1] = m1
          /\ \A i \in 1..Len(s) : Moves(s[i], h1[i], c1[i], h1[i + 1], c1[i + 1])
  BY DEF Chain
<1>3. PICK h2 \in [1..Len(t) + 1 -> Nat], c2 \in [1..Len(t) + 1 -> Nat] :
          /\ h2[1] = n1 /\ c2[1] = m1 /\ h2[Len(t) + 1] = n2 /\ c2[Len(t) + 1] = m2
          /\ \A i \in 1..Len(t) : Moves(t[i], h2[i], c2[i], h2[i + 1], c2[i + 1])
  BY DEF Chain
<1> DEFINE N == Len(s)
           M == Len(t)
           h == [i \in 1..N + M + 1 |-> IF i <= N THEN h1[i] ELSE h2[i - N]]
           c == [i \in 1..N + M + 1 |-> IF i <= N THEN c1[i] ELSE c2[i - N]]
<1>4. h \in [1..Len(s \o t) + 1 -> Nat] /\ c \in [1..Len(s \o t) + 1 -> Nat]
  BY <1>1, <1>2, <1>3
<1>5. /\ \A i \in 1..N + 1 : h[i] = h1[i] /\ c[i] = c1[i]
      /\ \A i \in 1..M + 1 : h[N + i] = h2[i] /\ c[N + i] = c2[i]
  BY <1>1, <1>2, <1>3
<1>6. h[1] = n /\ c[1] = m /\ h[Len(s \o t) + 1] = n2 /\ c[Len(s \o t) + 1] = m2
  <2>1. 1 \in 1..N + 1 /\ M + 1 \in 1..M + 1 /\ Len(s \o t) + 1 = N + (M + 1)  BY <1>1
  <2> HIDE DEF h, c
  <2>2. QED  BY <1>2, <1>3, <1>5, <2>1
<1>7. ASSUME NEW i \in 1..Len(s \o t)
      PROVE  Moves((s \o t)[i], h[i], c[i], h[i + 1], c[i + 1])
  <2> HIDE DEF h, c
  <2>1. CASE i <= N
    <3>1. i \in 1..N /\ i \in 1..N + 1 /\ i + 1 \in 1..N + 1  BY <1>1, <2>1
    <3>2. QED  BY <1>1, <1>2, <1>5, <3>1
  <2>2. CASE ~(i <= N)
    <3> DEFINE j == i - N
    <3>1. j \in 1..M /\ j \in 1..M + 1 /\ j + 1 \in 1..M + 1 /\ i = N + j /\ i + 1 = N + (j + 1)
      BY <1>1, <2>2
    <3> HIDE DEF j
    <3>2. (s \o t)[N + j] = t[j]  BY <1>1, <3>1
    <3>3. h[N + j] = h2[j] /\ c[N + j] = c2[j] /\ h[N + (j + 1)] = h2[j + 1] /\ c[N + (j + 1)] = c2[j + 1]
      BY <1>5, <3>1
    <3>4. Moves(t[j], h2[j], c2[j], h2[j + 1], c2[j + 1])  BY <1>3, <3>1
    <3>5. QED  BY <3>1, <3>2, <3>3, <3>4
  <2>3. QED  BY <2>1, <2>2
<1>8. QED
  <2> HIDE DEF h, c
  <2>1. QED  BY <1>1, <1>4, <1>6, <1>7 DEF Chain

\* The first task, and the rest.
LEMMA ChainNext ==
    ASSUME NEW s, NEW n, NEW m, NEW n2, NEW m2, Chain(s, n, m, n2, m2), s # <<>>
    PROVE  \E n1, m1 : Moves(Head(s), n, m, n1, m1) /\ Chain(Tail(s), n1, m1, n2, m2)
<1>0. IsList(s)  BY DEF Chain
<1>1. /\ IsList(Tail(s)) /\ Len(s) \in Nat /\ Len(s) > 0 /\ Len(Tail(s)) = Len(s) - 1
      /\ \A i \in 1..Len(Tail(s)) : Tail(s)[i] = s[i + 1]
  BY <1>0, ListTail
<1>2. PICK h \in [1..Len(s) + 1 -> Nat], c \in [1..Len(s) + 1 -> Nat] :
          /\ h[1] = n /\ c[1] = m /\ h[Len(s) + 1] = n2 /\ c[Len(s) + 1] = m2
          /\ \A i \in 1..Len(s) : Moves(s[i], h[i], c[i], h[i + 1], c[i + 1])
  BY DEF Chain
<1>3. Head(s) = s[1]  BY <1>0 DEF IsList
<1>4. 1 \in 1..Len(s) /\ 1 + 1 = 2  BY <1>1
<1>5. Moves(Head(s), n, m, h[2], c[2])  BY <1>2, <1>3, <1>4
<1> DEFINE h1 == [i \in 1..Len(s) |-> h[i + 1]]
           c1 == [i \in 1..Len(s) |-> c[i + 1]]
<1>6. h1 \in [1..Len(Tail(s)) + 1 -> Nat] /\ c1 \in [1..Len(Tail(s)) + 1 -> Nat]  BY <1>1, <1>2
<1>7. h1[1] = h[2] /\ c1[1] = c[2] /\ h1[Len(Tail(s)) + 1] = n2 /\ c1[Len(Tail(s)) + 1] = m2
  BY <1>1, <1>2
<1>8. ASSUME NEW i \in 1..Len(Tail(s))
      PROVE  Moves(Tail(s)[i], h1[i], c1[i], h1[i + 1], c1[i + 1])
  <2>1. i + 1 \in 1..Len(s) /\ i \in 1..Len(s) /\ Tail(s)[i] = s[i + 1]  BY <1>1
  <2>2. h1[i] = h[i + 1] /\ c1[i] = c[i + 1] /\ h1[i + 1] = h[i + 1 + 1] /\ c1[i + 1] = c[i + 1 + 1]  BY <2>1
  <2>3. Moves(s[i + 1], h[i + 1], c[i + 1], h[i + 1 + 1], c[i + 1 + 1])  BY <1>2, <2>1
  <2>4. QED  BY <2>1, <2>2, <2>3
<1>9. Chain(Tail(s), h[2], c[2], n2, m2)
  <2> HIDE DEF h1, c1
  <2>1. QED  BY <1>1, <1>6, <1>7, <1>8 DEF Chain
<1>10. QED  BY <1>5, <1>9

LEMMA FirstAndRest ==
    ASSUME NEW S, NEW a \in S, NEW s \in Seq(S), NEW t \in Seq(S),
           Len(t) = Len(s) + 1, t[1] = a, \A i \in 1..Len(s) : t[i + 1] = s[i]
    PROVE  t = <<a>> \o s
<1>1. <<a>> \in Seq(S) /\ Len(<<a>>) = 1  OBVIOUS
<1>2. <<a>> \o s \in Seq(S) /\ Len(<<a>> \o s) = Len(t)  BY <1>1
<1>3. ASSUME NEW i \in 1..Len(t)  PROVE t[i] = (<<a>> \o s)[i]
  <2>1. CASE i = 1  BY <2>1
  <2>2. CASE i # 1
    <3>1. i - 1 \in 1..Len(s) /\ (i - 1) + 1 = i  BY <2>2
    <3>2. t[i] = s[i - 1]  BY <3>1
    <3>3. (<<a>> \o s)[i] = s[i - 1]  BY <2>2, <3>1
    <3>4. QED  BY <3>2, <3>3
  <2>3. QED  BY <2>1, <2>2
<1>4. QED  BY <1>2, <1>3, SeqEqual

LEMMA Literal2 ==
    ASSUME NEW a, NEW b
    PROVE  <<a, b>> = <<a>> \o <<b>>
<1>1. <<a, b>> \in Seq({a, b}) /\ <<b>> \in Seq({a, b})  OBVIOUS
<1>2. Len(<<a, b>>) = Len(<<b>>) + 1 /\ <<a, b>>[1] = a  OBVIOUS
<1>3. \A i \in 1..Len(<<b>>) : <<a, b>>[i + 1] = <<b>>[i]  OBVIOUS
<1>4. QED  BY <1>1, <1>2, <1>3, FirstAndRest

LEMMA Literal3 ==
    ASSUME NEW a, NEW b, NEW c
    PROVE  <<a, b, c>> = <<a>> \o <<b, c>>
<1>1. <<a, b, c>> \in Seq({a, b, c}) /\ <<b, c>> \in Seq({a, b, c})  OBVIOUS
<1>2. Len(<<a, b, c>>) = Len(<<b, c>>) + 1 /\ <<a, b, c>>[1] = a  OBVIOUS
<1>3. \A i \in 1..Len(<<b, c>>) : <<a, b, c>>[i + 1] = <<b, c>>[i]  OBVIOUS
<1>4. QED  BY <1>1, <1>2, <1>3, FirstAndRest

LEMMA Literal4 ==
    ASSUME NEW a, NEW b, NEW c, NEW d
    PROVE  <<a, b, c, d>> = <<a>> \o <<b, c, d>>
<1>1. <<a, b, c, d>> \in Seq({a, b, c, d}) /\ <<b, c, d>> \in Seq({a, b, c, d})  OBVIOUS
<1>2. Len(<<a, b, c, d>>) = Len(<<b, c, d>>) + 1 /\ <<a, b, c, d>>[1] = a  OBVIOUS
<1>3. \A i \in 1..Len(<<b, c, d>>) : <<a, b, c, d>>[i + 1] = <<b, c, d>>[i]  OBVIOUS
<1>4. QED  BY <1>1, <1>2, <1>3, FirstAndRest

LEMMA Literal5 ==
    ASSUME NEW a, NEW b, NEW c, NEW d, NEW e
    PROVE  <<a, b, c, d, e>> = <<a>> \o <<b, c, d, e>>
<1>1. <<a, b, c, d, e>> \in Seq({a, b, c, d, e}) /\ <<b, c, d, e>> \in Seq({a, b, c, d, e})  OBVIOUS
<1>2. Len(<<a, b, c, d, e>>) = Len(<<b, c, d, e>>) + 1 /\ <<a, b, c, d, e>>[1] = a  OBVIOUS
<1>3. \A i \in 1..Len(<<b, c, d, e>>) : <<a, b, c, d, e>>[i + 1] = <<b, c, d, e>>[i]  OBVIOUS
<1>4. QED  BY <1>1, <1>2, <1>3, FirstAndRest

LEMMA Literal6 ==
    ASSUME NEW a, NEW b, NEW c, NEW d, NEW e, NEW f
    PROVE  <<a, b, c, d, e, f>> = <<a>> \o <<b, c, d, e, f>>
<1>1. <<a, b, c, d, e, f>> \in Seq({a, b, c, d, e, f}) /\ <<b, c, d, e, f>> \in Seq({a, b, c, d, e, f})  OBVIOUS
<1>2. Len(<<a, b, c, d, e, f>>) = Len(<<b, c, d, e, f>>) + 1 /\ <<a, b, c, d, e, f>>[1] = a  OBVIOUS
<1>3. \A i \in 1..Len(<<b, c, d, e, f>>) : <<a, b, c, d, e, f>>[i + 1] = <<b, c, d, e, f>>[i]  OBVIOUS
<1>4. QED  BY <1>1, <1>2, <1>3, FirstAndRest

LEMMA Literal7 ==
    ASSUME NEW a, NEW b, NEW c, NEW d, NEW e, NEW f, NEW g
    PROVE  <<a, b, c, d, e, f, g>> = <<a>> \o <<b, c, d, e, f, g>>
<1>1. <<a, b, c, d, e, f, g>> \in Seq({a, b, c, d, e, f, g}) /\ <<b, c, d, e, f, g>> \in Seq({a, b, c, d, e, f, g})  OBVIOUS
<1>2. Len(<<a, b, c, d, e, f, g>>) = Len(<<b, c, d, e, f, g>>) + 1 /\ <<a, b, c, d, e, f, g>>[1] = a  OBVIOUS
<1>3. \A i \in 1..Len(<<b, c, d, e, f, g>>) : <<a, b, c, d, e, f, g>>[i + 1] = <<b, c, d, e, f, g>>[i]  OBVIOUS
<1>4. QED  BY <1>1, <1>2, <1>3, FirstAndRest

LEMMA Chain2 ==
    ASSUME NEW a, NEW b, NEW n, NEW m, NEW n1, NEW m1, NEW n2, NEW m2,
           Moves(a, n, m, n1, m1), Moves(b, n1, m1, n2, m2)
    PROVE  Chain(<<a, b>>, n, m, n2, m2)
<1>1. Chain(<<a>>, n, m, n1, m1) /\ Chain(<<b>>, n1, m1, n2, m2)  BY ChainOne
<1>2. Chain(<<a>> \o <<b>>, n, m, n2, m2)  BY <1>1, ChainConcat
<1>3. QED  BY <1>2, Literal2

LEMMA ChainCons ==
    ASSUME NEW a, NEW s, NEW n, NEW m, NEW n1, NEW m1, NEW n2, NEW m2,
           Moves(a, n, m, n1, m1), Chain(s, n1, m1, n2, m2)
    PROVE  Chain(<<a>> \o s, n, m, n2, m2)
<1>1. Chain(<<a>>, n, m, n1, m1)  BY ChainOne
<1>2. QED  BY <1>1, ChainConcat

LEMMA Chain3 ==
    ASSUME NEW a, NEW b, NEW c, NEW n, NEW m, NEW n1, NEW m1, NEW n2, NEW m2,
           Moves(a, n, m, n1, m1), Chain(<<b, c>>, n1, m1, n2, m2)
    PROVE  Chain(<<a, b, c>>, n, m, n2, m2)
<1>1. Chain(<<a>> \o <<b, c>>, n, m, n2, m2)  BY ChainCons
<1>2. QED  BY <1>1, Literal3

LEMMA Chain4 ==
    ASSUME NEW a, NEW b, NEW c, NEW d, NEW n, NEW m, NEW n1, NEW m1, NEW n2, NEW m2,
           Moves(a, n, m, n1, m1), Chain(<<b, c, d>>, n1, m1, n2, m2)
    PROVE  Chain(<<a, b, c, d>>, n, m, n2, m2)
<1>1. Chain(<<a>> \o <<b, c, d>>, n, m, n2, m2)  BY ChainCons
<1>2. QED  BY <1>1, Literal4

LEMMA Chain5 ==
    ASSUME NEW a, NEW b, NEW c, NEW d, NEW e, NEW n, NEW m, NEW n1, NEW m1, NEW n2, NEW m2,
           Moves(a, n, m, n1, m1), Chain(<<b, c, d, e>>, n1, m1, n2, m2)
    PROVE  Chain(<<a, b, c, d, e>>, n, m, n2, m2)
<1>1. Chain(<<a>> \o <<b, c, d, e>>, n, m, n2, m2)  BY ChainCons
<1>2. QED  BY <1>1, Literal5

LEMMA Chain6 ==
    ASSUME NEW a, NEW b, NEW c, NEW d, NEW e, NEW f, NEW n, NEW m, NEW n1, NEW m1, NEW n2, NEW m2,
           Moves(a, n, m, n1, m1), Chain(<<b, c, d, e, f>>, n1, m1, n2, m2)
    PROVE  Chain(<<a, b, c, d, e, f>>, n, m, n2, m2)
<1>1. Chain(<<a>> \o <<b, c, d, e, f>>, n, m, n2, m2)  BY ChainCons
<1>2. QED  BY <1>1, Literal6

LEMMA Chain7 ==
    ASSUME NEW a, NEW b, NEW c, NEW d, NEW e, NEW f, NEW g, NEW n, NEW m, NEW n1, NEW m1, NEW n2, NEW m2,
           Moves(a, n, m, n1, m1), Chain(<<b, c, d, e, f, g>>, n1, m1, n2, m2)
    PROVE  Chain(<<a, b, c, d, e, f, g>>, n, m, n2, m2)
<1>1. Chain(<<a>> \o <<b, c, d, e, f, g>>, n, m, n2, m2)  BY ChainCons
<1>2. QED  BY <1>1, Literal7

LEMMA OfVisit ==
    ASSUME NEW e \in Nodes, NEW n \in Nat, NEW m \in Nat, e.k \notin {"func", "struct"} => m > 0
    PROVE  /\ Typed(e) => Moves(Visiting(e), n, m, n + 1, m)
           /\ ~Typed(e) => Moves(Visiting(e), n, m, n, m)
BY DEF Moves, Fits, Gain, Closes, Visiting, Ends, Turns, KindOf

LEMMA OfSimple ==
    ASSUME NEW n \in Nat, NEW m \in Nat
    PROVE  /\ Moves(Drop, n + 1, m, n, m) /\ Moves(Keep, n + 1, m, n, m)
           /\ \A c : Moves(Code(c), n, m, n, m)
           /\ \A t : Moves(Typing(t), n, m, n + 1, m)
<1>1. Moves(Drop, n + 1, m, n, m)  BY DEF Moves, Fits, Gain, Closes, Drop, Ends, Turns, KindOf
<1>2. Moves(Keep, n + 1, m, n, m)  BY DEF Moves, Fits, Gain, Closes, Keep, Ends, Turns, KindOf
<1>3. ASSUME NEW c  PROVE Moves(Code(c), n, m, n, m)
  BY DEF Moves, Fits, Gain, Closes, Code, Ends, Turns, KindOf
<1>4. ASSUME NEW t  PROVE Moves(Typing(t), n, m, n + 1, m)
  BY DEF Moves, Fits, Gain, Closes, Typing, Ends, Turns, KindOf
<1>5. QED  BY <1>1, <1>2, <1>3, <1>4

LEMMA OfPhase ==
    ASSUME NEW e, NEW t, NEW at, NEW n \in Nat, NEW m \in Nat, m > 0
    PROVE  /\ \A do \in Turns \ {"right", "index", "argument", "target", "base target"} :
                 Moves(Phase(do, e, t, at), n + 1, m, n + 1, m)
           /\ \A do \in {"right", "index", "target"} : e \in Nodes /\ e.k = KindOf[do] =>
                 Moves(Phase(do, e, t, at), n + 1, m, n + 1, m)
           /\ e \in Nodes /\ e.k = "call" /\ IsList(at) /\ Len(at) < Len(e.a) =>
                 Moves(Phase("argument", e, t, at), n + 1, m, n + 1, m)
           /\ e \in Nodes /\ e.k = "assign" /\ e.a[1].k = "index" =>
                 Moves(Phase("base target", e, t, at), n + 1, m, n + 1, m)
           /\ \A do \in {"initial", "constant", "return"} :
                 Moves(Phase(do, e, t, at), n + 1, m, n, m)
           /\ e \in Nodes /\ e.k = "block" /\ at[1] \in Nat \ {0} =>
                 Moves(Phase("rest", e, t, at), n, m, n, m)
           /\ Moves(Phase("parameter", e, t, at), n, m, n, m)
<1>0. \A do \in {"pointed", "operate", "element", "member", "member target", "element target", "pointed target"} :
         Moves(Phase(do, e, t, at), n + 1, m, n + 1, m)
  <2>1. Moves(Phase("pointed", e, t, at), n + 1, m, n + 1, m)  BY DEF Moves, Gain, Closes, Phase, Ends, Turns, KindOf, Fits
  <2>2. Moves(Phase("operate", e, t, at), n + 1, m, n + 1, m)  BY DEF Moves, Gain, Closes, Phase, Ends, Turns, KindOf, Fits
  <2>3. Moves(Phase("element", e, t, at), n + 1, m, n + 1, m)  BY DEF Moves, Gain, Closes, Phase, Ends, Turns, KindOf, Fits
  <2>4. Moves(Phase("member", e, t, at), n + 1, m, n + 1, m)  BY DEF Moves, Gain, Closes, Phase, Ends, Turns, KindOf, Fits
  <2>5. Moves(Phase("member target", e, t, at), n + 1, m, n + 1, m)  BY DEF Moves, Gain, Closes, Phase, Ends, Turns, KindOf, Fits
  <2>6. Moves(Phase("element target", e, t, at), n + 1, m, n + 1, m)  BY DEF Moves, Gain, Closes, Phase, Ends, Turns, KindOf, Fits
  <2>7. Moves(Phase("pointed target", e, t, at), n + 1, m, n + 1, m)  BY DEF Moves, Gain, Closes, Phase, Ends, Turns, KindOf, Fits
  <2>8. QED  BY <2>1, <2>2, <2>3, <2>4, <2>5, <2>6, <2>7
<1>1. ASSUME NEW do \in Turns \ {"right", "index", "argument", "target", "base target"}
      PROVE  Moves(Phase(do, e, t, at), n + 1, m, n + 1, m)
  BY <1>0 DEF Turns
<1>2. ASSUME NEW do \in {"right", "index", "target"}, e \in Nodes, e.k = KindOf[do]
      PROVE  Moves(Phase(do, e, t, at), n + 1, m, n + 1, m)
  <2>1. CASE do = "right"
    <3>1. e.k = "bin"  BY <1>2, <2>1 DEF KindOf
    <3>2. Moves(Phase("right", e, t, at), n + 1, m, n + 1, m)  BY <1>2, <3>1 DEF Moves, Gain, Closes, Phase, Ends, Turns, KindOf, Fits
    <3>3. QED  BY <2>1, <3>2
  <2>2. CASE do = "index"
    <3>1. e.k = "index"  BY <1>2, <2>2 DEF KindOf
    <3>2. Moves(Phase("index", e, t, at), n + 1, m, n + 1, m)  BY <1>2, <3>1 DEF Moves, Gain, Closes, Phase, Ends, Turns, KindOf, Fits
    <3>3. QED  BY <2>2, <3>2
  <2>3. CASE do = "target"
    <3>1. e.k = "assign"  BY <1>2, <2>3 DEF KindOf
    <3>2. Moves(Phase("target", e, t, at), n + 1, m, n + 1, m)  BY <1>2, <3>1 DEF Moves, Gain, Closes, Phase, Ends, Turns, KindOf, Fits
    <3>3. QED  BY <2>3, <3>2
  <2>4. QED  BY <1>2, <2>1, <2>2, <2>3
<1>3. ASSUME e \in Nodes, e.k = "call", IsList(at), Len(at) < Len(e.a)
      PROVE  Moves(Phase("argument", e, t, at), n + 1, m, n + 1, m)
  BY <1>3 DEF Moves, Gain, Closes, Phase, Ends, Turns, KindOf, Fits
<1>4. ASSUME e \in Nodes, e.k = "assign", e.a[1].k = "index"
      PROVE  Moves(Phase("base target", e, t, at), n + 1, m, n + 1, m)
  BY <1>4 DEF Moves, Gain, Closes, Phase, Ends, Turns, KindOf, Fits
<1>5. ASSUME NEW do \in {"initial", "constant", "return"}
      PROVE  Moves(Phase(do, e, t, at), n + 1, m, n, m)
  <2>1. Moves(Phase("initial", e, t, at), n + 1, m, n, m)  BY DEF Moves, Gain, Closes, Phase, Ends, Turns, KindOf, Fits
  <2>2. Moves(Phase("constant", e, t, at), n + 1, m, n, m)  BY DEF Moves, Gain, Closes, Phase, Ends, Turns, KindOf, Fits
  <2>3. Moves(Phase("return", e, t, at), n + 1, m, n, m)  BY DEF Moves, Gain, Closes, Phase, Ends, Turns, KindOf, Fits
  <2>4. QED  BY <2>1, <2>2, <2>3
<1>6. ASSUME e \in Nodes, e.k = "block", at[1] \in Nat \ {0}
      PROVE  Moves(Phase("rest", e, t, at), n, m, n, m)
  BY <1>6 DEF Moves, Gain, Closes, Phase, Ends, Turns, KindOf, Fits
<1>7. Moves(Phase("parameter", e, t, at), n, m, n, m)  BY DEF Moves, Gain, Closes, Phase, Ends, Turns, KindOf, Fits
<1>8. QED  BY <1>1, <1>2, <1>3, <1>4, <1>5, <1>6, <1>7, Zenon

LEMMA OfEnd ==
    ASSUME NEW e, NEW c, NEW n \in Nat, NEW m \in Nat
    PROVE  Moves(Ending(e, c), n, m + 1, n, m)
BY DEF Moves, Fits, Gain, Closes, Ending, Ends, Turns, KindOf

-----------------------------------------------------------------------------
(* The nodes of a program, kind by kind.                                   *)

LEMMA NodeParts ==
    ASSUME NEW e \in Nodes
    PROVE  /\ e.a \in Seq(Nodes) /\ Len(e.a) \in Arity(e.k)
           /\ \A i \in Operands(e) : Typed(e.a[i])
           /\ e.k = "func" => e.a[1].k = "block"
BY NodesAssumption, LoweredAssumption

LEMMA Binaries ==
    ASSUME NEW e \in Nodes, e.k \in {"bin", "index", "assign", "while"}
    PROVE  /\ e.a[1] \in Nodes /\ e.a[2] \in Nodes
           /\ e.k \in {"bin", "index", "while"} => Typed(e.a[1])
           /\ e.k \in {"bin", "index", "assign"} => Typed(e.a[2])
<1>1. Len(e.a) = 2  BY NodeParts DEF Arity
<1>2. e.a \in Seq(Nodes)  BY NodeParts
<1>3. e.a[1] \in Nodes /\ e.a[2] \in Nodes /\ DOMAIN e.a = 1..2  BY <1>1, <1>2
<1>4. e.k \in {"bin", "index", "while"} => 1 \in Operands(e)  BY <1>3 DEF Operands
<1>5. e.k \in {"bin", "index", "assign"} => 2 \in Operands(e)  BY <1>3 DEF Operands
<1>6. QED  BY <1>3, <1>4, <1>5, NodeParts, Zenon

LEMMA Unaries ==
    ASSUME NEW e \in Nodes, e.k \in {"addr", "deref", "cast", "member", "func", "comptime"}
    PROVE  /\ e.a[1] \in Nodes
           /\ e.k \in {"deref", "cast", "member"} => Typed(e.a[1])
           /\ e.k = "func" => e.a[1].k = "block"
<1>1. Len(e.a) = 1  BY NodeParts DEF Arity
<1>2. e.a \in Seq(Nodes)  BY NodeParts
<1>3. e.a[1] \in Nodes /\ DOMAIN e.a = 1..1  BY <1>1, <1>2
<1>4. e.k \in {"deref", "cast", "member"} => 1 \in Operands(e)  BY <1>3 DEF Operands
<1>5. QED  BY <1>3, <1>4, NodeParts, Zenon

LEMMA Optionals ==
    ASSUME NEW e \in Nodes, e.k \in {"vardecl", "const", "return"}, e.a # <<>>
    PROVE  e.a[1] \in Nodes /\ Typed(e.a[1])
<1>1. Len(e.a) \in {0, 1} /\ e.a \in Seq(Nodes)  BY NodeParts DEF Arity
<1>2. e.a[1] \in Nodes /\ DOMAIN e.a = 1..1  BY <1>1
<1>3. 1 \in Operands(e)  BY <1>2 DEF Operands
<1>4. QED  BY <1>2, <1>3, NodeParts, Zenon

LEMMA Ifs ==
    ASSUME NEW e \in Nodes, e.k = "if"
    PROVE  /\ e.a[1] \in Nodes /\ Typed(e.a[1]) /\ e.a[2] \in Nodes
           /\ Len(e.a) = 3 => e.a[3] \in Nodes
<1>1. Len(e.a) \in {2, 3}  BY NodeParts DEF Arity
<1>2. e.a \in Seq(Nodes)  BY NodeParts
<1>3. e.a[1] \in Nodes /\ e.a[2] \in Nodes /\ (Len(e.a) = 3 => e.a[3] \in Nodes)  BY <1>1, <1>2
<1>4. 1 \in Operands(e)  BY DEF Operands
<1>5. QED  BY <1>3, <1>4, NodeParts, Zenon

LEMMA Lists ==
    ASSUME NEW e \in Nodes, e.k \in {"call", "block"}
    PROVE  /\ Len(e.a) \in Nat
           /\ \A i \in 1..Len(e.a) : e.a[i] \in Nodes /\ (e.k = "call" => Typed(e.a[i]))
<1>1. e.a \in Seq(Nodes)  BY NodeParts
<1>2. Len(e.a) \in Nat /\ DOMAIN e.a = 1..Len(e.a) /\ \A i \in 1..Len(e.a) : e.a[i] \in Nodes  BY <1>1
<1>3. e.k = "call" => Operands(e) = DOMAIN e.a  BY DEF Operands
<1>4. QED  BY <1>2, <1>3, NodeParts, Zenon

-----------------------------------------------------------------------------
(* What a part of a visit gives: an error, or a visitor and tasks that     *)
(* lead where the task was to lead.                                        *)

Gives(d, n1, m1) ==
    \/ d.gen.thrown = "error"
    \/ \E n, m : Shape(d.gen, n, m) /\ Chain(d.todo, n, m, n1, m1)

LEMMA Popped ==
    ASSUME NEW g, NEW n, NEW m, Shape(g, n, m), n > 0
    PROVE  n \in Nat /\ m \in Nat /\ n - 1 \in Nat /\ n - 1 + 1 = n /\ Shape(PopType(g), n - 1, m)
<1>1. n \in Nat /\ m \in Nat  BY ShapeNonEmpty
<1>2. n - 1 \in Nat /\ n - 1 + 1 = n  BY <1>1
<1>3. QED  BY <1>1, <1>2, ShapePop

LEMMA GivesDo ==
    ASSUME NEW g, NEW s, NEW n, NEW m, NEW n1, NEW m1, Shape(g, n, m), Chain(s, n, m, n1, m1)
    PROVE  Gives(Do(g, s), n1, m1)
<1>1. Do(g, s).gen = g /\ Do(g, s).todo = s  BY DEF Do
<1>2. QED  BY <1>1 DEF Gives

LEMMA GivesDone ==
    ASSUME NEW g, NEW n, NEW m, Shape(g, n, m)
    PROVE  Gives(Done(g), n, m)
<1>1. n \in Nat /\ m \in Nat  BY ShapeNonEmpty
<1>2. QED  BY <1>1, ChainNil, GivesDo DEF Done

LEMMA GivesThrow ==
    ASSUME NEW g, NEW n, NEW m, Shape(g, n, m), NEW n1, NEW m1
    PROVE  Gives(Done(Throw(g)), n1, m1)
<1>1. Done(Throw(g)).gen = Throw(g)  BY DEF Done, Do
<1>2. QED  BY <1>1, Thrown DEF Gives

\* A visit that ends with pushType.
LEMMA GivesPush ==
    ASSUME NEW g, NEW n, NEW m, Shape(g, n, m), NEW t
    PROVE  Gives(Done(PushType(g, t)), n + 1, m)
BY ShapePush, GivesDone

\* The visit of an operand, and a phase that takes its type.
LEMMA GivesOperand ==
    ASSUME NEW g, NEW n, NEW m, Shape(g, n, m), m > 0, NEW e \in Nodes, Typed(e), NEW p,
           NEW n1, Moves(p, n + 1, m, n1, m)
    PROVE  Gives(Do(g, <<Visiting(e), p>>), n1, m)
<1>1. n \in Nat /\ m \in Nat  BY ShapeNonEmpty
<1>2. Moves(Visiting(e), n, m, n + 1, m)  BY <1>1, OfVisit
<1>3. QED  BY <1>2, Chain2, GivesDo

-----------------------------------------------------------------------------
(* The visits of expressions: each gives one type more.                    *)

LEMMA GivesVar ==
    ASSUME NEW e, NEW g, NEW n, NEW m, Shape(g, n, m)
    PROVE  Gives(VisitVar(e, g), n + 1, m)
BY GivesThrow, GivesPush, ShapeEmit DEF VisitVar

LEMMA GivesAddressOf ==
    ASSUME NEW e, NEW g, NEW n, NEW m, Shape(g, n, m)
    PROVE  Gives(VisitAddressOf(e, g), n + 1, m)
BY GivesThrow, GivesPush, ShapeEmit, ShapeCtx DEF VisitAddressOf

LEMMA GivesDeref ==
    ASSUME NEW e \in Nodes, e.k = "deref", NEW g, NEW n, NEW m, Shape(g, n, m), m > 0
    PROVE  Gives(VisitDeref(e, g), n + 1, m)
<1>1. n \in Nat /\ m \in Nat  BY ShapeNonEmpty
<1>2. Moves(Then("pointed", e), n + 1, m, n + 1, m)  BY <1>1, OfPhase DEF Then, Turns
<1>3. QED  BY <1>2, Unaries, GivesOperand DEF VisitDeref

LEMMA GivesPointed ==
    ASSUME NEW p, NEW g, NEW n, NEW m, Shape(g, n, m), n > 0
    PROVE  Gives(LoadPointed(p, g), n, m)
<1>1. n \in Nat /\ n - 1 + 1 = n  BY Popped
<1>2. Shape(PopType(g), n - 1, m)  BY ShapePop
<1>3. QED  BY <1>1, <1>2, GivesPush, ShapeEmit DEF LoadPointed

LEMMA GivesCast ==
    ASSUME NEW e \in Nodes, e.k = "cast", NEW g, NEW n, NEW m, Shape(g, n, m), m > 0
    PROVE  Gives(VisitCast(e, g), n + 1, m)
<1>1. n \in Nat /\ m \in Nat  BY ShapeNonEmpty
<1>2. Moves(Visiting(e.a[1]), n, m, n + 1, m)  BY <1>1, Unaries, OfVisit
<1>3. ASSUME NEW c  PROVE Chain(<<Visiting(e.a[1]), Drop, Code(c), Typing(e.t)>>, n, m, n + 1, m)
  <2>1. Chain(<<Code(c), Typing(e.t)>>, n, m, n + 1, m)  BY <1>1, OfSimple, Chain2
  <2>2. Chain(<<Drop, Code(c), Typing(e.t)>>, n + 1, m, n + 1, m)
    BY <1>1, <2>1, OfSimple, Chain3
  <2>3. QED  BY <1>2, <2>2, Chain4
<1>4. QED  BY <1>3, GivesDo DEF VisitCast

LEMMA GivesLogical ==
    ASSUME NEW e \in Nodes, e.k = "bin", NEW g, NEW n, NEW m, Shape(g, n, m), m > 0
    PROVE  Gives(VisitLogical(e, g), n + 1, m)
<1>1. n \in Nat /\ m \in Nat  BY ShapeNonEmpty
<1>2. /\ Moves(Visiting(e.a[1]), n, m, n + 1, m)
      /\ Moves(Visiting(e.a[2]), n, m, n + 1, m)
  BY <1>1, Binaries, OfVisit
<1>3. ASSUME NEW c, NEW d, NEW t
      PROVE  Chain(<<Visiting(e.a[1]), Drop, Code(c), Visiting(e.a[2]), Drop, Code(d), Typing(t)>>, n, m, n + 1, m)
  <2>1. Chain(<<Code(d), Typing(t)>>, n, m, n + 1, m)  BY <1>1, OfSimple, Chain2
  <2>2. Chain(<<Drop, Code(d), Typing(t)>>, n + 1, m, n + 1, m)
    BY <1>1, <2>1, OfSimple, Chain3
  <2>3. Chain(<<Visiting(e.a[2]), Drop, Code(d), Typing(t)>>, n, m, n + 1, m)
    BY <1>2, <2>2, Chain4
  <2>4. Chain(<<Code(c), Visiting(e.a[2]), Drop, Code(d), Typing(t)>>, n, m, n + 1, m)
    BY <1>1, <2>3, OfSimple, Chain5
  <2>5. Chain(<<Drop, Code(c), Visiting(e.a[2]), Drop, Code(d), Typing(t)>>, n + 1, m, n + 1, m)
    BY <1>1, <2>4, OfSimple, Chain6
  <2>6. QED  BY <1>2, <2>5, Chain7
<1>4. Shape(Counted(g), n, m)  BY ShapeCounted
<1>5. QED  BY <1>3, <1>4, GivesDo DEF VisitLogical

LEMMA GivesBinary ==
    ASSUME NEW e \in Nodes, e.k = "bin", NEW g, NEW n, NEW m, Shape(g, n, m), m > 0
    PROVE  Gives(VisitBinary(e, g), n + 1, m)
<1>1. n \in Nat /\ m \in Nat  BY ShapeNonEmpty
<1>2. Moves(Then("right", e), n + 1, m, n + 1, m)  BY <1>1, OfPhase DEF Then, KindOf
<1>3. QED  BY <1>2, Binaries, GivesOperand DEF VisitBinary

LEMMA GivesRight ==
    ASSUME NEW p, p.e \in Nodes, p.e.k = "bin", NEW g, NEW n, NEW m, Shape(g, n, m), n > 0, m > 0
    PROVE  Gives(VisitRight(p, g), n, m)
<1>1. n \in Nat /\ m \in Nat /\ n - 1 \in Nat /\ n - 1 + 1 = n  BY Popped
<1>2. Shape(PushTmp(PopType(g)), n - 1, m)  BY ShapePop, ShapeTmp
<1>3. \A t, at : Moves(Phase("operate", p.e, t, at), n, m, n, m)  BY <1>1, OfPhase DEF Turns
<1>4. QED  BY <1>1, <1>2, <1>3, Binaries, GivesOperand DEF VisitRight

LEMMA GivesOperation ==
    ASSUME NEW p, NEW g, NEW n, NEW m, Shape(g, n, m), n > 0
    PROVE  Gives(EmitOperation(p, g), n, m)
<1>1. n \in Nat /\ n - 1 + 1 = n  BY Popped
<1>2. \A c, off, r : Shape(PopTmp(Emit(PopType(g), c), off, r), n - 1, m)  BY ShapePop, ShapeEmit, ShapeTmp
<1>3. QED  BY <1>1, <1>2, GivesPush, ShapeEmit DEF EmitOperation

LEMMA GivesIndex ==
    ASSUME NEW e \in Nodes, e.k = "index", NEW g, NEW n, NEW m, Shape(g, n, m), m > 0
    PROVE  Gives(VisitIndex(e, g), n + 1, m)
<1>1. n \in Nat /\ m \in Nat  BY ShapeNonEmpty
<1>2. Moves(Then("index", e), n + 1, m, n + 1, m)  BY <1>1, OfPhase DEF Then, KindOf
<1>3. QED  BY <1>2, Binaries, GivesOperand DEF VisitIndex

LEMMA GivesSubscript ==
    ASSUME NEW p, p.e \in Nodes, p.e.k = "index", NEW g, NEW n, NEW m, Shape(g, n, m), n > 0, m > 0
    PROVE  Gives(VisitSubscript(p, g), n, m)
<1>1. n \in Nat /\ m \in Nat /\ n - 1 \in Nat /\ n - 1 + 1 = n  BY Popped
<1>2. Shape(PushTmp(PopType(g)), n - 1, m)  BY ShapePop, ShapeTmp
<1>3. \A t, at : Moves(Phase("element", p.e, t, at), n, m, n, m)  BY <1>1, OfPhase DEF Turns
<1>4. QED  BY <1>1, <1>2, <1>3, Binaries, GivesOperand DEF VisitSubscript

LEMMA GivesElement ==
    ASSUME NEW p, NEW g, NEW n, NEW m, Shape(g, n, m), n > 0
    PROVE  Gives(LoadElement(p, g), n, m)
<1>1. n \in Nat /\ n - 1 + 1 = n  BY Popped
<1>2. \A off : Shape(PopBase(p, off, g), n - 1, m)  BY ShapePop, ShapeEmit, ShapeTmp DEF PopBase
<1>3. QED  BY <1>1, <1>2, GivesPush, GivesThrow, ShapeEmit DEF LoadElement

LEMMA GivesMember ==
    ASSUME NEW e \in Nodes, e.k = "member", NEW g, NEW n, NEW m, Shape(g, n, m), m > 0
    PROVE  Gives(VisitMember(e, g), n + 1, m)
<1>1. n \in Nat /\ m \in Nat  BY ShapeNonEmpty
<1>2. Moves(Then("member", e), n + 1, m, n + 1, m)  BY <1>1, OfPhase DEF Then, Turns
<1>3. Gives(Do(g, <<Visiting(e.a[1]), Then("member", e)>>), n + 1, m)  BY <1>2, Unaries, GivesOperand
<1>4. QED  BY <1>3, GivesThrow, GivesPush, ShapeEmit DEF VisitMember

LEMMA GivesMemberLoad ==
    ASSUME NEW p, NEW g, NEW n, NEW m, Shape(g, n, m), n > 0
    PROVE  Gives(LoadMember(p, g), n, m)
<1>1. n \in Nat /\ n - 1 + 1 = n  BY Popped
<1>2. Shape(PopType(g), n - 1, m)  BY ShapePop
<1>3. QED  BY <1>1, <1>2, GivesPush, GivesThrow, ShapeEmit DEF LoadMember

\* The call itself, and the arguments that wait for it.
LEMMA GivesArguments ==
    ASSUME NEW e \in Nodes, e.k = "call", NEW slots, IsList(slots), Len(slots) \in Nat,
           Len(slots) <= Len(e.a), NEW g, NEW n, NEW m, Shape(g, n, m), m > 0
    PROVE  Gives(NextArgument(e, slots, g), n + 1, m)
<1>1. n \in Nat /\ m \in Nat  BY ShapeNonEmpty
<1>2. Gives(Done(EmitCall(e, slots, g)), n + 1, m)  BY GivesPush, ShapeEmit, ShapeCtx DEF EmitCall
<1>3. ASSUME Len(slots) # Len(e.a)
      PROVE  Gives(Do(g, <<Visiting(e.a[Len(slots) + 1]), Phase("argument", e, VoidT, slots)>>), n + 1, m)
  <2>1. Len(slots) < Len(e.a) /\ Len(slots) + 1 \in 1..Len(e.a)  BY <1>3, Lists
  <2>2. Moves(Phase("argument", e, VoidT, slots), n + 1, m, n + 1, m)  BY <1>1, <2>1, OfPhase
  <2>3. e.a[Len(slots) + 1] \in Nodes /\ Typed(e.a[Len(slots) + 1])  BY <2>1, Lists
  <2>4. QED  BY <2>2, <2>3, GivesOperand
<1>4. QED  BY <1>2, <1>3 DEF NextArgument

LEMMA GivesCall ==
    ASSUME NEW e \in Nodes, e.k = "call", NEW g, NEW n, NEW m, Shape(g, n, m), m > 0
    PROVE  Gives(VisitCall(e, g), n + 1, m)
<1>1. IsList(<<>>) /\ Len(<<>>) = 0  BY DEF IsList
<1>2. Len(<<>>) \in Nat /\ Len(<<>>) <= Len(e.a)  BY <1>1, Lists
<1>3. QED  BY <1>1, <1>2, GivesArguments DEF VisitCall

LEMMA GivesArgument ==
    ASSUME NEW p, p.e \in Nodes, p.e.k = "call", IsList(p.at), Len(p.at) < Len(p.e.a),
           NEW g, NEW n, NEW m, Shape(g, n, m), n > 0, m > 0
    PROVE  Gives(KeepArgument(p, g), n, m)
<1> DEFINE slots == Append(p.at, TmpAt(PopType(g)))
<1>1. n \in Nat /\ n - 1 + 1 = n  BY Popped
<1>2. Len(p.at) \in Nat  BY DEF IsList
<1>3. IsList(slots) /\ Len(slots) = Len(p.at) + 1  BY ListAppend
<1>4. Len(slots) \in Nat /\ Len(slots) <= Len(p.e.a)  BY <1>2, <1>3, Lists
<1>5. Shape(PushTmp(PopType(g)), n - 1, m)  BY ShapePop, ShapeTmp
<1>6. Gives(NextArgument(p.e, slots, PushTmp(PopType(g))), n - 1 + 1, m)
  <2> HIDE DEF slots
  <2>1. QED  BY <1>3, <1>4, <1>5, GivesArguments
<1>7. QED  BY <1>1, <1>6 DEF KeepArgument

LEMMA GivesString ==
    ASSUME NEW e, NEW g, NEW n, NEW m, Shape(g, n, m)
    PROVE  Gives(VisitString(e, g), n + 1, m)
<1>1. ASSUME NEW h, Shape(h, n, m), NEW x  PROVE Shape([h EXCEPT !.strings = Append(@, x)], n, m)
  <2> DEFINE d == [h EXCEPT !.strings = Append(@, x)]
  <2>1. DOMAIN d = DOMAIN h /\ \A f \in {"types", "ctx", "thrown", "kept"} : d[f] = h[f]
    BY <1>1 DEF Shape, Fields
  <2> HIDE DEF d
  <2>2. Shape(d, n, m)  BY <1>1, <2>1, ShapeSame
  <2>3. QED  BY <2>2 DEF d
<1>2. \A c : Shape(Emit(Counted(g), c), n, m)  BY ShapeCounted, ShapeEmit
<1>3. QED  BY <1>1, <1>2, GivesPush DEF VisitString

-----------------------------------------------------------------------------
(* Assignments.                                                            *)

LEMMA GivesAssign ==
    ASSUME NEW e \in Nodes, e.k = "assign", NEW g, NEW n, NEW m, Shape(g, n, m), m > 0
    PROVE  Gives(VisitAssign(e, g), n + 1, m)
<1>1. n \in Nat /\ m \in Nat  BY ShapeNonEmpty
<1>2. Moves(Then("target", e), n + 1, m, n + 1, m)  BY <1>1, OfPhase DEF Then, KindOf
<1>3. QED  BY <1>2, Binaries, GivesOperand DEF VisitAssign

LEMMA GivesToVar ==
    ASSUME NEW e, NEW g, NEW n, NEW m, Shape(g, n, m)
    PROVE  Gives(AssignToVar(e, g), n + 1, m)
BY GivesThrow, GivesPush, ShapeEmit DEF AssignToVar

LEMMA GivesToMember ==
    ASSUME NEW e \in Nodes, e.k = "assign", e.a[1].k = "member", NEW g, NEW n, NEW m, Shape(g, n, m), m > 0
    PROVE  Gives(AssignToMember(e, g), n + 1, m)
<1>1. n \in Nat /\ m \in Nat  BY ShapeNonEmpty
<1>2. Shape(PushTmp(g), n, m)  BY ShapeTmp
<1>3. \A off, r : Shape(PopTmp(PushTmp(g), off, r), n, m)  BY <1>2, ShapeTmp
<1>4. e.a[1] \in Nodes  BY Binaries
<1>5. e.a[1].a[1] \in Nodes /\ Typed(e.a[1].a[1])  BY <1>4, Unaries
<1>6. \A at : Moves(Phase("member target", e, VoidT, at), n + 1, m, n + 1, m)  BY <1>1, OfPhase DEF Turns
<1>7. \A at : Gives(Do(PushTmp(g), <<Visiting(e.a[1].a[1]), Phase("member target", e, VoidT, at)>>), n + 1, m)
  BY <1>2, <1>5, <1>6, GivesOperand
<1>8. QED  BY <1>3, <1>7, GivesPush, ShapeEmit DEF AssignToMember

LEMMA GivesMemberStore ==
    ASSUME NEW p, NEW g, NEW n, NEW m, Shape(g, n, m), n > 0
    PROVE  Gives(StoreMember(p, g), n, m)
<1>1. n \in Nat /\ n - 1 + 1 = n /\ Shape(PopType(g), n - 1, m)  BY Popped
<1>2. \A off, r : Shape(PopTmp(PopType(g), off, r), n - 1, m)  BY <1>1, ShapeTmp
<1>3. QED  BY <1>1, <1>2, GivesThrow, GivesPush, ShapeEmit DEF StoreMember

LEMMA GivesToElement ==
    ASSUME NEW e \in Nodes, e.k = "assign", e.a[1].k = "index", NEW g, NEW n, NEW m, Shape(g, n, m), m > 0
    PROVE  Gives(AssignToElement(e, g), n + 1, m)
<1>1. n \in Nat /\ m \in Nat  BY ShapeNonEmpty
<1>2. Shape(PushTmp(g), n, m)  BY ShapeTmp
<1>3. e.a[1] \in Nodes  BY Binaries
<1>4. e.a[1].a[1] \in Nodes /\ Typed(e.a[1].a[1])  BY <1>3, Binaries
<1>5. \A at : Moves(Phase("base target", e, VoidT, at), n + 1, m, n + 1, m)  BY <1>1, OfPhase
<1>6. QED  BY <1>2, <1>4, <1>5, GivesOperand DEF AssignToElement

LEMMA GivesTargetIndex ==
    ASSUME NEW p, p.e \in Nodes, p.e.k = "assign", p.e.a[1].k = "index",
           NEW g, NEW n, NEW m, Shape(g, n, m), n > 0, m > 0
    PROVE  Gives(VisitTargetIndex(p, g), n, m)
<1>1. n \in Nat /\ m \in Nat /\ n - 1 \in Nat /\ n - 1 + 1 = n  BY Popped
<1>2. Shape(PushTmp(PopType(g)), n - 1, m)  BY Popped, ShapeTmp
<1>3. p.e.a[1] \in Nodes  BY Binaries
<1>4. p.e.a[1].a[2] \in Nodes /\ Typed(p.e.a[1].a[2])  BY <1>3, Binaries
<1>5. \A t, at : Moves(Phase("element target", p.e, t, at), n, m, n, m)  BY <1>1, OfPhase DEF Turns
<1>6. QED  BY <1>1, <1>2, <1>4, <1>5, GivesOperand DEF VisitTargetIndex

LEMMA GivesElementStore ==
    ASSUME NEW p, NEW g, NEW n, NEW m, Shape(g, n, m), n > 0
    PROVE  Gives(StoreElement(p, g), n, m)
<1>1. n \in Nat /\ n - 1 + 1 = n /\ Shape(PopType(g), n - 1, m)  BY Popped
<1>2. \A off, c : Shape(Emit(PopBase(p, off, g), c), n - 1, m)  BY <1>1, ShapeEmit, ShapeTmp DEF PopBase
<1>3. \A off, c, to, r : Shape(PopTmp(Emit(PopBase(p, off, g), c), to, r), n - 1, m)  BY <1>2, ShapeTmp
<1>4. QED  BY <1>1, <1>3, GivesPush, ShapeEmit DEF StoreElement

LEMMA GivesToPointed ==
    ASSUME NEW e \in Nodes, e.k = "assign", e.a[1].k = "deref", NEW g, NEW n, NEW m, Shape(g, n, m), m > 0
    PROVE  Gives(AssignToPointed(e, g), n + 1, m)
<1>1. n \in Nat /\ m \in Nat  BY ShapeNonEmpty
<1>2. Shape(PushTmp(g), n, m)  BY ShapeTmp
<1>3. e.a[1] \in Nodes  BY Binaries
<1>4. e.a[1].a[1] \in Nodes /\ Typed(e.a[1].a[1])  BY <1>3, Unaries
<1>5. \A at : Moves(Phase("pointed target", e, VoidT, at), n + 1, m, n + 1, m)  BY <1>1, OfPhase DEF Turns
<1>6. QED  BY <1>2, <1>4, <1>5, GivesOperand DEF AssignToPointed

LEMMA GivesPointedStore ==
    ASSUME NEW p, NEW g, NEW n, NEW m, Shape(g, n, m), n > 0
    PROVE  Gives(StorePointed(p, g), n, m)
<1>1. n \in Nat /\ n - 1 + 1 = n /\ Shape(PopType(g), n - 1, m)  BY Popped
<1>2. \A off, r : Shape(PopTmp(PopType(g), off, r), n - 1, m)  BY <1>1, ShapeTmp
<1>3. QED  BY <1>1, <1>2, GivesPush, ShapeEmit DEF StorePointed

LEMMA GivesTarget ==
    ASSUME NEW p, p.e \in Nodes, p.e.k = "assign", NEW g, NEW n, NEW m, Shape(g, n, m), n > 0, m > 0
    PROVE  Gives(VisitTarget(p, g), n, m)
<1> DEFINE h == PopType(g)
<1>1. n \in Nat /\ n - 1 + 1 = n /\ Shape(h, n - 1, m)  BY Popped
<1>2. Gives(AssignToVar(p.e, h), n, m)  BY <1>1, GivesToVar
<1>3. p.e.a[1].k = "member" => Gives(AssignToMember(p.e, h), n, m)  BY <1>1, GivesToMember
<1>4. p.e.a[1].k = "index" => Gives(AssignToElement(p.e, h), n, m)  BY <1>1, GivesToElement
<1>5. p.e.a[1].k = "deref" => Gives(AssignToPointed(p.e, h), n, m)  BY <1>1, GivesToPointed
<1>6. Gives(Done(Throw(h)), n, m)  BY <1>1, GivesThrow
<1> HIDE DEF h
<1>7. QED  BY <1>2, <1>3, <1>4, <1>5, <1>6 DEF VisitTarget, h

-----------------------------------------------------------------------------
(* Statements, which leave the stacks as they are.                         *)

LEMMA ChainDropping ==
    ASSUME NEW e \in Nodes, NEW n \in Nat, NEW m \in Nat, m > 0
    PROVE  Chain(VisitDropping(e), n, m, n, m)
<1>1. CASE Typed(e)
  <2>1. Moves(Visiting(e), n, m, n + 1, m)  BY <1>1, OfVisit
  <2>2. Chain(<<Drop>>, n + 1, m, n, m) /\ Chain(<<Keep>>, n + 1, m, n, m)  BY OfSimple, ChainOne
  <2>3. QED  BY <1>1, <2>1, <2>2, ChainCons DEF VisitDropping
<1>2. CASE ~Typed(e)
  <2>1. Moves(Visiting(e), n, m, n, m)  BY <1>2, OfVisit
  <2>2. ~IsExpression(e)  BY <1>2 DEF Typed
  <2>3. QED  BY <1>2, <2>1, <2>2, ChainCons, ChainNil DEF VisitDropping
<1>3. QED  BY <1>1, <1>2

LEMMA GivesRest ==
    ASSUME NEW p, p.e \in Nodes, p.e.k = "block", p.at[1] \in Nat \ {0}, NEW g, NEW n, NEW m, Shape(g, n, m), m > 0
    PROVE  Gives(VisitRest(p, g), n, m)
<1> DEFINE i == p.at[1]
<1>1. n \in Nat /\ m \in Nat  BY ShapeNonEmpty
<1>2. ASSUME ~(i > Len(p.e.a))
      PROVE  Gives(Do(g, VisitDropping(p.e.a[i]) \o <<Rest(p.e, i + 1)>>), n, m)
  <2>1. i \in 1..Len(p.e.a) /\ i + 1 \in Nat \ {0}  BY <1>2, Lists
  <2>2. Chain(VisitDropping(p.e.a[i]), n, m, n, m)  BY <1>1, <2>1, Lists, ChainDropping
  <2>3. <<i + 1>>[1] = i + 1  OBVIOUS
  <2>4. Moves(Rest(p.e, i + 1), n, m, n, m)
    <3> HIDE DEF i
    <3>1. QED  BY <1>1, <2>1, <2>3, OfPhase DEF Rest
  <2>5. QED  BY <2>2, <2>4, ChainOne, ChainConcat, GivesDo
<1>3. QED  BY <1>2, GivesDone DEF VisitRest

LEMMA GivesComptime ==
    ASSUME NEW e \in Nodes, e.k = "comptime", NEW g, NEW n, NEW m, Shape(g, n, m), m > 0
    PROVE  Gives(VisitComptime(e, g), n, m)
<1>1. n \in Nat /\ m \in Nat  BY ShapeNonEmpty
<1>2. e.a[1] \in Nodes  BY Unaries
<1>3. CASE Typed(e.a[1])
  <2>1. Moves(Visiting(e.a[1]), n, m, n + 1, m)  BY <1>1, <1>2, <1>3, OfVisit
  <2>2. Chain(<<Keep>>, n + 1, m, n, m)  BY <1>1, OfSimple, ChainOne
  <2>3. QED  BY <1>3, <2>1, <2>2, ChainCons, GivesDo DEF VisitComptime
<1>4. CASE ~Typed(e.a[1])
  <2>1. Moves(Visiting(e.a[1]), n, m, n, m)  BY <1>1, <1>2, <1>4, OfVisit
  <2>2. QED  BY <1>1, <1>4, <2>1, ChainCons, ChainNil, GivesDo DEF VisitComptime
<1>5. QED  BY <1>3, <1>4

LEMMA GivesStruct ==
    ASSUME NEW s, NEW g, NEW n, NEW m, Shape(g, n, m)
    PROVE  Gives(VisitStruct(s, g), n, m)
<1>1. ASSUME NEW v  PROVE Shape([g EXCEPT !.structs = v], n, m)
  <2> DEFINE d == [g EXCEPT !.structs = v]
  <2>1. DOMAIN d = DOMAIN g /\ \A f \in {"types", "ctx", "thrown", "kept"} : d[f] = g[f]
    BY DEF Shape, Fields
  <2> HIDE DEF d
  <2>2. Shape(d, n, m)  BY <2>1, ShapeSame
  <2>3. QED  BY <2>2 DEF d
<1>2. QED  BY <1>1, GivesDone DEF VisitStruct

LEMMA ShapeStore ==
    ASSUME NEW g, NEW n, NEW m, Shape(g, n, m), NEW x, NEW t
    PROVE  Shape(StoreVar(x, t, g), n, m)
BY ShapeEmit DEF StoreVar

LEMMA GivesVarDecl ==
    ASSUME NEW e \in Nodes, e.k = "vardecl", NEW g, NEW n, NEW m, Shape(g, n, m), m > 0
    PROVE  Gives(VisitVarDecl(e, g), n, m)
<1> DEFINE c == ReserveValue(g, e.x, e.t)
<1>1. n \in Nat /\ m \in Nat  BY ShapeNonEmpty
<1>2. Shape(c, n, m)  BY ShapeReserve
<1>3. Gives(DeclareStruct(e, g), n, m)  BY ShapeReserve, ShapeEmit, GivesDone DEF DeclareStruct
<1>4. ASSUME e.a # <<>>
      PROVE  Gives(Do(c, <<Visiting(e.a[1]), Then("initial", e)>>), n, m)
  <2>1. Moves(Then("initial", e), n + 1, m, n, m)  BY <1>1, OfPhase DEF Then
  <2>2. QED  BY <1>2, <1>4, <2>1, Optionals, GivesOperand
<1>5. \A code : Gives(Done(StoreVar(e.x, e.t, Emit(c, code))), n, m)  BY <1>2, ShapeEmit, ShapeStore, GivesDone
<1>6. \A code, more : Gives(Done(Emit(Emit(c, code), more)), n, m)  BY <1>2, ShapeEmit, GivesDone
<1> HIDE DEF c
<1>7. QED  BY <1>3, <1>4, <1>5, <1>6 DEF VisitVarDecl, c

LEMMA GivesConst ==
    ASSUME NEW e \in Nodes, e.k = "const", NEW g, NEW n, NEW m, Shape(g, n, m), m > 0
    PROVE  Gives(VisitConst(e, g), n, m)
<1>1. n \in Nat /\ m \in Nat  BY ShapeNonEmpty
<1>2. Shape(ReserveValue(g, e.x, e.t), n, m)  BY ShapeReserve
<1>3. Moves(Then("constant", e), n + 1, m, n, m)  BY <1>1, OfPhase DEF Then
<1>4. QED  BY <1>2, <1>3, Optionals, GivesOperand, GivesDone DEF VisitConst

LEMMA GivesStores ==
    ASSUME NEW p, NEW g, NEW n, NEW m, Shape(g, n, m), n > 0
    PROVE  /\ Gives(StoreInitial(p, g), n - 1, m) /\ Gives(StoreConst(p, g), n - 1, m)
           /\ Gives(JumpToReturn(p, g), n - 1, m)
<1>1. Shape(PopType(g), n - 1, m)  BY Popped
<1>2. QED  BY <1>1, ShapeStore, ShapeEmit, GivesDone DEF StoreInitial, StoreConst, JumpToReturn

LEMMA GivesReturn ==
    ASSUME NEW e \in Nodes, e.k = "return", NEW g, NEW n, NEW m, Shape(g, n, m), m > 0
    PROVE  Gives(VisitReturn(e, g), n, m)
<1>1. n \in Nat /\ m \in Nat  BY ShapeNonEmpty
<1>2. Moves(Then("return", e), n + 1, m, n, m)  BY <1>1, OfPhase DEF Then
<1>3. QED  BY <1>2, Optionals, GivesOperand, GivesDone, ShapeEmit DEF VisitReturn

\* A condition is evaluated, its type dropped, and code follows.
LEMMA ChainCondition ==
    ASSUME NEW e \in Nodes, Typed(e), NEW c, NEW n \in Nat, NEW m \in Nat, m > 0
    PROVE  Chain(<<Visiting(e), Drop, Code(c)>>, n, m, n, m)
<1>1. Moves(Visiting(e), n, m, n + 1, m)  BY OfVisit
<1>2. Chain(<<Drop, Code(c)>>, n + 1, m, n, m)  BY OfSimple, Chain2
<1>3. QED  BY <1>1, <1>2, Chain3

LEMMA GivesIf ==
    ASSUME NEW e \in Nodes, e.k = "if", NEW g, NEW n, NEW m, Shape(g, n, m), m > 0
    PROVE  Gives(VisitIf(e, g), n, m)
<1> DEFINE else == IF Len(e.a) = 3 THEN VisitDropping(e.a[3]) ELSE <<>>
           tasks(c, d, f) == <<Visiting(e.a[1]), Drop, Code(c)>> \o VisitDropping(e.a[2]) \o <<Code(d)>>
                             \o else \o <<Code(f)>>
<1>1. n \in Nat /\ m \in Nat  BY ShapeNonEmpty
<1>2. /\ e.a[1] \in Nodes /\ Typed(e.a[1]) /\ e.a[2] \in Nodes
      /\ Len(e.a) = 3 => e.a[3] \in Nodes
  BY Ifs
<1>3. ASSUME NEW c, NEW d, NEW f  PROVE Chain(tasks(c, d, f), n, m, n, m)
  <2>1. Chain(<<Visiting(e.a[1]), Drop, Code(c)>>, n, m, n, m)  BY <1>1, <1>2, ChainCondition
  <2>2. Chain(VisitDropping(e.a[2]), n, m, n, m)  BY <1>1, <1>2, ChainDropping
  <2>3. Chain(<<Code(d)>>, n, m, n, m) /\ Chain(<<Code(f)>>, n, m, n, m)  BY <1>1, OfSimple, ChainOne
  <2>4. Chain(else, n, m, n, m)  BY <1>1, <1>2, ChainDropping, ChainNil
  <2> HIDE DEF else
  <2>5. Chain(<<Visiting(e.a[1]), Drop, Code(c)>> \o VisitDropping(e.a[2]), n, m, n, m)
    BY <2>1, <2>2, ChainConcat
  <2>6. Chain(<<Visiting(e.a[1]), Drop, Code(c)>> \o VisitDropping(e.a[2]) \o <<Code(d)>>, n, m, n, m)
    BY <2>3, <2>5, ChainConcat
  <2>7. Chain(<<Visiting(e.a[1]), Drop, Code(c)>> \o VisitDropping(e.a[2]) \o <<Code(d)>> \o else, n, m, n, m)
    BY <2>4, <2>6, ChainConcat
  <2>8. QED  BY <2>3, <2>7, ChainConcat
<1>4. Shape(Counted(Counted(g)), n, m)  BY ShapeCounted
<1>5. \A c, d, f : Gives(Do(Counted(Counted(g)), tasks(c, d, f)), n, m)
  <2> HIDE DEF tasks
  <2>1. QED  BY <1>3, <1>4, GivesDo
<1>6. QED  BY <1>5, Zenon DEF VisitIf

LEMMA GivesWhile ==
    ASSUME NEW e \in Nodes, e.k = "while", NEW g, NEW n, NEW m, Shape(g, n, m), m > 0
    PROVE  Gives(VisitWhile(e, g), n, m)
<1> DEFINE tasks(c, d) == <<Visiting(e.a[1]), Drop, Code(c)>> \o VisitDropping(e.a[2]) \o <<Code(d)>>
<1>1. n \in Nat /\ m \in Nat  BY ShapeNonEmpty
<1>2. e.a[1] \in Nodes /\ Typed(e.a[1]) /\ e.a[2] \in Nodes  BY Binaries
<1>3. ASSUME NEW c, NEW d  PROVE Chain(tasks(c, d), n, m, n, m)
  <2>1. Chain(<<Visiting(e.a[1]), Drop, Code(c)>>, n, m, n, m)  BY <1>1, <1>2, ChainCondition
  <2>2. Chain(VisitDropping(e.a[2]), n, m, n, m)  BY <1>1, <1>2, ChainDropping
  <2>3. Chain(<<Code(d)>>, n, m, n, m)  BY <1>1, OfSimple, ChainOne
  <2>4. Chain(<<Visiting(e.a[1]), Drop, Code(c)>> \o VisitDropping(e.a[2]), n, m, n, m)
    BY <2>1, <2>2, ChainConcat
  <2>5. QED  BY <2>3, <2>4, ChainConcat
<1>4. \A c : Shape(Emit(Counted(Counted(g)), c), n, m)  BY ShapeCounted, ShapeEmit
<1>5. \A c, d, f : Gives(Do(Emit(Counted(Counted(g)), f), tasks(c, d)), n, m)
  <2> HIDE DEF tasks
  <2>1. QED  BY <1>3, <1>4, GivesDo
<1>6. QED  BY <1>5, Zenon DEF VisitWhile

LEMMA ShapeOut ==
    ASSUME NEW g, NEW n, NEW m, Shape(g, n, m), NEW c
    PROVE  Shape([g EXCEPT !.out = c], n, m)
<1> DEFINE d == [g EXCEPT !.out = c]
<1>1. DOMAIN d = DOMAIN g /\ \A f \in {"types", "ctx", "thrown", "kept"} : d[f] = g[f]
  BY DEF Shape, Fields
<1> HIDE DEF d
<1>2. Shape(d, n, m)  BY <1>1, ShapeSame
<1>3. QED  BY <1>2 DEF d

\* A function's context is there for its parameters and its body, and no longer.
LEMMA GivesFunc ==
    ASSUME NEW e \in Nodes, e.k = "func", NEW g, NEW n, NEW m, Shape(g, n, m)
    PROVE  Gives(VisitFunc(e, g), n, m)
<1>0. n \in Nat /\ m \in Nat  BY ShapeNonEmpty
<1>1. n \in Nat /\ m \in Nat /\ m + 1 \in Nat /\ m + 1 > 0  BY <1>0
<1>2. \A l : Shape(BeginFunction(Counted([g EXCEPT !.out = <<>>]), l), n, m + 1)
  BY ShapeOut, ShapeCounted, ShapeBegin
<1>3. Moves(Parameter(e, 1), n, m + 1, n, m + 1)  BY <1>1, OfPhase DEF Parameter
<1>4. e.a[1] \in Nodes /\ e.a[1].k = "block"  BY Unaries
<1>5. ~Typed(e.a[1])  BY <1>4 DEF Typed, IsExpression
<1>6. Moves(Visiting(e.a[1]), n, m + 1, n, m + 1)  BY <1>1, <1>4, <1>5, OfVisit
<1>7. \A c : Moves(Ending(e, c), n, m + 1, n, m)  BY <1>1, OfEnd
<1>8. \A c : Chain(<<Parameter(e, 1), Visiting(e.a[1]), Ending(e, c)>>, n, m + 1, n, m)
  BY <1>3, <1>6, <1>7, Chain2, Chain3
<1>9. QED  BY <1>2, <1>8, GivesDo DEF VisitFunc

LEMMA GivesParameter ==
    ASSUME NEW p, NEW g, NEW n, NEW m, Shape(g, n, m), m > 0
    PROVE  Gives(ReserveParameter(p, g), n, m)
<1>1. n \in Nat /\ m \in Nat  BY ShapeNonEmpty
<1>2. \A x, t : Shape(ReserveValue(g, x, t), n, m)  BY ShapeReserve
<1>3. \A i : Chain(<<Parameter(p.e, i)>>, n, m, n, m)  BY <1>1, OfPhase, ChainOne DEF Parameter
<1>4. QED  BY <1>2, <1>3, GivesDo, GivesDone DEF ReserveParameter

LEMMA GivesEnd ==
    ASSUME NEW p, NEW g, NEW n, NEW m, Shape(g, n, m), m > 0
    PROVE  Gives(EndFunc(p, g), n, m - 1)
<1>1. \A c : Shape(EndFunction([g EXCEPT !.out = c]), n, m - 1)  BY ShapeOut, ShapeEnd
<1>2. QED  BY <1>1, GivesDone DEF EndFunc

-----------------------------------------------------------------------------
(* Every part of a visit.                                                  *)

Expressions == {"num", "bin", "assign", "var", "addr", "deref", "cast", "call", "index", "str", "member"}
Statements  == {"vardecl", "const", "block", "if", "while", "return", "struct", "func", "asm", "comptime"}

LEMMA Kinds ==
    ASSUME NEW e \in Nodes
    PROVE  /\ e.k \in Expressions \cup Statements
           /\ Typed(e) <=> e.k \in Expressions
<1>1. Arity(e.k) # {}  BY NodeParts
<1>2. e.k \in Expressions \cup Statements  BY <1>1 DEF Arity, Expressions, Statements
<1>3. Typed(e) <=> e.k \in Expressions  BY DEF Typed, IsExpression, Expressions
<1>4. QED  BY <1>2, <1>3

LEMMA GivesExpression ==
    ASSUME NEW e \in Nodes, e.k \in Expressions, NEW g, NEW n, NEW m, Shape(g, n, m), m > 0
    PROVE  Gives(Visit(e, g), n + 1, m)
<1> USE DEF Visit
<1>1. CASE e.k = "num"  BY <1>1, GivesPush, ShapeEmit
<1>2. CASE e.k = "var"  BY <1>2, GivesVar
<1>3. CASE e.k = "addr"  BY <1>3, GivesAddressOf
<1>4. CASE e.k = "deref"  BY <1>4, GivesDeref
<1>5. CASE e.k = "cast"  BY <1>5, GivesCast
<1>6. CASE e.k = "bin"  BY <1>6, GivesLogical, GivesBinary
<1>7. CASE e.k = "assign"  BY <1>7, GivesAssign
<1>8. CASE e.k = "index"  BY <1>8, GivesIndex
<1>9. CASE e.k = "member"  BY <1>9, GivesMember
<1>10. CASE e.k = "call"  BY <1>10, GivesCall
<1>11. CASE e.k = "str"  BY <1>11, GivesString
<1> HIDE DEF Visit
<1>12. QED  BY <1>1, <1>2, <1>3, <1>4, <1>5, <1>6, <1>7, <1>8, <1>9, <1>10, <1>11 DEF Expressions

LEMMA GivesStatement ==
    ASSUME NEW e \in Nodes, e.k \in Statements, NEW g, NEW n, NEW m, Shape(g, n, m),
           e.k \notin {"func", "struct"} => m > 0
    PROVE  Gives(Visit(e, g), n, m)
<1>0. n \in Nat /\ m \in Nat  BY ShapeNonEmpty
<1> USE DEF Visit
<1>1. CASE e.k = "vardecl"  BY <1>1, GivesVarDecl
<1>2. CASE e.k = "const"  BY <1>2, GivesConst
<1>3. CASE e.k = "block"
  <2>1. <<1>>[1] \in Nat \ {0}  OBVIOUS
  <2>2. Moves(Rest(e, 1), n, m, n, m)  BY <1>0, <1>3, <2>1, OfPhase DEF Rest
  <2>3. QED  BY <1>3, <2>2, ChainOne, GivesDo
<1>4. CASE e.k = "if"  BY <1>4, GivesIf
<1>5. CASE e.k = "while"  BY <1>5, GivesWhile
<1>6. CASE e.k = "return"  BY <1>6, GivesReturn
<1>7. CASE e.k = "struct"  BY <1>7, GivesStruct
<1>8. CASE e.k = "func"  BY <1>8, GivesFunc
<1>9. CASE e.k = "asm"  BY <1>9, GivesDone, ShapeEmit
<1>10. CASE e.k = "comptime"  BY <1>10, GivesComptime
<1> HIDE DEF Visit
<1>11. QED  BY <1>1, <1>2, <1>3, <1>4, <1>5, <1>6, <1>7, <1>8, <1>9, <1>10 DEF Statements

LEMMA GivesPhase ==
    ASSUME NEW t, NEW n, NEW m, NEW n1, NEW m1, Moves(t, n, m, n1, m1),
           t.do \notin {"visit", "drop", "keep", "code", "type"}, NEW g, Shape(g, n, m)
    PROVE  Gives(Continue(t, g), n1, m1)
<1>1. /\ t.do \in {"rest", "parameter", "end", "initial", "constant", "return"} \cup Turns
      /\ t.do \in {"initial", "constant", "return"} \cup Turns => n > 0
      /\ m > 0
  BY DEF Moves, Fits, Ends
<1>2. /\ t.do \in DOMAIN KindOf => t.e \in Nodes /\ t.e.k = KindOf[t.do]
      /\ t.do = "argument" => IsList(t.at) /\ Len(t.at) < Len(t.e.a)
      /\ t.do = "base target" => t.e \in Nodes /\ t.e.k = "assign" /\ t.e.a[1].k = "index"
      /\ t.do = "rest" => t.at[1] \in Nat \ {0}
  BY Zenon DEF Moves, Fits
<1>3. n \in Nat /\ m \in Nat /\ n1 = n + Gain(t) /\ m1 = m - Closes(t)  BY DEF Moves
<1>4. /\ t.do \in Turns => n1 = n /\ m1 = m
      /\ t.do \in {"rest", "parameter"} => n1 = n /\ m1 = m
      /\ t.do \in {"initial", "constant", "return"} => n1 = n - 1 /\ m1 = m
      /\ t.do = "end" => n1 = n /\ m1 = m - 1
  <2>1. t.do \in Turns \cup {"rest", "parameter"} => Gain(t) = 0 /\ Closes(t) = 0  BY DEF Gain, Closes, Ends, Turns
  <2>2. t.do \in {"initial", "constant", "return"} => Gain(t) = -1 /\ Closes(t) = 0  BY DEF Gain, Closes, Ends
  <2>3. t.do = "end" => Gain(t) = 0 /\ Closes(t) = 1  BY DEF Gain, Closes, Ends
  <2>4. QED  BY <1>3, <2>1, <2>2, <2>3
<1> USE DEF Continue
<1>5. CASE t.do \in Turns
  <2>0. n1 = n /\ m1 = m /\ n > 0  BY <1>1, <1>4, <1>5
  <2>1. CASE t.do = "pointed"  BY <2>0, <2>1, GivesPointed
  <2>2. CASE t.do = "right"
    <3>1. t.e \in Nodes /\ t.e.k = "bin"  BY <1>2, <2>2 DEF KindOf
    <3>2. QED  BY <1>1, <2>0, <2>2, <3>1, GivesRight
  <2>3. CASE t.do = "operate"  BY <2>0, <2>3, GivesOperation
  <2>4. CASE t.do = "index"
    <3>1. t.e \in Nodes /\ t.e.k = "index"  BY <1>2, <2>4 DEF KindOf
    <3>2. QED  BY <1>1, <2>0, <2>4, <3>1, GivesSubscript
  <2>5. CASE t.do = "element"  BY <2>0, <2>5, GivesElement
  <2>6. CASE t.do = "member"  BY <2>0, <2>6, GivesMemberLoad
  <2>7. CASE t.do = "argument"
    <3>1. t.e \in Nodes /\ t.e.k = "call"  BY <1>2, <2>7 DEF KindOf
    <3>2. QED  BY <1>1, <1>2, <2>0, <2>7, <3>1, GivesArgument
  <2>8. CASE t.do = "target"
    <3>1. t.e \in Nodes /\ t.e.k = "assign"  BY <1>2, <2>8 DEF KindOf
    <3>2. QED  BY <1>1, <2>0, <2>8, <3>1, GivesTarget
  <2>9. CASE t.do = "member target"  BY <2>0, <2>9, GivesMemberStore
  <2>10. CASE t.do = "base target"  BY <1>1, <1>2, <2>0, <2>10, GivesTargetIndex
  <2>11. CASE t.do = "element target"  BY <2>0, <2>11, GivesElementStore
  <2>12. CASE t.do = "pointed target"  BY <2>0, <2>12, GivesPointedStore
  <2> HIDE DEF Continue
  <2>13. QED
    BY <1>5, <2>1, <2>2, <2>3, <2>4, <2>5, <2>6, <2>7, <2>8, <2>9, <2>10, <2>11, <2>12 DEF Turns
<1>6. CASE t.do = "initial"  BY <1>1, <1>4, <1>6, GivesStores
<1>7. CASE t.do = "constant"  BY <1>1, <1>4, <1>7, GivesStores
<1>8. CASE t.do = "return"  BY <1>1, <1>4, <1>8, GivesStores
<1>9. CASE t.do = "rest"
  <2>1. t.e \in Nodes /\ t.e.k = "block"  BY <1>2, <1>9 DEF KindOf
  <2>2. QED  BY <1>1, <1>2, <1>4, <1>9, <2>1, GivesRest
<1>10. CASE t.do = "parameter"  BY <1>1, <1>4, <1>10, GivesParameter
<1>11. CASE t.do = "end"  BY <1>1, <1>4, <1>11, GivesEnd
<1> HIDE DEF Continue
<1>12. QED  BY <1>1, <1>5, <1>6, <1>7, <1>8, <1>9, <1>10, <1>11

LEMMA GivesPart ==
    ASSUME NEW t, NEW n, NEW m, NEW n1, NEW m1, Moves(t, n, m, n1, m1), NEW g, Shape(g, n, m)
    PROVE  Gives(Part(t, g), n1, m1)
<1>1. n \in Nat /\ m \in Nat /\ n1 = n + Gain(t) /\ m1 = m - Closes(t) /\ Fits(t, n, m)  BY DEF Moves
<1>2. UsesContext(t) => g.ctx # <<>>
  <2>1. UsesContext(t) => m > 0  BY <1>1 DEF UsesContext, Fits
  <2>2. QED  BY <2>1, ShapeNonEmpty
<1> DEFINE part == CASE t.do = "visit" -> Visit(t.e, g)
                     [] t.do = "drop"  -> Done(PopType(g))
                     [] t.do = "keep"  -> Done([g EXCEPT !.kept = @ + 1])
                     [] t.do = "code"  -> Done(Emit(g, t.code))
                     [] t.do = "type"  -> Done(PushType(g, t.t))
                     [] OTHER          -> Continue(t, g)
<1>3. Part(t, g) = part  BY <1>2, Zenon DEF Part
<1>4. CASE t.do = "visit"
  <2>1. t.e \in Nodes /\ (t.e.k \notin {"func", "struct"} => m > 0)  BY <1>1, <1>4 DEF Fits
  <2>2. m1 = m  BY <1>1, <1>4 DEF Closes
  <2>3. CASE t.e.k \in Expressions
    <3>1. n1 = n + 1  BY <1>1, <1>4, <2>1, <2>3, Kinds DEF Gain
    <3>2. m > 0  BY <2>1, <2>3 DEF Expressions
    <3>3. Gives(Visit(t.e, g), n1, m1)  BY <2>1, <2>2, <2>3, <3>1, <3>2, GivesExpression
    <3>4. QED  BY <1>3, <1>4, <3>3
  <2>4. CASE t.e.k \notin Expressions
    <3>1. n1 = n /\ t.e.k \in Statements  BY <1>1, <1>4, <2>1, <2>4, Kinds DEF Gain
    <3>2. Gives(Visit(t.e, g), n1, m1)  BY <2>1, <2>2, <3>1, GivesStatement
    <3>3. QED  BY <1>3, <1>4, <3>2
  <2>5. QED  BY <2>3, <2>4
<1>5. CASE t.do = "drop"
  <2>1. n > 0 /\ n1 = n - 1 /\ m1 = m  BY <1>1, <1>5 DEF Fits, Gain, Closes, Ends
  <2>2. QED  BY <1>3, <1>5, <2>1, ShapePop, GivesDone
<1>6. CASE t.do = "keep"
  <2>1. n > 0 /\ n1 = n - 1 /\ m1 = m  BY <1>1, <1>6 DEF Fits, Gain, Closes, Ends
  <2>2. QED  BY <1>3, <1>6, <2>1, ShapeKeep, GivesDone
<1>7. CASE t.do = "code"
  <2>1. n1 = n /\ m1 = m  BY <1>1, <1>7 DEF Gain, Closes, Ends
  <2>2. QED  BY <1>3, <1>7, <2>1, ShapeEmit, GivesDone
<1>8. CASE t.do = "type"
  <2>1. n1 = n + 1 /\ m1 = m  BY <1>1, <1>8 DEF Gain, Closes, Ends
  <2>2. QED  BY <1>3, <1>8, <2>1, GivesPush
<1>9. CASE t.do \notin {"visit", "drop", "keep", "code", "type"}
  <2>1. part = Continue(t, g)  BY <1>9
  <2>2. QED  BY <1>3, <1>9, <2>1, GivesPhase
<1>10. QED  BY <1>4, <1>5, <1>6, <1>7, <1>8, <1>9

-----------------------------------------------------------------------------
(* The invariant: what is left to do leads to empty stacks, but for the    *)
(* context of wl__toplevel while that is open.                             *)

Base == IF stage = "toplevel" THEN 1 ELSE 0

Led(g, tasks, base) == \E n, m : Shape(g, n, m) /\ Chain(tasks, n, m, 0, base)

CInv ==
    /\ program \in Seq(Nodes) /\ next \in Nat \ {0}
    /\ stage \in {"collect", "toplevel", "functions", "library", "done"}
    /\ stage \in {"collect", "done"} => todo = <<>>
    /\ stage = "collect" => Going
    /\ gen.thrown \in {"", "error"}
    /\ Going => Led(gen, todo, Base)

LEMMA LedNowhere ==
    ASSUME NEW g, NEW n, Led(g, <<>>, n)
    PROVE  Shape(g, 0, n)
BY ChainOver, ChainNil DEF Led

LEMMA LedOn ==
    ASSUME NEW g, NEW b \in Nat, Shape(g, 0, b)
    PROVE  Led(g, <<>>, b)
BY ChainNil DEF Led

LEMMA CInvInit == Init => CInv
<1> SUFFICES ASSUME Init  PROVE CInv  OBVIOUS
<1>1. program \in Seq(Nodes)  BY NodesAssumption DEF Init
<1>2. Shape(NewVisitor, 0, 0)
  <2>1. IsList(<<>>) /\ Len(<<>>) = 0  BY DEF IsList
  <2>2. DOMAIN NewVisitor = Fields  BY DEF NewVisitor, Fields
  <2>3. /\ NewVisitor.types = <<>> /\ NewVisitor.ctx = <<>>
        /\ NewVisitor.kept = 0 /\ NewVisitor.thrown = ""
    BY DEF NewVisitor
  <2>4. Holds(<<>>, 0, 0) /\ Nested(<<>>, 0)  BY <2>1 DEF Holds, Nested
  <2>5. QED  BY <2>2, <2>3, <2>4, Zenon DEF Shape
<1>3. Led(NewVisitor, <<>>, 0)  BY <1>2, LedOn
<1>4. NewVisitor.thrown = ""  BY DEF NewVisitor
<1>5. gen = NewVisitor /\ todo = <<>> /\ stage = "collect" /\ next = 1  BY DEF Init
<1>6. Base = 0 /\ Going  BY <1>4, <1>5 DEF Base, Going
<1>7. Led(gen, todo, Base)  BY <1>3, <1>5, <1>6
<1>8. next \in Nat \ {0} /\ gen.thrown = ""
  <2>1. 1 \in Nat \ {0}  OBVIOUS
  <2>2. next = 1 /\ gen = NewVisitor  BY <1>5
  <2>3. QED  BY <1>4, <2>1, <2>2, Zenon
<1>9. QED  BY <1>1, <1>5, <1>6, <1>7, <1>8, Zenon DEF CInv

\* A step carries out the task that comes first.
LEMMA CInvStep == CInv /\ Step => CInv'
<1> SUFFICES ASSUME CInv, Step  PROVE CInv'  OBVIOUS
<1> DEFINE d == Part(Head(todo), gen)
<1>1. /\ Going /\ todo # <<>> /\ gen' = d.gen /\ todo' = d.todo \o Tail(todo)
      /\ UNCHANGED <<program, library, stage, next>>
  BY DEF Step
<1>2. PICK n, m : Shape(gen, n, m) /\ Chain(todo, n, m, 0, Base)  BY <1>1 DEF CInv, Led
<1>3. PICK n1, m1 : Moves(Head(todo), n, m, n1, m1) /\ Chain(Tail(todo), n1, m1, 0, Base)
  BY <1>1, <1>2, ChainNext
<1>4. Gives(d, n1, m1)  BY <1>2, <1>3, GivesPart
<1>5. Base' = Base  BY <1>1 DEF Base
<1> HIDE DEF d
<1>6. CASE d.gen.thrown = "error"
  BY <1>1, <1>6 DEF CInv, Going
<1>7. CASE \E k, l : Shape(d.gen, k, l) /\ Chain(d.todo, k, l, n1, m1)
  <2>1. PICK k, l : Shape(d.gen, k, l) /\ Chain(d.todo, k, l, n1, m1)  BY <1>7
  <2>2. Chain(todo', k, l, 0, Base)  BY <1>1, <1>3, <2>1, ChainConcat
  <2>3. Led(gen', todo', Base')  BY <1>1, <1>5, <2>1, <2>2 DEF Led
  <2>4. gen'.thrown = ""  BY <1>1, <2>1, ShapeNonEmpty
  <2>5. QED  BY <1>1, <2>3, <2>4 DEF CInv, Going
<1>8. QED  BY <1>4, <1>6, <1>7 DEF Gives

LEMMA CInvCollect == CInv /\ Collect => CInv'
<1> SUFFICES ASSUME CInv, Collect  PROVE CInv'  OBVIOUS
<1>1. PICK funcs :
         /\ gen' = IF library THEN [gen EXCEPT !.funcs = funcs]
                   ELSE BeginFunction([gen EXCEPT !.funcs = funcs], "wl__toplevel_ret")
         /\ stage = "collect" /\ stage' = IF library THEN "library" ELSE "toplevel"
         /\ UNCHANGED <<program, library, todo, next>>
  BY Zenon DEF Collect
<1>2. Shape(gen, 0, 0) /\ todo = <<>>
  <2>1. Base = 0 /\ Going /\ todo = <<>>  BY <1>1 DEF Base, CInv
  <2>2. Led(gen, <<>>, 0)  BY <2>1 DEF CInv
  <2>3. QED  BY <2>1, <2>2, LedNowhere
<1>3. Shape([gen EXCEPT !.funcs = funcs], 0, 0)
  <2> DEFINE h == [gen EXCEPT !.funcs = funcs]
  <2>1. DOMAIN h = DOMAIN gen /\ \A f \in {"types", "ctx", "thrown", "kept"} : h[f] = gen[f]
    BY <1>2 DEF Shape, Fields
  <2> HIDE DEF h
  <2>2. Shape(h, 0, 0)  BY <1>2, <2>1, ShapeSame
  <2>3. QED  BY <2>2 DEF h
<1>4. CASE library
  <2>1. gen' = [gen EXCEPT !.funcs = funcs] /\ stage' = "library" /\ todo' = <<>>  BY <1>1, <1>2, <1>4
  <2>2. Base' = 0  BY <2>1 DEF Base
  <2>3. Shape(gen', 0, 0)  BY <1>3, <2>1
  <2>4. Led(gen', todo', Base') /\ gen'.thrown = ""  BY <2>1, <2>2, <2>3, LedOn, ShapeNonEmpty
  <2>5. QED  BY <1>1, <2>1, <2>4 DEF CInv, Going
<1>5. CASE ~library
  <2>1. /\ gen' = BeginFunction([gen EXCEPT !.funcs = funcs], "wl__toplevel_ret")
        /\ stage' = "toplevel" /\ todo' = <<>>
    BY <1>1, <1>2, <1>5
  <2>2. Base' = 1  BY <2>1 DEF Base
  <2>3. Shape(gen', 0, 0 + 1)  BY <1>3, <2>1, ShapeBegin
  <2>4. 0 + 1 = 1 /\ 1 \in Nat  OBVIOUS
  <2>5. Shape(gen', 0, 1)  BY <2>3, <2>4
  <2>6. Led(gen', <<>>, 1) /\ gen'.thrown = ""  BY <2>4, <2>5, LedOn, ShapeNonEmpty
  <2>7. Led(gen', todo', Base')  BY <2>1, <2>2, <2>6
  <2>8. QED  BY <1>1, <2>1, <2>6, <2>7 DEF CInv, Going
<1>6. QED  BY <1>4, <1>5

\* A turn of a loop, with the statement it has reached.
LEMMA CInvTurn ==
    ASSUME CInv, NEW tasks, Turn(tasks), stage \notin {"collect", "done"},
           \A n \in Nat, m \in Nat :
              Statement \in Nodes /\ (stage = "toplevel" => m > 0) => Chain(tasks, n, m, n, m)
    PROVE  CInv'
<1>1. /\ Going /\ todo = <<>> /\ More /\ todo' = tasks /\ next' = next + 1
      /\ UNCHANGED <<program, library, gen, stage>>
  BY DEF Turn
<1>2. Statement \in Nodes /\ next' \in Nat \ {0}
  <2>1. program \in Seq(Nodes) /\ next \in Nat \ {0}  BY DEF CInv
  <2>2. next <= Len(program) /\ next' = next + 1  BY <1>1 DEF More
  <2>3. program[next] \in Nodes  BY <2>1, <2>2
  <2>4. QED  BY <2>1, <2>2, <2>3 DEF Statement
<1>3. Base' = Base /\ Base \in Nat /\ (stage = "toplevel" => Base > 0)  BY <1>1 DEF Base
<1>4. Shape(gen, 0, Base)  BY <1>1, LedNowhere DEF CInv
<1>5. Chain(tasks, 0, Base, 0, Base)  BY <1>2, <1>3
<1>6. Led(gen', todo', Base')  BY <1>1, <1>3, <1>4, <1>5 DEF Led
<1>7. QED  BY <1>1, <1>2, <1>6 DEF CInv, Going

LEMMA CInvVisitTop == CInv /\ VisitTop => CInv'
<1> SUFFICES ASSUME CInv, VisitTop  PROVE CInv'  OBVIOUS
<1> DEFINE tasks == IF Statement.k = "func" THEN <<>> ELSE VisitDropping(Statement)
<1>1. stage = "toplevel" /\ Turn(tasks)  BY DEF VisitTop
<1>2. ASSUME NEW n \in Nat, NEW m \in Nat, m > 0, Statement \in Nodes
      PROVE  Chain(tasks, n, m, n, m)
  BY <1>2, ChainNil, ChainDropping
<1> HIDE DEF tasks
<1>3. QED  BY <1>1, <1>2, CInvTurn

LEMMA CInvVisitFunction == CInv /\ (VisitFunction \/ VisitLibrary) => CInv'
<1> SUFFICES ASSUME CInv, VisitFunction \/ VisitLibrary  PROVE CInv'  OBVIOUS
<1>1. PICK kinds \in SUBSET {"func", "struct"} :
         Turn(IF Statement.k \in kinds THEN <<Visiting(Statement)>> ELSE <<>>)
  <2>1. CASE VisitFunction
    <3>1. Turn(IF Statement.k \in {"func"} THEN <<Visiting(Statement)>> ELSE <<>>)
      BY <2>1 DEF VisitFunction
    <3>2. QED  BY <3>1
  <2>2. CASE VisitLibrary  BY <2>2 DEF VisitLibrary
  <2>3. QED  BY <2>1, <2>2
<1> DEFINE tasks == IF Statement.k \in kinds THEN <<Visiting(Statement)>> ELSE <<>>
<1>2. ASSUME NEW n \in Nat, NEW m \in Nat, Statement \in Nodes
      PROVE  Chain(tasks, n, m, n, m)
  <2>1. CASE Statement.k \in kinds
    <3>1. Statement.k \in {"func", "struct"}  BY <2>1
    <3>2. ~Typed(Statement)  BY <3>1 DEF Typed, IsExpression
    <3>3. Moves(Visiting(Statement), n, m, n, m)  BY <1>2, <3>1, <3>2, OfVisit
    <3>4. QED  BY <2>1, <3>3, ChainOne
  <2>2. CASE Statement.k \notin kinds  BY <2>2, ChainNil
  <2>3. QED  BY <2>1, <2>2
<1>3. stage \notin {"collect", "done"}  BY DEF VisitFunction, VisitLibrary
<1>4. Turn(tasks)  BY <1>1
<1> HIDE DEF tasks
<1>5. QED  BY <1>2, <1>3, <1>4, CInvTurn

\* The context of wl__toplevel goes with its code.
LEMMA CInvEndTop == CInv /\ EndTop => CInv'
<1> SUFFICES ASSUME CInv, EndTop  PROVE CInv'  OBVIOUS
<1>1. PICK c : gen' = EndFunction([gen EXCEPT !.out = c])  BY Zenon DEF EndTop
<1>2. /\ Going /\ todo = <<>> /\ stage = "toplevel" /\ stage' = "functions" /\ next' = 1
      /\ UNCHANGED <<program, library, todo>>
  BY DEF EndTop
<1>3. Base = 1 /\ Base' = 0  BY <1>2 DEF Base
<1>4. Shape(gen, 0, 1)  BY <1>2, <1>3, LedNowhere DEF CInv
<1>5. Shape(gen', 0, 1 - 1)  BY <1>1, <1>4, ShapeOut, ShapeEnd
<1>6. 1 - 1 = 0 /\ 0 \in Nat  OBVIOUS
<1>7. Shape(gen', 0, 0)  BY <1>5, <1>6
<1>8. Led(gen', <<>>, 0) /\ gen'.thrown = ""  BY <1>6, <1>7, LedOn, ShapeNonEmpty
<1>9. Led(gen', todo', Base')  BY <1>2, <1>3, <1>8
<1>10. program' \in Seq(Nodes) /\ next' \in Nat \ {0}
  <2>1. program' = program /\ next' = 1  BY <1>2
  <2>2. program \in Seq(Nodes)  BY DEF CInv
  <2>3. 1 \in Nat \ {0}  OBVIOUS
  <2>4. QED  BY <2>1, <2>2, <2>3
<1>11. stage' = "functions" /\ todo' = <<>>  BY <1>2
<1>12. QED  BY <1>8, <1>9, <1>10, <1>11, Zenon DEF CInv

LEMMA CInvEnd == CInv /\ End => CInv'
<1> SUFFICES ASSUME CInv, End  PROVE CInv'  OBVIOUS
<1>1. Base' = Base  BY DEF End, Base
<1>2. QED  BY <1>1 DEF End, CInv, Going, Led

LEMMA CInvStays == CInv /\ UNCHANGED vars => CInv'
<1> SUFFICES ASSUME CInv, UNCHANGED vars  PROVE CInv'  OBVIOUS
<1>1. Base' = Base  BY DEF vars, Base
<1>2. QED  BY <1>1 DEF vars, CInv, Going, Led

LEMMA CInvNext == CInv /\ [Next]_vars => CInv'
BY CInvCollect, CInvStep, CInvVisitTop, CInvVisitFunction, CInvEndTop, CInvEnd, CInvStays DEF Next

LEMMA CInvBalances == CInv => StacksBalanced
<1> SUFFICES ASSUME CInv  PROVE StacksBalanced  OBVIOUS
<1>1. gen.thrown # "internal"  BY DEF CInv
<1>2. ASSUME Going, todo = <<>>
      PROVE  Len(gen.types) = gen.kept /\ Len(gen.ctx) = Base
  <2>1. Shape(gen, 0, Base)  BY <1>2, LedNowhere DEF CInv
  <2>2. Holds(gen.types, gen.kept, 0) /\ Nested(gen.ctx, Base)  BY <2>1, Zenon DEF Shape
  <2>3. QED  BY <2>2 DEF Holds, Nested
<1>3. QED  BY <1>1, <1>2 DEF StacksBalanced, Base

\* Whatever the program and the mode, every visit of an expression leaves one type and
\* one context is open per function being visited: popType never finds the type stack
\* empty and ctx() never throws, and between statements the stacks are as they were.
THEOREM AlwaysBalanced == Spec => []StacksBalanced
<1>1. Spec => []CInv  BY CInvInit, CInvNext, PTL DEF Spec
<1>2. QED  BY <1>1, CInvBalances, PTL
=============================================================================
