------------------------------ MODULE Codegen ------------------------------
(***************************************************************************)
(* The code NASMVisitor (Codegen.cpp) emits for a program, visit by visit. *)
(*                                                                         *)
(* Module Frame follows the stack frame of a function through any order of *)
(* visits and stores; here the visits are those of a given program, and    *)
(* what they emit is kept.  Module Execution runs it.                      *)
(*                                                                         *)
(* A step is a part of a visit between two calls of accept.  What is left  *)
(* to do of the visits under way, C++ has on its stack; it is the sequence *)
(* todo, of tasks: the innermost visit's next part comes first.            *)
(***************************************************************************)
EXTENDS Assembly, SyntaxTrees, SequencesExt

CONSTANTS
    Nodes,     \* the syntax trees of the programs and all that they contain
    Programs   \* the programs to compile: sequences of statements

VARIABLES
    program,   \* the statements of the ProgramNode
    library,   \* emitLibraryMode
    gen,       \* the visitor, see below
    todo,      \* what the visits under way have still to do
    stage,     \* which loop of visit(ProgramNode) comes next
    next       \* the statement it has reached

vars == <<program, library, gen, todo, stage, next>>

\* A node whose type the statement that holds it pops again.
IsExpression(e) == e.k \in {"num", "bin", "assign", "var", "addr", "deref", "cast", "call", "index", "str"}

\* Nodes whose visit leaves a type.
Typed(e) == IsExpression(e) \/ e.k = "member"

\* How many nodes a node of each kind contains, and which of them are operands.
Arity(k) ==
    CASE k \in {"num", "var", "str", "struct", "asm"} -> {0}
      [] k \in {"addr", "deref", "cast", "member", "func", "comptime"} -> {1}
      [] k \in {"bin", "index", "assign", "while"} -> {2}
      [] k = "if" -> {2, 3}
      [] k \in {"vardecl", "const", "return"} -> {0, 1}
      [] k \in {"call", "block"} -> Nat
      [] OTHER -> {}
Operands(e) ==
    CASE e.k \in {"if", "while"} -> {1}
      [] e.k = "assign" -> {2}
      [] e.k \in {"addr", "func", "comptime", "block"} -> {}
      [] OTHER -> DOMAIN e.a

\* What the parser makes of a program.
ASSUME NodesAssumption ==
    /\ {e.a : e \in Nodes} \cup Programs \subseteq Seq(Nodes)
    /\ \A e \in Nodes : Len(e.a) \in Arity(e.k) /\ (e.k = "func" => e.a[1].k = "block")

\* What lowerExpr leaves of it.  An asm block in the place of an operand, which the
\* parser accepts, it turns into no node at all; what the visitor makes of a null
\* operand, or of one that --bootstrap-comptime has left as it was, is not modelled.
ASSUME LoweredAssumption ==
    \A e \in Nodes : \A i \in Operands(e) : Typed(e.a[i])

-----------------------------------------------------------------------------
(* The visitor: out is asmCode; types the type stack; ctx the contexts of  *)
(* the functions being visited (cur and max are currentStackOffset and     *)
(* maxStackOffset, at is stackOffsets, ty varTypes, ret returnLabel);      *)
(* labels is labelCounter; structs, funcs and strings are globalStructs,   *)
(* userFunctions and the string table; thrown is what a visit has thrown:  *)
(* "" nothing, "error" an error of the program, "internal" one that calls  *)
(* itself an internal error of the generator.  kept (history) counts the   *)
(* types of statements that nobody drops.                                  *)

NewVisitor ==
    [out |-> <<>>, types |-> <<>>, ctx |-> <<>>, labels |-> 0, structs |-> <<>>,
     funcs |-> <<>>, strings |-> <<>>, thrown |-> "", kept |-> 0]

Emit(g, code) == [g EXCEPT !.out = @ \o code]
Throw(g)      == [g EXCEPT !.thrown = "error"]
ThrowInternal(g) == [g EXCEPT !.thrown = "internal"]

Fresh(g, prefix) == prefix \o "_" \o ToString(g.labels)

\* Mutation of Counted: labelCounter is read and not advanced.
CountedNot(g) == g

Counted(g) == [g EXCEPT !.labels = @ + 1]

Ctx(g)     == g.ctx[Len(g.ctx)]
OnCtx(g, c) == [g EXCEPT !.ctx[Len(g.ctx)] = c]

NewContext(ret) == [cur |-> 0, max |-> 0, at |-> <<>>, ty |-> <<>>, ret |-> ret]
BeginFunction(g, ret) == [g EXCEPT !.ctx = Append(@, NewContext(ret))]

\* Mutation of EndFunction: the context stays.
EndFunctionKept(g) == g

EndFunction(g) == [g EXCEPT !.ctx = Front(@)]

PushType(g, t) == [g EXCEPT !.types = Append(@, t)]
PopType(g)     == IF g.types = <<>> THEN ThrowInternal(g) ELSE [g EXCEPT !.types = Front(@)]
TopType(g)     == IF g.types = <<>> THEN VoidT ELSE Last(g.types)

SizeOf(g, t)  == TypeSize(t, g.structs)
Pointed(t)    == [t EXCEPT !.ptr = @ - 1]
Scale(g, t)   == SizeOf(g, Pointed(t))
ScaleBy(r, n) == IF n > 1 THEN <<ArithI("imul", r, n)>> ELSE <<>>

\* A distance below rbp, past the 32 bytes kept free.
Below(d)      == At("rbp", -(32 + d))

\* emitLoadExtended into rax, and the store of the low part of a register.
LoadRax(m, n, t)  == <<Load("rax", m, StoreWidth(n), t.base \in Unsigned)>>
StoreLow(m, n, r) == <<Store(m, r, StoreWidth(n))>>

\* Where pushTmp will put rax, the visitor after it, and popTmp of that place.
TmpAt(g)   == Ctx(g).cur + 8
PushTmp(g) ==
    LET c == Ctx(g)
    IN  Emit(OnCtx(g, [c EXCEPT !.cur = @ + 8, !.max = Larger(@, c.cur + 8)]),
             <<Store(Below(TmpAt(g)), "rax", 8)>>)
FreeTmp(g) == OnCtx(g, [Ctx(g) EXCEPT !.cur = @ - 8])
PopTmp(g, off, r) == FreeTmp(Emit(g, <<Load(r, Below(off), 8, TRUE)>>))

\* The slot a declaration or a parameter reserves in the innermost frame.
Reserve(g, x, t, size, align) ==
    LET c   == Ctx(g)
        off == AlignUp(c.cur, align) + size
    IN  OnCtx(g, [c EXCEPT !.cur = off, !.max = Larger(@, off),
                           !.at = Bind(@, x, off), !.ty = Bind(@, x, t)])

ReserveValue(g, x, t) == Reserve(g, x, t, SizeOf(g, t), TypeAlign(t, g.structs))

Known(g, x)    == x \in DOMAIN Ctx(g).at
VarAt(g, x, k) == Below(Ctx(g).at[x] - k)
VarType(g, x)  == Ctx(g).ty[x]

\* The members of a struct type, and one of them: operator[] makes up what is missing.
Member(g, t, m) ==
    IF t.base \in DOMAIN g.structs /\ m \in DOMAIN g.structs[t.base].members
    THEN g.structs[t.base].members[m]
    ELSE [offset |-> 0, size |-> 0, type |-> VoidT]

HasStructBase(t)  == t.base \notin Scalars \cup {"void"}
IsStruct(t)       == t.ptr = 0 /\ HasStructBase(t)
IsStructVar(g, e) == e.k = "var" /\ Known(g, e.x) /\ IsStruct(VarType(g, e.x))
IsStructPtr(t)    == t.ptr > 0 /\ HasStructBase(t)

-----------------------------------------------------------------------------
(* Tasks.  A visit is do = "visit" and a node; what comes after the visit  *)
(* of an operand is a phase of the visit of e, with the locals it needs: a *)
(* type t and offsets at.  A part of a visit gives the visitor after it    *)
(* and the tasks that come next.                                           *)

Visiting(e)  == [do |-> "visit", e |-> e]
Drop         == [do |-> "drop"]                     \* popType, the type is not used
Keep         == [do |-> "keep"]                     \* nothing: the type stays (history)
Code(c)      == [do |-> "code", code |-> c]
Typing(t)    == [do |-> "type", t |-> t]            \* pushType
Phase(do, e, t, at) == [do |-> do, e |-> e, t |-> t, at |-> at]
Then(do, e)  == Phase(do, e, VoidT, <<>>)

Do(g, tasks) == [gen |-> g, todo |-> tasks]
Done(g)      == Do(g, <<>>)

-----------------------------------------------------------------------------
(* Visits of expressions.  Each leaves the value in rax and its type on    *)
(* the type stack.                                                         *)

VisitVar(e, g) ==
    LET t == VarType(g, e.x)
    IN  IF ~Known(g, e.x) THEN Done(Throw(g))
        ELSE IF t.arr > 0
        THEN Done(PushType(Emit(g, <<Lea("rax", VarAt(g, e.x, 0))>>), [t EXCEPT !.arr = 0, !.ptr = @ + 1]))
        ELSE Done(PushType(Emit(g, LoadRax(VarAt(g, e.x, 0), SizeOf(g, t), t)), t))

\* operator[] puts an unknown variable at offset 0 and gives it type void.
VisitAddressOf(e, g) ==
    LET x == e.a[1].x
        h == IF Known(g, x) THEN g
             ELSE OnCtx(g, [Ctx(g) EXCEPT !.at = Bind(@, x, 0), !.ty = Bind(@, x, VoidT)])
    IN  IF e.a[1].k # "var" THEN Done(Throw(g))
        ELSE Done(PushType(Emit(h, <<Lea("rax", VarAt(h, x, 0))>>), PointerTo(VarType(h, x))))

VisitDeref(e, g) == Do(g, <<Visiting(e.a[1]), Then("pointed", e)>>)
LoadPointed(p, g) ==
    LET t == IF TopType(g).ptr > 0 THEN Pointed(TopType(g)) ELSE I64
    IN  Done(PushType(Emit(PopType(g), LoadRax(At("rax", 0), SizeOf(g, t), t)), t))

VisitCast(e, g) ==
    LET n     == SizeOf(g, e.t)
        whole == e.t.ptr > 0 \/ IsStruct(e.t) \/ n \notin {1, 2, 4}
    IN  Do(g, <<Visiting(e.a[1]), Drop,
                Code(IF whole THEN <<>> ELSE <<Extending(n, e.t.base \in Unsigned)>>), Typing(e.t)>>)

\* && and ||: the right operand is made 0 or 1, a left one that decides is not.
VisitLogical(e, g) ==
    LET skip == Fresh(g, IF e.x = "&&" THEN "and_skip" ELSE "or_skip")
    IN  Do(Counted(g),
           <<Visiting(e.a[1]), Drop, Code(<<CmpZero, J(IF e.x = "&&" THEN "e" ELSE "ne", skip)>>),
             Visiting(e.a[2]), Drop, Code(<<CmpZero, Set("ne"), Label(skip)>>), Typing(I32)>>)

\* + and -: the integer operand counts in units of what the pointer points to.
Additive(g, op, lt, rt) ==
    LET swapped == lt.ptr = 0 /\ op = "+" /\ rt.ptr > 0
        scaling == IF lt.ptr > 0 THEN ScaleBy("rbx", Scale(g, lt))
                   ELSE IF swapped THEN ScaleBy("rax", Scale(g, rt)) ELSE <<>>
    IN  [code |-> Append(scaling, Arith(IF op = "+" THEN "add" ELSE "sub", "rax", "rbx")),
         type |-> IF swapped THEN rt ELSE lt]

Relation == [e |-> "==", ne |-> "!=", l |-> "<", g |-> ">", le |-> "<=", ge |-> ">="]

\* What follows once the operands are in rax and rbx.
Operation(g, op, lt, rt) ==
    CASE op \in {"+", "-"} -> Additive(g, op, lt, rt)
      [] op = "*" -> [code |-> <<Arith("imul", "rax", "rbx")>>, type |-> lt]
      [] op = "/" -> [code |-> <<Idiv>>, type |-> lt]
      [] OTHER    -> [code |-> <<Cmp, Set(CHOOSE cc \in DOMAIN Relation : Relation[cc] = op)>>, type |-> I32]

VisitBinary(e, g) == Do(g, <<Visiting(e.a[1]), Then("right", e)>>)

\* The left operand waits in a temporary while the right one is computed.
VisitRight(p, g) ==
    LET h == PopType(g)
    IN  Do(PushTmp(h), <<Visiting(p.e.a[2]), Phase("operate", p.e, TopType(g), <<TmpAt(h)>>)>>)

\* Mutation of EmitOperation: the left operand comes back into rbx.
EmitOperationSwapped(p, g) ==
    LET o == Operation(g, p.e.x, p.t, TopType(g))
    IN  Done(PushType(Emit(PopTmp(PopType(g), p.at[1], "rbx"), o.code), o.type))

EmitOperation(p, g) ==
    LET o == Operation(g, p.e.x, p.t, TopType(g))
        h == PopTmp(Emit(PopType(g), <<MovR("rbx", "rax")>>), p.at[1], "rax")
    IN  Done(PushType(Emit(h, o.code), o.type))

\* The base waits in a temporary while the index is computed; then rax is the
\* base and rbx the index, counted in units of what the base points to.
PopBase(p, off, g) == PopTmp(Emit(PopType(g), <<MovR("rbx", "rax")>>), off, "rax")
Element(g, t) == IF t.ptr = 0 THEN <<>> ELSE Append(ScaleBy("rbx", Scale(g, t)), Arith("add", "rax", "rbx"))

VisitIndex(e, g) == Do(g, <<Visiting(e.a[1]), Then("index", e)>>)
VisitSubscript(p, g) ==
    LET h == PopType(g)
    IN  Do(PushTmp(h), <<Visiting(p.e.a[2]), Phase("element", p.e, TopType(g), <<TmpAt(h)>>)>>)
LoadElement(p, g) ==
    LET h == PopBase(p, p.at[1], g)
    IN  IF p.t.ptr = 0 THEN Done(Throw(h))
        ELSE Done(PushType(Emit(h, Element(g, p.t) \o LoadRax(At("rax", 0), Scale(g, p.t), Pointed(p.t))),
                           Pointed(p.t)))

\* A member of a struct variable is loaded at once; else the operand is a pointer.
VisitMember(e, g) ==
    LET x == e.a[1].x
        t == VarType(g, x)
        m == Member(g, t, e.x)
    IN  IF ~IsStructVar(g, e.a[1]) THEN Do(g, <<Visiting(e.a[1]), Then("member", e)>>)
        ELSE IF t.base \notin DOMAIN g.structs THEN Done(Throw(g))
        ELSE Done(PushType(Emit(g, LoadRax(VarAt(g, x, m.offset), m.size, m.type)), m.type))
LoadMember(p, g) ==
    LET t == TopType(g)
        m == Member(g, t, p.e.x)
    IN  IF ~IsStructPtr(t) \/ t.base \notin DOMAIN g.structs THEN Done(Throw(PopType(g)))
        ELSE Done(PushType(Emit(PopType(g), LoadRax(At("rax", m.offset), m.size, m.type)), m.type))

\* Mutation of CallFrame: no home space for the callee.
CallFrameBare(n) == 16 * ((8 * n + 15) \div 16)

CallFrame(n) ==
    LET raw == 32 + 8 * (IF n > 4 THEN n - 4 ELSE 0)
    IN  IF raw % 16 # 0 THEN raw + 8 ELSE raw

PassArgument(i, off) ==
    <<Load("rax", Below(off), 8, TRUE),
      IF i <= 4 THEN MovR(ArgRegs[i], "rax") ELSE Store(At("rsp", 32 + (i - 5) * 8), "rax", 8)>>

\* The call, once every argument is in a temporary: they are freed when all have
\* been moved to where the callee finds them.
EmitCall(e, slots, g) ==
    LET n    == Len(e.a)
        user == e.x \in DOMAIN g.funcs
        code == <<ArithI("sub", "rsp", CallFrame(n))>>
                \o FlattenSeq([i \in 1..n |-> PassArgument(i, slots[i])])
                \o <<Call(IF user THEN "wl_" \o e.x ELSE e.x), ArithI("add", "rsp", CallFrame(n))>>
        h    == IF n = 0 THEN g ELSE OnCtx(g, [Ctx(g) EXCEPT !.cur = @ - 8 * n])
    IN  PushType(Emit(h, code), IF user THEN g.funcs[e.x] ELSE I64)

\* The next argument, in the order they are written, or the call.
NextArgument(e, slots, g) ==
    IF Len(slots) = Len(e.a) THEN Done(EmitCall(e, slots, g))
    ELSE Do(g, <<Visiting(e.a[Len(slots) + 1]), Phase("argument", e, VoidT, slots)>>)
VisitCall(e, g) == NextArgument(e, <<>>, g)
KeepArgument(p, g) ==
    LET h == PopType(g) IN NextArgument(p.e, Append(p.at, TmpAt(h)), PushTmp(h))

\* Every literal gets a label of its own.
VisitString(e, g) ==
    LET l == Fresh(g, "str")
    IN  Done(PushType([Emit(Counted(g), <<LeaLabel("rax", l)>>) EXCEPT
                          !.strings = Append(@, [label |-> l, value |-> BytesOf(e)])], PointerTo(I8)))

-----------------------------------------------------------------------------
(* Assignments: the value is computed first, the target's address after it.*)

VisitAssign(e, g) == Do(g, <<Visiting(e.a[2]), Then("target", e)>>)

AssignToVar(e, g) ==
    LET x == e.a[1].x
        t == VarType(g, x)
    IN  IF ~Known(g, x) \/ t.arr > 0 THEN Done(Throw(g))
        ELSE Done(PushType(Emit(g, StoreLow(VarAt(g, x, 0), SizeOf(g, t), "rax")), t))

\* The value waits in a temporary while the target's operand is computed.
AssignToMember(e, g) ==
    LET s == e.a[1].a[1]
        m == Member(g, VarType(g, s.x), e.a[1].x)
    IN  IF IsStructVar(g, s)
        THEN Done(PushType(Emit(PopTmp(PushTmp(g), TmpAt(g), "rbx"),
                                StoreLow(VarAt(g, s.x, m.offset), m.size, "rbx")), VoidT))
        ELSE Do(PushTmp(g), <<Visiting(s), Phase("member target", e, VoidT, <<TmpAt(g)>>)>>)
StoreMember(p, g) ==
    LET t == TopType(g)
        m == Member(g, t, p.e.a[1].x)
        h == PopTmp(PopType(g), p.at[1], "rbx")
    IN  IF ~IsStructPtr(t) THEN Done(Throw(h))
        ELSE Done(PushType(Emit(h, StoreLow(At("rax", m.offset), m.size, "rbx")), VoidT))

\* The base need not be a pointer; then the index is computed and not used.
AssignToElement(e, g) ==
    Do(PushTmp(g), <<Visiting(e.a[1].a[1]), Phase("base target", e, VoidT, <<TmpAt(g)>>)>>)
VisitTargetIndex(p, g) ==
    LET h == PopType(g)
    IN  Do(PushTmp(h), <<Visiting(p.e.a[1].a[2]),
                         Phase("element target", p.e, TopType(g), Append(p.at, TmpAt(h)))>>)
StoreElement(p, g) ==
    LET h == Emit(PopBase(p, p.at[2], g), Element(g, p.t))
    IN  Done(PushType(Emit(PopTmp(h, p.at[1], "rbx"),
                           StoreLow(At("rax", 0), IF p.t.ptr > 0 THEN Scale(g, p.t) ELSE 8, "rbx")), p.t))

AssignToPointed(e, g) ==
    Do(PushTmp(g), <<Visiting(e.a[1].a[1]), Phase("pointed target", e, VoidT, <<TmpAt(g)>>)>>)
StorePointed(p, g) ==
    LET t == TopType(g)
    IN  Done(PushType(Emit(PopTmp(PopType(g), p.at[1], "rbx"),
                           StoreLow(At("rax", 0), IF t.ptr > 0 THEN Scale(g, t) ELSE 8, "rbx")),
                      IF t.ptr > 0 THEN Pointed(t) ELSE t))

\* The value has been computed.
VisitTarget(p, g) ==
    LET h == PopType(g)
        k == p.e.a[1].k
    IN  CASE k = "var"    -> AssignToVar(p.e, h)
          [] k = "member" -> AssignToMember(p.e, h)
          [] k = "index"  -> AssignToElement(p.e, h)
          [] k = "deref"  -> AssignToPointed(p.e, h)
          [] OTHER        -> Done(Throw(h))

-----------------------------------------------------------------------------
(* Visits of statements.                                                   *)

\* A statement in a list or a branch: the type of an expression is dropped.
VisitDropping(s) ==
    <<Visiting(s)>> \o (IF IsExpression(s) THEN <<Drop>> ELSE IF Typed(s) THEN <<Keep>> ELSE <<>>)

\* The statements of a block from the i-th on.
Rest(e, i) == Phase("rest", e, VoidT, <<i>>)
VisitRest(p, g) ==
    LET i == p.at[1]
    IN  IF i > Len(p.e.a) THEN Done(g) ELSE Do(g, VisitDropping(p.e.a[i]) \o <<Rest(p.e, i + 1)>>)

\* What follows the keyword is visited, and a type it leaves is not dropped.
VisitComptime(e, g) ==
    Do(g, <<Visiting(e.a[1])>> \o (IF Typed(e.a[1]) THEN <<Keep>> ELSE <<>>))

AlignOfStruct(g, t) == IF t.base \in DOMAIN g.structs THEN g.structs[t.base].align ELSE 0

\* A struct, or an array of structs, gets the storage of one struct, zeroed.
DeclareStruct(s, g) ==
    LET size == SizeOf(g, [s.t EXCEPT !.arr = 0])
        c    == Reserve(g, s.x, s.t, size, AlignOfStruct(g, s.t))
    IN  Done(Emit(c, <<MovI("rax", 0)>> \o
                     [i \in 1..(size + 7) \div 8 |-> Store(VarAt(c, s.x, 8 * (i - 1)), "rax", 8)]))

StoreVar(x, t, g) == Emit(g, StoreLow(VarAt(g, x, 0), SizeOf(g, t), "rax"))

\* The initialiser of anything else is evaluated when its slot is already reserved.
VisitVarDecl(s, g) ==
    LET c    == ReserveValue(g, s.x, s.t)
        zero == Emit(c, <<MovI("rax", 0)>>)
    IN  IF IsStruct(s.t) THEN DeclareStruct(s, g)
        ELSE IF s.a # <<>> THEN Do(c, <<Visiting(s.a[1]), Then("initial", s)>>)
        ELSE IF s.t.arr = 0 THEN Done(StoreVar(s.x, s.t, zero))
        ELSE Done(Emit(zero, [i \in 1..SizeOf(g, s.t) |-> StoreI(VarAt(c, s.x, i - 1), 0)]))
StoreInitial(p, g) ==
    Done(IF p.e.t.arr = 0 THEN StoreVar(p.e.x, p.e.t, PopType(g)) ELSE PopType(g))

VisitConst(s, g) ==
    LET c == ReserveValue(g, s.x, s.t)
    IN  IF s.a = <<>> THEN Done(c) ELSE Do(c, <<Visiting(s.a[1]), Then("constant", s)>>)
StoreConst(p, g) == Done(StoreVar(p.e.x, p.e.t, PopType(g)))

VisitIf(s, g) ==
    LET elseL == Fresh(g, "else")
        endL  == Fresh(Counted(g), "endif")
    IN  Do(Counted(Counted(g)),
           <<Visiting(s.a[1]), Drop, Code(<<CmpZero, J("e", elseL)>>)>>
           \o VisitDropping(s.a[2]) \o <<Code(<<Jmp(endL), Label(elseL)>>)>>
           \o (IF Len(s.a) = 3 THEN VisitDropping(s.a[3]) ELSE <<>>) \o <<Code(<<Label(endL)>>)>>)

\* Mutation of VisitWhile: the type of a body that is an expression stays.
VisitWhileKeeping(s, g) ==
    LET start == Fresh(g, "while_start")
        endL  == Fresh(Counted(g), "while_end")
    IN  Do(Emit(Counted(Counted(g)), <<Label(start)>>),
           <<Visiting(s.a[1]), Drop, Code(<<CmpZero, J("e", endL)>>), Visiting(s.a[2]),
             Code(<<Jmp(start), Label(endL)>>)>>)

VisitWhile(s, g) ==
    LET start == Fresh(g, "while_start")
        endL  == Fresh(Counted(g), "while_end")
    IN  Do(Emit(Counted(Counted(g)), <<Label(start)>>),
           <<Visiting(s.a[1]), Drop, Code(<<CmpZero, J("e", endL)>>)>>
           \o VisitDropping(s.a[2]) \o <<Code(<<Jmp(start), Label(endL)>>)>>)

VisitReturn(s, g) ==
    IF s.a = <<>> THEN Done(Emit(g, <<MovI("rax", 0), Jmp(Ctx(g).ret)>>))
    ELSE Do(g, <<Visiting(s.a[1]), Then("return", s)>>)
JumpToReturn(p, g) == Done(Emit(PopType(g), <<Jmp(Ctx(g).ret)>>))

VisitStruct(s, g) ==
    LET members == [m \in {s.p[i].name : i \in DOMAIN s.p} |->
                      LET d == s.p[CHOOSE i \in DOMAIN s.p : s.p[i].name = m]
                      IN  [offset |-> d.offset, size |-> SizeOf(g, d.type), type |-> d.type]]
        align   == Max({1} \cup {TypeAlign(members[m].type, g.structs) : m \in DOMAIN members})
        size    == Max({0} \cup {members[m].offset + members[m].size : m \in DOMAIN members})
    IN  Done([g EXCEPT !.structs = Bind(@, s.x, [size |-> AlignUp(size, align), align |-> align, members |-> members])])

\* Mutation of Framed: return jumps behind the release of the frame.
FramedLate(c, stores, body) ==
    LET locals == 32 + Align16(c.max)
    IN  <<Push("rbp"), MovR("rbp", "rsp"), ArithI("sub", "rsp", locals)>> \o stores \o <<MovI("rax", 0)>>
        \o body \o <<ArithI("add", "rsp", locals), Label(c.ret), Pop("rbp"), Ret>>

\* The frame, opened when its size is known, around the code of a body.
Framed(c, stores, body) ==
    LET locals == 32 + Align16(c.max)
    IN  <<Push("rbp"), MovR("rbp", "rsp"), ArithI("sub", "rsp", locals)>> \o stores \o <<MovI("rax", 0)>>
        \o body \o <<Label(c.ret), ArithI("add", "rsp", locals), Pop("rbp"), Ret>>

\* The i-th parameter, from its register or the caller's frame to its slot.
StoreParam(g, i, p) ==
    LET to == VarAt(g, p.name, 0)
    IN  IF i <= 4 THEN StoreLow(to, SizeOf(g, p.type), ArgRegs[i])
        ELSE <<Load("rax", At("rbp", 16 + 8 * (i - 1)), 8, TRUE)>> \o StoreLow(to, SizeOf(g, p.type), "rax")

\* A function's code goes where the visitor is: for a function defined inside
\* another one, into the middle of that one's body.  Meanwhile the code around it,
\* outer, is put aside.
Parameter(s, i)    == Phase("parameter", s, VoidT, <<i>>)
Ending(s, outer)   == [do |-> "end", e |-> s, code |-> outer]
VisitFunc(s, g) ==
    LET begun == BeginFunction(Counted([g EXCEPT !.out = <<>>]), Fresh(g, "wl_" \o s.x \o "_ret"))
    IN  Do(begun, <<Parameter(s, 1), Visiting(s.a[1]), Ending(s, g.out)>>)
ReserveParameter(p, g) ==
    LET i == p.at[1]
    IN  IF i > Len(p.e.p) THEN Done(g)
        ELSE Do(ReserveValue(g, p.e.p[i].name, p.e.p[i].type), <<Parameter(p.e, i + 1)>>)
EndFunc(p, g) ==
    LET stores == FlattenSeq([i \in DOMAIN p.e.p |-> StoreParam(g, i, p.e.p[i])])
    IN  Done(EndFunction([g EXCEPT !.out = p.code \o <<Label("wl_" \o p.e.x)>> \o Framed(Ctx(g), stores, @)]))

Visit(e, g) ==
    CASE e.k = "num"     -> Done(PushType(Emit(g, <<MovI("rax", e.n)>>), I64))
      [] e.k = "var"     -> VisitVar(e, g)
      [] e.k = "addr"    -> VisitAddressOf(e, g)
      [] e.k = "deref"   -> VisitDeref(e, g)
      [] e.k = "cast"    -> VisitCast(e, g)
      [] e.k = "bin"     -> IF e.x \in {"&&", "||"} THEN VisitLogical(e, g) ELSE VisitBinary(e, g)
      [] e.k = "assign"  -> VisitAssign(e, g)
      [] e.k = "index"   -> VisitIndex(e, g)
      [] e.k = "member"  -> VisitMember(e, g)
      [] e.k = "call"    -> VisitCall(e, g)
      [] e.k = "str"     -> VisitString(e, g)
      [] e.k = "vardecl" -> VisitVarDecl(e, g)
      [] e.k = "const"   -> VisitConst(e, g)
      [] e.k = "block"   -> Do(g, <<Rest(e, 1)>>)
      [] e.k = "if"      -> VisitIf(e, g)
      [] e.k = "while"   -> VisitWhile(e, g)
      [] e.k = "return"  -> VisitReturn(e, g)
      [] e.k = "struct"  -> VisitStruct(e, g)
      [] e.k = "func"    -> VisitFunc(e, g)
      [] e.k = "asm"     -> Done(Emit(g, e.p))
      [] e.k = "comptime" -> VisitComptime(e, g)

Continue(p, g) ==
    CASE p.do = "pointed"   -> LoadPointed(p, g)
      [] p.do = "right"     -> VisitRight(p, g)
      [] p.do = "operate"   -> EmitOperation(p, g)
      [] p.do = "index"     -> VisitSubscript(p, g)
      [] p.do = "element"   -> LoadElement(p, g)
      [] p.do = "member"    -> LoadMember(p, g)
      [] p.do = "argument"  -> KeepArgument(p, g)
      [] p.do = "target"    -> VisitTarget(p, g)
      [] p.do = "member target"  -> StoreMember(p, g)
      [] p.do = "base target"    -> VisitTargetIndex(p, g)
      [] p.do = "element target" -> StoreElement(p, g)
      [] p.do = "pointed target" -> StorePointed(p, g)
      [] p.do = "initial"   -> StoreInitial(p, g)
      [] p.do = "constant"  -> StoreConst(p, g)
      [] p.do = "return"    -> JumpToReturn(p, g)
      [] p.do = "rest"      -> VisitRest(p, g)
      [] p.do = "parameter" -> ReserveParameter(p, g)
      [] p.do = "end"       -> EndFunc(p, g)

\* Tasks that call ctx(), which throws if no function is being visited.
UsesContext(t) ==
    IF t.do = "visit" THEN t.e.k \in {"var", "addr", "vardecl", "const", "member", "return"}
    ELSE t.do \notin {"drop", "keep", "code", "type", "pointed", "member", "rest"}

Part(t, g) ==
    IF UsesContext(t) /\ g.ctx = <<>> THEN Done(ThrowInternal(g))
    ELSE CASE t.do = "visit" -> Visit(t.e, g)
           [] t.do = "drop"  -> Done(PopType(g))
           [] t.do = "keep"  -> Done([g EXCEPT !.kept = @ + 1])
           [] t.do = "code"  -> Done(Emit(g, t.code))
           [] t.do = "type"  -> Done(PushType(g, t.t))
           [] OTHER          -> Continue(t, g)

-----------------------------------------------------------------------------
(* visit(ProgramNode).  A turn of its loops starts the visit of a          *)
(* statement; the next turn comes when that has been done.                 *)

Statement == program[next]
More      == next <= Len(program)
Going     == gen.thrown = ""

\* The functions defined at top level are known before anything is visited;
\* outside library mode wl__toplevel is begun.
Collect ==
    /\ stage = "collect"
    /\ LET defs == {i \in DOMAIN program : program[i].k = "func"}
           funcs == [f \in {program[i].x : i \in defs} |->
                        program[Max({i \in defs : program[i].x = f})].t]
           g == [gen EXCEPT !.funcs = funcs]
       IN  gen' = IF library THEN g ELSE BeginFunction(g, "wl__toplevel_ret")
    /\ stage' = IF library THEN "library" ELSE "toplevel"
    /\ UNCHANGED <<program, library, todo, next>>

\* A part of a visit.
Step ==
    /\ Going /\ todo # <<>>
    /\ LET d == Part(Head(todo), gen) IN gen' = d.gen /\ todo' = d.todo \o Tail(todo)
    /\ UNCHANGED <<program, library, stage, next>>

Turn(tasks) ==
    /\ Going /\ todo = <<>> /\ More
    /\ todo' = tasks /\ next' = next + 1
    /\ UNCHANGED <<program, library, gen, stage>>

\* A top-level statement that is no function becomes code of wl__toplevel.
VisitTop ==
    stage = "toplevel" /\ Turn(IF Statement.k = "func" THEN <<>> ELSE VisitDropping(Statement))

\* main, which calls wl__toplevel and the program's main, and ends the process.
Entry(g) ==
    <<Label("main"), ArithI("sub", "rsp", 40), Call("wl__toplevel")>>
    \o (IF "main" \in DOMAIN g.funcs THEN <<Call("wl_main")>> ELSE <<>>)
    \o <<MovR("rcx", "rax"), Call("ExitProcess"), ArithI("add", "rsp", 40), Ret>>

EndTop ==
    /\ Going /\ todo = <<>> /\ stage = "toplevel" /\ ~More
    /\ gen' = EndFunction([gen EXCEPT !.out = Entry(gen) \o <<Label("wl__toplevel")>>
                                              \o Framed(Ctx(gen), <<>>, @)])
    /\ stage' = "functions" /\ next' = 1
    /\ UNCHANGED <<program, library, todo>>

VisitFunction ==
    stage = "functions" /\ Turn(IF Statement.k = "func" THEN <<Visiting(Statement)>> ELSE <<>>)

\* In library mode only declarations and functions are visited.
VisitLibrary ==
    stage = "library" /\ Turn(IF Statement.k \in {"func", "struct"} THEN <<Visiting(Statement)>> ELSE <<>>)

End ==
    /\ Going /\ todo = <<>> /\ stage \in {"functions", "library"} /\ ~More
    /\ stage' = "done"
    /\ UNCHANGED <<program, library, gen, todo, next>>

Init ==
    /\ program \in Programs
    /\ library \in BOOLEAN
    /\ gen = NewVisitor
    /\ todo = <<>>
    /\ stage = "collect" /\ next = 1

Next == Collect \/ Step \/ VisitTop \/ EndTop \/ VisitFunction \/ VisitLibrary \/ End

Spec == Init /\ [][Next]_vars

-----------------------------------------------------------------------------
\* Every visit of an expression leaves one type, on every path, and whoever visits
\* it takes it off: no popType finds the type stack empty and no part of a visit is
\* without a context, the two cases the generator calls internal errors; and between
\* statements the type stack holds what member accesses used as statements have
\* left, and the only context is that of wl__toplevel, while its statements are
\* visited.
StacksBalanced ==
    /\ gen.thrown # "internal"
    /\ Going /\ todo = <<>> =>
         /\ Len(gen.types) = gen.kept
         /\ Len(gen.ctx) = IF stage = "toplevel" THEN 1 ELSE 0
=============================================================================
