--------------------------- MODULE ProgramMeaning ---------------------------
(***************************************************************************)
(* What a program means: the external calls it makes and how it ends, by   *)
(* an evaluator over source-level objects that knows neither registers nor *)
(* frames.                                                                 *)
(*                                                                         *)
(* A variable is an object, a sequence of bytes; a pointer is an object    *)
(* and an offset in one number, and reading or writing outside an object,  *)
(* reading a byte nobody wrote, and every other step whose outcome no two  *)
(* implementations need agree on, makes the program "undefined".           *)
(*                                                                         *)
(* "quirks" collects the features the program has used for which the code  *)
(* generator is known to do something else than this module says:          *)
(*   "or"       the left operand of || decides and is not 1                *)
(*   "assigned" the value of an assignment to something else than a        *)
(*              variable, or to a variable the value does not fit in       *)
(*   "wide"     a function returns a value its result type cannot hold     *)
(*   "scope"    a block declares a name that is already in use             *)
(*   "nested"   a function is defined inside another one                   *)
(*   "array"    an array has pointers or structs for elements              *)
(*   "tail"     a struct variable whose size is no multiple of 8           *)
(***************************************************************************)
EXTENDS Machine, SyntaxTrees, SequencesExt

CONSTANTS
    Externals, \* Externals[f]: how many arguments an external function takes
    MaxTurns,  \* bound: turns of a loop in the reference execution
    MaxCalls   \* bound: calls of the program's functions open at once

ASSUME MeaningAssumption == MaxTurns \in Nat /\ MaxCalls \in Nat

-----------------------------------------------------------------------------
(* Objects.  Pointer o * Span + k is byte k of object o; 0 is null.        *)

Span == 256
Unwritten == -1
NoValue   == -1  \* the result of a call that returned none

\* A state: objects, variables, struct layouts, functions, calls made, quirks,
\* whether it still runs, the value returned, that of the last statement, and
\* how many calls are open.
Begin(funcs) ==
    [objs |-> <<>>, env |-> <<>>, structs |-> <<>>, funcs |-> funcs, log |-> <<>>, quirks |-> {},
     status |-> "up", ret |-> NoValue, last |-> NoValue, depth |-> 0]

Stop(st, why)  == [st EXCEPT !.status = why]
Quirk(st, q)   == [st EXCEPT !.quirks = @ \cup {q}]
Result(v, t, st) == [v |-> v, t |-> t, st |-> st]
Undefined(st)  == Result(0, I64, Stop(st, "undefined"))
Up(r)          == r.st.status = "up"

Bytes(w, n)    == [i \in 1..n |-> Byte(w, i - 1)]
WordOf(bytes)  == FoldLeft(LAMBDA w, b : w * Radix + b, 0, Reverse(bytes))
Convert(v, t)  == IF t.ptr = 0 /\ t.base \in Scalars /\ ScalarBytes[t.base] < 8
                  THEN Extend(v, ScalarBytes[t.base], t.base \in Unsigned) ELSE v

SizeIn(st, t)  == TypeSize(t, st.structs)

\* x becomes the name of a new object with these bytes.
NewObject(st, x, t, bytes) ==
    [st EXCEPT !.objs = Append(@, bytes), !.env = Bind(@, x, [obj |-> Len(st.objs) + 1, type |-> t])]

InObject(st, a, n) ==
    LET o == a \div Span
    IN  o \in DOMAIN st.objs /\ (a % Span) + n <= Len(st.objs[o])
Contents(st, a, n) == SubSeq(st.objs[a \div Span], (a % Span) + 1, (a % Span) + n)

\* The object of type t at address a: an array stands for its first element.
ReadAs(st, a, t) ==
    LET n == SizeIn(st, t)
    IN  IF t.arr > 0 THEN Result(a, PointerTo([t EXCEPT !.arr = 0]), st)
        ELSE IF IsStructValue(t) \/ ~InObject(st, a, n) THEN Undefined(st)
        ELSE IF Unwritten \in ToSet(Contents(st, a, n)) THEN Undefined(st)
        ELSE Result(Convert(WordOf(Contents(st, a, n)), t), t, st)

WriteAs(st, a, t, v) ==
    LET n == SizeIn(st, t)
        k == a % Span
    IN  IF t.arr > 0 \/ IsStructValue(t) \/ ~InObject(st, a, n) THEN Stop(st, "undefined")
        ELSE [st EXCEPT !.objs[a \div Span] =
                 SubSeq(@, 1, k) \o Bytes(v, n) \o SubSeq(@, k + n + 1, Len(@))]

\* Whether a value may be kept as one of type t: pointers and numbers are not
\* exchanged, except for the null pointer.
Fits(r, t) == (r.t.ptr > 0) = (t.ptr > 0) \/ (t.ptr > 0 /\ r.v = 0)

-----------------------------------------------------------------------------
(* Operators.                                                              *)

Relations == [e |-> "==", ne |-> "!=", l |-> "<", g |-> ">", le |-> "<=", ge |-> ">="]

\* Pointers are added to and subtracted from in elements, and compared within
\* an object or with null; nothing else is done to them.
PointerOp(op, l, r, st) ==
    LET step(p) == LET n == SizeIn(st, [p EXCEPT !.ptr = @ - 1]) IN IF n = 0 THEN 1 ELSE n
    IN  CASE op \in {"+", "-"} /\ r.t.ptr = 0 ->
               Result(Word(IF op = "+" THEN l.v + step(l.t) * Signed(r.v) ELSE l.v - step(l.t) * Signed(r.v)), l.t, st)
          [] op = "+" /\ l.t.ptr = 0 -> Result(Word(r.v + step(r.t) * Signed(l.v)), r.t, st)
          [] op \notin {"+", "-", "*", "/"} /\ (l.v = 0 \/ r.v = 0 \/ l.v \div Span = r.v \div Span) ->
               Result(Truth(Holds(CHOOSE cc \in DOMAIN Relations : Relations[cc] = op, l.v, r.v)), I32, st)
          [] OTHER -> Undefined(st)

NumberOp(op, l, r, st) ==
    LET x == Signed(l.v)
        y == Signed(r.v)
    IN  CASE op = "+" -> Result(Word(x + y), l.t, st)
          [] op = "-" -> Result(Word(x - y), l.t, st)
          [] op = "*" -> Result(Word(x * y), l.t, st)
          [] op = "/" -> IF Unquotable(x, y) THEN Result(0, l.t, Stop(st, "fault"))
                         ELSE Result(Word(Quotient(x, y)), l.t, st)
          [] OTHER    -> Result(Truth(Holds(CHOOSE cc \in DOMAIN Relations : Relations[cc] = op, x, y)), I32, st)

-----------------------------------------------------------------------------
(* Evaluation.  r.v is the value, r.t its type, r.st the state after it.   *)

RECURSIVE Eval(_, _), Place(_, _), Exec(_, _)

\* The value of an operand, which there must be.
Needed(r)   == IF Up(r) /\ r.v = NoValue THEN Undefined(r.st) ELSE r
Used(e, st) == Needed(Eval(e, st))

\* What the pointer p points to; its element at index i; a member of the struct s,
\* a variable (level 0) or a pointer to one (level 1).
Pointee(p) ==
    IF ~Up(p) THEN p
    ELSE IF p.t.ptr = 0 THEN Undefined(p.st) ELSE Result(p.v, [p.t EXCEPT !.ptr = @ - 1], p.st)
Offset(p, i) == IF Up(i) THEN PointerOp("+", p, i, i.st) ELSE i
Indexed(p, index) ==
    IF ~Up(p) THEN p
    ELSE IF p.t.ptr = 0 THEN Undefined(p.st) ELSE Offset(p, Used(index, p.st))
MemberOf(s, level, m) ==
    LET ms == IF s.t.base \in DOMAIN s.st.structs THEN s.st.structs[s.t.base].members ELSE <<>>
    IN  IF ~Up(s) THEN s
        ELSE IF s.t.ptr # level \/ m \notin DOMAIN ms THEN Undefined(s.st)
        ELSE Result(s.v + ms[m].offset, ms[m].type, s.st)
IsStructName(e, st) == e.k = "var" /\ e.x \in DOMAIN st.env /\ IsStructValue(st.env[e.x].type)

\* The address and the type of the object an expression denotes.
Place(e, st) ==
    CASE e.k = "var" /\ e.x \in DOMAIN st.env -> Result(st.env[e.x].obj * Span, st.env[e.x].type, st)
      [] e.k = "deref"  -> Pointee(Used(e.a[1], st))
      [] e.k = "index"  -> Pointee(Indexed(Used(e.a[1], st), e.a[2]))
      [] e.k = "member" -> IF IsStructName(e.a[1], st) THEN MemberOf(Place(e.a[1], st), 0, e.x)
                           ELSE MemberOf(Used(e.a[1], st), 1, e.x)
      [] OTHER -> Undefined(st)

\* An assignment: value first, then the target; its own value is the one stored.
StoreAt(p, v) ==
    IF ~Up(p) THEN p
    ELSE IF ~Fits(v, p.t) THEN Undefined(p.st)
    ELSE Result(Convert(v.v, p.t), p.t, WriteAs(p.st, p.v, p.t, v.v))
AssignTo(e, v)   == IF Up(v) THEN StoreAt(Place(e, v.st), v) ELSE v
Assigning(e, st) == AssignTo(e.a[1], Used(e.a[2], st))

\* An assignment used as a value: v is the value assigned, r the result.
AsOperand(e, v, r) ==
    IF Up(r) /\ (e.a[1].k # "var" \/ r.v # v.v) THEN [r EXCEPT !.st = Quirk(@, "assigned")] ELSE r

\* The arguments' values in order: [rs, st].
ArgValues(es, st) ==
    FoldLeft(LAMBDA acc, e : IF acc.st.status # "up" THEN acc
                             ELSE LET r == Used(e, acc.st) IN [rs |-> Append(acc.rs, r), st |-> r.st],
             [rs |-> <<>>, st |-> st], es)

\* The state a function's body starts in, and what a call from state st gives
\* when the body has ended in state after.
Bound(f, rs, st) ==
    FoldLeft(LAMBDA s, i : NewObject(s, f.p[i].name, f.p[i].type, Bytes(rs[i].v, SizeIn(st, f.p[i].type))),
             [st EXCEPT !.env = <<>>, !.ret = NoValue, !.last = NoValue, !.depth = @ + 1],
             [i \in DOMAIN rs |-> i])
Leave(f, st, after) ==
    LET v    == IF after.status = "returned" THEN after.ret ELSE after.last
        back == [after EXCEPT !.env = st.env, !.ret = st.ret, !.last = st.last, !.depth = st.depth,
                              !.status = IF @ = "returned" THEN "up" ELSE @]
    IN  Result(v, f.t, IF v # NoValue /\ Convert(v, f.t) # v THEN Quirk(back, "wide") ELSE back)

\* A function of the program called with values rs.
Enter(f, rs, st) ==
    IF Len(f.p) # Len(rs) \/ \E i \in DOMAIN rs : ~Fits(rs[i], f.p[i].type) THEN Undefined(st)
    ELSE IF st.depth = MaxCalls THEN Result(0, I64, Stop(st, "stopped"))
    ELSE Leave(f, st, Exec(f.a[1], Bound(f, rs, st)))

CallWith(f, args) ==
    LET rs == args.rs
    IN  IF args.st.status # "up" THEN Result(0, I64, args.st)
        ELSE IF f \in DOMAIN args.st.funcs THEN Enter(args.st.funcs[f], rs, args.st)
        ELSE IF f \notin DOMAIN Externals \/ \E i \in DOMAIN rs : rs[i].t.ptr > 0 THEN Undefined(args.st)
        ELSE IF Externals[f] # Len(rs) THEN Undefined(args.st)
        ELSE Result(Word(rs[1].v + 1), I64,
                    [args.st EXCEPT !.log = Append(@, <<f, [i \in DOMAIN rs |-> Signed(rs[i].v)]>>)])

\* What is done with a place and with the values of operands.
Loaded(p)      == IF Up(p) THEN ReadAs(p.st, p.v, p.t) ELSE p
AddressAs(p)   == IF Up(p) THEN Result(p.v, PointerTo(p.t), p.st) ELSE p
Converted(r, t) ==
    IF ~Up(r) THEN r ELSE IF Fits(r, t) THEN Result(Convert(r.v, t), t, r.st) ELSE Undefined(r.st)
Truthy(r)      == IF Up(r) THEN Result(Truth(r.v # 0), I32, r.st) ELSE r
Operate(op, l, r) ==
    IF ~Up(r) THEN r
    ELSE IF l.t.ptr > 0 \/ r.t.ptr > 0 THEN PointerOp(op, l, r, r.st) ELSE NumberOp(op, l, r, r.st)

\* The right operand of a binary operator comes after the left one, l; that of &&
\* and || only if it can matter.
Binary(e, l) == IF Up(l) THEN Operate(e.x, l, Used(e.a[2], l.st)) ELSE l
Logical(e, l) ==
    IF ~Up(l) THEN l
    ELSE IF (l.v = 0) = (e.x = "&&")
    THEN Result(Truth(l.v # 0), I32, IF l.v \in {0, 1} THEN l.st ELSE Quirk(l.st, "or"))
    ELSE Truthy(Used(e.a[2], l.st))

\* The value of a node of a program.
Eval(e, st) ==
    CASE e.k = "num"    -> Result(Word(e.n), I64, st)
      [] e.k \in {"var", "deref", "index", "member"} -> Loaded(Place(e, st))
      [] e.k = "addr"   -> AddressAs(Place(e.a[1], st))
      [] e.k = "cast"   -> Converted(Used(e.a[1], st), e.t)
      [] e.k = "bin"    -> IF e.x \in {"&&", "||"} THEN Logical(e, Used(e.a[1], st))
                           ELSE Binary(e, Used(e.a[1], st))
      [] e.k = "assign" -> AsOperand(e, Used(e.a[2], st), Assigning(e, st))
      [] e.k = "call"   -> CallWith(e.x, ArgValues(e.a, st))
      [] e.k = "str"    ->
           LET s == [st EXCEPT !.objs = Append(@, Append(BytesOf(e), 0))]
           IN  Result(Len(s.objs) * Span, PointerTo(I8), s)

\* The statements of a list, as long as the program runs.
ExecAll(ss, st) == FoldLeft(LAMBDA s, x : IF s.status = "up" THEN Exec(x, s) ELSE s, st, ss)

\* Names declared in a block end with it.
ExecBlock(ss, st) == [ExecAll(ss, st) EXCEPT !.env = st.env]

\* A loop: its next turn, given the condition's result, and what follows it.
RECURSIVE Loop(_, _, _)
Again(s, st, turns) == IF st.status = "up" THEN Loop(s, st, turns) ELSE st
LoopTurn(s, c, turns) ==
    IF ~Up(c) \/ c.v = 0 THEN c.st ELSE Again(s, Exec(s.a[2], c.st), turns - 1)
Loop(s, st, turns) ==
    IF turns = 0 THEN Stop(st, "stopped") ELSE LoopTurn(s, Used(s.a[1], st), turns)

Initialised(s, r) ==
    IF ~Up(r) THEN r.st
    ELSE IF Fits(r, s.t) THEN WriteAs(r.st, r.st.env[s.x].obj * Span, s.t, r.v)
    ELSE Stop(r.st, "undefined")

\* A declaration: the name is known, and its object empty, when the initialiser
\* is evaluated.  A scalar without one, an array and a struct are zero.
Declare(s, st) ==
    LET elem == [s.t EXCEPT !.arr = 0]
        n    == SizeIn(st, elem) * Larger(1, s.t.arr)
        odd  == (IF s.x \in DOMAIN st.env THEN {"scope"} ELSE {})
                \cup (IF s.t.arr > 0 /\ (s.t.ptr > 0 \/ IsStructValue(elem)) THEN {"array"} ELSE {})
                \cup (IF IsStructValue(elem) /\ SizeIn(st, elem) % 8 # 0 THEN {"tail"} ELSE {})
        new  == NewObject([st EXCEPT !.quirks = @ \cup odd], s.x, s.t,
                          [i \in 1..n |-> IF s.a = <<>> THEN 0 ELSE Unwritten])
    IN  IF s.a = <<>> THEN new ELSE Initialised(s, Used(s.a[1], new))

Layout(s, st) ==
    LET members == [m \in {s.p[i].name : i \in DOMAIN s.p} |->
                      LET d == s.p[CHOOSE i \in DOMAIN s.p : s.p[i].name = m]
                      IN  [offset |-> d.offset, size |-> SizeIn(st, d.type), type |-> d.type]]
        align == Max({1} \cup {TypeAlign(members[m].type, st.structs) : m \in DOMAIN members})
        used  == Max({0} \cup {members[m].offset + members[m].size : m \in DOMAIN members})
    IN  [size |-> align * ((used + align - 1) \div align), align |-> align, members |-> members]

\* An if statement whose condition has the result c; a return of it.
Branch(s, c) ==
    IF ~Up(c) THEN c.st
    ELSE [ExecBlock(IF c.v # 0 THEN <<s.a[2]>> ELSE SubSeq(s.a, 3, Len(s.a)), c.st) EXCEPT !.last = NoValue]
Returning(c) == IF Up(c) THEN [Stop(c.st, "returned") EXCEPT !.ret = c.v] ELSE c.st

Exec(s, st) ==
    LET quiet == [st EXCEPT !.last = NoValue]
    IN  CASE s.k \in {"vardecl", "const"} -> Declare(s, quiet)
          [] s.k = "block"  -> ExecBlock(s.a, quiet)
          [] s.k = "if"     -> Branch(s, Used(s.a[1], quiet))
          [] s.k = "while"  -> [Loop(s, quiet, MaxTurns) EXCEPT !.last = NoValue]
          [] s.k = "return" ->
               IF s.a = <<>> THEN Stop(quiet, "returned") ELSE Returning(Used(s.a[1], quiet))
          [] s.k = "struct" -> [quiet EXCEPT !.structs = Bind(@, s.x, Layout(s, st))]
          [] s.k = "func"   -> Quirk(quiet, "nested")
          [] s.k = "asm"    -> quiet
          [] s.k = "comptime" -> Exec(s.a[1], quiet)
          [] s.k = "assign" -> [Assigning(s, quiet).st EXCEPT !.last = NoValue]
          [] OTHER          -> LET r == Eval(s, quiet) IN [r.st EXCEPT !.last = r.v]

\* The program: its top-level statements, then main if it has one; exit is the
\* exit code, or NoValue where the program does not say.
Outcome(st, exit) ==
    [log |-> st.log, status |-> st.status, quirks |-> st.quirks,
     exit |-> IF st.status = "up" THEN exit ELSE NoValue]
OutcomeOf(r) == Outcome(r.st, r.v)

AfterTop(funcs, top) ==
    LET ended == IF top.status = "returned" THEN Stop(top, "up") ELSE top
    IN  IF "main" \notin DOMAIN funcs
        THEN Outcome(ended, IF top.status = "returned" THEN top.ret ELSE top.last)
        ELSE IF ended.status = "up" THEN OutcomeOf(Enter(funcs["main"], <<>>, ended))
        ELSE Outcome(ended, NoValue)

Meaning(ss) ==
    LET isFunc(s) == s.k = "func"
        defs  == SelectSeq(ss, isFunc)
        funcs == [f \in {defs[i].x : i \in DOMAIN defs} |-> defs[Max({i \in DOMAIN defs : defs[i].x = f})]]
    IN  AfterTop(funcs, ExecAll(SelectSeq(ss, LAMBDA s : ~isFunc(s)), Begin(funcs)))
=============================================================================
