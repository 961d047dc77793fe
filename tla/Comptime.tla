------------------------------ MODULE Comptime ------------------------------
(***************************************************************************)
(* Compile-time evaluation (ConstantEvaluator.cpp): the pass that walks    *)
(* over the program once, keeps the values of compile-time names in an     *)
(* environment, replaces what it can compute by literals, and removes the  *)
(* constructs that exist at compile time only.                             *)
(*                                                                         *)
(* The calls of lowerStatements under way, which C++ has on its stack, are *)
(* a sequence, the innermost last: each has the statements it has not come *)
(* to, what is left of those before, and what its caller does next. A step *)
(* lowers a statement, as far as that calls lowerStatements in its turn,   *)
(* or is the return of a call. An optional value is a set with at most one *)
(* element. A diagnostic is abstracted to whether there is one: any of     *)
(* them ends the compilation. Left out are the expressions and statements  *)
(* that are copied in the same way as others here, declarations without an *)
(* initialiser (copied, or dropped where they are marked comptime, without *)
(* a binding either way), and literals that are no 64-bit integers.        *)
(***************************************************************************)
EXTENDS WeedLang

CONSTANTS
    Statements,  \* top-level statements
    MaxLen,      \* bound: statements in the program
    Limit        \* turns after which lowerStatement leaves a comptime while, 1024 in the code

ASSUME StatementsAssumption == Statements \subseteq MarkedPrograms /\ Limit \in Nat

VARIABLES
    program,  \* what has been lowered so far, or is being lowered
    env,      \* MetaEnv
    calls,    \* of lowerStatements, under way
    notes     \* "diagnostic": diagnostics is not empty; and, for the properties only:
              \* "cut": a loop reached Limit; "skipped": a declaration that leaves
              \* nothing had no value to bind

vars == <<program, env, calls, notes>>

EmptyEnv == [x \in {} |-> 0]

\* evalExpr, given the values of the operands. A cast changes no number, and both
\* operands must have a value.
EvalNode(f, values, en) ==
    CASE f.k = "lit" -> {f.v}
      [] f.k = "ref" -> IF f.x \in DOMAIN en THEN {en[f.x]} ELSE {}
      [] f.k = "cast" -> {v \in values[1] : v.kind = "int"}
      [] f.k = "comptime" -> values[1]
      [] f.k = "bin" -> UNION {Apply(f.x, l, r) : l \in values[1], r \in values[2]}
      [] OTHER -> {}
Eval(e, en) ==
    LET eval[f \in MarkedExpressions] ==
          EvalNode(f, [i \in DOMAIN f.a |-> eval[f.a[i]]], en)
    IN  eval[e]

\* evalExpr reports divisions by zero and what cannot be done with texts, wherever
\* the operands have values.
Complains(e, en) ==
    LET complains[f \in MarkedExpressions] ==
          /\ f.k \in {"bin", "cast", "comptime"}
          /\ \/ \E i \in DOMAIN f.a : complains[f.a[i]]
             \/ Eval(f, en) = {} /\ \A i \in DOMAIN f.a : Eval(f.a[i], en) # {}
    IN  complains[e]

The(S) == CHOOSE v \in S : TRUE

\* makeNumber and makeString
Literal(v) == Node("lit", "", v, <<>>)

\* Mutation of LowerNode: the keyword stays where there is no value.
LowerNodeMarked(f, operands, en) ==
    CASE f.k = "lit" -> f
      [] f.k \in {"ref", "bin", "cast", "comptime"} /\ Eval(f, en) # {} -> Literal(The(Eval(f, en)))
      [] OTHER -> [f EXCEPT !.a = operands]

\* lowerExpr, given the lowered operands: what has a value becomes a literal.
LowerNode(f, operands, en) ==
    CASE f.k = "lit" -> f
      [] f.k \in {"ref", "bin", "cast"} /\ Eval(f, en) # {} -> Literal(The(Eval(f, en)))
      [] f.k = "comptime" -> operands[1]
      [] OTHER -> [f EXCEPT !.a = operands]
LowerExpr(e, en) ==
    LET lower[f \in MarkedExpressions] ==
          LowerNode(f, [i \in DOMAIN f.a |-> lower[f.a[i]]], en)
    IN  lower[e]

\* Only comptime expressions are evaluated with diagnostics.
LowerComplains(e, en) ==
    LET complains[f \in MarkedExpressions] ==
          \/ f.k = "comptime" /\ Complains(f.a[1], en)
          \/ \E i \in DOMAIN f.a : complains[f.a[i]]
    IN  complains[e]

-----------------------------------------------------------------------------
(* Statements without statements in them. The result is the environment    *)
(* after the statement, what is left of it (a sequence with at most one    *)
(* statement), and notes.                                                  *)

Result(en, out, ns) == [env |-> en, out |-> out, notes |-> ns]

Diag(b) == IF b THEN {"diagnostic"} ELSE {}

\* env[name] = value, if there is a value.
BindIf(en, x, v) == IF v = {} THEN en ELSE Bind(en, x, The(v))

Skips(b) == IF b THEN {"skipped"} ELSE {}

\* Const and var declarations under the comptime keyword, which leave nothing.
LowerBinding(s, en) ==
    LET init == LowerExpr(s.e, en)
    IN  Result(BindIf(en, s.x, Eval(init, en)), <<>>,
               Diag(LowerComplains(s.e, en) \/ Complains(init, en)) \cup Skips(Eval(init, en) = {}))

LowerConst(s, en, inComptime) ==
    LET r == LowerBinding(s, en)
    IN  Result(r.env, <<Const(s.x, LowerExpr(s.e, en))>>,
               IF inComptime THEN r.notes ELSE r.notes \ {"skipped"})

LowerVar(s, en, inComptime) ==
    LET r    == LowerBinding(s, en)
        kept == <<Var(s.x, LowerExpr(s.e, en))>>
    IN  IF ~inComptime THEN Result(en, kept, Diag(LowerComplains(s.e, en)))
        ELSE IF "skipped" \in r.notes THEN Result(r.env, kept, r.notes)
        ELSE r

\* In a block the target is lowered too: a name that has a value is no target any more.
LowerAssign(s, en, inComptime) ==
    LET target == LowerExpr(TargetOf(s), en)
        value  == LowerExpr(ValueOf(s), en)
        odd    == Diag(LowerComplains(TargetOf(s), en) \/ LowerComplains(ValueOf(s), en))
    IN  IF ~inComptime THEN Result(en, <<Assign(target, value)>>, odd)
        ELSE IF target.k = "ref" /\ Eval(value, en) # {}
             THEN Result(BindIf(en, target.x, Eval(value, en)), <<>>, odd)
             ELSE Result(en, <<>>, Diag(TRUE))

\* An assignment that is itself marked comptime.
LowerComptimeAssign(s, en) ==
    LET value == Eval(ValueOf(s), en)
        done  == TargetOf(s).k = "ref" /\ value # {}
    IN  Result(IF done THEN BindIf(en, TargetOf(s).x, value) ELSE en, <<>>, Diag(~done))

\* Statements that only have an expression.
LowerSimple(s, en) == Result(en, <<[s EXCEPT !.e = LowerExpr(@, en)]>>, Diag(LowerComplains(s.e, en)))

-----------------------------------------------------------------------------
(* Calls. The result of lowering a statement as far as the next call is    *)
(* the environment, the calls under way, and notes.                        *)

Call(ss, inComptime, then) == [left |-> ss, out |-> <<>>, inComptime |-> inComptime, then |-> then]

\* What is done with the statements a call returns: nothing; they are the caller's;
\* they are the first or the second list of statements in s; s is a function, and en the
\* environment outside; or the condition of a comptime while is evaluated again.
Drop           == [do |-> "drop"]
Pass           == [do |-> "pass"]
First(s)       == [do |-> "first", s |-> s]
Second(s)      == [do |-> "second", s |-> s]
Body(s, en)    == [do |-> "body", s |-> s, env |-> en]
Turn(s, turns) == [do |-> "turn", s |-> s, turns |-> turns]

Do(en, cs, ns) == [env |-> en, calls |-> cs, notes |-> ns]

\* Statements left by the innermost call's statement; a simple statement lowered.
Leave(cs, ss) == [cs EXCEPT ![Len(cs)].out = @ \o ss]
Finish(r, cs) == Do(r.env, Leave(cs, r.out), r.notes)

LowerAndDrop(ss, en, cs) == Do(en, Append(cs, Call(ss, TRUE, Drop)), {})

\* A turn of a comptime while. After the last one allowed it ends without complaint.
LowerTurn(s, turns, en, cs) ==
    LET value == Eval(s.e, en)
    IN  IF turns = 0 THEN Do(en, cs, {"cut"})
        ELSE IF value = {} THEN Do(en, cs, Diag(TRUE))
        ELSE IF ~Truthy(The(value)) THEN Do(en, cs, {})
        ELSE Do(en, Append(cs, Call(s.b, TRUE, Turn(s, turns - 1))), {})

\* Mutation of LowerComptime: both branches of a comptime if are evaluated.
LowerComptimeBoth(s, en, cs) ==
    CASE s.b[1].k = "block" -> LowerAndDrop(s.b[1].b, en, cs)
      [] s.b[1].k \in {"const", "var"} -> Finish(LowerBinding(s.b[1], en), cs)
      [] s.b[1].k = "assign" -> Finish(LowerComptimeAssign(s.b[1], en), cs)
      [] s.b[1].k = "if" ->
           IF Eval(s.b[1].e, en) = {} THEN Do(en, cs, Diag(TRUE))
           ELSE LowerAndDrop(s.b[1].b \o s.b[1].c, en, cs)
      [] s.b[1].k = "while" -> LowerTurn(s.b[1], Limit, en, cs)
      [] OTHER -> Do(en, Append(cs, Call(s.b, TRUE, Pass)), {})

\* The statement under a comptime keyword.
LowerComptime(s, en, cs) ==
    LET inner == s.b[1]
        value == Eval(inner.e, en)
    IN  CASE inner.k = "block" -> LowerAndDrop(inner.b, en, cs)
          [] inner.k \in {"const", "var"} -> Finish(LowerBinding(inner, en), cs)
          [] inner.k = "assign" -> Finish(LowerComptimeAssign(inner, en), cs)
          [] inner.k = "if" ->
               IF value = {} THEN Do(en, cs, Diag(TRUE))
               ELSE LowerAndDrop(IF Truthy(The(value)) THEN inner.b ELSE inner.c, en, cs)
          [] inner.k = "while" -> LowerTurn(inner, Limit, en, cs)
          [] OTHER -> Do(en, Append(cs, Call(s.b, TRUE, Pass)), {})

\* The other statements that contain statements. In a comptime block nothing is left
\* of a block.
LowerNested(s, en, cs, inComptime) ==
    IF inComptime /\ s.k = "block" THEN LowerAndDrop(s.b, en, cs)
    ELSE Do(en, Append(cs, Call(s.b, inComptime, First([s EXCEPT !.e = LowerExpr(@, en)]))),
            Diag(LowerComplains(s.e, en)))

\* A function's body works on a copy of the environment.
LowerFunc(s, en, cs) == Do(en, Append(cs, Call(s.b, FALSE, Body(s, en))), {})

\* Mutation of EndFunc: the body has worked on the environment itself.
EndFuncShared(c, en, cs) == Do(en, Leave(cs, <<[c.then.s EXCEPT !.b = c.out]>>), {})

EndFunc(c, en, cs) == Do(c.then.env, Leave(cs, <<[c.then.s EXCEPT !.b = c.out]>>), {})

Lower(s, en, cs, inComptime) ==
    CASE s.k = "const"  -> Finish(LowerConst(s, en, inComptime), cs)
      [] s.k = "var"    -> Finish(LowerVar(s, en, inComptime), cs)
      [] s.k = "assign" -> Finish(LowerAssign(s, en, inComptime), cs)
      [] s.k \in {"write", "return"} -> Finish(LowerSimple(s, en), cs)
      [] s.k = "func"   -> LowerFunc(s, en, cs)
      [] s.k = "comptime" -> LowerComptime(s, en, cs)
      [] OTHER -> LowerNested(s, en, cs, inComptime)

\* Call c returns to cs.
Kept(c) == IF c.inComptime THEN <<>> ELSE c.out
EndFirst(c, en, cs) ==
    LET s == [c.then.s EXCEPT !.b = Kept(c)]
    IN  IF s.k = "if" THEN Do(en, Append(cs, Call(s.c, c.inComptime, Second(s))), {})
        ELSE Do(en, Leave(cs, <<s>>), {})
Returned(c, en, cs) ==
    CASE c.then.do = "drop"  -> Do(en, cs, {})
      [] c.then.do = "pass"  -> Do(en, Leave(cs, c.out), {})
      [] c.then.do = "first" -> EndFirst(c, en, cs)
      [] c.then.do = "second" -> Do(en, Leave(cs, <<[c.then.s EXCEPT !.c = Kept(c)]>>), {})
      [] c.then.do = "body"  -> EndFunc(c, en, cs)
      [] c.then.do = "turn"  -> LowerTurn(c.then.s, c.then.turns, en, cs)

-----------------------------------------------------------------------------
Init ==
    /\ program = <<>>
    /\ env = EmptyEnv
    /\ calls = <<Call(<<>>, FALSE, Drop)>>
    /\ notes = {}

innermost == Last(calls)
Settled   == Len(calls) = 1

Becomes(d) == env' = d.env /\ calls' = d.calls /\ notes' = notes \cup d.notes

\* The call for the whole program comes to another statement, or returns.
LowerStatement(s) ==
    /\ Settled /\ Len(program) < MaxLen
    /\ program' = Append(program, s)
    /\ Becomes(Lower(s, env, calls, FALSE))

\* Another call comes to its next statement.
LowerNext ==
    /\ ~Settled /\ innermost.left # <<>>
    /\ Becomes(Lower(Head(innermost.left), env, [calls EXCEPT ![Len(calls)].left = Tail(@)],
                     innermost.inComptime))
    /\ UNCHANGED program

ReturnList ==
    /\ ~Settled /\ innermost.left = <<>>
    /\ Becomes(Returned(innermost, env, Front(calls)))
    /\ UNCHANGED program

Next == LowerNext \/ ReturnList \/ \E s \in Statements : LowerStatement(s)

Spec == Init /\ [][Next]_vars

-----------------------------------------------------------------------------
(* Properties, when only the call for the whole program is under way       *)

lowered == calls[1].out

\* Nothing that exists at compile time only is left, in no part of any statement, and
\* bindings are numbers or texts.
TypeOK ==
    /\ \A x \in DOMAIN env : env[x] \in Values
    /\ notes \subseteq {"diagnostic", "cut", "skipped"}
    /\ Settled => lowered \in Seq(UnmarkedPrograms)

\* The variable an assignment is to.
Assigned(s) == LET t == LowerExpr(TargetOf(s), EmptyEnv) IN {t.x : k \in {t.k} \cap {"ref"}}

\* The names that statements outside functions in s bind or assign to.
Names(s) == IF s.k \in {"const", "var"} THEN {s.x} ELSE IF s.k = "assign" THEN Assigned(s) ELSE {}
Inner(s) == IF s.k = "func" THEN <<>> ELSE s.b \o s.c
Named(s) ==
    LET named[t \in MarkedPrograms] == Names(t) \cup UNION {named[Inner(t)[i]] : i \in DOMAIN Inner(t)}
    IN  named[s]

\* A name that only the body of a function binds is not bound outside of it.
FunctionScopesClosed ==
    Settled => DOMAIN env \subseteq UNION {Named(program[i]) : i \in DOMAIN program}
=============================================================================
