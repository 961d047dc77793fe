------------------------------ MODULE WeedRuns ------------------------------
(***************************************************************************)
(* What a program of WeedLang does when it runs: the sequence of values it *)
(* prints. A cast keeps the low bits of a number.                          *)
(***************************************************************************)
EXTENDS WeedLang

CONSTANTS
    CastRange,  \* a cast keeps the value modulo this
    MaxTurns    \* bound: turns of a run-time loop; an execution that needs more stops

ASSUME RunAssumption == CastRange \in Nat \ {0} /\ MaxTurns \in Nat

Narrow(v) == IF v.kind = "int" THEN {FromInt(v.n % CastRange)} ELSE {}

\* Whether an operation on v and w can be executed. Compiled code has the address of a
\* text, and each literal has its own: its operations do not see the characters.
Sees(st, v, w) == st.compiled => "text" \notin {v.kind, w.kind}

\* The value of an expression in an execution state: none if it divides by zero,
\* follows what is no address, or cannot be computed.
RECURSIVE Value(_, _)
Value(e, st) ==
    CASE e.k = "lit"   -> {e.v}
      [] e.k = "ref"   -> {st.vars[x] : x \in {e.x} \cap DOMAIN st.vars}
      [] e.k = "addr"  -> {Place(e.a[i].x) : i \in {j \in DOMAIN e.a : e.a[j].k = "ref"}}
      [] e.k = "deref" ->
           {st.vars[x] : x \in {p.s[1] : p \in {q \in Value(e.a[1], st) : q.kind = "place"}}
                               \cap DOMAIN st.vars}
      [] e.k = "cast"  -> UNION {Narrow(v) : v \in Value(e.a[1], st)}
      [] e.k = "comptime" -> Value(e.a[1], st)
      [] e.k = "bin" /\ e.x = "&&" /\ Value(e.a[1], st) = {FromInt(0)} -> {FromInt(0)}
      [] e.k = "bin" /\ e.x = "||" /\ (\E v \in Value(e.a[1], st) : v.kind = "int" /\ Truthy(v)) ->
           {FromInt(1)}
      [] OTHER ->
           UNION {Apply(e.x, p[1], p[2]) :
                    p \in {q \in Value(e.a[1], st) \X Value(e.a[2], st) : Sees(st, q[1], q[2])}}

\* Names that occur in an expression.
RECURSIVE NamesIn(_)
NamesIn(e) ==
    IF e.k = "ref" THEN {e.x} ELSE UNION {NamesIn(e.a[i]) : i \in DOMAIN e.a}

RECURSIVE Parts(_)
Parts(e) == {e} \cup UNION {Parts(e.a[i]) : i \in DOMAIN e.a}

\* Execution states: variables, values printed, and whether the program still runs,
\* returns from a function, has stopped, or has read a name that nothing gave a value.
Halt(st, why) == [st EXCEPT !.status = why]

\* An address is not zero, whatever text is there.
Taken(st, v) == Truthy(v) \/ (st.compiled /\ v.kind = "text")

\* st with the value of e handed to Op, or stopped if e has no value.
With(st, e, Op(_)) ==
    LET v == Value(e, st)
    IN  IF NamesIn(e) \ DOMAIN st.vars # {} THEN Halt(st, "undefined")
        ELSE IF v = {} THEN Halt(st, "stopped")
        ELSE Op(CHOOSE x \in v : TRUE)

RECURSIVE Exec(_, _), ExecAll(_, _), Loop(_, _, _)
ExecAll(ss, st) == FoldLeft(LAMBDA t, s : IF t.status = "up" THEN Exec(s, t) ELSE t, st, ss)
Loop(s, st, turns) ==
    IF turns = 0 THEN Halt(st, "stopped")
    ELSE With(st, s.e, LAMBDA v : IF ~Taken(st, v) THEN st
                                  ELSE LET t == ExecAll(s.b, st)
                                       IN  IF t.status = "up" THEN Loop(s, t, turns - 1) ELSE t)
Exec(s, st) ==
    CASE s.k \in {"const", "var"} ->
           With(st, s.e, LAMBDA v : [st EXCEPT !.vars = Bind(@, s.x, v)])
      [] s.k = "assign" ->
           With(st, ValueOf(s), LAMBDA v :
             IF TargetOf(s).k = "ref" THEN [st EXCEPT !.vars = Bind(@, TargetOf(s).x, v)]
             ELSE With(st, TargetOf(s).a[1], LAMBDA p :
                    IF p.kind = "place" THEN [st EXCEPT !.vars = Bind(@, p.s[1], v)]
                    ELSE Halt(st, "stopped")))
      [] s.k = "write" -> With(st, s.e, LAMBDA v : [st EXCEPT !.out = Append(@, v)])
      [] s.k = "return" -> With(st, s.e, LAMBDA v : Halt(st, "returned"))
      [] s.k \in {"block", "comptime"} -> ExecAll(s.b, st)
      [] s.k = "if" -> With(st, s.e, LAMBDA v : ExecAll(IF Taken(st, v) THEN s.b ELSE s.c, st))
      [] s.k = "while" -> Loop(s, st, MaxTurns)
      [] s.k = "func" ->
           LET t == ExecAll(s.b, [st EXCEPT !.vars = Bind(@, s.x, FromInt(1))])
           IN  [t EXCEPT !.vars = st.vars, !.status = IF @ = "returned" THEN "up" ELSE @]

\* A program executed, as it is written or compiled, when variable in has the value given.
Run(ss, input, compiled) ==
    ExecAll(ss, [vars |-> [in |-> FromInt(input)], out |-> <<>>, status |-> "up",
                 compiled |-> compiled])

-----------------------------------------------------------------------------
(* What the code generator rejects: names that no declaration before them  *)
(* in the same function introduces, and addresses of what is no variable   *)
(* and assignments to it.                                                  *)

RECURSIVE Declared(_, _)
Declared(ss, known) ==
    FoldLeft(LAMBDA d, s :
               CASE s.k \in {"const", "var"} -> d \cup {s.x}
                 [] s.k \in {"block", "if", "while"} -> Declared(s.c, Declared(s.b, d))
                 [] OTHER -> d,
             known, ss)

RECURSIVE Generates(_, _)
Generates(ss, known) ==
    \A i \in DOMAIN ss :
        LET s == ss[i]
            d == Declared(SubSeq(ss, 1, i - 1), known)
        IN  /\ NamesIn(s.e) \subseteq (IF s.k \in {"const", "var"} THEN d \cup {s.x} ELSE d)
            /\ s.k = "assign" => TargetOf(s).k \in {"ref", "deref"}
            /\ \A e \in Parts(s.e) : e.k = "addr" => e.a[1].k = "ref"
            /\ s.k = "func" => Generates(s.b, {s.x})
            /\ s.k # "func" => Generates(s.b, d) /\ Generates(s.c, Declared(s.b, d))
=============================================================================
