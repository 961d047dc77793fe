------------------------------ MODULE Lowering ------------------------------
(***************************************************************************)
(* What compile-time evaluation does to the meaning of a program.          *)
(***************************************************************************)
EXTENDS Comptime, WeedRuns

CONSTANT
    Inputs  \* values of the run-time variable in

\* The statements of ss and all that they contain.
RECURSIVE Within(_)
Within(ss) ==
    ToSet(ss) \cup UNION {Within(ss[i].b) \cup Within(ss[i].c) : i \in DOMAIN ss}

-----------------------------------------------------------------------------
(* What the programs must not do for their meaning to be kept. Each is a   *)
(* place where the pass computes something else than the program does.     *)

MarkedOnes == {s.b[1] : s \in {t \in Within(program) : t.k = "comptime"}}
InMarked   == MarkedOnes \cup UNION {Within(s.b) \cup Within(s.c) : s \in MarkedOnes}

\* Names the compiler may have values for, and names of storage at run time.
KnownNames ==
    {s.x : s \in InMarked} \cup {TargetOf(s).x : s \in {t \in InMarked : t.k = "assign"}}
    \cup {s.x : s \in {t \in Within(lowered) : t.k = "const" /\ t.e.k = "lit"}}
StoredNames ==
    {s.x : s \in {t \in Within(lowered) :
                     t.k \in {"var", "func"} \/ (t.k = "const" /\ t.e.k # "lit")}}

\* A variable or a parameter does not end the binding of a constant of its name.
NothingShadowed == KnownNames \cap StoredNames = {}

\* What a branch or a loop of the program binds is bound after it too, and once.
BranchesBindNothing ==
    \A s \in Within(program) \ InMarked : s.k \in {"if", "while"} =>
        \A t \in Within(s.b) \cup Within(s.c) : t.k \notin {"const", "comptime"}

\* In a comptime block, an if or a while that is not marked itself is evaluated as if
\* both branches were taken once, and run-time statements vanish.
BlocksAreSimple ==
    \A s \in MarkedOnes : \A t \in Within(s.b) \cup Within(s.c) :
        t.k \in {"const", "var", "assign", "block", "comptime"} \/ t \in MarkedOnes

\* Casts of known values do not truncate.
CastsFit ==
    \A s \in Within(program) : \A e \in Parts(s.e) : e.k = "cast" =>
        \/ NamesIn(e) \ KnownNames # {}
        \/ e.a[1].k = "lit" /\ e.a[1].v.n \in 0..CastRange - 1

\* What is left does nothing with texts but to keep and to print them.
IsText(e) == e.k = "lit" /\ e.v.kind = "text"
TextNames == {s.x : s \in {t \in Within(lowered) : t.k \in {"const", "var"} /\ IsText(t.e)}}
TextsComputedEarly ==
    \A s \in Within(lowered) : \A e \in Parts(s.e) :
        /\ IsText(e) => e = s.e /\ s.k \in {"const", "var", "write"}
        /\ e.k = "ref" /\ e.x \in TextNames => e = s.e /\ s.k = "write"

Plain ==
    /\ NothingShadowed /\ BranchesBindNothing /\ BlocksAreSimple /\ CastsFit /\ TextsComputedEarly
    /\ notes \cap {"cut", "skipped"} = {}

Accepted == "diagnostic" \notin notes /\ Generates(lowered, {"in"})

\* What is left of an accepted program prints, for every input, what the program
\* would print if the comptime keyword did nothing and everything was executed:
\* folding changes no value, bindings are carried to where they are used, a branch or
\* a loop evaluated early has the effect it would have had, and no statement is lost.
LoweringPreserves ==
    Settled /\ Accepted /\ Plain => \A i \in Inputs :
        Run(program, i, FALSE).status # "undefined" =>
            Run(lowered, i, TRUE).out = Run(program, i, FALSE).out

\* Expressions of numbers without names and divisions.
Closed(e) == \A p \in Parts(e) : p.k \in {"lit", "bin"} /\ p.x # "/" /\ ~IsText(p)

\* The diagnostic for comptime assignments says that they require "a simple variable
\* target and constant value": one that has both is accepted, in blocks as elsewhere.
SimpleAssignmentsAccepted ==
    (\A s \in Within(program) :
        \/ s.k \in {"comptime", "block"}
        \/ s.k = "var" /\ Closed(s.e)
        \/ s.k = "assign" /\ TargetOf(s).k = "ref" /\ Closed(ValueOf(s)))
    => "diagnostic" \notin notes
=============================================================================
