---------------------------- MODULE ImportOrder ----------------------------
(***************************************************************************)
(* What import resolution promises the rest of the compiler, without       *)
(* saying how: every path that the root needs, through any number of       *)
(* imports, contributes its statements exactly once, after those of its    *)
(* imports wherever imports are not circular, and the root's come last; or *)
(* nothing is handed on, because one of these paths cannot be loaded.      *)
(***************************************************************************)
EXTENDS Integers, Sequences

CONSTANTS Paths, Files, FileOf, Root, Programs, BadSets

VARIABLES
    imports,  \* Programs: file -> the sequence of paths it imports
    bad,      \* BadSets: the files that cannot be read or parsed
    order,    \* the paths whose statements are in place, in this order
    result    \* "none", "done" or "failed"

abstractVars == <<imports, bad, order, result>>

ImportsOf(p) == imports[FileOf[p]]
Imported(p)  == {ImportsOf(p)[i] : i \in 1..Len(ImportsOf(p))}
Closed(S)    == \A p \in S : Imported(p) \subseteq S

\* q is p, or is imported by p through any number of files.
Needs(p, q) == \A S \in SUBSET Paths : p \in S /\ Closed(S) => q \in S
Wanted      == {q \in Paths : Needs(Root, q)}
Placed      == {order[i] : i \in 1..Len(order)}

AbstractInit ==
    /\ imports \in Programs /\ bad \in BadSets
    /\ order = <<>> /\ result = "none"

Place(p) ==
    /\ result = "none"
    /\ p \notin Placed
    /\ FileOf[p] \notin bad
    /\ \A q \in Imported(p) : q \in Placed \/ Needs(q, p)
    /\ p = Root => Placed = Wanted \ {Root}
    /\ order' = Append(order, p)
    /\ result' = IF p = Root THEN "done" ELSE "none"
    /\ UNCHANGED <<imports, bad>>

GiveUp ==
    /\ result = "none"
    /\ \E p \in Wanted : FileOf[p] \in bad
    /\ order' = <<>>
    /\ result' = "failed"
    /\ UNCHANGED <<imports, bad>>

AbstractNext == GiveUp \/ \E p \in Wanted : Place(p)

AbstractSpec == AbstractInit /\ [][AbstractNext]_abstractVars
=============================================================================
