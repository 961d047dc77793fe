------------------------------- MODULE Loader -------------------------------
(***************************************************************************)
(* Compiler::loadAndParseRecursive (Compiler.cpp): imported files are      *)
(* loaded depth first and their statements merged into one program.        *)
(*                                                                         *)
(* A path is an absolute path, the result of fs::absolute, which does not  *)
(* normalise: several paths may name one file (FileOf).  What a file       *)
(* imports and whether it can be read and parsed is arbitrary and does not *)
(* change during a run.  The statements a file contributes itself are      *)
(* represented by the path they were loaded under; only their place        *)
(* matters here.                                                           *)
(*                                                                         *)
(* The recursion is an explicit stack of frames                            *)
(*     [path |-> p, next |-> i, stmts |-> s]                               *)
(* one for each call in progress: i is the import its first loop is at,    *)
(* s is allStmts.                                                          *)
(***************************************************************************)
EXTENDS Integers, Sequences, FiniteSets, SequencesExt

CONSTANTS
    Paths,     \* absolute paths that can be imported
    Files,     \* the files behind them
    FileOf,    \* path -> file
    Root,      \* the path given on the command line
    Programs,  \* the possible import tables: file -> sequence of paths
    BadSets    \* the possible sets of files that cannot be opened or parsed

ASSUME PathsAssumption ==
    IsFiniteSet(Paths) /\ Root \in Paths /\ FileOf \in [Paths -> Files]
ASSUME ProgramsAssumption == Programs \subseteq [Files -> Seq(Paths)]
ASSUME BadAssumption == BadSets \subseteq SUBSET Files

VARIABLES
    imports,  \* the import table of this run
    bad,      \* the files of this run that cannot be opened or parsed
    stack,    \* the calls in progress, the innermost last
    visited,  \* the set the calls share
    phase,    \* "loading", "done", or "failed": an exception has been thrown
    out       \* allStatements in run(): the result of the outermost call

vars == <<imports, bad, stack, visited, phase, out>>

ImportsOf(p) == imports[FileOf[p]]
Imported(p)  == {ImportsOf(p)[i] : i \in 1..Len(ImportsOf(p))}
Elements(s)  == {s[i] : i \in 1..Len(s)}

Top == stack[Len(stack)]
Frame(p) == [path |-> p, next |-> 1, stmts |-> <<>>]

\* Mutation of AlreadyLoaded: only calls in progress are looked at.
InProgress(p) == \E d \in 1..Len(stack) : stack[d].path = p

\* visited.count(absolutePath)
AlreadyLoaded(p) == p \in visited

\* Mutation of Replace: the innermost call does not move on.
ReplaceStuck(f) == stack' = [stack EXCEPT ![Len(stack)] = [f EXCEPT !.next = Top.next]]

Replace(f) == stack' = [stack EXCEPT ![Len(stack)] = f]

\* Mutation of Gathered: the call's own statements come first.
OwnFirst(f) == <<f.path>> \o f.stmts

\* Mutation of Gathered: the imports' statements are lost.
OwnOnly(f) == <<f.path>>

\* The statements a call returns: its imports', then its own.
Gathered(f) == Append(f.stmts, f.path)

----------------------------------------------------------------------------
\* Mutation of Call: the path is marked only once the file has been loaded.
CallUnmarked(p) ==
    /\ visited' = visited
    /\ IF FileOf[p] \in bad
       THEN phase' = "failed" /\ stack' = <<>>
       ELSE phase' = phase /\ stack' = Append(stack, Frame(p))
    /\ UNCHANGED <<imports, bad, out>>

\* Mutation of Call: a file that cannot be loaded counts as an empty one.
CallLenient(p) ==
    /\ visited' = visited \cup {p}
    /\ stack' = IF FileOf[p] \in bad
                THEN [d \in 1..Len(stack) |->
                        IF d = Len(stack) THEN [Top EXCEPT !.next = @ + 1] ELSE stack[d]]
                ELSE Append(stack, Frame(p))
    /\ UNCHANGED <<imports, bad, phase, out>>

\* The call for path p gets past its first lines: p is marked as visited
\* before the file is opened, and the file is parsed before its imports are
\* looked at.  An exception leaves all the calls in progress at once.
Call(p) ==
    /\ visited' = visited \cup {p}
    /\ IF FileOf[p] \in bad
       THEN phase' = "failed" /\ stack' = <<>>
       ELSE phase' = phase /\ stack' = Append(stack, Frame(p))
    /\ UNCHANGED <<imports, bad, out>>

\* The innermost call is at an import that has been loaded, or is being
\* loaded: the nested call returns an empty list.
SkipImport ==
    /\ stack # <<>>
    /\ Top.next <= Len(ImportsOf(Top.path))
    /\ AlreadyLoaded(ImportsOf(Top.path)[Top.next])
    /\ Replace([Top EXCEPT !.next = Top.next + 1])
    /\ UNCHANGED <<imports, bad, visited, phase, out>>

LoadImport ==
    /\ stack # <<>>
    /\ Top.next <= Len(ImportsOf(Top.path))
    /\ ~AlreadyLoaded(ImportsOf(Top.path)[Top.next])
    /\ Call(ImportsOf(Top.path)[Top.next])

\* The innermost call has dealt with all its imports: it adds its own
\* statements and returns; its caller appends the list to its own and goes on
\* with its next import.
Return ==
    /\ stack # <<>>
    /\ Top.next > Len(ImportsOf(Top.path))
    /\ IF Len(stack) = 1
       THEN /\ stack' = <<>>
            /\ phase' = "done"
            /\ out' = Gathered(Top)
       ELSE /\ LET d == Len(stack) - 1
               IN  stack' = [SubSeq(stack, 1, d) EXCEPT
                               ![d].stmts = stack[d].stmts \o Gathered(Top),
                               ![d].next = stack[d].next + 1]
            /\ UNCHANGED <<phase, out>>
    /\ UNCHANGED <<imports, bad, visited>>

----------------------------------------------------------------------------
\* run() calls loadAndParseRecursive(inputPath, visited) with visited empty.
Start ==
    /\ phase = "loading"
    /\ visited = {}
    /\ Call(Root)

Init ==
    /\ imports \in Programs
    /\ bad \in BadSets
    /\ stack = <<>>
    /\ visited = {}
    /\ phase = "loading"
    /\ out = <<>>

Next == Start \/ SkipImport \/ LoadImport \/ Return

Spec == Init /\ [][Next]_vars

\* The compiler is one thread that goes on until it is done.
FairSpec == Spec /\ WF_vars(Next)

----------------------------------------------------------------------------
(* Properties *)

\* S is closed under imports; q is p, or imported by p through any number of
\* files.
Closed(S)   == \A p \in S : Imported(p) \subseteq S
Needs(p, q) == \A S \in SUBSET Paths : p \in S /\ Closed(S) => q \in S

FrameType == [path : Paths, next : Nat \ {0}, stmts : Seq(Paths)]

\* The calls' state is well formed: no path has two calls in progress, so the
\* recursion is at most as deep as there are paths, and every path in progress
\* or collected has been marked as visited.
TypeOK ==
    /\ imports \in Programs /\ bad \in BadSets
    /\ stack \in Seq(FrameType)
    /\ visited \subseteq Paths
    /\ phase \in {"loading", "done", "failed"}
    /\ out \in Seq(Paths)
    /\ phase # "loading" => stack = <<>>
    /\ phase # "done" => out = <<>>
    /\ \A d \in 1..Len(stack) :
         /\ stack[d].next <= Len(ImportsOf(stack[d].path)) + 1
         /\ stack[d].path \in visited
         /\ Elements(stack[d].stmts) \subseteq visited
    /\ \A d, e \in 1..Len(stack) : stack[d].path = stack[e].path => d = e

NoRepeats(s) == \A i, j \in 1..Len(s) : s[i] = s[j] => i = j

\* A path's statements are never in the program twice, whether the path is
\* imported by several files, several times by one, or in a circle: not in the
\* lists of the calls in progress, in one or spread over several, and not in
\* the result.
EachOnce ==
    /\ NoRepeats(out)
    /\ \A d \in 1..Len(stack) : NoRepeats(Gathered(stack[d]))
    /\ \A d, e \in 1..Len(stack) :
         d # e => Elements(Gathered(stack[d])) \cap Elements(Gathered(stack[e])) = {}

\* In the result a path's statements come after those of the paths it imports,
\* except where the imported path needs the importing one in turn.
DependenciesFirst ==
    \A i \in 1..Len(out) : \A q \in Imported(out[i]) :
        (\E j \in 1..i - 1 : out[j] = q) \/ Needs(q, out[i])

\* The result has the statements of the paths the root needs, all of them and
\* no others.
ExactlyNeeded ==
    phase = "done" => Elements(out) = {q \in Paths : Needs(Root, q)}

\* Loading fails exactly when some file the root needs cannot be loaded: no bad
\* import is passed over, none that nobody needs is looked at.
FailsExactly ==
    /\ phase = "failed" => \E q \in Paths : Needs(Root, q) /\ FileOf[q] \in bad
    /\ phase = "done" => \A q \in Paths : Needs(Root, q) => FileOf[q] \notin bad

\* The abstract order is the lists of the calls in progress put end to end.
Lists  == [d \in 1..Len(stack) |-> stack[d].stmts]
Order  == FlattenSeq(Lists) \o out
Result == IF phase = "loading" THEN "none" ELSE phase

Promise == INSTANCE ImportOrder WITH order <- Order, result <- Result

\* Every run of the recursion is one that ImportOrder allows: the statements
\* fixed so far are never moved or dropped, each path is placed in an order its
\* imports permit, and a failure hands nothing on.
ImplementsImportOrder == Promise!AbstractSpec

\* However the files import each other, the recursion ends.
Terminates == <>(phase # "loading")
=============================================================================
