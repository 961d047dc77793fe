----------------------------- MODULE Execution -----------------------------
(***************************************************************************)
(* The generated code at work: Codegen compiles a program, its code is     *)
(* linked and loaded, and Machine executes it instruction by instruction.  *)
(* What the program should do is in module ProgramMeaning.                 *)
(***************************************************************************)
EXTENDS Codegen, Machine, ProgramMeaning

VARIABLES
    machine,   \* the machine that runs the code
    meaning    \* what the program should do (history: never read by an action)

allVars == <<vars, machine, meaning>>

Compile == Next /\ UNCHANGED <<machine, meaning>>

\* The section of strings: each literal's bytes and a zero at an address of its own.
AddressOf(g, i) == StringBase + FoldLeft(LAMBDA n, s : n + Len(s.value) + 1, 0, SubSeq(g.strings, 1, i - 1))
StringSection(g) ==
    FoldLeft(LAMBDA mem, i : [a \in AddressOf(g, i)..AddressOf(g, i) + Len(g.strings[i].value) |->
                                 Append(g.strings[i].value, 0)[a - AddressOf(g, i) + 1]] @@ mem,
             <<>>, [i \in DOMAIN g.strings |-> i])
StringLabels(g) ==
    [l \in {g.strings[i].label : i \in DOMAIN g.strings} |->
        AddressOf(g, CHOOSE i \in DOMAIN g.strings : g.strings[i].label = l)]

\* Every name the code refers to is a label of it, one of its string section, which
\* a library does not have, or an external function.
Resolved(g) ==
    LabelsUsed(g.out) \subseteq LabelsOf(g.out) \cup (IF library THEN {} ELSE DOMAIN StringLabels(g))
                                \cup DOMAIN Externals \cup {"ExitProcess"}

\* No label is defined twice.
LabelledOnce(g) ==
    \A i, j \in DOMAIN g.out :
        g.out[i].op = "label" /\ g.out[j].op = "label" /\ g.out[i].l = g.out[j].l => i = j

\* The string section ends the program; it is assembled and linked, which fails for a
\* label defined twice and for a name that nothing defines, and loaded.
LoadProgram ==
    /\ stage = "done" /\ ~library /\ machine.status = "off"
    /\ machine' = IF LabelledOnce(gen) /\ Resolved(gen) THEN Start(StringSection(gen))
                  ELSE [machine EXCEPT !.status = "unlinkable"]
    /\ UNCHANGED <<vars, meaning>>

Run ==
    /\ machine.status = "up"
    /\ machine' = Execute(machine, gen.out, Externals, StringLabels(gen))
    /\ UNCHANGED <<vars, meaning>>

\* The compiler has rejected the program, or there is nothing more to do.
Ran  == machine.status \notin {"off", "up", "unlinkable"}
Over == ~Going \/ Ran \/ machine.status = "unlinkable" \/ (stage = "done" /\ library)
Stay == Over /\ UNCHANGED allVars

ExecutionInit ==
    /\ Init
    /\ machine = [Start(<<>>) EXCEPT !.status = "off"]
    /\ meaning = Meaning(program)

ExecutionNext == Compile \/ LoadProgram \/ Run \/ Stay

ExecutionSpec == ExecutionInit /\ [][ExecutionNext]_allVars

-----------------------------------------------------------------------------
\* The emitted code does what the program means: the same external calls with the
\* same arguments in the same order, then a division fault where the program
\* divides by zero and nowhere else, or the exit code the program gives.
DoesWhatItMeans ==
    (Ran /\ meaning.quirks = {}) =>
        /\ meaning.status = "up" =>
             /\ machine.status = "exited"
             /\ Front(machine.log) = meaning.log
             /\ meaning.exit # NoValue => Last(machine.log)[2] = <<Signed(meaning.exit)>>
        /\ meaning.status = "fault" => machine.status = "fault" /\ machine.log = meaning.log

\* Programs whose effect on the machine the language determines.
Defined == meaning.status # "undefined" /\ meaning.quirks \cap {"nested", "array", "tail"} = {}

\* Every ret goes back to behind the call that entered the function, with the
\* caller's rsp and rbp: on every path through the body the epilogue undoes the
\* prologue, and no store in between hits the saved rbp or the return address.
ReturnsToCaller ==
    (/\ machine.status = "up" /\ Defined
     /\ machine.pc \in DOMAIN gen.out /\ gen.out[machine.pc].op = "ret") =>
            /\ machine.open # <<>>
            /\ LET c == Last(machine.open)
               IN  /\ R(machine, "rsp") = c.rsp - 8 /\ R(machine, "rbp") = c.rbp
                   /\ ReadBytes(machine, R(machine, "rsp"), 8) = c.to

\* The functions have different names, and none has a name from which the generator
\* makes a label of its own: wl__toplevel, or the label for the returns of a function.
NamesApart ==
    LET defs == {i \in DOMAIN program : program[i].k = "func"}
        F    == {program[i].x : i \in defs}
    IN  /\ \A i, j \in defs : program[i].x = program[j].x => i = j
        /\ F \cap {"_toplevel", "_toplevel_ret"} = {}
        /\ \A f \in F, n \in 0..gen.labels : f \o "_ret_" \o ToString(n) \notin F

\* The finished code of a program whose functions are all there and have names apart
\* can be linked: no label is defined twice, and every one the code refers to is
\* defined.  A library with a string literal is the exception.
LabelsDefined ==
    (/\ stage = "done" /\ Defined /\ NamesApart
     /\ ~(library /\ gen.strings # <<>>)) => LabelledOnce(gen) /\ Resolved(gen)
=============================================================================
