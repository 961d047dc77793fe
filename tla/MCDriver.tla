------------------------------ MODULE MCDriver ------------------------------
(***************************************************************************)
(* Small instances of Driver for TLC: two compilers in one directory, and  *)
(* one for the claims of the documentation.                                *)
(***************************************************************************)
EXTENDS Driver, TLC

ProcSymmetry == Permutations(Procs)

Line(tools, noLink, emitObj, run, dump, stdin, out) ==
    [tools |-> tools, noLink |-> noLink, emitObj |-> emitObj, run |-> run,
     dump |-> dump, stdin |-> stdin, out |-> out, plain |-> TRUE]

\* A line whose source has strings or asm blocks that run over several lines.
OverLines(line) == [line EXCEPT !.plain = FALSE]

\* Each external stage, alone and with others, and each way to stop early.
MCOptionSets ==
    UNION {{Line({}, FALSE, FALSE, TRUE, "none", FALSE, o),
            Line({"tokenizer", "macro"}, FALSE, FALSE, TRUE, "none", FALSE, o),
            Line({"macro", "codegen"}, FALSE, TRUE, FALSE, "none", FALSE, o),
            OverLines(Line({"macro"}, TRUE, FALSE, FALSE, "none", FALSE, o)),
            Line({"tokenizer", "macro"}, TRUE, FALSE, FALSE, "none", TRUE, o),
            Line({"codegen", "linker"}, FALSE, FALSE, TRUE, "none", FALSE, o),
            Line({"tokenizer", "parser"}, FALSE, FALSE, FALSE, "tokens", FALSE, o),
            Line({"parser"}, FALSE, FALSE, FALSE, "none", TRUE, o),
            Line({"comptime"}, FALSE, FALSE, FALSE, "ast", FALSE, o)} : o \in Outs}

\* weedc --no-link --run, weedc --emit-obj --run
StopAndRun ==
    {Line({}, TRUE, FALSE, TRUE, "none", FALSE, o) : o \in Outs} \cup
    {Line({}, FALSE, TRUE, TRUE, "none", FALSE, o) : o \in Outs}

\* Each external stage alone.
OneTool ==
    {Line({t}, FALSE, FALSE, FALSE, "none", FALSE, o) : t \in Tools, o \in Outs}
=============================================================================
