------------------------------- MODULE Driver -------------------------------
(***************************************************************************)
(* Compiler::run (Compiler.cpp) and the programs it starts: the external   *)
(* stages of bootstrap mode, NASM, the linker, and the compiled program.   *)
(* Several compilers may run at once in one directory: the temporary files *)
(* have fixed names, and so have the outputs unless -o is given.           *)
(*                                                                         *)
(* The content of a file, like the program a compiler has in memory, is a  *)
(* record: src is the compiler whose source it was made from, good says    *)
(* that it means what that source means.  A stage reads its input and      *)
(* hands on what it read; what comes out of a failed tool is Junk.         *)
(*                                                                         *)
(* One source file is compiled; what imports do is in module Loader.       *)
(* The stages before the assembler are in the order of FrontEnd, and an    *)
(* external one takes three steps: its input is written, the tool runs,    *)
(* its output is read and both files are removed.  stoi and stoull throw at  *)
(* a number they cannot read, before the files are removed.                *)
(***************************************************************************)
EXTENDS Naturals, Sequences, FiniteSets

CONSTANTS
    Procs,      \* compilers running in one directory
    Outs,       \* output paths (-o), without extension
    OptionSets  \* the command lines considered

Stages == {"tokenizer", "macro", "parser", "comptime", "codegen", "nasm", "link",
           "run", "ended"}
Tools  == {"tokenizer", "macro", "parser", "comptime", "codegen", "linker"}

\* tools: the stages given to an external program by --bootstrap options;
\* dump: --dump-tokens or --dump-ast; out: -o; plain: in the source it names,
\* no token has a line break in it or a blank at its end.
Options == [tools : SUBSET Tools, noLink : BOOLEAN, emitObj : BOOLEAN, run : BOOLEAN,
            dump : {"none", "tokens", "ast"}, stdin : BOOLEAN, out : Outs, plain : BOOLEAN]

ASSUME OptionsAssumption == OptionSets \subseteq Options

VARIABLES
    opts,    \* opts[p]: the command line of p
    at,      \* at[p]: the stage p is in
    step,    \* step[p]: "begin", or how far an external stage has come:
             \* "written", "ran" (and succeeded), "failed"
    prog,    \* prog[p]: the program in p's memory, or in the tool's output
    files,   \* the files in the directory
    status,  \* status[p]: "running", "ok" (exit code 0) or "failed"
    ran,     \* history: the content of the executable that p has run
    broken,  \* history: the compilers of which a tool was missing or failed
    unread   \* history: the stages at whose output a compiler threw, until
             \* another compilation removes their files

vars == <<opts, at, step, prog, files, status, ran, broken, unread>>

Absent == [src |-> "nobody", good |-> FALSE, there |-> FALSE]
Junk   == [src |-> "nobody", good |-> FALSE, there |-> TRUE]
Old    == [src |-> "earlier", good |-> TRUE, there |-> TRUE]
Own(p) == [src |-> p, good |-> TRUE, there |-> TRUE]

Content == {Absent, Junk, Old} \cup
           [src : Procs, good : BOOLEAN, there : {TRUE}]

FrontEnd  == {"tokenizer", "macro", "parser", "comptime"}
TempIn(s)  == <<"temp in", s>>
TempOut(s) == <<"temp out", s>>
Decoded   == {"tokenizer", "macro"}  \* stages whose output has numbers in it
TempFiles == {TempIn(s) : s \in FrontEnd \cup {"codegen"}} \cup {TempOut(s) : s \in FrontEnd}

OutFile(p, kind) == <<opts[p].out, kind>>
OutFiles == Outs \X {"asm", "obj", "exe"}

Running(p, s) == status[p] = "running" /\ at[p] = s
GoTo(p, s)    == at' = [at EXCEPT ![p] = s] /\ step' = [step EXCEPT ![p] = "begin"]
Write(f, c)   == files' = [files EXCEPT ![f] = c]

\* Mutation of Exit: the compiler reports an error and goes on.
ExitLate(p, how) ==
    /\ status' = [status EXCEPT ![p] = how]
    /\ GoTo(p, at[p])

Exit(p, how)  == /\ status' = [status EXCEPT ![p] = how]
                 /\ at' = [at EXCEPT ![p] = "ended"]
                 /\ step' = [step EXCEPT ![p] = "begin"]

Break(p) == broken' = broken \cup {p}

\* The program c, which no longer means what its source means.
Spoilt(c) == [c EXCEPT !.good = FALSE]

----------------------------------------------------------------------------
(* The stages up to compile-time evaluation *)

\* --bootstrap-macro is looked at only when a file is compiled.
External(p, s) == s \in opts[p].tools /\ ~(s = "macro" /\ opts[p].stdin)

After(s) == CASE s = "tokenizer" -> "macro"
              [] s = "macro"     -> "parser"
              [] s = "parser"    -> "comptime"
              [] s = "comptime"  -> "codegen"

\* Where p goes after stage s: --dump-tokens ends after parsing, --dump-ast
\* after compile-time evaluation, both with exit code 0.
Leave(p, s) ==
    IF \/ s = "parser" /\ opts[p].dump = "tokens"
       \/ s = "comptime" /\ opts[p].dump = "ast"
    THEN Exit(p, "ok")
    ELSE GoTo(p, After(s)) /\ UNCHANGED status

\* An internal stage succeeds, or reports errors and ends the compilation.
InternalStage(p, s) ==
    /\ Running(p, s)
    /\ ~External(p, s)
    /\ Leave(p, s) \/ Exit(p, "failed")
    /\ UNCHANGED <<opts, prog, files, ran, broken, unread>>

\* Lexer::setExternalPath: a tokenizer that does not exist is passed over.
TokenizerMissing(p) ==
    /\ Running(p, "tokenizer") /\ step[p] = "begin"
    /\ External(p, "tokenizer")
    /\ Leave(p, "tokenizer")
    /\ Break(p)
    /\ UNCHANGED <<opts, prog, files, ran, unread>>

WriteToolInput(p, s) ==
    /\ Running(p, s) /\ step[p] = "begin"
    /\ External(p, s)
    /\ Write(TempIn(s), prog[p])
    /\ step' = [step EXCEPT ![p] = "written"]
    /\ UNCHANGED <<opts, at, prog, status, ran, broken, unread>>

\* The tool works on what it finds in the input file; a missing file makes it
\* fail, and one that fails may still report success.  The shell creates the
\* output file in any case.
RunTool(p, s) ==
    /\ Running(p, s) /\ step[p] = "written"
    /\ LET in == files[TempIn(s)]
       IN  \/ /\ in.there
              /\ Write(TempOut(s), in)
              /\ step' = [step EXCEPT ![p] = "ran"]
              /\ UNCHANGED broken
           \/ /\ Write(TempOut(s), Junk)
              /\ \E x \in {"ran", "failed"} : step' = [step EXCEPT ![p] = x]
              /\ Break(p)
    /\ UNCHANGED <<opts, at, prog, status, ran, unread>>

\* Mutation of RemoveTemps: the tool's output stays.
RemoveInput(s) == /\ files' = [files EXCEPT ![TempIn(s)] = Absent]
                  /\ unread' = unread \ {s}

RemoveTemps(s) == /\ files' = [files EXCEPT ![TempIn(s)] = Absent, ![TempOut(s)] = Absent]
                  /\ unread' = unread \ {s}

Read(s) == IF files[TempOut(s)].there THEN files[TempOut(s)] ELSE Junk

\* An exception while the output of s is decoded ends the compilation (main
\* catches it); the temporary files stay.
Throw(p, s) == /\ files[TempOut(s)].there
               /\ Exit(p, "failed")
               /\ unread' = unread \cup {s}
               /\ UNCHANGED <<prog, files>>

\* runExternalTokenizer: after a failure the internal tokenizer is used.
ReadTokens(p) ==
    /\ Running(p, "tokenizer") /\ step[p] \in {"ran", "failed"}
    /\ \/ /\ prog' = [prog EXCEPT ![p] = IF step[p] = "ran" THEN Read("tokenizer") ELSE @]
          /\ RemoveTemps("tokenizer")
          /\ Leave(p, "tokenizer")
       \/ step[p] = "ran" /\ Read("tokenizer") = Junk /\ Throw(p, "tokenizer")
    /\ UNCHANGED <<opts, ran, broken>>

\* Tokens travel to and from the macro expander one in a line: those of a
\* source that is not plain do not come back as they were.
OneInALine(c) == c.src \in Procs /\ opts[c.src].plain

\* The exit code is ignored; when the output has no tokens, the tokens that
\* were there are used as they are, without any expansion.
ReadExpansion(p) ==
    /\ Running(p, "macro") /\ step[p] \in {"ran", "failed"}
    /\ LET c == Read("macro")
       IN  \/ /\ \/ prog' = [prog EXCEPT ![p] = IF OneInALine(c) THEN c ELSE Spoilt(c)]
                 \/ c = Junk /\ prog' = [prog EXCEPT ![p] = Spoilt(@)]
              /\ RemoveTemps("macro")
              /\ Leave(p, "macro")
           \/ ~OneInALine(c) /\ Throw(p, "macro")
    /\ UNCHANGED <<opts, ran, broken>>

\* Parser::parseExternal throws when the parser fails; from the output of one
\* that works it keeps top-level names, and no function bodies.
ReadAst(p) ==
    /\ Running(p, "parser") /\ step[p] \in {"ran", "failed"}
    /\ RemoveTemps("parser")
    /\ IF step[p] = "failed"
       THEN Exit(p, "failed") /\ UNCHANGED prog
       ELSE /\ prog' = [prog EXCEPT ![p] = Spoilt(Read("parser"))]
            /\ Leave(p, "parser")
    /\ UNCHANGED <<opts, ran, broken>>

\* The evaluator's exit code and its output are ignored, and the internal
\* evaluation is left out.
DiscardLowering(p) ==
    /\ Running(p, "comptime") /\ step[p] \in {"ran", "failed"}
    /\ prog' = [prog EXCEPT ![p] = Spoilt(@)]
    /\ RemoveTemps("comptime")
    /\ Leave(p, "comptime")
    /\ UNCHANGED <<opts, ran, broken>>

----------------------------------------------------------------------------
(* Code generation, assembly, linking, running *)

\* Mutation of AfterCodegen: --no-link ends the compilation after NASM.
AfterCodegenLate(p) == "nasm"

AfterCodegen(p) == IF opts[p].noLink THEN "run" ELSE "nasm"

\* The internal generator may reject the program, or fail to open the file.
GenerateCode(p) ==
    /\ Running(p, "codegen")
    /\ "codegen" \notin opts[p].tools
    /\ \/ /\ Write(OutFile(p, "asm"), prog[p])
          /\ GoTo(p, AfterCodegen(p))
          /\ UNCHANGED status
       \/ Exit(p, "failed") /\ UNCHANGED files
    /\ UNCHANGED <<opts, prog, ran, broken, unread>>

WriteGeneratorInput(p) ==
    /\ Running(p, "codegen") /\ step[p] = "begin"
    /\ "codegen" \in opts[p].tools
    /\ Write(TempIn("codegen"), prog[p])
    /\ step' = [step EXCEPT ![p] = "written"]
    /\ UNCHANGED <<opts, at, prog, status, ran, broken, unread>>

\* The external generator writes to the .asm file; its exit code is ignored.
RunGenerator(p) ==
    /\ Running(p, "codegen") /\ step[p] = "written"
    /\ LET in == files[TempIn("codegen")]
       IN  \/ /\ in.there
              /\ Write(OutFile(p, "asm"), in)
              /\ UNCHANGED broken
           \/ /\ Write(OutFile(p, "asm"), Junk)
              /\ Break(p)
    /\ step' = [step EXCEPT ![p] = "ran"]
    /\ UNCHANGED <<opts, at, prog, status, ran, unread>>

FinishGenerator(p) ==
    /\ Running(p, "codegen") /\ step[p] = "ran"
    /\ Write(TempIn("codegen"), Absent)
    /\ GoTo(p, AfterCodegen(p))
    /\ UNCHANGED <<opts, prog, status, ran, broken, unread>>

AfterAssembly(p) == IF opts[p].emitObj THEN "run" ELSE "link"

\* NASM's exit code is checked.
Assemble(p) ==
    /\ Running(p, "nasm")
    /\ \/ /\ files[OutFile(p, "asm")].there
          /\ Write(OutFile(p, "obj"), files[OutFile(p, "asm")])
          /\ GoTo(p, AfterAssembly(p))
          /\ UNCHANGED <<status, broken>>
       \/ /\ \E c \in {Absent, files[OutFile(p, "obj")]} : Write(OutFile(p, "obj"), c)
          /\ Exit(p, "failed")
          /\ Break(p)
    /\ UNCHANGED <<opts, prog, ran, unread>>

\* Mutation of LinkInternal: the linker's result is not looked at.
LinkUnchecked(p) ==
    /\ Running(p, "link")
    /\ "linker" \notin opts[p].tools
    /\ \/ Write(OutFile(p, "exe"), files[OutFile(p, "obj")]) /\ files[OutFile(p, "obj")].there
       \/ UNCHANGED files
    /\ GoTo(p, "run")
    /\ UNCHANGED <<opts, prog, ran, broken, status, unread>>

\* linkCoffObjectToPeExe reads the object, and writes the executable only when
\* everything has been resolved.
LinkInternal(p) ==
    /\ Running(p, "link")
    /\ "linker" \notin opts[p].tools
    /\ \/ /\ files[OutFile(p, "obj")].there
          /\ Write(OutFile(p, "exe"), files[OutFile(p, "obj")])
          /\ GoTo(p, "run")
          /\ UNCHANGED status
       \/ Exit(p, "failed") /\ UNCHANGED files
    /\ UNCHANGED <<opts, prog, ran, broken, unread>>

\* The external linker's exit code is ignored.
LinkExternal(p) ==
    /\ Running(p, "link")
    /\ "linker" \in opts[p].tools
    /\ \/ /\ files[OutFile(p, "obj")].there
          /\ Write(OutFile(p, "exe"), files[OutFile(p, "obj")])
          /\ UNCHANGED broken
       \/ /\ \E c \in {Junk, files[OutFile(p, "exe")]} : Write(OutFile(p, "exe"), c)
          /\ Break(p)
    /\ GoTo(p, "run")
    /\ UNCHANGED <<opts, prog, status, ran, unread>>

\* --run starts whatever is at the executable's path, also when this run has
\* not linked; the exit code of the program decides.
Finish(p) ==
    /\ Running(p, "run")
    /\ IF opts[p].run
       THEN /\ ran' = [ran EXCEPT ![p] = files[OutFile(p, "exe")]]
            /\ Exit(p, "failed") \/ (files[OutFile(p, "exe")].there /\ Exit(p, "ok"))
       ELSE Exit(p, "ok") /\ UNCHANGED ran
    /\ UNCHANGED <<opts, prog, files, broken, unread>>

----------------------------------------------------------------------------
Init ==
    /\ opts \in [Procs -> OptionSets]
    /\ at = [p \in Procs |-> "tokenizer"]
    /\ step = [p \in Procs |-> "begin"]
    /\ prog = [p \in Procs |-> Own(p)]
    /\ unread \in {{}, Decoded}
    /\ \E c \in {Absent, Old} :
         files = [f \in TempFiles \cup OutFiles |->
                    IF f \in OutFiles THEN c ELSE IF f[2] \in unread THEN Junk ELSE Absent]
    /\ status = [p \in Procs |-> "running"]
    /\ ran = [p \in Procs |-> Absent]
    /\ broken = {}

Step(p) ==
    \/ \E s \in FrontEnd : InternalStage(p, s) \/ WriteToolInput(p, s) \/ RunTool(p, s)
    \/ TokenizerMissing(p) \/ ReadTokens(p) \/ ReadExpansion(p) \/ ReadAst(p)
    \/ DiscardLowering(p)
    \/ GenerateCode(p) \/ WriteGeneratorInput(p) \/ RunGenerator(p) \/ FinishGenerator(p)
    \/ Assemble(p) \/ LinkInternal(p) \/ LinkExternal(p)
    \/ Finish(p)

Next == \E p \in Procs : Step(p)

Spec == Init /\ [][Next]_vars

----------------------------------------------------------------------------
(* Properties *)

\* Every variable stays in its type, and a compiler leaves its stages exactly
\* when it reports how the compilation went.
TypeOK ==
    /\ opts \in [Procs -> OptionSets]
    /\ at \in [Procs -> Stages]
    /\ step \in [Procs -> {"begin", "written", "ran", "failed"}]
    /\ prog \in [Procs -> Content] /\ ran \in [Procs -> Content]
    /\ files \in [TempFiles \cup OutFiles -> Content]
    /\ status \in [Procs -> {"running", "ok", "failed"}]
    /\ broken \subseteq Procs /\ unread \subseteq Decoded
    /\ \A p \in Procs : (status[p] = "running") = (at[p] # "ended")

\* The temporary files of an external stage are there only while some compiler
\* is between writing its input and reading its output, or since an exception
\* ended the reading of the tokenizer's or the macro expander's output.  After
\* such an exception they stay until the next compilation that gets through
\* that stage; every other stage removes them whether or not its tool worked,
\* and however the compilers overlapped.
TempsRemoved ==
    \A s \in (FrontEnd \cup {"codegen"}) \ unread :
        (\A p \in Procs : at[p] # s \/ step[p] = "begin") =>
            ~files[TempIn(s)].there /\ (s # "codegen" => ~files[TempOut(s)].there)

\* p shares neither its output path nor the temporary files of an external
\* stage with another compiler.
Isolated(p) ==
    \A q \in Procs \ {p} :
        /\ opts[q].out # opts[p].out
        /\ opts[q].tools \cap opts[p].tools \subseteq {"linker"}

\* The external stages of p are ones whose result the compiler makes use of,
\* they worked, and the source is one that a macro expander can be given.
ToolsSound(p) ==
    /\ opts[p].tools \cap {"parser", "comptime"} = {}
    /\ p \notin broken
    /\ External(p, "macro") => opts[p].plain

\* What the last message of the compilation names.
Announced(p) == IF opts[p].emitObj THEN "obj" ELSE IF opts[p].noLink THEN "asm" ELSE "exe"

\* A compilation that reports success has produced what it announces, from its
\* own source, and not found there what an earlier or a concurrent compilation
\* left: for every mix of internal and external stages, as long as no other
\* compiler uses the same files.
AnnouncesItsOwn ==
    \A p \in Procs :
        (/\ status[p] = "ok" /\ opts[p].dump = "none"
         /\ ~(opts[p].emitObj /\ opts[p].noLink)
         /\ Isolated(p) /\ ToolsSound(p))
        => files[OutFile(p, Announced(p))] = Own(p)

\* --run after a complete build runs the program that was built, never an
\* executable left at that path.
RunsItsOwn ==
    \A p \in Procs :
        (/\ ran[p].there /\ ~opts[p].emitObj /\ ~opts[p].noLink
         /\ Isolated(p) /\ ToolsSound(p))
        => ran[p] = Own(p)

\* The files a command line excludes are left alone: all of them by the dump
\* options, the object and the executable by --no-link, the executable by
\* --emit-obj.
Excluded(o) ==
    (IF o.dump # "none" THEN {"asm", "obj", "exe"} ELSE {})
    \cup (IF o.noLink THEN {"obj", "exe"} ELSE {})
    \cup (IF o.emitObj THEN {"exe"} ELSE {})

\* No step of any compiler touches an output that is excluded by the command
\* lines of all the compilers that share its path.
StopsWhereTold ==
    [][\A f \in OutFiles :
         (\A p \in Procs : opts[p].out = f[1] => f[2] \in Excluded(opts[p]))
         => files'[f] = files[f]]_vars

\* docs/README.md: --run runs the output of a successful build.
RunsWhatItBuilt == \A p \in Procs : ran[p].there => ran[p].src = p

\* docs/BOOTSTRAP.md: a tool that is missing or fails ends the compilation.
BrokenToolAborts == \A p \in broken : status[p] # "ok"
=============================================================================
