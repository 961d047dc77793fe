---------------------------- MODULE DriverProofs ----------------------------
(***************************************************************************)
(* Proofs about Driver, for any number of compilers in one directory, any  *)
(* output paths and any command lines.                                     *)
(***************************************************************************)
EXTENDS Driver, TLAPS

-----------------------------------------------------------------------------
(* The files                                                               *)

\* The stages that have temporary files.
Exts == FrontEnd \cup {"codegen"}

LEMMA TempFilesDiffer ==
    ASSUME NEW s \in Exts, NEW t \in Exts
    PROVE  /\ TempIn(s) \in TempFiles /\ (s # "codegen" => TempOut(s) \in TempFiles)
           /\ TempIn(s) # TempOut(t)
           /\ s # t => TempIn(s) # TempIn(t) /\ TempOut(s) # TempOut(t)
BY DEF Exts, FrontEnd, TempFiles, TempIn, TempOut

LEMMA TempFilesAll ==
    ASSUME NEW f \in TempFiles
    PROVE  \E s \in Exts : f = TempIn(s) \/ (s # "codegen" /\ f = TempOut(s))
BY DEF Exts, FrontEnd, TempFiles

\* An output path with its extension is never the name of a temporary file.
LEMMA OutFileDiffers ==
    ASSUME NEW p, opts[p].out \in Outs, NEW k \in {"asm", "obj", "exe"}
    PROVE  /\ OutFile(p, k) \in OutFiles
           /\ \A s \in Exts : OutFile(p, k) # TempIn(s) /\ OutFile(p, k) # TempOut(s)
           /\ OutFile(p, k) \notin TempFiles
BY DEF Exts, FrontEnd, OutFile, OutFiles, TempFiles, TempIn, TempOut

LEMMA OutFilesDiffer ==
    ASSUME NEW p, NEW q, NEW k, NEW l, k # l \/ opts[p].out # opts[q].out
    PROVE  OutFile(p, k) # OutFile(q, l)
BY DEF OutFile

-----------------------------------------------------------------------------
(* The inductive invariant                                                 *)

\* What a program in memory can be, and a temporary file that is there: never
\* something left by an earlier run.
Live == {Junk} \cup [src : Procs, good : BOOLEAN, there : {TRUE}]

\* Only an external stage has steps.
Control ==
    /\ at \in [Procs -> Stages]
    /\ step \in [Procs -> {"begin", "written", "ran", "failed"}]
    /\ status \in [Procs -> {"running", "ok", "failed"}]
    /\ \A p \in Procs : (status[p] = "running") = (at[p] # "ended")
    /\ \A p \in Procs : step[p] # "begin" =>
         /\ at[p] \in Exts /\ at[p] \in opts[p].tools
         /\ ~(at[p] = "macro" /\ opts[p].stdin)

Data ==
    /\ opts \in [Procs -> OptionSets]
    /\ prog \in [Procs -> Live]
    /\ ran \in [Procs -> Content]
    /\ files \in [TempFiles \cup OutFiles -> Content]
    /\ \A f \in TempFiles : files[f] \in Live \cup {Absent}
    /\ broken \subseteq Procs /\ unread \subseteq Decoded

\* The dump options and those that leave out stages have been obeyed.
Route ==
    \A p \in Procs :
        /\ at[p] = "comptime" => opts[p].dump # "tokens"
        /\ at[p] \in {"codegen", "nasm", "link", "run"} => opts[p].dump = "none"
        /\ at[p] \in {"nasm", "link"} => ~opts[p].noLink
        /\ at[p] = "link" => ~opts[p].emitObj

\* p has got its outputs from its own source so far.
Alone(p) == Isolated(p) /\ ToolsSound(p)

\* The stages after which an output is there: of those that get past
\* compile-time evaluation and do not fail.
Through(p) == (status[p] = "ok" /\ opts[p].dump = "none") \/ at[p] = "run"

OwnFiles ==
    \A p \in Procs : Alone(p) =>
        /\ prog[p] = Own(p)
        /\ step[p] # "failed"
        /\ step[p] = "written" => files[TempIn(at[p])] = Own(p)
        /\ step[p] = "ran" /\ at[p] \in FrontEnd => files[TempOut(at[p])] = Own(p)
        /\ step[p] = "ran" /\ at[p] = "codegen" => files[OutFile(p, "asm")] = Own(p)
        /\ Through(p) \/ at[p] \in {"nasm", "link"} => files[OutFile(p, "asm")] = Own(p)
        /\ (Through(p) /\ ~opts[p].noLink) \/ at[p] = "link" => files[OutFile(p, "obj")] = Own(p)
        /\ Through(p) /\ ~opts[p].noLink /\ ~opts[p].emitObj =>
              files[OutFile(p, "exe")] = Own(p)
        /\ ran[p].there /\ ~opts[p].noLink /\ ~opts[p].emitObj => ran[p] = Own(p)

DInv == Control /\ Data /\ Route /\ TempsRemoved /\ OwnFiles

LEMMA OptionsOf ==
    ASSUME Data, NEW p \in Procs
    PROVE  opts[p].out \in Outs /\ opts[p].dump \in {"none", "tokens", "ast"}
BY OptionsAssumption DEF Data, Options

LEMMA SpoiltRecord ==
    ASSUME NEW a, NEW b, NEW c
    PROVE  /\ Spoilt([src |-> a, good |-> b, there |-> c]) = [src |-> a, good |-> FALSE, there |-> c]
           /\ [src |-> a, good |-> b, there |-> c].there = c
<1>1. ASSUME NEW v
      PROVE  [[src |-> a, good |-> b, there |-> c] EXCEPT !.good = v]
                = [src |-> a, good |-> v, there |-> c]
  OBVIOUS
<1>2. [src |-> a, good |-> b, there |-> c].there = c  OBVIOUS
<1>3. QED  BY <1>1, <1>2 DEF Spoilt

LEMMA LiveFacts ==
    /\ Live \subseteq Content /\ Absent \in Content /\ Junk \in Live
    /\ \A p \in Procs : Own(p) \in Live
    /\ \A c \in Live : Spoilt(c) \in Live /\ c.there
    /\ ~Absent.there
    /\ \A p : Own(p) # Junk /\ Own(p).there
<1>1. Live \subseteq Content /\ Absent \in Content /\ Junk \in Live
  BY DEF Live, Content
<1>2. \A p \in Procs : Own(p) \in Live
  BY DEF Live, Own
<1>3. ASSUME NEW c \in Live  PROVE Spoilt(c) \in Live /\ c.there
  <2>1. CASE c = Junk
    <3>1. Spoilt(Junk) = Junk /\ Junk.there  BY SpoiltRecord DEF Junk
    <3>2. QED  BY <2>1, <3>1, <1>1
  <2>2. CASE c \in [src : Procs, good : BOOLEAN, there : {TRUE}]
    <3>1. Spoilt(c) \in [src : Procs, good : BOOLEAN, there : {TRUE}]
      BY <2>2 DEF Spoilt
    <3>2. c.there  BY <2>2
    <3>3. QED  BY <3>1, <3>2 DEF Live
  <2>3. QED  BY <2>1, <2>2 DEF Live
<1>4. ~Absent.there  BY DEF Absent
<1>5. \A p : Own(p).there /\ Own(p).good /\ ~Junk.good  BY DEF Own, Junk
<1>6. QED  BY <1>1, <1>2, <1>3, <1>4, <1>5

LEMMA InitDInv == Init => DInv
<1> SUFFICES ASSUME Init PROVE DInv  OBVIOUS
<1>1. Control  BY DEF Init, Control, Stages
<1>2. PICK c \in {Absent, Old} :
        files = [f \in TempFiles \cup OutFiles |->
                   IF f \in OutFiles THEN c ELSE IF f[2] \in unread THEN Junk ELSE Absent]
  BY DEF Init
<1>3. \A f \in TempFiles : f \notin OutFiles
  <2>1. \A s \in Exts : TempIn(s) \notin OutFiles /\ TempOut(s) \notin OutFiles
    BY DEF Exts, FrontEnd, OutFiles, TempIn, TempOut
  <2>2. QED  BY <2>1, TempFilesAll
<1>4. c \in Content  BY DEF Content
<1>5. Data
  BY <1>2, <1>3, <1>4, LiveFacts DEF Init, Data
<1>6. Route  BY DEF Init, Route
<1>7. TempsRemoved
  <2> SUFFICES ASSUME NEW s \in Exts, s \notin unread
               PROVE  ~files[TempIn(s)].there /\ (s # "codegen" => ~files[TempOut(s)].there)
    BY DEF TempsRemoved, Exts
  <2>1. TempIn(s)[2] = s /\ TempOut(s)[2] = s  BY DEF TempIn, TempOut
  <2>2. QED  BY <1>2, <1>3, <2>1, LiveFacts, TempFilesDiffer
<1>8. OwnFiles
  BY LiveFacts DEF Init, OwnFiles, Through
<1>9. QED  BY <1>1, <1>5, <1>6, <1>7, <1>8 DEF DInv

-----------------------------------------------------------------------------
(* What every step has in common: it is one of some p, and touches nothing *)
(* of the other compilers but files that are p's too                       *)

Others(p) ==
    \A q \in Procs \ {p} : /\ at'[q] = at[q] /\ step'[q] = step[q] /\ status'[q] = status[q]
                           /\ prog'[q] = prog[q] /\ ran'[q] = ran[q]

TempOf(s) == {TempIn(s)} \cup (IF s = "codegen" THEN {} ELSE {TempOut(s)})
OutOf(p)  == {OutFile(p, k) : k \in {"asm", "obj", "exe"}}

\* The files p can write at stage s.
Written(p, s) == IF s \in Exts \cap opts[p].tools THEN TempOf(s) \cup OutOf(p) ELSE OutOf(p)

WritesOnly(p) ==
    \A f \in TempFiles \cup OutFiles : f \notin Written(p, at[p]) => files'[f] = files[f]

Busy(p, s) == at[p] = s /\ step[p] # "begin"

\* p is in no step of an external stage before the action nor after it, or it
\* is in one after it, or it has removed the stage's files, or left them after
\* an exception.
TempsOf(p) ==
    \/ /\ step[p] = "begin" /\ step'[p] = "begin" /\ unread' = unread
       /\ \A f \in TempFiles : files'[f] = files[f]
    \/ step'[p] # "begin" /\ at'[p] = at[p] /\ unread' = unread
    \/ /\ step'[p] = "begin" /\ unread' = unread \ {at[p]}
       /\ \A f \in TempOf(at[p]) : ~files'[f].there
    \/ step'[p] = "begin" /\ unread' = unread \cup {at[p]}

LEMMA TempsKept ==
    ASSUME DInv, NEW p \in Procs, Others(p), WritesOnly(p), TempsOf(p), Control', Data'
    PROVE  TempsRemoved'
<1> SUFFICES ASSUME NEW s \in Exts, s \notin unread', \A q \in Procs : ~Busy(q, s)'
             PROVE  ~files'[TempIn(s)].there /\ (s # "codegen" => ~files'[TempOut(s)].there)
  BY Zenon DEF TempsRemoved, Exts, Busy
<1>1. \A f \in TempOf(s) : f \in TempFiles /\ f \notin OutOf(p)
  <2>1. opts[p].out \in Outs  BY OptionsOf DEF DInv
  <2>2. QED  BY <2>1, OutFileDiffers, TempFilesDiffer DEF TempOf, OutOf
<1>2. \A q \in Procs \ {p} : ~Busy(q, s)  BY DEF Others, Busy
<1>3. TempsRemoved  BY DEF DInv
<1>4. CASE ~Busy(p, s) /\ s \notin unread
  <2>1. \A f \in TempOf(s) : ~files[f].there
    BY <1>2, <1>3, <1>4 DEF TempsRemoved, Busy, TempOf, Exts
  <2>2. CASE s # at[p]
    <3>1. \A f \in TempOf(s) : f \notin Written(p, at[p])
      BY <1>1, <2>2, TempFilesDiffer DEF TempOf, Written
    <3>2. QED  BY <2>1, <3>1, <1>1 DEF WritesOnly, TempOf
  <2>3. CASE s = at[p]
    <3>1. ~Busy(p, s)'  OBVIOUS
    <3>2. QED  BY <2>1, <2>3, <3>1, <1>1, <1>4 DEF TempsOf, TempOf, Busy
  <2>4. QED  BY <2>2, <2>3
<1>5. CASE Busy(p, s) \/ s \in unread
  <2>1. ~Busy(p, s)'  OBVIOUS
  <2>2. \A f \in TempOf(s) : ~files'[f].there
    BY <2>1, <1>5 DEF TempsOf, Busy
  <2>3. QED  BY <2>2 DEF TempOf
<1>6. QED  BY <1>4, <1>5

OwnOf(p) ==
    /\ prog[p] = Own(p)
    /\ step[p] # "failed"
    /\ step[p] = "written" => files[TempIn(at[p])] = Own(p)
    /\ step[p] = "ran" /\ at[p] \in FrontEnd => files[TempOut(at[p])] = Own(p)
    /\ step[p] = "ran" /\ at[p] = "codegen" => files[OutFile(p, "asm")] = Own(p)
    /\ Through(p) \/ at[p] \in {"nasm", "link"} => files[OutFile(p, "asm")] = Own(p)
    /\ (Through(p) /\ ~opts[p].noLink) \/ at[p] = "link" => files[OutFile(p, "obj")] = Own(p)
    /\ Through(p) /\ ~opts[p].noLink /\ ~opts[p].emitObj => files[OutFile(p, "exe")] = Own(p)
    /\ ran[p].there /\ ~opts[p].noLink /\ ~opts[p].emitObj => ran[p] = Own(p)

\* A compiler that is alone with its files keeps them while another works.
LEMMA OthersKeep ==
    ASSUME DInv, NEW p \in Procs, Others(p), WritesOnly(p), opts' = opts,
           NEW q \in Procs \ {p}, Alone(q), OwnOf(q)
    PROVE  OwnOf(q)'
<1>1. opts[p].out # opts[q].out /\ opts[q].tools \cap opts[p].tools \subseteq {"linker"}
  BY DEF Alone, Isolated
<1>2. opts[q].out \in Outs /\ opts[p].out \in Outs  BY OptionsOf DEF DInv
<1>3. ASSUME NEW k \in {"asm", "obj", "exe"}
      PROVE  files'[OutFile(q, k)] = files[OutFile(q, k)] /\ OutFile(q, k)' = OutFile(q, k)
  <2>1. OutFile(q, k) \notin OutOf(p)  BY <1>1, OutFilesDiffer DEF OutOf
  <2>2. \A s \in Exts : OutFile(q, k) \notin TempOf(s)
    BY <1>2, OutFileDiffers DEF TempOf
  <2>3. OutFile(q, k) \in OutFiles  BY <1>2, OutFileDiffers
  <2>4. OutFile(q, k) \notin Written(p, at[p])  BY <2>1, <2>2 DEF Written
  <2>5. QED  BY <2>3, <2>4 DEF WritesOnly, OutFile
<1>4. ASSUME step[q] # "begin", NEW f \in TempOf(at[q])
      PROVE  files'[f] = files[f]
  <2>1. at[q] \in Exts /\ at[q] \in opts[q].tools  BY <1>4 DEF DInv, Control
  <2>2. at[q] # "linker"  BY <2>1 DEF Exts, FrontEnd
  <2>3. at[q] \notin opts[p].tools  BY <1>1, <2>1, <2>2
  <2>4. f \in TempFiles  BY <1>4, <2>1, TempFilesDiffer DEF TempOf
  <2>5. f \notin OutOf(p)  BY <1>2, <2>4, OutFileDiffers DEF OutOf
  <2>6. ASSUME NEW s \in Exts, s # at[q]  PROVE f \notin TempOf(s)
    BY <1>4, <2>1, <2>6, TempFilesDiffer DEF TempOf
  <2>7. f \notin Written(p, at[p])  BY <2>3, <2>5, <2>6 DEF Written
  <2>8. QED  BY <2>4, <2>7 DEF WritesOnly
<1>5. /\ at'[q] = at[q] /\ step'[q] = step[q] /\ status'[q] = status[q]
      /\ prog'[q] = prog[q] /\ ran'[q] = ran[q] /\ Through(q)' = Through(q)
  BY DEF Others, Through
<1>6. Own(q)' = Own(q) /\ TempIn(at[q])' = TempIn(at[q]) /\ TempOut(at[q])' = TempOut(at[q])
  BY <1>5 DEF Own, TempIn, TempOut
<1>7. step[q] = "written" => files'[TempIn(at[q])] = files[TempIn(at[q])]
  BY <1>4 DEF TempOf
<1>8. step[q] = "ran" /\ at[q] \in FrontEnd => files'[TempOut(at[q])] = files[TempOut(at[q])]
  BY <1>4 DEF TempOf, FrontEnd
<1>9. QED  BY <1>3, <1>5, <1>6, <1>7, <1>8 DEF OwnOf

RouteOf(p) ==
    /\ at[p] = "comptime" => opts[p].dump # "tokens"
    /\ at[p] \in {"codegen", "nasm", "link", "run"} => opts[p].dump = "none"
    /\ at[p] \in {"nasm", "link"} => ~opts[p].noLink
    /\ at[p] = "link" => ~opts[p].emitObj

LEMMA Preserved ==
    ASSUME DInv, NEW p \in Procs, opts' = opts, broken \subseteq broken',
           Others(p), WritesOnly(p), TempsOf(p), Control', Data', RouteOf(p)',
           Alone(p)' /\ Alone(p) /\ OwnOf(p) => OwnOf(p)'
    PROVE  DInv'
<1>1. TempsRemoved'  BY TempsKept
<1>2. Route'
  <2>1. \A q \in Procs \ {p} : RouteOf(q)'
    BY DEF DInv, Route, RouteOf, Others
  <2>2. \A q \in Procs : RouteOf(q)'  BY <2>1
  <2>3. QED  BY <2>2 DEF Route, RouteOf
<1>3. ASSUME NEW q \in Procs, Alone(q)'  PROVE OwnOf(q)'
  <2>1. Alone(q)  BY <1>3 DEF Alone, Isolated, ToolsSound, External
  <2>2. OwnOf(q)  BY <2>1 DEF DInv, OwnFiles, OwnOf
  <2>3. CASE q = p  BY <2>1, <2>2, <2>3, <1>3
  <2>4. CASE q # p  BY <2>1, <2>2, <2>4, OthersKeep
  <2>5. QED  BY <2>3, <2>4
<1>4. OwnFiles'  BY <1>3 DEF OwnFiles, OwnOf
<1>5. QED  BY <1>1, <1>2, <1>4 DEF DInv

-----------------------------------------------------------------------------
(* The three ways a step leaves p: at the beginning of another stage, ended, *)
(* or further in an external one                                           *)

Goes(p, s)  == at'[p] = s /\ step'[p] = "begin" /\ status'[p] = "running"
Ends(p, how) == at'[p] = "ended" /\ step'[p] = "begin" /\ status'[p] = how
OtherControl(p) ==
    \A q \in Procs \ {p} : at'[q] = at[q] /\ step'[q] = step[q] /\ status'[q] = status[q]

LEMMA Going ==
    ASSUME Control, NEW p \in Procs, status[p] = "running", NEW s \in Stages, s # "ended",
           GoTo(p, s), status' = status, opts' = opts
    PROVE  Control' /\ Goes(p, s) /\ OtherControl(p)
<1>1. /\ at' \in [Procs -> Stages] /\ step' \in [Procs -> {"begin", "written", "ran", "failed"}]
      /\ Goes(p, s) /\ OtherControl(p)
  BY DEF Control, GoTo, Goes, OtherControl
<1>2. QED  BY <1>1 DEF Control, Goes, OtherControl

LEMMA Ending ==
    ASSUME Control, NEW p \in Procs, NEW how \in {"ok", "failed"}, Exit(p, how), opts' = opts
    PROVE  Control' /\ Ends(p, how) /\ OtherControl(p)
<1>1. /\ at' \in [Procs -> Stages] /\ step' \in [Procs -> {"begin", "written", "ran", "failed"}]
      /\ status' \in [Procs -> {"running", "ok", "failed"}]
      /\ Ends(p, how) /\ OtherControl(p)
  BY DEF Control, Exit, Ends, OtherControl, Stages
<1>2. QED  BY <1>1 DEF Control, Ends, OtherControl

LEMMA Staying ==
    ASSUME Control, NEW p \in Procs, NEW x \in {"written", "ran", "failed"},
           at[p] \in Exts, at[p] \in opts[p].tools, ~(at[p] = "macro" /\ opts[p].stdin),
           step' = [step EXCEPT ![p] = x], at' = at, status' = status, opts' = opts
    PROVE  Control' /\ at'[p] = at[p] /\ step'[p] = x /\ status'[p] = status[p] /\ OtherControl(p)
<1>1. step' \in [Procs -> {"begin", "written", "ran", "failed"}]
      /\ step'[p] = x /\ \A q \in Procs \ {p} : step'[q] = step[q]
  BY DEF Control
<1>2. QED  BY <1>1 DEF Control, OtherControl

\* What leaving a stage of the front end does to p's route.
LEMMA Leaving ==
    ASSUME DInv, NEW p \in Procs, NEW s \in FrontEnd, Running(p, s), Leave(p, s), opts' = opts
    PROVE  /\ Control' /\ OtherControl(p) /\ step'[p] = "begin"
           /\ RouteOf(p)'
           /\ (\E t \in FrontEnd \cup {"codegen"} : Goes(p, t))
              \/ (Ends(p, "ok") /\ opts[p].dump # "none")
<1>1. Control /\ opts[p].dump \in {"none", "tokens", "ast"}
  BY OptionsOf DEF DInv
<1>2. CASE (s = "parser" /\ opts[p].dump = "tokens") \/ (s = "comptime" /\ opts[p].dump = "ast")
  <2>1. Exit(p, "ok")  BY <1>2 DEF Leave
  <2>2. Control' /\ Ends(p, "ok") /\ OtherControl(p)  BY <1>1, <2>1, Ending
  <2>3. QED  BY <2>2, <1>2 DEF Ends, RouteOf
<1>3. CASE ~((s = "parser" /\ opts[p].dump = "tokens") \/ (s = "comptime" /\ opts[p].dump = "ast"))
  <2> DEFINE t == After(s)
  <2>1. GoTo(p, t) /\ status' = status  BY <1>3 DEF Leave
  <2>2. t \in FrontEnd \cup {"codegen"} /\ (t = "comptime" <=> s = "parser")
        /\ (t = "codegen" <=> s = "comptime")
    BY DEF After, FrontEnd
  <2> HIDE DEF t
  <2>3. t \in Stages /\ t # "ended"  BY <2>2 DEF Stages, FrontEnd
  <2>4. Control' /\ Goes(p, t) /\ OtherControl(p)
    BY <1>1, <2>1, <2>3, Going DEF Running
  <2>5. at[p] = s /\ (s = "comptime" => opts[p].dump # "tokens")
    BY DEF DInv, Route, Running
  <2>6. RouteOf(p)'
    BY <1>1, <1>3, <2>2, <2>4, <2>5 DEF Goes, RouteOf, FrontEnd
  <2>7. QED  BY <2>2, <2>4, <2>6 DEF Goes
<1>4. QED  BY <1>2, <1>3

-----------------------------------------------------------------------------
(* Files after a step                                                      *)

FilesTyped ==
    /\ files \in [TempFiles \cup OutFiles -> Content]
    /\ \A f \in TempFiles : files[f] \in Live \cup {Absent}

LEMMA Writing ==
    ASSUME FilesTyped, NEW f \in TempFiles \cup OutFiles, NEW c \in Content, Write(f, c),
           f \in TempFiles => c \in Live \cup {Absent}
    PROVE  /\ FilesTyped' /\ files'[f] = c
           /\ \A g \in TempFiles \cup OutFiles : g # f => files'[g] = files[g]
BY DEF FilesTyped, Write

LEMMA Removing ==
    ASSUME FilesTyped, NEW s \in FrontEnd, RemoveTemps(s)
    PROVE  /\ FilesTyped' /\ \A f \in TempOf(s) : f \in TempFiles /\ ~files'[f].there
           /\ \A f \in TempFiles \cup OutFiles : f \notin TempOf(s) => files'[f] = files[f]
<1>1. s \in Exts /\ s # "codegen"  BY DEF Exts, FrontEnd
<1>2. TempIn(s) \in TempFiles /\ TempOut(s) \in TempFiles /\ TempIn(s) # TempOut(s)
  BY <1>1, TempFilesDiffer
<1>3. TempOf(s) = {TempIn(s), TempOut(s)}  BY <1>1 DEF TempOf
<1>4. files' = [files EXCEPT ![TempIn(s)] = Absent, ![TempOut(s)] = Absent]
  BY DEF RemoveTemps
<1>5. /\ files' \in [TempFiles \cup OutFiles -> Content]
      /\ files'[TempIn(s)] = Absent /\ files'[TempOut(s)] = Absent
      /\ \A f \in TempFiles \cup OutFiles :
           f # TempIn(s) /\ f # TempOut(s) => files'[f] = files[f]
  BY <1>2, <1>4, LiveFacts DEF FilesTyped
<1>6. \A f \in TempFiles : files'[f] \in Live \cup {Absent}
  BY <1>5 DEF FilesTyped
<1>7. QED  BY <1>2, <1>3, <1>5, <1>6, LiveFacts DEF FilesTyped

LEMMA DataFrom ==
    ASSUME Data, opts' = opts, prog' \in [Procs -> Live], ran' \in [Procs -> Content],
           FilesTyped', broken' \subseteq Procs, unread' \subseteq unread \cup Decoded
    PROVE  Data'
BY DEF Data, FilesTyped

LEMMA DataFacts ==
    ASSUME DInv
    PROVE  /\ Control /\ Data /\ FilesTyped
           /\ opts \in [Procs -> OptionSets] /\ prog \in [Procs -> Live] /\ ran \in [Procs -> Content]
           /\ broken \subseteq Procs /\ unread \subseteq Decoded
           /\ at \in [Procs -> Stages]
           /\ step \in [Procs -> {"begin", "written", "ran", "failed"}]
BY DEF DInv, Data, FilesTyped, Control

\* p has neither come to an output nor reported one.
LEMMA EarlyOwn ==
    ASSUME NEW p \in Procs, OwnOf(p), prog'[p] = Own(p), ran'[p] = ran[p], opts' = opts,
           step'[p] = "begin", at'[p] \notin {"nasm", "link", "run"},
           status'[p] = "ok" => opts[p].dump # "none"
    PROVE  OwnOf(p)'
<1>1. ~Through(p)'  BY DEF Through
<1>2. Own(p)' = Own(p)  BY DEF Own
<1>3. QED  BY <1>1, <1>2 DEF OwnOf

LEMMA InternalStageKeeps ==
    ASSUME DInv, NEW p \in Procs, NEW s \in FrontEnd, InternalStage(p, s)
    PROVE  DInv'
<1>1. /\ Running(p, s) /\ ~External(p, s) /\ (Leave(p, s) \/ Exit(p, "failed"))
      /\ unread' = unread /\ opts' = opts /\ prog' = prog /\ files' = files /\ ran' = ran /\ broken' = broken
  BY DEF InternalStage
<1>2. step[p] = "begin"
  BY <1>1 DEF DInv, Control, Running, External
<1>3. /\ Control' /\ OtherControl(p) /\ step'[p] = "begin" /\ RouteOf(p)'
      /\ at'[p] \notin {"nasm", "link", "run"}
      /\ status'[p] = "ok" => opts[p].dump # "none"
  <2>1. CASE Leave(p, s)
    BY <1>1, <2>1, Leaving DEF Goes, Ends, FrontEnd
  <2>2. CASE Exit(p, "failed")
    <3>1. Control' /\ Ends(p, "failed") /\ OtherControl(p)
      BY <1>1, <2>2, Ending DEF DInv
    <3>2. QED  BY <3>1 DEF Ends, RouteOf
  <2>3. QED  BY <1>1, <2>1, <2>2
<1>4. Data'  BY <1>1, DataFacts, DataFrom DEF FilesTyped
<1>5. Others(p) /\ WritesOnly(p) /\ TempsOf(p)
  BY <1>1, <1>2, <1>3 DEF Others, OtherControl, WritesOnly, TempsOf
<1>6. OwnOf(p) => OwnOf(p)'
  <2>1. OwnOf(p) => prog[p] = Own(p)  BY DEF OwnOf
  <2>2. QED  BY <2>1, <1>1, <1>3, EarlyOwn
<1>7. QED  BY <1>1, <1>3, <1>4, <1>5, <1>6, Preserved

LEMMA TokenizerMissingKeeps ==
    ASSUME DInv, NEW p \in Procs, TokenizerMissing(p)
    PROVE  DInv'
<1>1. /\ Running(p, "tokenizer") /\ step[p] = "begin" /\ Leave(p, "tokenizer")
      /\ unread' = unread /\ opts' = opts /\ prog' = prog /\ files' = files /\ ran' = ran
      /\ broken' = broken \cup {p}
  BY DEF TokenizerMissing, Break
<1>2. "tokenizer" \in FrontEnd  BY DEF FrontEnd
<1>3. Control' /\ OtherControl(p) /\ step'[p] = "begin" /\ RouteOf(p)'
  BY <1>1, <1>2, Leaving
<1>4. Data'  BY <1>1, DataFacts, DataFrom DEF FilesTyped
<1>5. Others(p) /\ WritesOnly(p) /\ TempsOf(p)
  BY <1>1, <1>3 DEF Others, OtherControl, WritesOnly, TempsOf
<1>6. ~Alone(p)'  BY <1>1 DEF Alone, ToolsSound
<1>7. QED  BY <1>1, <1>3, <1>4, <1>5, <1>6, Preserved

\* The program in memory is what goes into the input of an external stage.
LEMMA WriteToolInputKeeps ==
    ASSUME DInv, NEW p \in Procs, NEW s \in FrontEnd, WriteToolInput(p, s)
    PROVE  DInv'
<1>1. /\ Running(p, s) /\ External(p, s) /\ Write(TempIn(s), prog[p])
      /\ step' = [step EXCEPT ![p] = "written"] /\ at' = at /\ status' = status
      /\ unread' = unread /\ opts' = opts /\ prog' = prog /\ ran' = ran /\ broken' = broken
  BY DEF WriteToolInput
<1>2. s \in Exts /\ at[p] = s /\ s \in opts[p].tools /\ ~(at[p] = "macro" /\ opts[p].stdin)
      /\ at[p] \in Exts /\ at[p] \in opts[p].tools
  BY <1>1 DEF Running, External, Exts
<1>3. Control' /\ at'[p] = at[p] /\ step'[p] = "written" /\ status'[p] = status[p] /\ OtherControl(p)
  BY <1>1, <1>2, DataFacts, Staying
<1>4. TempIn(s) \in TempFiles /\ prog[p] \in Live /\ prog[p] \in Content
  BY <1>2, DataFacts, LiveFacts, TempFilesDiffer
<1>5. /\ FilesTyped' /\ files'[TempIn(s)] = prog[p]
      /\ \A g \in TempFiles \cup OutFiles : g # TempIn(s) => files'[g] = files[g]
  BY <1>1, <1>4, DataFacts, Writing
<1>6. Data'  BY <1>1, <1>5, DataFacts, DataFrom
<1>7. Others(p) /\ WritesOnly(p) /\ TempsOf(p)
  BY <1>1, <1>2, <1>3, <1>5 DEF Others, OtherControl, WritesOnly, TempsOf, Written, TempOf
<1>8. RouteOf(p)'
  BY <1>1, <1>2, <1>3 DEF DInv, Route, RouteOf
<1>9. OwnOf(p) => OwnOf(p)'
  <2>1. Own(p)' = Own(p) /\ ~Through(p)' /\ at[p] \notin {"nasm", "link"}
    BY <1>1, <1>2, <1>3, DataFacts DEF Own, Through, Exts, FrontEnd, Control, Running
  <2>2. TempIn(at[p])' = TempIn(s)  BY <1>1, <1>2 DEF TempIn
  <2>3. QED  BY <2>1, <2>2, <1>1, <1>3, <1>5 DEF OwnOf
<1>10. QED  BY <1>1, <1>3, <1>6, <1>7, <1>8, <1>9, Preserved

-----------------------------------------------------------------------------
(* The external stages of the front end                                    *)

LEMMA RunToolKeeps ==
    ASSUME DInv, NEW p \in Procs, NEW s \in FrontEnd, RunTool(p, s)
    PROVE  DInv'
<1> DEFINE in == files[TempIn(s)]
<1>1. /\ Running(p, s) /\ step[p] = "written" /\ at' = at /\ status' = status
      /\ unread' = unread /\ opts' = opts /\ prog' = prog /\ ran' = ran
  BY DEF RunTool
<1>2. s \in Exts /\ s # "codegen" /\ at[p] = s /\ at[p] \in Exts /\ at[p] \in opts[p].tools
      /\ ~(at[p] = "macro" /\ opts[p].stdin)
  BY <1>1 DEF DInv, Control, Running, Exts, FrontEnd
<1>3. TempIn(s) \in TempFiles /\ TempOut(s) \in TempFiles
  BY <1>2, TempFilesDiffer
<1>4. \/ /\ in.there /\ Write(TempOut(s), in) /\ step' = [step EXCEPT ![p] = "ran"]
         /\ broken' = broken
      \/ /\ Write(TempOut(s), Junk)
         /\ \E x \in {"ran", "failed"} : step' = [step EXCEPT ![p] = x]
         /\ broken' = broken \cup {p}
  BY DEF RunTool, Break
<1>5. in \in Live \cup {Absent} /\ in \in Content
  BY <1>3, DataFacts DEF FilesTyped
<1>6. PICK c \in Live \cup {Absent}, x \in {"ran", "failed"} :
        /\ Write(TempOut(s), c) /\ step' = [step EXCEPT ![p] = x]
        /\ broken \subseteq broken' /\ broken' \subseteq Procs
        /\ (x = "ran" /\ c = in) \/ p \in broken'
  <2>1. broken \subseteq Procs /\ Junk \in Live  BY DataFacts, LiveFacts
  <2> HIDE DEF in
  <2>2. QED  BY <2>1, <1>4, <1>5
<1>7. Control' /\ at'[p] = at[p] /\ step'[p] = x /\ status'[p] = status[p] /\ OtherControl(p)
  BY <1>1, <1>2, <1>6, DataFacts, Staying
<1>8. c \in Content  BY LiveFacts
<1>9. /\ FilesTyped' /\ files'[TempOut(s)] = c
      /\ \A g \in TempFiles \cup OutFiles : g # TempOut(s) => files'[g] = files[g]
  BY <1>3, <1>6, <1>8, DataFacts, Writing
<1>10. Data'  BY <1>1, <1>6, <1>9, DataFacts, DataFrom
<1>11. Others(p) /\ WritesOnly(p) /\ TempsOf(p)
  BY <1>1, <1>2, <1>7, <1>9 DEF Others, OtherControl, WritesOnly, TempsOf, Written, TempOf
<1>12. RouteOf(p)'
  BY <1>1, <1>2, <1>7 DEF DInv, Route, RouteOf
<1>13. Alone(p)' /\ OwnOf(p) => OwnOf(p)'
  <2> SUFFICES ASSUME Alone(p)', OwnOf(p) PROVE OwnOf(p)'  OBVIOUS
  <2>1. x = "ran" /\ c = Own(p)
    BY <1>1, <1>2, <1>6 DEF Alone, ToolsSound, OwnOf
  <2>2. Own(p)' = Own(p) /\ ~Through(p)' /\ at[p] \notin {"nasm", "link"}
    BY <1>1, <1>2, <1>7, DataFacts DEF Own, Through, Exts, FrontEnd, Control, Running
  <2>3. TempOut(at[p])' = TempOut(s)  BY <1>1, <1>2 DEF TempOut
  <2> HIDE DEF in
  <2>4. QED  BY <2>1, <2>2, <2>3, <1>1, <1>2, <1>7, <1>9 DEF OwnOf
<1>14. QED  BY <1>1, <1>6, <1>7, <1>10, <1>11, <1>12, <1>13, Preserved

LEMMA ReadTyped ==
    ASSUME DInv, NEW s \in FrontEnd
    PROVE  Read(s) \in Live
<1>1. TempOut(s) \in TempFiles  BY TempFilesDiffer DEF Exts, FrontEnd
<1>2. files[TempOut(s)] \in Live \cup {Absent}  BY <1>1, DataFacts DEF FilesTyped
<1>3. QED  BY <1>2, LiveFacts DEF Read

\* The step with which an external stage ends: p has a program c, and the
\* temporary files are gone or, with an exception, left as they are.
LEMMA StageEnds ==
    ASSUME DInv, NEW p \in Procs, NEW s \in FrontEnd, Running(p, s), step[p] \in {"ran", "failed"},
           RemoveTemps(s) \/ (files' = files /\ s \in Decoded /\ unread' = unread \cup {s}),
           Leave(p, s) \/ Exit(p, "failed"),
           NEW c \in Live, prog' = [prog EXCEPT ![p] = c],
           opts' = opts, ran' = ran, broken' = broken,
           Alone(p) /\ OwnOf(p) => c = Own(p)
    PROVE  DInv'
<1>1. /\ at[p] = s /\ s \in Exts /\ s # "codegen" /\ s \in opts[p].tools
      /\ step[p] # "begin"
  BY DEF DInv, Control, Running, Exts, FrontEnd
<1>2. /\ Control' /\ OtherControl(p) /\ step'[p] = "begin" /\ RouteOf(p)'
      /\ at'[p] \notin {"nasm", "link", "run"}
      /\ status'[p] = "ok" => opts[p].dump # "none"
  <2>1. CASE Leave(p, s)
    BY <2>1, Leaving DEF Goes, Ends, FrontEnd
  <2>2. CASE Exit(p, "failed")
    <3>1. Control' /\ Ends(p, "failed") /\ OtherControl(p)
      BY <2>2, Ending DEF DInv
    <3>2. QED  BY <3>1 DEF Ends, RouteOf
  <2>3. QED  BY <2>1, <2>2
<1>3. /\ FilesTyped' /\ unread' \subseteq unread \cup Decoded
      /\ \A f \in TempFiles \cup OutFiles : f \notin TempOf(s) => files'[f] = files[f]
      /\ \/ unread' = unread \ {s} /\ \A f \in TempOf(s) : ~files'[f].there
         \/ unread' = unread \cup {s}
  <2>1. CASE RemoveTemps(s)
    <3>1. unread' = unread \ {s}  BY <2>1 DEF RemoveTemps
    <3>2. QED  BY <2>1, <3>1, DataFacts, Removing
  <2>2. CASE files' = files /\ s \in Decoded /\ unread' = unread \cup {s}
    BY <2>2, DataFacts DEF FilesTyped
  <2>3. QED  BY <2>1, <2>2
<1>4. prog' \in [Procs -> Live] /\ prog'[p] = c /\ \A q \in Procs \ {p} : prog'[q] = prog[q]
  BY DataFacts
<1>5. Data'  BY <1>3, <1>4, DataFacts, DataFrom
<1>6. Others(p) /\ WritesOnly(p) /\ TempsOf(p)
  BY <1>1, <1>2, <1>3, <1>4 DEF Others, OtherControl, WritesOnly, TempsOf, Written
<1>7. Alone(p) /\ OwnOf(p) => OwnOf(p)'
  BY <1>2, <1>4, EarlyOwn
<1>8. QED  BY <1>2, <1>5, <1>6, <1>7, Preserved

LEMMA ThrowKeeps ==
    ASSUME DInv, NEW p \in Procs, NEW s \in Decoded, Running(p, s), step[p] \in {"ran", "failed"},
           Throw(p, s), opts' = opts, ran' = ran, broken' = broken
    PROVE  DInv'
<1>1. /\ Exit(p, "failed") /\ unread' = unread \cup {s} /\ prog' = prog /\ files' = files
  BY DEF Throw
<1>2. s \in FrontEnd  BY DEF Decoded, FrontEnd
<1>3. prog' = [prog EXCEPT ![p] = prog[p]] /\ prog[p] \in Live  BY <1>1, DataFacts
<1>4. OwnOf(p) => prog[p] = Own(p)  BY DEF OwnOf
<1>5. QED  BY <1>1, <1>2, <1>3, <1>4, StageEnds

LEMMA ReadTokensKeeps ==
    ASSUME DInv, NEW p \in Procs, ReadTokens(p)
    PROVE  DInv'
<1> DEFINE c == IF step[p] = "ran" THEN Read("tokenizer") ELSE prog[p]
<1>1. /\ Running(p, "tokenizer") /\ step[p] \in {"ran", "failed"}
      /\ opts' = opts /\ ran' = ran /\ broken' = broken
  BY DEF ReadTokens
<1>2. "tokenizer" \in FrontEnd /\ "tokenizer" \in Decoded  BY DEF FrontEnd, Decoded
<1>3. c \in Live  BY <1>2, DataFacts, ReadTyped
<1>4. Alone(p) /\ OwnOf(p) => c = Own(p)
  BY <1>1, <1>2, LiveFacts DEF OwnOf, Read, Running
<1>5. \/ /\ prog' = [prog EXCEPT ![p] = c] /\ RemoveTemps("tokenizer")
         /\ Leave(p, "tokenizer")
      \/ Throw(p, "tokenizer")
  BY DEF ReadTokens
<1> HIDE DEF c
<1>6. QED  BY <1>1, <1>2, <1>3, <1>4, <1>5, StageEnds, ThrowKeeps

LEMMA ReadExpansionKeeps ==
    ASSUME DInv, NEW p \in Procs, ReadExpansion(p)
    PROVE  DInv'
<1> DEFINE r == Read("macro")
           c == IF OneInALine(r) THEN r ELSE Spoilt(r)
<1>1. /\ Running(p, "macro") /\ step[p] \in {"ran", "failed"}
      /\ opts' = opts /\ ran' = ran /\ broken' = broken
  BY DEF ReadExpansion
<1>2. "macro" \in FrontEnd /\ "macro" \in Decoded  BY DEF FrontEnd, Decoded
<1>3. r \in Live /\ prog[p] \in Live  BY <1>2, DataFacts, ReadTyped
<1>4. Alone(p) /\ OwnOf(p) => r = Own(p)
  BY <1>1, <1>2, LiveFacts DEF OwnOf, Read, Running
<1>5. Alone(p) => OneInALine(Own(p))
  <2>1. "macro" \in opts[p].tools /\ ~opts[p].stdin
    BY <1>1 DEF DInv, Control, Running
  <2>2. QED  BY <2>1 DEF Alone, ToolsSound, External, OneInALine, Own
<1>6. CASE Throw(p, "macro")  BY <1>1, <1>2, <1>6, ThrowKeeps
<1>7. CASE prog' = [prog EXCEPT ![p] = c] /\ RemoveTemps("macro") /\ Leave(p, "macro")
  <2>1. c \in Live  BY <1>3, LiveFacts
  <2>2. Alone(p) /\ OwnOf(p) => c = Own(p)  BY <1>4, <1>5
  <2> HIDE DEF c
  <2>3. QED  BY <2>1, <2>2, <1>1, <1>2, <1>7, StageEnds
<1>8. CASE /\ r = Junk /\ prog' = [prog EXCEPT ![p] = Spoilt(prog[p])]
           /\ RemoveTemps("macro") /\ Leave(p, "macro")
  <2>1. Spoilt(prog[p]) \in Live  BY <1>3, LiveFacts
  <2>2. ~(Alone(p) /\ OwnOf(p))  BY <1>4, <1>8, LiveFacts
  <2>3. QED  BY <2>1, <2>2, <1>1, <1>2, <1>8, StageEnds
<1>9. QED  BY <1>6, <1>7, <1>8 DEF ReadExpansion

LEMMA ReadAstKeeps ==
    ASSUME DInv, NEW p \in Procs, ReadAst(p)
    PROVE  DInv'
<1>1. /\ Running(p, "parser") /\ step[p] \in {"ran", "failed"} /\ RemoveTemps("parser")
      /\ opts' = opts /\ ran' = ran /\ broken' = broken
  BY DEF ReadAst
<1>2. "parser" \in FrontEnd  BY DEF FrontEnd
<1>3. "parser" \in opts[p].tools  BY <1>1 DEF DInv, Control, Running
<1>4. ~Alone(p)  BY <1>3 DEF Alone, ToolsSound
<1>5. CASE step[p] = "failed"
  <2>1. Exit(p, "failed") /\ prog' = prog  BY <1>5 DEF ReadAst
  <2>2. prog' = [prog EXCEPT ![p] = prog[p]] /\ prog[p] \in Live  BY <2>1, DataFacts
  <2>3. QED  BY <2>1, <2>2, <1>1, <1>2, <1>4, StageEnds
<1>6. CASE step[p] = "ran"
  <2>1. Leave(p, "parser") /\ prog' = [prog EXCEPT ![p] = Spoilt(Read("parser"))]
    BY <1>6 DEF ReadAst
  <2>2. Spoilt(Read("parser")) \in Live  BY <1>2, ReadTyped, LiveFacts
  <2>3. QED  BY <2>1, <2>2, <1>1, <1>2, <1>4, StageEnds
<1>7. QED  BY <1>1, <1>5, <1>6

LEMMA DiscardLoweringKeeps ==
    ASSUME DInv, NEW p \in Procs, DiscardLowering(p)
    PROVE  DInv'
<1>1. /\ Running(p, "comptime") /\ step[p] \in {"ran", "failed"} /\ RemoveTemps("comptime")
      /\ Leave(p, "comptime") /\ prog' = [prog EXCEPT ![p] = Spoilt(prog[p])]
      /\ opts' = opts /\ ran' = ran /\ broken' = broken
  BY DEF DiscardLowering
<1>2. "comptime" \in FrontEnd  BY DEF FrontEnd
<1>3. "comptime" \in opts[p].tools  BY <1>1 DEF DInv, Control, Running
<1>4. ~Alone(p)  BY <1>3 DEF Alone, ToolsSound
<1>5. Spoilt(prog[p]) \in Live  BY DataFacts, LiveFacts
<1>6. QED  BY <1>1, <1>2, <1>4, <1>5, StageEnds

-----------------------------------------------------------------------------
(* Code generation, assembly, linking, running                             *)

LEMMA OutWritten ==
    ASSUME DInv, NEW p \in Procs, NEW k \in {"asm", "obj", "exe"}, NEW c \in Content,
           Write(OutFile(p, k), c)
    PROVE  /\ FilesTyped' /\ files'[OutFile(p, k)] = c
           /\ \A l \in {"asm", "obj", "exe"} : l # k => files'[OutFile(p, l)] = files[OutFile(p, l)]
           /\ WritesOnly(p) /\ \A f \in TempFiles : files'[f] = files[f]
<1> DEFINE g == OutFile(p, k)
<1>1. opts[p].out \in Outs  BY OptionsOf DEF DInv
<1>2. g \in OutFiles /\ g \notin TempFiles /\ g \in OutOf(p)
  BY <1>1, OutFileDiffers DEF OutOf
<1>3. \A l \in {"asm", "obj", "exe"} : OutFile(p, l) \in OutFiles /\ (l # k => OutFile(p, l) # g)
  BY <1>1, OutFileDiffers, OutFilesDiffer
<1>4. Write(g, c)  OBVIOUS
<1> HIDE DEF g
<1>5. /\ FilesTyped' /\ files'[g] = c
      /\ \A f \in TempFiles \cup OutFiles : f # g => files'[f] = files[f]
  BY <1>2, <1>4, DataFacts, Writing
<1>6. g \in Written(p, at[p])  BY <1>2 DEF Written
<1>7. WritesOnly(p)  BY <1>5, <1>6 DEF WritesOnly
<1>8. \A f \in TempFiles : files'[f] = files[f]  BY <1>2, <1>5
<1>9. QED  BY <1>3, <1>5, <1>7, <1>8 DEF g

\* A step after the front end that goes on to another stage, or ends.
LEMMA LateStep ==
    ASSUME DInv, NEW p \in Procs, Control', OtherControl(p), step[p] = "begin", step'[p] = "begin",
           WritesOnly(p), \A f \in TempFiles : files'[f] = files[f], FilesTyped',
           unread' = unread, opts' = opts, prog' = prog, broken \subseteq broken', broken' \subseteq Procs,
           ran' \in [Procs -> Content], \A q \in Procs \ {p} : ran'[q] = ran[q],
           RouteOf(p)', Alone(p)' /\ Alone(p) /\ OwnOf(p) => OwnOf(p)'
    PROVE  DInv'
<1>1. Data'  BY DataFacts, DataFrom
<1>2. Others(p) /\ TempsOf(p)  BY DEF Others, OtherControl, TempsOf
<1>3. QED  BY <1>1, <1>2, Preserved

LEMMA LateFailure ==
    ASSUME DInv, NEW p \in Procs, step[p] = "begin", Exit(p, "failed"),
           WritesOnly(p), \A f \in TempFiles : files'[f] = files[f], FilesTyped',
           unread' = unread, opts' = opts, prog' = prog, broken \subseteq broken', broken' \subseteq Procs,
           ran' = ran
    PROVE  DInv'
<1>1. Control' /\ Ends(p, "failed") /\ OtherControl(p)
  BY Ending, DataFacts
<1>2. RouteOf(p)'  BY <1>1 DEF Ends, RouteOf
<1>3. OwnOf(p) => OwnOf(p)'
  <2>1. OwnOf(p) => prog[p] = Own(p)  BY DEF OwnOf
  <2>2. QED  BY <1>1, <2>1, EarlyOwn DEF Ends
<1>4. QED  BY <1>1, <1>2, <1>3, LateStep, DataFacts DEF Ends

LEMMA NothingWritten ==
    ASSUME DInv, NEW p \in Procs, files' = files
    PROVE  WritesOnly(p) /\ FilesTyped' /\ \A f \in TempFiles : files'[f] = files[f]
BY DataFacts DEF WritesOnly, FilesTyped

LEMMA GoingFromCodegen ==
    ASSUME DInv, NEW p \in Procs, Running(p, "codegen"), GoTo(p, AfterCodegen(p)),
           status' = status, opts' = opts
    PROVE  /\ Control' /\ OtherControl(p) /\ RouteOf(p)'
           /\ Goes(p, AfterCodegen(p)) /\ AfterCodegen(p) = IF opts[p].noLink THEN "run" ELSE "nasm"
<1>1. AfterCodegen(p) = IF opts[p].noLink THEN "run" ELSE "nasm"  BY DEF AfterCodegen
<1>2. AfterCodegen(p) \in Stages /\ AfterCodegen(p) # "ended"  BY <1>1 DEF Stages
<1>3. Control' /\ Goes(p, AfterCodegen(p)) /\ OtherControl(p)
  BY <1>2, DataFacts, Going DEF Running
<1>4. opts[p].dump = "none"  BY DEF DInv, Route, Running
<1>5. RouteOf(p)'  BY <1>1, <1>3, <1>4 DEF Goes, RouteOf
<1>6. QED  BY <1>1, <1>3, <1>5

\* With an .asm file of its own, p has what it needs after code generation.
LEMMA OwnFromCodegen ==
    ASSUME NEW p \in Procs, OwnOf(p), Goes(p, IF opts[p].noLink THEN "run" ELSE "nasm"),
           opts' = opts, prog' = prog, ran' = ran, files'[OutFile(p, "asm")] = Own(p)
    PROVE  OwnOf(p)'
<1>1. /\ Own(p)' = Own(p) /\ OutFile(p, "asm")' = OutFile(p, "asm")
      /\ Through(p)' => opts[p].noLink
      /\ at'[p] # "link" /\ step'[p] = "begin"
  BY DEF Own, OutFile, Through, Goes
<1>2. QED  BY <1>1 DEF OwnOf

LEMMA GenerateCodeKeeps ==
    ASSUME DInv, NEW p \in Procs, GenerateCode(p)
    PROVE  DInv'
<1>1. /\ Running(p, "codegen") /\ "codegen" \notin opts[p].tools
      /\ unread' = unread /\ opts' = opts /\ prog' = prog /\ ran' = ran /\ broken' = broken
  BY DEF GenerateCode
<1>2. step[p] = "begin"  BY <1>1 DEF DInv, Control, Running
<1>3. prog[p] \in Content  BY DataFacts, LiveFacts
<1>4. CASE Write(OutFile(p, "asm"), prog[p]) /\ GoTo(p, AfterCodegen(p)) /\ status' = status
  <2>1. /\ FilesTyped' /\ files'[OutFile(p, "asm")] = prog[p]
        /\ WritesOnly(p) /\ \A f \in TempFiles : files'[f] = files[f]
    BY <1>3, <1>4, OutWritten
  <2>2. /\ Control' /\ OtherControl(p) /\ RouteOf(p)'
        /\ Goes(p, IF opts[p].noLink THEN "run" ELSE "nasm")
    BY <1>1, <1>4, GoingFromCodegen
  <2>3. OwnOf(p) => OwnOf(p)'
    <3>1. OwnOf(p) => prog[p] = Own(p)  BY DEF OwnOf
    <3>2. QED  BY <3>1, <2>1, <2>2, <1>1, OwnFromCodegen
  <2>4. step'[p] = "begin"  BY <2>2 DEF Goes
  <2>5. QED  BY <1>1, <1>2, <2>1, <2>2, <2>3, <2>4, LateStep, DataFacts
<1>5. CASE Exit(p, "failed") /\ files' = files
  BY <1>1, <1>2, <1>5, NothingWritten, LateFailure, DataFacts
<1>6. QED  BY <1>4, <1>5 DEF GenerateCode

LEMMA WriteGeneratorInputKeeps ==
    ASSUME DInv, NEW p \in Procs, WriteGeneratorInput(p)
    PROVE  DInv'
<1>1. /\ Running(p, "codegen") /\ "codegen" \in opts[p].tools
      /\ Write(TempIn("codegen"), prog[p])
      /\ step' = [step EXCEPT ![p] = "written"] /\ at' = at /\ status' = status
      /\ unread' = unread /\ opts' = opts /\ prog' = prog /\ ran' = ran /\ broken' = broken
  BY DEF WriteGeneratorInput
<1>2. "codegen" \in Exts /\ at[p] = "codegen"  BY <1>1 DEF Running, Exts
<1>3. Control' /\ at'[p] = at[p] /\ step'[p] = "written" /\ status'[p] = status[p] /\ OtherControl(p)
  BY <1>1, <1>2, DataFacts, Staying
<1>4. TempIn("codegen") \in TempFiles /\ prog[p] \in Live /\ prog[p] \in Content
  BY <1>2, DataFacts, LiveFacts, TempFilesDiffer
<1>5. /\ FilesTyped' /\ files'[TempIn("codegen")] = prog[p]
      /\ \A g \in TempFiles \cup OutFiles : g # TempIn("codegen") => files'[g] = files[g]
  BY <1>1, <1>4, DataFacts, Writing
<1>6. Data'  BY <1>1, <1>5, DataFacts, DataFrom
<1>7. Others(p) /\ WritesOnly(p) /\ TempsOf(p)
  BY <1>1, <1>2, <1>3, <1>5 DEF Others, OtherControl, WritesOnly, TempsOf, Written, TempOf
<1>8. RouteOf(p)'
  BY <1>1, <1>2, <1>3 DEF DInv, Route, RouteOf
<1>9. OwnOf(p) => OwnOf(p)'
  <2>1. Own(p)' = Own(p) /\ ~Through(p)'
    BY <1>1, <1>2, <1>3 DEF Own, Through, Running
  <2>2. TempIn(at[p])' = TempIn("codegen")  BY <1>1, <1>2 DEF TempIn
  <2>3. QED  BY <2>1, <2>2, <1>1, <1>2, <1>3, <1>5 DEF OwnOf
<1>10. QED  BY <1>1, <1>3, <1>6, <1>7, <1>8, <1>9, Preserved

LEMMA RunGeneratorKeeps ==
    ASSUME DInv, NEW p \in Procs, RunGenerator(p)
    PROVE  DInv'
<1> DEFINE in == files[TempIn("codegen")]
<1>1. /\ Running(p, "codegen") /\ step[p] = "written" /\ at' = at /\ status' = status
      /\ step' = [step EXCEPT ![p] = "ran"]
      /\ unread' = unread /\ opts' = opts /\ prog' = prog /\ ran' = ran
  BY DEF RunGenerator
<1>2. /\ "codegen" \in Exts /\ at[p] = "codegen" /\ at[p] \in opts[p].tools
  BY <1>1 DEF DInv, Control, Running, Exts
<1>3. TempIn("codegen") \in TempFiles  BY <1>2, TempFilesDiffer
<1>4. in \in Content  BY <1>3, DataFacts DEF FilesTyped
<1>5. PICK c \in Content :
        /\ Write(OutFile(p, "asm"), c)
        /\ broken \subseteq broken' /\ broken' \subseteq Procs
        /\ c = in \/ p \in broken'
  <2>1. \/ Write(OutFile(p, "asm"), in) /\ broken' = broken
        \/ Write(OutFile(p, "asm"), Junk) /\ broken' = broken \cup {p}
    BY DEF RunGenerator, Break
  <2>2. broken \subseteq Procs /\ Junk \in Content  BY DataFacts, LiveFacts
  <2> HIDE DEF in
  <2>3. QED  BY <2>1, <2>2, <1>4
<1>6. Control' /\ at'[p] = at[p] /\ step'[p] = "ran" /\ status'[p] = status[p] /\ OtherControl(p)
  BY <1>1, <1>2, DataFacts, Staying
<1>7. /\ FilesTyped' /\ files'[OutFile(p, "asm")] = c
      /\ WritesOnly(p) /\ \A f \in TempFiles : files'[f] = files[f]
  BY <1>5, OutWritten
<1>8. Data'  BY <1>1, <1>5, <1>7, DataFacts, DataFrom
<1>9. Others(p) /\ TempsOf(p)
  BY <1>1, <1>6 DEF Others, OtherControl, TempsOf
<1>10. RouteOf(p)'
  BY <1>1, <1>2, <1>6 DEF DInv, Route, RouteOf
<1>11. Alone(p)' /\ OwnOf(p) => OwnOf(p)'
  <2> SUFFICES ASSUME Alone(p)', OwnOf(p) PROVE OwnOf(p)'  OBVIOUS
  <2>1. c = Own(p)
    BY <1>1, <1>2, <1>5 DEF Alone, ToolsSound, OwnOf
  <2>2. Own(p)' = Own(p) /\ ~Through(p)' /\ OutFile(p, "asm")' = OutFile(p, "asm")
    BY <1>1, <1>2, <1>6 DEF Own, Through, Running, OutFile
  <2>3. at'[p] = "codegen" /\ "codegen" \notin FrontEnd  BY <1>2, <1>6 DEF FrontEnd
  <2>4. QED  BY <2>1, <2>2, <2>3, <1>1, <1>6, <1>7 DEF OwnOf
<1>12. QED  BY <1>1, <1>5, <1>6, <1>7, <1>8, <1>9, <1>10, <1>11, Preserved

LEMMA FinishGeneratorKeeps ==
    ASSUME DInv, NEW p \in Procs, FinishGenerator(p)
    PROVE  DInv'
<1>1. /\ Running(p, "codegen") /\ step[p] = "ran" /\ Write(TempIn("codegen"), Absent)
      /\ GoTo(p, AfterCodegen(p)) /\ status' = status
      /\ unread' = unread /\ opts' = opts /\ prog' = prog /\ ran' = ran /\ broken' = broken
  BY DEF FinishGenerator
<1>2. at[p] = "codegen" /\ "codegen" \in Exts /\ "codegen" \in opts[p].tools
  BY <1>1 DEF DInv, Control, Running, Exts
<1>3. TempIn("codegen") \in TempFiles  BY <1>2, TempFilesDiffer
<1>4. /\ FilesTyped' /\ files'[TempIn("codegen")] = Absent
      /\ \A g \in TempFiles \cup OutFiles : g # TempIn("codegen") => files'[g] = files[g]
  BY <1>1, <1>3, DataFacts, LiveFacts, Writing
<1>5. /\ Control' /\ OtherControl(p) /\ RouteOf(p)'
      /\ Goes(p, IF opts[p].noLink THEN "run" ELSE "nasm")
  BY <1>1, GoingFromCodegen
<1>6. Data'  BY <1>1, <1>4, DataFacts, DataFrom
<1>7. Others(p) /\ WritesOnly(p) /\ TempsOf(p)
  BY <1>1, <1>2, <1>4, <1>5, LiveFacts
     DEF Others, OtherControl, WritesOnly, TempsOf, Written, TempOf, Goes
<1>8. OwnOf(p) => OwnOf(p)'
  <2>1. OutFile(p, "asm") \in OutFiles /\ OutFile(p, "asm") # TempIn("codegen")
    BY <1>2, OptionsOf, OutFileDiffers DEF DInv
  <2>2. files'[OutFile(p, "asm")] = files[OutFile(p, "asm")]  BY <1>4, <2>1
  <2>3. OwnOf(p) => files[OutFile(p, "asm")] = Own(p)  BY <1>1, <1>2 DEF OwnOf
  <2>4. QED  BY <2>2, <2>3, <1>1, <1>5, OwnFromCodegen
<1>9. QED  BY <1>1, <1>5, <1>6, <1>7, <1>8, Preserved

LEMMA LateBegin ==
    ASSUME DInv, NEW p \in Procs, at[p] \in {"nasm", "link", "run"}
    PROVE  /\ step[p] = "begin"
           /\ \A k \in {"asm", "obj", "exe"} : files[OutFile(p, k)] \in Content
<1>1. step[p] = "begin"  BY DEF DInv, Control, Exts, FrontEnd
<1>2. \A k \in {"asm", "obj", "exe"} : OutFile(p, k) \in OutFiles
  BY OptionsOf, OutFileDiffers DEF DInv
<1>3. QED  BY <1>1, <1>2, DataFacts DEF FilesTyped

LEMMA AssembleKeeps ==
    ASSUME DInv, NEW p \in Procs, Assemble(p)
    PROVE  DInv'
<1>1. Running(p, "nasm") /\ unread' = unread /\ opts' = opts /\ prog' = prog /\ ran' = ran /\ at[p] = "nasm"
  BY DEF Assemble, Running
<1>2. step[p] = "begin" /\ files[OutFile(p, "asm")] \in Content /\ files[OutFile(p, "obj")] \in Content
  BY <1>1, LateBegin
<1>3. CASE /\ Write(OutFile(p, "obj"), files[OutFile(p, "asm")])
           /\ GoTo(p, AfterAssembly(p)) /\ status' = status /\ broken' = broken
  <2> DEFINE t == IF opts[p].emitObj THEN "run" ELSE "link"
  <2>1. /\ FilesTyped' /\ files'[OutFile(p, "obj")] = files[OutFile(p, "asm")]
        /\ files'[OutFile(p, "asm")] = files[OutFile(p, "asm")]
        /\ WritesOnly(p) /\ \A f \in TempFiles : files'[f] = files[f]
    BY <1>2, <1>3, OutWritten
  <2>2. t \in Stages /\ t # "ended" /\ GoTo(p, t)  BY <1>3 DEF Stages, AfterAssembly
  <2>3. Control' /\ Goes(p, t) /\ OtherControl(p)
    <3> HIDE DEF t
    <3>1. QED  BY <1>1, <1>3, <2>2, DataFacts, Going DEF Running
  <2>4. opts[p].dump = "none" /\ ~opts[p].noLink  BY <1>1 DEF DInv, Route
  <2>5. RouteOf(p)'  BY <1>1, <2>3, <2>4 DEF Goes, RouteOf
  <2>6. OwnOf(p) => OwnOf(p)'
    <3> SUFFICES ASSUME OwnOf(p) PROVE OwnOf(p)'  OBVIOUS
    <3>1. files[OutFile(p, "asm")] = Own(p)  BY <1>1 DEF OwnOf
    <3>2. /\ Own(p)' = Own(p) /\ Through(p)' => opts[p].emitObj
          /\ OutFile(p, "asm")' = OutFile(p, "asm") /\ OutFile(p, "obj")' = OutFile(p, "obj")
          /\ step'[p] = "begin"
      BY <1>1, <2>3 DEF Own, OutFile, Through, Goes
    <3>3. QED  BY <3>1, <3>2, <2>1, <1>1 DEF OwnOf
  <2>7. step'[p] = "begin"  BY <2>3 DEF Goes
  <2>8. QED  BY <1>1, <1>2, <1>3, <2>1, <2>3, <2>5, <2>6, <2>7, LateStep, DataFacts
<1>4. CASE /\ \E c \in {Absent, files[OutFile(p, "obj")]} : Write(OutFile(p, "obj"), c)
           /\ Exit(p, "failed") /\ Break(p)
  <2>1. PICK c \in {Absent, files[OutFile(p, "obj")]} : Write(OutFile(p, "obj"), c)
    BY <1>4
  <2>2. c \in Content  BY <1>2, LiveFacts
  <2>3. FilesTyped' /\ WritesOnly(p) /\ \A f \in TempFiles : files'[f] = files[f]
    BY <2>1, <2>2, OutWritten
  <2>4. broken \subseteq broken' /\ broken' \subseteq Procs  BY <1>4, DataFacts DEF Break
  <2>5. QED  BY <1>1, <1>2, <1>4, <2>3, <2>4, LateFailure
<1>5. QED  BY <1>3, <1>4 DEF Assemble

\* Linking has put c at the executable's path.
LEMMA Linked ==
    ASSUME DInv, NEW p \in Procs, Running(p, "link"), NEW c \in Content,
           Write(OutFile(p, "exe"), c), GoTo(p, "run"), status' = status,
           unread' = unread, opts' = opts, prog' = prog, ran' = ran,
           broken \subseteq broken', broken' \subseteq Procs,
           c = files[OutFile(p, "obj")] \/ p \in broken'
    PROVE  DInv'
<1>1. at[p] = "link" /\ step[p] = "begin"  BY LateBegin DEF Running
<1>2. /\ FilesTyped' /\ files'[OutFile(p, "exe")] = c
      /\ files'[OutFile(p, "asm")] = files[OutFile(p, "asm")]
      /\ files'[OutFile(p, "obj")] = files[OutFile(p, "obj")]
      /\ WritesOnly(p) /\ \A f \in TempFiles : files'[f] = files[f]
  BY OutWritten
<1>3. Control' /\ Goes(p, "run") /\ OtherControl(p)
  BY DataFacts, Going DEF Running, Stages
<1>4. opts[p].dump = "none"  BY <1>1 DEF DInv, Route
<1>5. RouteOf(p)'  BY <1>3, <1>4 DEF Goes, RouteOf
<1>6. Alone(p)' /\ OwnOf(p) => OwnOf(p)'
  <2> SUFFICES ASSUME Alone(p)', OwnOf(p) PROVE OwnOf(p)'  OBVIOUS
  <2>1. files[OutFile(p, "asm")] = Own(p) /\ files[OutFile(p, "obj")] = Own(p)
    BY <1>1 DEF OwnOf
  <2>2. c = Own(p)  BY <2>1 DEF Alone, ToolsSound
  <2>3. /\ Own(p)' = Own(p) /\ step'[p] = "begin"
        /\ \A k : OutFile(p, k)' = OutFile(p, k)
    BY <1>3 DEF Own, OutFile, Goes
  <2>4. QED  BY <2>1, <2>2, <2>3, <1>2 DEF OwnOf
<1>7. step'[p] = "begin"  BY <1>3 DEF Goes
<1>8. QED  BY <1>1, <1>2, <1>3, <1>5, <1>6, <1>7, LateStep, DataFacts

LEMMA LinkInternalKeeps ==
    ASSUME DInv, NEW p \in Procs, LinkInternal(p)
    PROVE  DInv'
<1>1. /\ Running(p, "link") /\ at[p] = "link"
      /\ unread' = unread /\ opts' = opts /\ prog' = prog /\ ran' = ran /\ broken' = broken
  BY DEF LinkInternal, Running
<1>2. step[p] = "begin" /\ files[OutFile(p, "obj")] \in Content  BY <1>1, LateBegin
<1>3. CASE Write(OutFile(p, "exe"), files[OutFile(p, "obj")]) /\ GoTo(p, "run") /\ status' = status
  BY <1>1, <1>2, <1>3, Linked, DataFacts
<1>4. CASE Exit(p, "failed") /\ files' = files
  BY <1>1, <1>2, <1>4, NothingWritten, LateFailure, DataFacts
<1>5. QED  BY <1>3, <1>4 DEF LinkInternal

LEMMA LinkExternalKeeps ==
    ASSUME DInv, NEW p \in Procs, LinkExternal(p)
    PROVE  DInv'
<1>1. /\ Running(p, "link") /\ at[p] = "link" /\ GoTo(p, "run")
      /\ unread' = unread /\ opts' = opts /\ prog' = prog /\ ran' = ran /\ status' = status
  BY DEF LinkExternal, Running
<1>2. files[OutFile(p, "obj")] \in Content /\ files[OutFile(p, "exe")] \in Content
  BY <1>1, LateBegin
<1>3. CASE Write(OutFile(p, "exe"), files[OutFile(p, "obj")]) /\ broken' = broken
  BY <1>1, <1>2, <1>3, Linked, DataFacts
<1>4. CASE (\E c \in {Junk, files[OutFile(p, "exe")]} : Write(OutFile(p, "exe"), c)) /\ Break(p)
  <2>1. PICK c \in {Junk, files[OutFile(p, "exe")]} : Write(OutFile(p, "exe"), c)
    BY <1>4
  <2>2. c \in Content  BY <1>2, LiveFacts
  <2>3. broken \subseteq broken' /\ broken' \subseteq Procs /\ p \in broken'
    BY <1>4, DataFacts DEF Break
  <2>4. QED  BY <1>1, <2>1, <2>2, <2>3, Linked
<1>5. QED  BY <1>3, <1>4 DEF LinkExternal

LEMMA FinishKeeps ==
    ASSUME DInv, NEW p \in Procs, Finish(p)
    PROVE  DInv'
<1>1. /\ Running(p, "run") /\ at[p] = "run"
      /\ unread' = unread /\ opts' = opts /\ prog' = prog /\ files' = files /\ broken' = broken
  BY DEF Finish, Running
<1>2. step[p] = "begin" /\ files[OutFile(p, "exe")] \in Content  BY <1>1, LateBegin
<1>3. /\ ran' = [ran EXCEPT ![p] = files[OutFile(p, "exe")]] \/ ran' = ran
      /\ Exit(p, "failed") \/ Exit(p, "ok")
  BY DEF Finish
<1>4. PICK how \in {"ok", "failed"} : Exit(p, how)  BY <1>3
<1>5. Control' /\ Ends(p, how) /\ OtherControl(p)
  BY <1>1, <1>4, Ending, DataFacts
<1>6. RouteOf(p)'  BY <1>5 DEF Ends, RouteOf
<1>7. /\ ran' \in [Procs -> Content] /\ \A q \in Procs \ {p} : ran'[q] = ran[q]
      /\ ran'[p] = files[OutFile(p, "exe")] \/ ran'[p] = ran[p]
  BY <1>2, <1>3, DataFacts
<1>8. OwnOf(p) => OwnOf(p)'
  <2> SUFFICES ASSUME OwnOf(p) PROVE OwnOf(p)'  OBVIOUS
  <2>1. Through(p)  BY <1>1 DEF Through
  <2>2. /\ Own(p)' = Own(p) /\ step'[p] = "begin" /\ at'[p] = "ended"
        /\ \A k : OutFile(p, k)' = OutFile(p, k)
    BY <1>1, <1>5 DEF Own, OutFile, Ends
  <2>3. QED  BY <2>1, <2>2, <1>1, <1>7 DEF OwnOf
<1>9. step'[p] = "begin"  BY <1>5 DEF Ends
<1>10. QED  BY <1>1, <1>2, <1>5, <1>6, <1>7, <1>8, <1>9, NothingWritten, LateStep, DataFacts

-----------------------------------------------------------------------------
(* The invariant holds, and the properties follow from it                  *)

LEMMA StutterKeeps ==
    ASSUME DInv, UNCHANGED vars
    PROVE  DInv'
<1>1. /\ opts' = opts /\ at' = at /\ step' = step /\ prog' = prog /\ files' = files
      /\ status' = status /\ ran' = ran /\ broken' = broken /\ unread' = unread
  BY DEF vars
<1>2. Control' /\ Data' /\ Route'  BY <1>1 DEF DInv, Control, Data, Route
<1>3. TempsRemoved'  BY <1>1 DEF DInv, TempsRemoved
<1>4. \A p : Alone(p)' = Alone(p) /\ Through(p)' = Through(p) /\ Own(p)' = Own(p)
             /\ (\A k : OutFile(p, k)' = OutFile(p, k))
  BY <1>1 DEF Alone, Isolated, ToolsSound, External, Through, Own, OutFile
<1>5. \A p : TempIn(at[p])' = TempIn(at[p]) /\ TempOut(at[p])' = TempOut(at[p])
  BY <1>1 DEF TempIn, TempOut
<1>6. OwnFiles'  BY <1>1, <1>4, <1>5 DEF DInv, OwnFiles
<1>7. QED  BY <1>2, <1>3, <1>6 DEF DInv

LEMMA StepDInv == DInv /\ [Next]_vars => DInv'
<1> SUFFICES ASSUME DInv, [Next]_vars PROVE DInv'  OBVIOUS
<1>1. ASSUME NEW p \in Procs, Step(p)  PROVE DInv'
  <2>1. CASE \E s \in FrontEnd : InternalStage(p, s) \/ WriteToolInput(p, s) \/ RunTool(p, s)
    BY <2>1, InternalStageKeeps, WriteToolInputKeeps, RunToolKeeps
  <2>2. CASE TokenizerMissing(p)  BY <2>2, TokenizerMissingKeeps
  <2>3. CASE ReadTokens(p)  BY <2>3, ReadTokensKeeps
  <2>4. CASE ReadExpansion(p)  BY <2>4, ReadExpansionKeeps
  <2>5. CASE ReadAst(p)  BY <2>5, ReadAstKeeps
  <2>6. CASE DiscardLowering(p)  BY <2>6, DiscardLoweringKeeps
  <2>7. CASE GenerateCode(p)  BY <2>7, GenerateCodeKeeps
  <2>8. CASE WriteGeneratorInput(p)  BY <2>8, WriteGeneratorInputKeeps
  <2>9. CASE RunGenerator(p)  BY <2>9, RunGeneratorKeeps
  <2>10. CASE FinishGenerator(p)  BY <2>10, FinishGeneratorKeeps
  <2>11. CASE Assemble(p)  BY <2>11, AssembleKeeps
  <2>12. CASE LinkInternal(p)  BY <2>12, LinkInternalKeeps
  <2>13. CASE LinkExternal(p)  BY <2>13, LinkExternalKeeps
  <2>14. CASE Finish(p)  BY <2>14, FinishKeeps
  <2>15. QED
    BY <1>1, <2>1, <2>2, <2>3, <2>4, <2>5, <2>6, <2>7, <2>8, <2>9, <2>10, <2>11, <2>12,
       <2>13, <2>14 DEF Step
<1>2. CASE UNCHANGED vars  BY <1>2, StutterKeeps
<1>3. QED  BY <1>1, <1>2 DEF Next

THEOREM Inductive == Spec => []DInv
BY InitDInv, StepDInv, PTL DEF Spec

\* The compilers' variables stay in their types, and a compiler has ended
\* exactly when it has reported success or failure.
THEOREM TypeCorrect == Spec => []TypeOK
<1>1. DInv => TypeOK
  <2>1. Live \subseteq Content  BY LiveFacts
  <2>2. QED  BY <2>1 DEF DInv, Control, Data, TypeOK
<1>2. QED  BY <1>1, Inductive, PTL

\* The fs::remove calls of the external stages leave no temporary file behind,
\* however many compilers work in the directory and whether or not their tools
\* work; what stays is what an exception in stoi or stoull left at the tokenizer
\* or the macro expander, until that stage is got through again.
THEOREM NoTempsLeft == Spec => []TempsRemoved
<1>1. DInv => TempsRemoved  BY DEF DInv
<1>2. QED  BY <1>1, Inductive, PTL

\* A successful compile names an output made from its own source: nothing stale
\* and nothing of another compilation gets into it.
THEOREM AnnouncedIsOwn == Spec => []AnnouncesItsOwn
<1>1. ASSUME DInv PROVE AnnouncesItsOwn
  <2>1. ASSUME NEW p \in Procs, status[p] = "ok", opts[p].dump = "none",
               ~(opts[p].emitObj /\ opts[p].noLink), Isolated(p), ToolsSound(p)
        PROVE  files[OutFile(p, Announced(p))] = Own(p)
    <3>1. Through(p) /\ Alone(p)  BY <2>1 DEF Through, Alone
    <3>2. OwnOf(p)  BY <1>1, <3>1 DEF DInv, OwnFiles, OwnOf
    <3>3. QED  BY <2>1, <3>1, <3>2 DEF OwnOf, Announced
  <2>2. QED  BY <2>1 DEF AnnouncesItsOwn
<1>2. QED  BY <1>1, Inductive, PTL

\* What --run starts after a complete build is the program of that build.
THEOREM RunIsOwn == Spec => []RunsItsOwn
<1>1. DInv => RunsItsOwn
  BY DEF DInv, OwnFiles, Alone, RunsItsOwn
<1>2. QED  BY <1>1, Inductive, PTL

LEMMA OneFileChanges ==
    ASSUME FilesTyped, NEW g, NEW c, Write(g, c), NEW f \in OutFiles, files'[f] # files[f]
    PROVE  f = g
BY DEF FilesTyped, Write

LEMMA TempsAreNoOutputs ==
    ASSUME NEW s \in Exts, NEW f \in OutFiles
    PROVE  f # TempIn(s) /\ f # TempOut(s)
<1>1. TempIn(s) \notin OutFiles /\ TempOut(s) \notin OutFiles
  BY DEF Exts, FrontEnd, OutFiles, TempIn, TempOut
<1>2. QED  BY <1>1

\* Only three kinds of steps change an output: one that writes the .asm file,
\* one that writes the object, one that writes the executable.
LEMMA OutputChange ==
    ASSUME DInv, NEW p \in Procs, Step(p), NEW f \in OutFiles, files'[f] # files[f]
    PROVE  \E k \in {"asm", "obj", "exe"} : f = OutFile(p, k) /\ k \notin Excluded(opts[p])
<1>1. FilesTyped  BY DataFacts
<1>2. CASE \E s \in FrontEnd : InternalStage(p, s) \/ WriteToolInput(p, s) \/ RunTool(p, s)
  <2>1. PICK s \in FrontEnd : InternalStage(p, s) \/ WriteToolInput(p, s) \/ RunTool(p, s)
    BY <1>2
  <2>2. f = TempIn(s) \/ f = TempOut(s)
    BY <1>1, <2>1, OneFileChanges DEF InternalStage, WriteToolInput, RunTool
  <2>3. QED  BY <2>2, TempsAreNoOutputs DEF Exts
<1>3. CASE ReadTokens(p) \/ ReadExpansion(p) \/ ReadAst(p) \/ DiscardLowering(p)
  <2>1. PICK s \in FrontEnd : RemoveTemps(s)
    BY <1>3 DEF ReadTokens, ReadExpansion, ReadAst, DiscardLowering, Throw, FrontEnd
  <2>2. f \in TempOf(s)  BY <1>1, <2>1, Removing
  <2>3. QED  BY <2>2, TempsAreNoOutputs DEF TempOf, Exts
<1>4. CASE WriteGeneratorInput(p) \/ FinishGenerator(p)
  <2>1. f = TempIn("codegen")
    BY <1>1, <1>4, OneFileChanges DEF WriteGeneratorInput, FinishGenerator
  <2>2. QED  BY <2>1, TempsAreNoOutputs DEF Exts
<1>5. CASE GenerateCode(p) \/ RunGenerator(p)
  <2>1. f = OutFile(p, "asm") /\ at[p] = "codegen"
    BY <1>1, <1>5, OneFileChanges DEF GenerateCode, RunGenerator, Running
  <2>2. opts[p].dump = "none"  BY <2>1 DEF DInv, Route
  <2>3. QED  BY <2>1, <2>2 DEF Excluded
<1>6. CASE Assemble(p)
  <2>1. f = OutFile(p, "obj") /\ at[p] = "nasm"
    BY <1>1, <1>6, OneFileChanges DEF Assemble, Running
  <2>2. opts[p].dump = "none" /\ ~opts[p].noLink  BY <2>1 DEF DInv, Route
  <2>3. QED  BY <2>1, <2>2 DEF Excluded
<1>7. CASE LinkInternal(p) \/ LinkExternal(p)
  <2>1. f = OutFile(p, "exe") /\ at[p] = "link"
    BY <1>1, <1>7, OneFileChanges DEF LinkInternal, LinkExternal, Running
  <2>2. opts[p].dump = "none" /\ ~opts[p].noLink /\ ~opts[p].emitObj
    BY <2>1 DEF DInv, Route
  <2>3. QED  BY <2>1, <2>2 DEF Excluded
<1>8. CASE TokenizerMissing(p) \/ Finish(p)
  BY <1>8 DEF TokenizerMissing, Finish
<1>9. QED  BY <1>2, <1>3, <1>4, <1>5, <1>6, <1>7, <1>8 DEF Step

\* --dump-tokens, --dump-ast, --no-link and --emit-obj keep the compiler from
\* the files they exclude: no step changes one that is excluded by all the
\* command lines naming its path.
THEOREM OutputsLeftAlone == Spec => StopsWhereTold
<1> DEFINE Excl(f) == \A p \in Procs : opts[p].out = f[1] => f[2] \in Excluded(opts[p])
           A == \A f \in OutFiles : Excl(f) => files'[f] = files[f]
<1>1. ASSUME DInv, [Next]_vars  PROVE [A]_vars
  <2>1. CASE UNCHANGED vars  BY <2>1
  <2>2. ASSUME NEW p \in Procs, Step(p)  PROVE A
    <3> SUFFICES ASSUME NEW f \in OutFiles, Excl(f), files'[f] # files[f]  PROVE FALSE
      OBVIOUS
    <3>1. PICK k \in {"asm", "obj", "exe"} : f = OutFile(p, k) /\ k \notin Excluded(opts[p])
      BY <1>1, <2>2, OutputChange
    <3>2. f[1] = opts[p].out /\ f[2] = k  BY <3>1 DEF OutFile
    <3>3. QED  BY <3>1, <3>2
  <2>3. QED  BY <1>1, <2>1, <2>2 DEF Next
<1>2. QED  BY <1>1, Inductive, PTL DEF Spec, StopsWhereTold
=============================================================================
