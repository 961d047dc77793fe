---------------------------- MODULE WeedFrontEnd ----------------------------
(***************************************************************************)
(* The front end with the macros and the parser of WeedLang, and what is   *)
(* to be expected of them.                                                 *)
(***************************************************************************)
EXTENDS FrontEnd, Macros

P == INSTANCE Parser
G == INSTANCE Grammar

\* The parameters of FrontEnd that are the parser's.
NewParser(ts)           == P!Parsing(ts)
ParserAtEof(p)          == P!Type(p) = "eof"
ParserTurn(p)           == P!Turn(p)
ParserGathered(done, p) == P!Gathered(done, p)

-----------------------------------------------------------------------------
(* Properties: macros *)

IsFragment(frag, ts) ==
    CASE frag = "ident" -> Len(ts) = 1 /\ ts[1].t = "id"
      [] frag = "tt"    -> IF Type(ts, 1) \in Opens THEN CloseOf(ts, 1) = Len(ts) ELSE Len(ts) = 1
      [] frag = "type"  -> /\ Type(ts, 1) \in CTypes \cup {"id"}
                           /\ \A k \in 2..Len(ts) : ts[k].t = "*"
      [] frag = "expr"  -> /\ Type(ts, 1) \in {"number", "id", "(", "&", "*"}
                           /\ \A k \in 1..Len(ts) : ts[k].t = "," =>
                                \/ Depth(ts, "(", ")", 1, k) # 0 \/ Depth(ts, "{", "}", 1, k) # 0

\* The captures of two parts of a pattern together.
Both(a, b) ==
    [singles |-> b.singles @@ a.singles,
     reps |-> [x \in DOMAIN a.reps \cup DOMAIN b.reps |->
                 (IF x \in DOMAIN a.reps THEN a.reps[x] ELSE <<>>)
                   \o (IF x \in DOMAIN b.reps THEN b.reps[x] ELSE <<>>)]]
Captures(singles, reps) == [singles |-> singles, reps |-> reps]
InTurn(c) == Captures(<<>>, [x \in DOMAIN c.singles |-> <<c.singles[x]>>])

\* All the ways to read ts as the pattern ms, as what the names stand for: the
\* pattern's meaning, without an order of trying.
RECURSIVE Readings(_, _), TurnReadings(_, _)
Readings(ms, ts) ==
    IF ms = <<>> THEN IF ts = <<>> THEN {Captures(<<>>, <<>>)} ELSE {}
    ELSE LET m == Head(ms)
             One(part) ==
                 CASE m.k = "lit"  ->
                        IF /\ Len(part) = 1 /\ part[1].t = m.tok.t
                           /\ m.tok.t \in {"id", "number"} => part[1].v = m.tok.v
                        THEN {Captures(<<>>, <<>>)} ELSE {}
                   [] m.k = "meta" ->
                        IF IsFragment(m.frag, part) THEN {Captures(m.tok.v :> part, <<>>)} ELSE {}
                   [] m.k = "rep"  ->
                        IF part = <<>> /\ m.quant = "+" THEN {} ELSE TurnReadings(m, part)
         IN  UNION {{Both(a, b) : a \in One(SubSeq(ts, 1, n)),
                                  b \in Readings(Tail(ms), SubSeq(ts, n + 1, Len(ts)))} :
                      n \in 0..Len(ts)}

\* Turns with the separator between them, and after the last one if one likes.
TurnReadings(m, ts) ==
    IF ts = <<>> THEN {Captures(<<>>, <<>>)}
    ELSE UNION {LET sep  == IF m.sep # "" /\ n < Len(ts) THEN 1 ELSE 0
                    rest == SubSeq(ts, n + 1 + sep, Len(ts))
                IN  IF sep = 1 /\ ts[n + 1].t # m.sep THEN {}
                    ELSE {Both(InTurn(c), r) : c \in Readings(m.ms, SubSeq(ts, 1, n)),
                                               r \in TurnReadings(m, rest)} :
                  n \in (IF m.sep = "" THEN 1 ELSE 0)..Len(ts)}

\* The matcher takes tokens greedily and never goes back, and turns of a
\* repetition that fail half-way leave what they took: when it accepts an
\* invocation, all of its tokens read as the pattern, with the captures the
\* matcher made (those of a repetition inside a repetition are dropped).
CapturesFit ==
    \A e \in log : Captures(e.singles, e.reps) \in Readings(e.pattern, e.input)

-----------------------------------------------------------------------------
(* Properties: parsing *)

\* A file that is accepted is read in full: its tree, read back after the
\* grammar, gives the tokens the parser was handed, each in its place, with the
\* documented precedence; only tokens the parser does not look at may differ. A
\* file written after the grammar is accepted, and there they do not.
ReadsBack ==
    /\ phase = "parsed" => G!Reads(toks, stmts, valid)
    /\ valid => phase \notin {"failed", "spinning"}

-----------------------------------------------------------------------------
(* Properties: termination *)

\* A pattern that fits no tokens at all, and one with a repetition of such a
\* pattern without a separator.
RECURSIVE FitsNothing(_), Unbounded(_)
FitsNothing(ms) ==
    \A i \in DOMAIN ms : ms[i].k = "rep" /\ (ms[i].quant = "*" \/ FitsNothing(ms[i].ms))
Unbounded(ms) ==
    \E i \in DOMAIN ms :
        ms[i].k = "rep" /\ ((ms[i].sep = "" /\ FitsNothing(ms[i].ms)) \/ Unbounded(ms[i].ms))

\* The loops inside a step end too: the matcher spins only for a macro with a repetition
\* that can take nothing for ever, and each turn of the parser gets past a token, also
\* where it recovers from an error in front of a token it stops at.
LoopsAdvance ==
    [][/\ phase' = "spinning" =>
            \E x \in DOMAIN macros : \E r \in DOMAIN macros[x] : Unbounded(macros[x][r].pattern)
       /\ phase = "parse" /\ phase' = phase =>
            parser'.ts = parser.ts /\ parser'.pos > parser.pos]_vars
=============================================================================
