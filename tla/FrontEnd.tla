------------------------------ MODULE FrontEnd ------------------------------
(***************************************************************************)
(* What happens to one file between its text and its tree: tokens          *)
(* (Compiler::loadAndParseRecursive, Compiler.cpp:46-56), macro expansion  *)
(* (expandMacros, Macros.cpp:349-443) and parsing (Parser::parse), without *)
(* the bootstrap tools.  One action per token read, definition collected,  *)
(* invocation expanded, token copied, and statement parsed.                *)
(*                                                                         *)
(* The matcher's endless loop is the phase "spinning", where nothing       *)
(* happens any more.  Which rules a macro has, how they match, and what a  *)
(* turn of the parser does are parameters: WeedFrontEnd gives them the     *)
(* values that modules Macros and Parser define.                           *)
(***************************************************************************)
EXTENDS Tokens

CONSTANTS
    Valid,      \* files written after the grammar and the rules for macros
    Others,     \* other files
    Stride,     \* 100000 in the code: the distance between the passes' names
    PassLimit,  \* 32 in the code
    Rules(_),              \* the results of reading a macro's rules: Macros!ParseRules
    Match(_, _),           \* a match of a pattern with an input: Macros!MatchPattern
    Replaced(_, _, _),     \* the results of a replacement: Macros!Substitute
    ParserOn(_),           \* a parser in front of its tokens: Parser!Parsing
    AtEof(_), NextTurn(_), \* whether it is done, and a turn of its loop: Parser!Turn
    Gather(_, _)           \* the statements after a turn: Parser!Gathered

ASSUME FrontEndAssumption ==
    /\ Stride \in Nat \ {0} /\ PassLimit \in Nat \ {0}
    /\ Valid \cup Others \subseteq Seq(Alphabet)

VARIABLES
    text,     \* the file
    valid,    \* it is one of Valid
    phase,    \* "lex", "collect", "expand", "parse"; "parsed", "failed", "spinning"
    toks,     \* what the current stage reads
    pos,      \* where it is
    out,      \* the tokens it has produced
    macros,   \* name -> rules
    pass,     \* passes of the expansion that are over
    changed,  \* an invocation has been expanded in this pass
    log,      \* the expansions so far, for the properties
    parser,
    stmts     \* the statements of the program

vars == <<text, valid, phase, toks, pos, out, macros, pass, changed, log, parser, stmts>>

Init ==
    /\ valid \in BOOLEAN /\ text \in (IF valid THEN Valid ELSE Others)
    /\ phase = "lex"
    /\ toks = <<>> /\ pos = 1 /\ out = <<>>
    /\ macros = <<>> /\ pass = 0 /\ changed = FALSE /\ log = {}
    /\ parser = ParserOn(<<>>) /\ stmts = <<>>

\* The next stage starts on the tokens given.
Enter(stage, ts) == phase' = stage /\ toks' = ts /\ pos' = 1 /\ out' = <<>>

\* An exception: the compilation of the file is over.
Fail ==
    /\ phase' = "failed"
    /\ UNCHANGED <<text, valid, toks, pos, out, macros, pass, changed, log, parser, stmts>>

CopyOne == out' = Append(out, toks[pos]) /\ pos' = pos + 1

-----------------------------------------------------------------------------
(* Tokens *)

ReadToken ==
    /\ phase = "lex"
    /\ LET f == NextToken(text, pos)
       IN  IF f.tok.t = "eof" THEN Enter("collect", Append(out, f.tok))
           ELSE out' = Append(out, f.tok) /\ pos' = f.next /\ UNCHANGED <<phase, toks>>
    /\ UNCHANGED <<text, valid, macros, pass, changed, log, parser, stmts>>

-----------------------------------------------------------------------------
(* Macro definitions *)

AtDefinition == phase = "collect" /\ Type(toks, pos) = "macro_rules"

\* The rules of the definition at pos, as a set: empty if it is not well formed.
Definition ==
    IF /\ Type(toks, pos + 1) = "!" /\ Type(toks, pos + 2) = "id" /\ Type(toks, pos + 3) = "{"
       /\ CloseOf(toks, pos + 3) # 0
    THEN Rules(Inner(toks, pos + 3)) ELSE {}

\* A later definition of a name replaces an earlier one.
CollectDefinition ==
    /\ AtDefinition
    /\ \E rules \in Definition : macros' = (toks[pos + 2].v :> rules) @@ macros
    /\ pos' = CloseOf(toks, pos + 3) + 1
    /\ UNCHANGED <<text, valid, phase, toks, out, pass, changed, log, parser, stmts>>

RejectDefinition == AtDefinition /\ Definition = {} /\ Fail

CopyToken ==
    /\ phase = "collect" /\ ~AtDefinition
    /\ IF pos <= Len(toks) THEN CopyOne /\ UNCHANGED <<phase, toks>> ELSE Enter("expand", out)
    /\ UNCHANGED <<text, valid, macros, pass, changed, log, parser, stmts>>

-----------------------------------------------------------------------------
(* Macro expansion *)

Invoked(ts, i) ==
    /\ Type(ts, i) = "id" /\ Type(ts, i + 1) = "!" /\ Type(ts, i + 2) = "("
    /\ ts[i].v \in DOMAIN macros

AtInvocation == phase = "expand" /\ Invoked(toks, pos)

\* Mutation of GensymId: numbered by place alone.
GensymIdByPlace == pos - 1

\* The number in the names an expansion makes: pass and place, from 0.
GensymId == pass * Stride + (pos - 1)

\* The first rule that does not fail to match, with its match; there is none
\* where the result is empty.
Matching(input) ==
    LET rules == macros[toks[pos].v]
        hits  == {r \in DOMAIN rules : Match(rules[r].pattern, input).st # "no"}
    IN  {[rule |-> rules[r], match |-> Match(rules[r].pattern, input)] :
           r \in {h \in hits : \A g \in hits : h <= g}}

Expansion ==
    IF CloseOf(toks, pos + 2) = 0 THEN {} ELSE Matching(Inner(toks, pos + 2))

\* What the properties need to know of an expansion.
Entry(e) ==
    [pattern |-> e.rule.pattern, input |-> e.match.ts,
     singles |-> e.match.singles, reps |-> e.match.reps, pass |-> pass, place |-> pos,
     fresh |-> {Fresh(tok, GensymId).v : tok \in {t \in ToSet(e.rule.replacement) : Local(t)}}]

ExpandInvocation ==
    /\ AtInvocation
    /\ \E e \in Expansion :
         /\ e.match.st = "yes"
         /\ \E ts \in Replaced(e.rule.replacement, e.match, GensymId) : out' = out \o ts
         /\ log' = log \cup {Entry(e)}
    /\ pos' = CloseOf(toks, pos + 2) + 1
    /\ changed' = TRUE
    /\ UNCHANGED <<text, valid, phase, toks, macros, pass, parser, stmts>>

RejectInvocation ==
    /\ AtInvocation
    /\ \A e \in Expansion :
         e.match.st = "yes" /\ Replaced(e.rule.replacement, e.match, GensymId) = {}
    /\ Fail

SpinInvocation ==
    /\ AtInvocation
    /\ \E e \in Expansion : e.match.st = "spin"
    /\ phase' = "spinning"
    /\ UNCHANGED <<text, valid, toks, pos, out, macros, pass, changed, log, parser, stmts>>

CopyUnexpanded ==
    /\ phase = "expand" /\ ~AtInvocation /\ pos <= Len(toks)
    /\ CopyOne
    /\ UNCHANGED <<text, valid, phase, toks, macros, pass, changed, log, parser, stmts>>

\* Mutation of LastPass: goes on as long as something changes.
LastPassNever == ~changed

\* No pass follows this one.
LastPass == ~changed \/ pass + 1 >= PassLimit

\* Another pass, or on to the parser with what there is.
EndPass ==
    /\ phase = "expand" /\ pos > Len(toks)
    /\ Enter(IF LastPass THEN "parse" ELSE "expand", out)
    /\ pass' = Min({pass + 1, PassLimit})
    /\ changed' = FALSE
    /\ parser' = IF LastPass THEN ParserOn(out) ELSE parser
    /\ UNCHANGED <<text, valid, macros, log, stmts>>

-----------------------------------------------------------------------------
(* Parsing *)

ParseTurn ==
    /\ phase = "parse" /\ ~AtEof(parser)
    /\ parser' = NextTurn(parser)
    /\ stmts' = Gather(stmts, parser')
    /\ UNCHANGED <<text, valid, phase, toks, pos, out, macros, pass, changed, log>>

\* With errors the compiler throws, and without them it goes on to the imports.
EndParse ==
    /\ phase = "parse" /\ AtEof(parser)
    /\ phase' = IF parser.errs = {} THEN "parsed" ELSE "failed"
    /\ UNCHANGED <<text, valid, toks, pos, out, macros, pass, changed, log, parser, stmts>>

Stopped == phase \in {"parsed", "failed", "spinning"} /\ UNCHANGED vars

Next ==
    \/ ReadToken
    \/ CollectDefinition \/ RejectDefinition \/ CopyToken
    \/ ExpandInvocation \/ RejectInvocation \/ SpinInvocation \/ CopyUnexpanded \/ EndPass
    \/ ParseTurn \/ EndParse
    \/ Stopped

Spec == Init /\ [][Next]_vars

-----------------------------------------------------------------------------
(* Properties: tokens *)

\* The characters from i to j are white space and comments.
Blank(i, j) ==
    \A k \in i..j :
        \/ text[k] \in Space
        \/ \E c \in i..k : c < j /\ CommentAt(text, c) /\ \A n \in c..k : text[n] # "\n"

\* The character at j follows an odd number of backslashes, none before i.
Escaped(i, j) ==
    \E n \in 1..j - i : /\ n % 2 = 1
                        /\ \A k \in j - n..j - 1 : text[k] = Backslash
                        /\ j - n > i => text[j - n - 1] # Backslash

\* How many more braces are open than closed from i to k.
Nesting(i, k) == Count(text, LeftBrace, i, k) - Count(text, RightBrace, i, k)

\* Before e stands the mark, at n, or the text ends at n.
Enclosed(n, mark, e) ==
    IF n <= Len(text) THEN text[n] = mark /\ e = n + 1 ELSE e = n

\* The text from i to e - 1 spells a token of this type and value.
SpellsString(v, i, e) ==
    /\ text[i] = QuoteMark
    /\ \E n \in i + 1..Len(text) + 1 :
         /\ v = SubSeq(text, i + 1, n - 1) /\ Enclosed(n, QuoteMark, e)
         /\ \A j \in i + 1..n - 1 : text[j] = QuoteMark => Escaped(i + 1, j)
         /\ n <= Len(text) => ~Escaped(i + 1, n)

SpellsAsm(v, i, e) ==
    /\ i + 3 <= Len(text) /\ SubSeq(text, i, i + 2) = Asm
    /\ \E b \in i + 3..Len(text) : \E n \in b + 1..Len(text) + 1 :
         /\ Blank(i + 3, b - 1) /\ text[b] = LeftBrace
         /\ v = SubSeq(text, b + 1, n - 1) /\ Enclosed(n, RightBrace, e)
         /\ \A k \in b + 1..n - 1 : Nesting(b + 1, k) >= 0
         /\ n <= Len(text) => Nesting(b + 1, n - 1) = 0

\* The value is the text from i to e - 1, and some text.
Plain(v, i, e) == i < e /\ e <= Len(text) + 1 /\ v = SubSeq(text, i, e - 1)

\* The characters of v are in C, and the one at e is not.
AllOf(v, e, C) == ToSet(v) \subseteq C /\ (e <= Len(text) => text[e] \notin C)

SpellsNumber(v, i, e) == Plain(v, i, e) /\ AllOf(v, e, Digits)

SpellsWord(t, v, i, e) ==
    /\ Plain(v, i, e) /\ AllOf(v, e, Alnum)
    /\ t = (IF v = Asm THEN "unknown" ELSE IF Joined(v) \in Keywords THEN Joined(v) ELSE "id")

SpellsOperator(t, v, i, e) ==
    /\ Plain(v, i, e)
    /\ \/ PairAt(text, i) /\ e = i + 2 /\ t = Joined(v)
       \/ ~PairAt(text, i) /\ e = i + 1 /\ t = (IF v[1] \in Singles THEN v[1] ELSE "unknown")

\* The text from the token's place to e - 1 spells the token, and does not go
\* on with it.
Spells(tok, e) ==
    CASE tok.t = "string" -> SpellsString(tok.v, tok.at, e)
      [] tok.t = "asm"    -> SpellsAsm(tok.v, tok.at, e)
      [] tok.t = "number" -> SpellsNumber(tok.v, tok.at, e)
      [] tok.t \notin {"string", "asm", "number"} ->
           IF text[tok.at] \in Letters THEN SpellsWord(tok.t, tok.v, tok.at, e)
           ELSE SpellsOperator(tok.t, tok.v, tok.at, e)

\* The tokens are the text: each one is spelled where it says it starts, as long
\* as it can be, and between it and the next there are only white space and
\* comments; no character is lost or read twice, whatever strings, comments and
\* asm blocks contain or lack (getNextToken).
Tokenised ==
    phase = "collect" /\ pos = 1 =>
        /\ Blank(1, toks[1].at - 1)
        /\ \A k \in 1..Len(toks) - 1 :
             \E e \in toks[k].at..toks[k + 1].at :
                Spells(toks[k], e) /\ Blank(e, toks[k + 1].at - 1)
        /\ Last(toks).t = "eof" /\ Last(toks).at = Len(text) + 1

-----------------------------------------------------------------------------
(* Properties: macros *)

\* Two expansions never make the same local name, in one pass or in different
\* ones, as long as the files have no more tokens than the stride.
Hygienic ==
    \A d, e \in log : d # e /\ d.place <= Stride /\ e.place <= Stride => d.fresh \cap e.fresh = {}

-----------------------------------------------------------------------------
(* Properties: termination *)

Stage(ph) ==
    CASE ph = "lex" -> 1 [] ph = "collect" -> 2 [] ph = "expand" -> 3 [] ph = "parse" -> 4
      [] ph \in {"parsed", "failed", "spinning"} -> 5

\* Every step gets on: to a later stage or pass, or, on the way to the parser, past a
\* character or a token of the ones that this stage has, whatever the text is and
\* whatever the macros expand to.
Advances ==
    [][\/ Stage(phase') > Stage(phase)
       \/ phase' = phase /\ pass' > pass /\ pass' <= PassLimit
       \/ /\ phase' = phase /\ pass' = pass /\ toks' = toks
          /\ phase # "parse" => pos' > pos]_vars
=============================================================================
