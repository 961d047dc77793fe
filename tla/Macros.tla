------------------------------- MODULE Macros -------------------------------
(***************************************************************************)
(* expandMacros (Macros.cpp): the parts of it that compute, on sequences   *)
(* of tokens.  FrontEnd has the loops that collect definitions and expand  *)
(* invocations.                                                            *)
(*                                                                         *)
(* Left out: the read behind the end of the tokens where a repetition      *)
(* ends a pattern without '*' or '+', or a template ends in $!stringify    *)
(* (Macros.cpp:309, 257), which is undefined in C++.                       *)
(***************************************************************************)
EXTENDS Tokens

-----------------------------------------------------------------------------
(* Fragments: where the fragment of ts that starts at i ends (the place    *)
(* after it), or 0 if there is none.                                       *)

\* Mutation of ExprEnd: the commas of a call's arguments end the fragment.
ExprEndFlat(ts, i) == Min({k \in i..Len(ts) : ts[k].t = ","} \cup {Len(ts) + 1})

\* takeExprLike: up to a comma outside parentheses and braces.
ExprEnd(ts, i) ==
    Min({k \in i..Len(ts) : /\ ts[k].t = ","
                            /\ Depth(ts, "(", ")", i, k) = 0
                            /\ Depth(ts, "{", "}", i, k) = 0} \cup {Len(ts) + 1})

\* takeTypeLike knows the C names of types and identifiers, not i8 to u64.
TypeEnd(ts, i) == Min({k \in i + 1..Len(ts) : ts[k].t # "*"} \cup {Len(ts) + 1})

\* matchOneMeta
FragmentEnd(frag, ts, i) ==
    CASE i > Len(ts)     -> 0
      [] i <= Len(ts) /\ frag = "ident" -> IF ts[i].t = "id" THEN i + 1 ELSE 0
      [] i <= Len(ts) /\ frag = "expr"  ->
           IF ts[i].t \in {"number", "id", "(", "&", "*"} THEN ExprEnd(ts, i) ELSE 0
      [] i <= Len(ts) /\ frag = "type"  ->
           IF ts[i].t \in CTypes \cup {"id"} THEN TypeEnd(ts, i) ELSE 0
      [] i <= Len(ts) /\ frag = "tt"    ->
           IF ts[i].t \notin Opens THEN i + 1
           ELSE IF CloseOf(ts, i) = 0 THEN 0 ELSE CloseOf(ts, i) + 1

-----------------------------------------------------------------------------
(* Patterns *)

Matcher(k, tok, frag, ms, sep, quant) ==
    [k |-> k, tok |-> tok, frag |-> frag, ms |-> ms, sep |-> sep, quant |-> quant]
Lit(tok)           == Matcher("lit", tok, "", <<>>, "", "")
Meta(tok, frag)    == Matcher("meta", tok, frag, <<>>, "", "")
Rep(ms, sep, quant) == Matcher("rep", Word(""), "", ms, sep, quant)

\* A match in progress: the input, the place in it, what $name has been bound
\* to, once or in each turn of a repetition, and how the match stands. "spin"
\* is a loop that does not end.
At(ts, i, singles, reps, st) ==
    [ts |-> ts, i |-> i, singles |-> singles, reps |-> reps, st |-> st]

Collected(reps, singles) ==
    [x \in DOMAIN reps \cup DOMAIN singles |->
        (IF x \in DOMAIN reps THEN reps[x] ELSE <<>>)
            \o (IF x \in DOMAIN singles THEN <<singles[x]>> ELSE <<>>)]

MatchLit(m, s) ==
    IF /\ Type(s.ts, s.i) = m.tok.t
       /\ m.tok.t \in {"id", "number"} => s.ts[s.i].v = m.tok.v
    THEN [s EXCEPT !.i = s.i + 1] ELSE [s EXCEPT !.st = "no"]

MatchMeta(m, s) ==
    LET e == FragmentEnd(m.frag, s.ts, s.i)
    IN  IF e = 0 THEN [s EXCEPT !.st = "no"]
        ELSE [s EXCEPT !.i = e, !.singles = (m.tok.v :> SubSeq(s.ts, s.i, e - 1)) @@ @]

\* What a repetition does with a turn that did not match: it starts over from
\* where the turn began.
\* Mutation of Restored: the tokens that the turn had taken stay taken.
NotRestored(s, turn) == [s EXCEPT !.i = turn.i]

Restored(s, turn) == s

\* A turn of a repetition has names of its own: those bound once go to the
\* lists, those of a repetition inside it are dropped.  After the separator a
\* turn may fail as well, so a separator at the end is accepted.
RECURSIVE MatchAll(_, _), Repeat(_, _, _)
Repeat(m, s, count) ==
    LET turn == MatchAll(m.ms, At(s.ts, s.i, <<>>, <<>>, "yes"))
        more == [s EXCEPT !.i = turn.i, !.reps = Collected(@, turn.singles)]
    IN  CASE turn.st = "spin" -> [s EXCEPT !.st = "spin"]
          [] turn.st = "no" ->
               IF m.quant = "+" /\ count = 0 THEN [s EXCEPT !.st = "no"] ELSE Restored(s, turn)
          [] turn.st = "yes" /\ m.sep # "" ->
               IF Type(s.ts, turn.i) = m.sep
               THEN Repeat(m, [more EXCEPT !.i = turn.i + 1], count + 1)
               ELSE more
          [] turn.st = "yes" /\ m.sep = "" ->
               IF turn.i = s.i THEN [s EXCEPT !.st = "spin"] ELSE Repeat(m, more, count + 1)

\* matchMatchers: one after the other, each takes what it can, and nothing is
\* tried again.
MatchAll(ms, s0) ==
    FoldLeft(LAMBDA s, m : IF s.st # "yes" THEN s
                           ELSE CASE m.k = "lit"  -> MatchLit(m, s)
                                  [] m.k = "meta" -> MatchMeta(m, s)
                                  [] m.k = "rep"  -> Repeat(m, s, 0),
             s0, ms)

\* matchPattern: the whole input must have been taken.
MatchPattern(ms, ts) ==
    LET s == MatchAll(ms, At(ts, 1, <<>>, <<>>, "yes"))
    IN  IF s.st = "yes" /\ s.i # Len(ts) + 1 THEN [s EXCEPT !.st = "no"] ELSE s

\* parseMatchers, as the set of its results: empty if it throws.
RECURSIVE ParsePattern(_)
ParsePattern(ts) ==
    LET Then(m, next) == {<<m>> \o r : r \in ParsePattern(SubSeq(ts, next, Len(ts)))}
        close == CloseOf(ts, 2)
        sep   == IF Type(ts, close + 1) \in {",", ";"} THEN 1 ELSE 0
        quant == Type(ts, close + sep + 1)
        typed == Type(ts, 3) = ":" /\ Type(ts, 4) = "id"
    IN  CASE ts = <<>> -> {<<>>}
          [] Type(ts, 1) \notin {"$", "none"} -> Then(Lit(ts[1]), 2)
          [] Type(ts, 1) = "$" /\ Type(ts, 2) = "(" ->
               IF close = 0 \/ quant \notin {"*", "+"} THEN {}
               ELSE UNION {Then(Rep(ms, IF sep = 1 THEN Type(ts, close + 1) ELSE "", quant),
                                close + sep + 2) : ms \in ParsePattern(Inner(ts, 2))}
          [] Type(ts, 1) = "$" /\ Type(ts, 2) # "(" ->
               IF Type(ts, 2) # "id" THEN {}
               ELSE IF ~typed THEN Then(Meta(ts[2], "tt"), 3)
               ELSE IF Joined(ts[4].v) \notin {"tt", "ident", "expr", "type"} THEN {}
               ELSE Then(Meta(ts[2], Joined(ts[4].v)), 5)

\* The rules in the body of a definition, (pattern) => {replacement} with or
\* without ';': the set of results, empty if the compiler throws.
RECURSIVE ParseRules(_)
ParseRules(ts) ==
    LET arrow == CloseOf(ts, 1) + 1
        end   == CloseOf(ts, arrow + 1)
    IN  CASE ts = <<>> -> {<<>>}
          [] Type(ts, 1) = ";" -> ParseRules(Tail(ts))
          [] Type(ts, 1) \notin {";", "none"} ->
               IF \/ Type(ts, 1) # "(" \/ arrow = 1
                  \/ Type(ts, arrow) # "=>" \/ Type(ts, arrow + 1) # "{" \/ end = 0
               THEN {}
               ELSE {<<[pattern |-> p, replacement |-> Inner(ts, arrow + 1)]>> \o rs :
                       p \in ParsePattern(Inner(ts, 1)),
                       rs \in ParseRules(SubSeq(ts, end + 1, Len(ts)))}

-----------------------------------------------------------------------------
(* Replacements *)

\* The captures of a repetition, with a comma between them.
Spliced(caps) ==
    FoldLeft(LAMBDA out, c : IF out = <<>> THEN c ELSE out \o <<Word(",")>> \o c, <<>>, caps)

\* The spelling of the tokens, names with a '$' as they are.
Stringified(ts) == Token("string", FoldLeft(LAMBDA v, tok : v \o tok.v, <<>>, ts), 0)

\* substitute, as the set of its results: empty if it throws.  A name that is
\* not bound, or in no turn of its repetition, stays as it is with its '$'.
\* $!stringify(...) takes the token AFTER its closing parenthesis with it,
\* which is lost.
RECURSIVE Substitute(_, _, _)
Substitute(ts, b, id) ==
    LET name  == IF Type(ts, 1) = "$" /\ Type(ts, 2) = "id" THEN ts[2].v ELSE <<>>
        Then(out, next) == {out \o r : r \in Substitute(SubSeq(ts, next, Len(ts)), b, id)}
        Plain(k)  == <<IF Local(ts[k]) THEN Fresh(ts[k], id) ELSE ts[k]>>
        Stringify == /\ Type(ts, 1) = "$" /\ Type(ts, 2) = "!" /\ Type(ts, 3) = "id"
                     /\ Joined(ts[3].v) = "stringify"
    IN  CASE ts = <<>> -> {<<>>}
          [] ts # <<>> /\ name \in DOMAIN b.singles -> Then(b.singles[name], 3)
          [] name \in DOMAIN b.reps \ DOMAIN b.singles -> Then(Spliced(b.reps[name]), 3)
          [] Stringify ->
               IF Type(ts, 4) # "(" THEN Then(Plain(4), 5)
               ELSE IF CloseOf(ts, 4) = 0 THEN {}
               ELSE Then(<<Stringified(Inner(ts, 4))>>, CloseOf(ts, 4) + 2)
          [] ts # <<>> /\ name \notin DOMAIN b.singles \cup DOMAIN b.reps /\ ~Stringify ->
               Then(Plain(1), 2)
=============================================================================
