-------------------------------- MODULE Tokens -------------------------------
(***************************************************************************)
(* What the expansion of macros knows of sequences of tokens, whatever the *)
(* rules of a macro are: the groups in them (readBalanced, Macros.cpp) and *)
(* the names that are local to an expansion.                               *)
(***************************************************************************)
EXTENDS Lexer

Type(ts, i) == IF i \in 1..Len(ts) THEN ts[i].t ELSE "none"

Opens == {"(", "{"}
MatchingClose(o) == IF o = "(" THEN ")" ELSE "}"

\* How many more tokens of type o than of type c there are in ts from i to j.
Depth(ts, o, c, i, j) ==
    Cardinality({k \in i..j : ts[k].t = o}) - Cardinality({k \in i..j : ts[k].t = c})

\* readBalanced: where the group opened at i is closed, or 0 if it never is.
\* Only delimiters of its own kind count.
CloseOf(ts, i) ==
    LET o == ts[i].t
        c == MatchingClose(o)
        ends == {j \in i + 1..Len(ts) : ts[j].t = c /\ Depth(ts, o, c, i, j) = 0}
    IN  IF ends = {} THEN 0 ELSE Min(ends)

Inner(ts, i) == SubSeq(ts, i + 1, CloseOf(ts, i) - 1)

-----------------------------------------------------------------------------
(* Local names *)

DigitOf == <<"0", "1", "2", "3", "4", "5", "6", "7", "8", "9">>

\* std::to_string
Numeral[n \in Nat] ==
    IF n < 10 THEN <<DigitOf[n + 1]>> ELSE Append(Numeral[n \div 10], DigitOf[(n % 10) + 1])

\* Names that start with two underscores are local to an expansion.
LocalNames == {v \in Seq(Alphabet) : Len(v) >= 2 /\ v[1] = Underscore /\ v[2] = Underscore}

Local(tok)     == tok.t = "id" /\ tok.v \in LocalNames
Fresh(tok, id) == Token("id", tok.v \o <<Underscore>> \o Numeral[id], 0)
=============================================================================
