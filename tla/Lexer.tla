-------------------------------- MODULE Lexer -------------------------------
(***************************************************************************)
(* Lexer::getNextToken (Lexer.cpp) without an external tokenizer.          *)
(*                                                                         *)
(* A text is a sequence of characters, strings of length one; the first    *)
(* is number 1.  A token is                                                *)
(*     [t |-> type, v |-> value, at |-> where it starts]                   *)
(* The value is a sequence of characters too.  The type of a keyword or an *)
(* operator is its spelling, as a string; the place stands for line and    *)
(* column, and is 0 for a token that a macro made up.                      *)
(***************************************************************************)
EXTENDS Integers, SequencesExt

CONSTANT Alphabet   \* the characters of texts and of the names that macros make

\* Strings as sequences of characters, and back.
Chars(w)  == [i \in 1..Len(w) |-> SubSeq(w, i, i)]
Joined(v) == FoldLeft(LAMBDA w, c : w \o c, "", v)

\* The character at i: "" where peek gives '\0'.
Char(s, i) == IF i \in 1..Len(s) THEN s[i] ELSE ""

\* std::isspace, but for the vertical tab, which TLA+ has no string for.
Space     == {" ", "\t", "\n", "\r", "\f"}
Digits    == {"0", "1", "2", "3", "4", "5", "6", "7", "8", "9"}
Letters   == ToSet(Chars("abcdefghijklmnopqrstuvwxyzABCDEFGHIJKLMNOPQRSTUVWXYZ_"))
Alnum     == Letters \cup Digits

\* What begins a local name, twice, and stands before the number in a fresh one.
Underscore == "_"

\* What stands around a string, what takes the next character of one with it,
\* and what stands around an asm block.
QuoteMark  == "\""
Backslash  == "\\"
LeftBrace  == "{"
RightBrace == "}"

ASSUME AlphabetAssumption == Digits \cup {Underscore} \subseteq Alphabet

CTypes    == {"char", "short", "int", "long", "void"}
TypeWords == CTypes \cup {"i8", "i16", "i32", "i64", "u8", "u16", "u32", "u64"}
Keywords  == TypeWords \cup
    {"struct", "import", "as", "macro_rules", "comptime", "const", "fn", "return",
     "if", "else", "while", "foreign"}
Asm       == <<"a", "s", "m">>
Pairs     == {"<=", ">=", "->", "!=", "&&", "||", "==", "=>"}
Singles   == {"<", ">", "+", "-", "*", "/", "(", ")", ".", "!", "$", "[", "]", "{", "}",
              ",", "&", ":", "=", ";"}

Token(t, v, at) == [t |-> t, v |-> v, at |-> at]
Word(w)         == Token(w, Chars(w), 0)

\* The first place from i on whose character is not in C, or the end.
EndOf(s, i, C) == Min({k \in i..Len(s) : s[k] \notin C} \cup {Len(s) + 1})

\* The place of the next character c from i on, or the end.
NextChar(s, i, c) == Min({k \in i..Len(s) : s[k] = c} \cup {Len(s) + 1})

\* advance(): the place after i, as long as the text goes on.
After(s, i) == IF i <= Len(s) THEN i + 1 ELSE i

\* Where the turns of a loop lead from place i: step says where a turn at each
\* place leads, and the loop ends at a place it stays at.
Loop(step, i) ==
    LET end[k \in DOMAIN step] == IF step[k] = k THEN k ELSE end[step[k]] IN end[i]

CommentAt(s, i) == i < Len(s) /\ s[i] = "/" /\ s[i + 1] = "/"

\* A turn of skipWhitespaceAndComments at each place.
SkipStep(s) ==
    [k \in 1..Len(s) + 1 |->
       IF Char(s, k) \in Space THEN k + 1
       ELSE IF CommentAt(s, k) THEN NextChar(s, k, "\n")
       ELSE k]

\* Past white space and comments.
Skip(s, i) == Loop(SkipStep(s), i)

\* A turn of the loop that reads a string: a backslash takes the next character
\* with it.
QuoteStep(s) ==
    [k \in 1..Len(s) + 1 |->
       IF k > Len(s) \/ Char(s, k) = QuoteMark THEN k
       ELSE IF s[k] = Backslash /\ k < Len(s) THEN k + 2
       ELSE k + 1]

\* The closing quote of the string whose first character is at i, or the end.
Quote(s, i) == Loop(QuoteStep(s), i)

\* How many characters c there are from i to k.
Count(s, c, i, k) == Cardinality({j \in i..k : s[j] = c})

\* The brace that closes an asm block whose first character is at i, or the
\* end.  Braces are counted wherever they are, in strings and comments too.
AsmEnd(s, i) ==
    Min({k \in i..Len(s) : Count(s, RightBrace, i, k) > Count(s, LeftBrace, i, k)} \cup {Len(s) + 1})

Found(t, v, at, next) == [tok |-> Token(t, v, at), next |-> next]

ReadString(s, i) ==
    LET q == Quote(s, i + 1) IN Found("string", SubSeq(s, i + 1, q - 1), i, After(s, q))

ReadNumber(s, i) ==
    LET e == EndOf(s, i, Digits) IN Found("number", SubSeq(s, i, e - 1), i, e)

\* asm is a block when a brace follows, and no token of the language otherwise.
ReadAsm(s, i, e) ==
    LET b == Skip(s, e)
        c == AsmEnd(s, b + 1)
    IN  IF Char(s, b) = LeftBrace THEN Found("asm", SubSeq(s, b + 1, c - 1), i, After(s, c))
        ELSE Found("unknown", Asm, i, e)

ReadWord(s, i) ==
    LET e == EndOf(s, i, Alnum)
        w == SubSeq(s, i, e - 1)
    IN  IF w = Asm THEN ReadAsm(s, i, e)
        ELSE Found(IF Joined(w) \in Keywords THEN Joined(w) ELSE "id", w, i, e)

Two(s, i)    == SubSeq(s, i, i + 1)
PairAt(s, i) == i < Len(s) /\ Joined(Two(s, i)) \in Pairs

\* Mutation of ReadOperator: the second character of a pair is not passed.
ReadOperatorShort(s, i) ==
    IF PairAt(s, i) THEN Found(Joined(Two(s, i)), Two(s, i), i, i + 1)
    ELSE Found(IF s[i] \in Singles THEN s[i] ELSE "unknown", <<s[i]>>, i, i + 1)

ReadOperator(s, i) ==
    IF PairAt(s, i) THEN Found(Joined(Two(s, i)), Two(s, i), i, i + 2)
    ELSE Found(IF s[i] \in Singles THEN s[i] ELSE "unknown", <<s[i]>>, i, i + 1)

\* The token from place p on, and the place after it.
NextToken(s, p) ==
    LET i == Skip(s, p)
        c == Char(s, i)
    IN  IF i > Len(s) THEN Found("eof", <<>>, Len(s) + 1, Len(s) + 1)
        ELSE IF c = QuoteMark THEN ReadString(s, i)
        ELSE IF c \in Digits THEN ReadNumber(s, i)
        ELSE IF c \in Letters THEN ReadWord(s, i)
        ELSE ReadOperator(s, i)
=============================================================================
