----------------------------- MODULE MCFrontEnd -----------------------------
(***************************************************************************)
(* Files for the front end: expressions of two operators, sequences of     *)
(* statements, programs with one token too few, too many or exchanged,     *)
(* macros and their invocations, and texts that are hard to tokenise.      *)
(***************************************************************************)
EXTENDS WeedFrontEnd

Words(words) == FoldLeft(LAMBDA s, w : s \o " " \o w, "", words)

\* a op b op c with parentheses in all places.
MCOps == {"||", "&&", "==", "<", ">=", "+", "-", "*", "/"}
MCExpressions ==
    UNION {{Words(<<"r = a", o, "b", p, "c;">>),
            Words(<<"r = (a", o, "b)", p, "c;">>),
            Words(<<"return a", o, "(b", p, "c)">>)} : o \in MCOps, p \in MCOps}
    \cup {"r = s = -1 + a[i + 1].b as i64;", "*p = &q.x[0];", "f(1, g(), a = 2) + comptime f(x) * 2",
          "x as i8* - 1", "(x)", "((a) = (b))", "*(p + 1) = - 2 as char;"}

MCStatements ==
    {"i32 x = 1;", "T* p;", "x = 1;", "f(x)", "return x;", "{ x = 1; return }", "if x { y = 1; }",
     "if a < b { } else { i8[3] z; }", "while x { x = x - 1 }", "const N = 2;", "const u8 N = 2;",
     "comptime { const N = 1; }", "struct S { i32 x; char* n; };", "import \"f\"",
     "foreign \"k.dll\" F;", "asm { ret }", "fn f(i64 a, T* b) -> int { return a; }", "fn g() { }"}
MCPairs == {Words(<<s, t>>) : s \in MCStatements, t \in MCStatements}
\* Programs with one word left out, doubled, or replaced.
MCPrograms ==
    {<<"fn", "f", "(", "i32", "a", ")", "{", "i32", "x", "=", "a", ";", "x", "=", "2", "}",
       "fn", "g", "(", ")", "{", "}">>,
     <<"struct", "S", "{", "i32", "a", ";", "}", ";", "const", "N", "=", "(", "1", ")", ";",
       "if", "N", "{", "f", "(", "N", ",", "2", ")", ";", "}", "else", "{", "}">>}
Without(p, i)    == SubSeq(p, 1, i - 1) \o SubSeq(p, i + 1, Len(p))
Instead(p, i, w) == SubSeq(p, 1, i - 1) \o <<w>> \o SubSeq(p, i + 1, Len(p))
MCDamaged ==
    UNION {UNION {{Words(Without(p, i)), Words(Instead(p, i, p[i] \o " " \o p[i]))}
                    \cup {Words(Instead(p, i, w)) : w \in {";", "}", "(", "fn", "*"}} :
                    i \in DOMAIN p} : p \in MCPrograms}

\* Definitions, and invocations of them.
MCMacros ==
    [add   |-> "macro_rules! add { ($x:expr) => { $x + 1 }; }",
     all   |-> "macro_rules! all { ($($x:tt),*) => { f($x) }; }",
     set   |-> "macro_rules! set { ($x:ident, zero) => { $x = 0; }; ($x:ident, $y:expr) => { $x = $y; } }",
     decl  |-> "macro_rules! decl { ($t:type, $n:ident) => { $t $n; }; }",
     args  |-> "macro_rules! args { ($($k:ident = $v:expr),+) => { f($k, $v) }; }",
     pairs |-> "macro_rules! pairs { ($($k:ident : $v:tt);*) => { f($k, $v); }; }",
     list  |-> "macro_rules! list { ($(($($x:ident),*)),*) => { f(1) }; }",
     inner |-> "macro_rules! inner { ($y:expr) => { i32 __t = $y; __t = __t + 1; }; }",
     outer |-> "macro_rules! outer { ($x:expr) => { inner!($x) i32 __t = 1; inner!(__t) }; }",
     again |-> "macro_rules! again { () => { again!() }; }",
     twice |-> "macro_rules! twice { ($x:tt) => { twice!($x) twice!($x) }; }",
     name  |-> "macro_rules! name { ($x:ident) => { f($!stringify($x), 1) }; }",
     quote |-> "macro_rules! quote { () => { $!stringify(a + b); $!stringify c }; }",
     empty |-> "macro_rules! empty { ($($($x:ident)*)*) => { }; }",
     comma |-> "macro_rules! comma { ($($($x:ident)*),*) => { f(2) }; }"]
Use(ms, s) == FoldLeft(LAMBDA t, m : t \o MCMacros[m] \o "\n", "", ms) \o s

MCGoodMacros ==
    {Use(<<"add">>, "add!(41)"), Use(<<"add">>, "i64 x = add!(f(1, 2));"),
     Use(<<"add">>, "add!(add!(1))"), "add!(2)\n" \o MCMacros.add,
     Use(<<"all">>, "all!(1, (2 + 3), x)"), Use(<<"set">>, "set!(a, zero) set!(b, c + 1)"),
     Use(<<"decl">>, "decl!(int*, p) decl!(T, q)"),
     Use(<<"args">>, "args!(a = 1, b = g(2, 3))"), Use(<<"args">>, "args!(a = 1,)"),
     Use(<<"pairs">>, "pairs!(a : 1; b : (2))"), Use(<<"pairs">>, "pairs!(a : 1;)"),
     Use(<<"list">>, "list!((a, b), (c))"), Use(<<"comma">>, "comma!(a b, , c)"),
     Use(<<"inner", "outer">>, "outer!(7) inner!(8) outer!(9)"),
     Use(<<"add", "args">>, "fn h() { args!(a = add!(1), b = add!(2)) }")}

\* Too long for the names of one pass to stay clear of the next one's.
MCLongFile ==
    Use(<<"inner", "outer">>,
        "outer!(7)" \o FoldLeft(LAMBDA s, i : s \o " f(x)", "", [i \in 1..9 |-> i]) \o " inner!(7)")

MCOtherMacros ==
    {MCLongFile, Use(<<"all">>, "all!()"), Use(<<"all">>, "all!(})"), Use(<<"all">>, "all!((})"),
     Use(<<"all">>, "all!(1"), Use(<<"set">>, "set!(1, 2)"), Use(<<"set">>, "set!(a, zero, 1)"),
     Use(<<"decl">>, "decl!(i32, x)"), Use(<<"args">>, "args!()"), Use(<<"args">>, "args!(a = 1; b = 2)"),
     Use(<<"args">>, "args!(a = 1, b)"), Use(<<"pairs">>, "pairs!(a : 1; b)"),
     Use(<<"pairs">>, "pairs!(a : 1; b :)"),
     Use(<<"again">>, "again!()"), Use(<<"again">>, "i32 x = again!(1);"),
     Use(<<"again">>, "i32 x = again!();"), Use(<<"twice">>, "twice!(x)"),
     Use(<<"name">>, "name!(a)"), Use(<<"quote">>, "quote!()"),
     Use(<<"empty">>, "empty!(a)"), Use(<<"empty">>, "f(x)"), Use(<<"add", "add">>, "none!(1)"),
     "macro_rules", "macro_rules!", "macro_rules! m", "macro_rules! m {", "macro_rules! m { ( }",
     "macro_rules! m { ($) => { } }", "macro_rules! m { ($x:foo) => { } }",
     "macro_rules! m { ($(x)? ) => { } }", "macro_rules! m { (a) -> { } }",
     "macro_rules! m { (a) => ( ) }", "macro_rules! m { (a => { } }", "macro_rules! m { ; x }",
     "macro_rules! m { (a) => { $!stringify(b } } m!(a)", "macro_rules! m { (a) => { 1 } } m!(b)",
     "macro_rules! m { (a 1 ;) => { 1 } } m!(a 2 ;)", "macro_rules! m { ($($(a)*)+ b) => { } } m!(b)"}

\* Texts that are hard to tokenise.
MCBits     == {"<", "=", "!", "&", "|", "-", ">", "/", "\"", "\\", "a", "1", "_", " ", "\n", "{", "}",
               "asm", "fn", "//"}
MCHardBits == {"\"", "\\", "\n", "{", "}", "asm", "=", "/"}
MCTexts2 == {a \o b : a \in MCBits, b \in MCBits}
MCTexts3 == {a \o b \o c : a \in MCHardBits, b \in MCHardBits, c \in MCHardBits}

MCValidTexts == MCExpressions \cup MCPairs \cup MCGoodMacros
             \cup {"f(\"a\\\"b\\\\\"); // \"\n", "x<=y>=z==w!=v&&u||t", "asm // {\n{ mov {} ; }",
                   "f(\"//\") // x", ""}
MCOtherTexts == MCDamaged \cup MCOtherMacros \cup MCTexts2 \cup MCTexts3
           \cup {"asm", "asm x", "asm { \"}\" }", "a <- b - > c = = d ! = e", "1a2 #@", "\"abc\\"}

MCValid  == {Chars(w) : w \in MCValidTexts}
MCOthers == {Chars(w) : w \in MCOtherTexts}
MCAlphabet == Digits \cup {Underscore} \cup UNION {ToSet(s) : s \in MCValid \cup MCOthers}
=============================================================================
