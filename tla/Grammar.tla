------------------------------- MODULE Grammar ------------------------------
(***************************************************************************)
(* Which token sequences are readings of a tree: the language that the     *)
(* parser is for, stated without the parser.  A tree has a phrase, a       *)
(* sequence of items, and every item leads from a set of places to the     *)
(* places after it.  An item is a token of a type, one with a value too,   *)
(* one that the parser does not look at, an optional one, or a subtree     *)
(* that binds at least as tightly as a level.                              *)
(*                                                                         *)
(* Read strictly, a token the parser does not look at still has to be the  *)
(* one that belongs there.                                                 *)
(***************************************************************************)
EXTENDS Lexer

Item(i, t, v, tree, level) == [i |-> i, t |-> t, v |-> v, tree |-> tree, level |-> level]
NoTree          == [k |-> "none", v |-> <<>>, a |-> <<>>]
Tok(t)          == Item("token", t, Chars(t), NoTree, 0)
Val(t, v)       == Item("token", t, v, NoTree, 0)
Unseen(t, v)    == Item("unseen", t, v, NoTree, 0)
Opt(t)          == Item("opt", t, Chars(t), NoTree, 0)
Sub(tree, level) == Item("sub", "", <<>>, tree, level)

(* Levels: statements 0, assignments 1, the operators of docs/SYNTAX.md 2 to 7, *)
(* factors 8, and 9 what a postfix may follow.                                  *)
Statement  == 0
Expression == 1
Factor     == 8
Primary    == 9

OpLevel(op) ==
    CASE op = "||" -> 2
      [] op = "&&" -> 3
      [] op \in {"==", "!="} -> 4
      [] op \in {"<", ">", "<=", ">="} -> 5
      [] op \in {"+", "-"} -> 6
      [] op \in {"*", "/"} -> 7

\* The operator of a binary tree.
Op(n) == Joined(n.v)

LevelOf(n) ==
    CASE n.k = "assign" -> Expression
      [] n.k = "binary" -> OpLevel(Op(n))
      [] n.k \in {"comptime", "address", "deref"} -> Factor
      [] n.k \in {"number", "string", "asm", "name", "call", "member", "index", "cast"} -> Primary
      [] OTHER -> Statement

\* The subtrees, each at its level, with a comma between them.
Listed(trees, level) ==
    FlattenSeq([i \in DOMAIN trees |->
                  (IF i = 1 THEN <<>> ELSE <<Tok(",")>>) \o <<Sub(trees[i], level)>>])

\* Statements, each with a ';' or without.
Statements(trees) ==
    FlattenSeq([i \in DOMAIN trees |-> <<Sub(trees[i], Statement), Opt(";")>>])

\* A type, empty where the program leaves it out.
TypePhrase(n) ==
    (IF n.v = <<>> THEN <<>> ELSE <<Val(n.k, n.v)>>)
        \o FlattenSeq([i \in DOMAIN n.a |->
             IF n.a[i].k = "*" THEN <<Tok("*")>>
             ELSE <<Tok("["), Val("number", n.a[i].v), Tok("]")>>])

NamedPhrase(n) == TypePhrase(n.a[1]) \o <<Unseen("id", n.v)>>

FunctionPhrase(n) ==
    LET params == SubSeq(n.a, 1, Len(n.a) - 2)
        result == n.a[Len(n.a) - 1]
    IN  <<Tok("fn"), Unseen("id", n.v), Tok("(")>>
          \o FlattenSeq([i \in DOMAIN params |->
               (IF i = 1 THEN <<>> ELSE <<Tok(",")>>) \o NamedPhrase(params[i])])
          \o <<Tok(")")>>
          \o (IF result.v = <<>> THEN <<>> ELSE <<Tok("->")>> \o TypePhrase(result))
          \o <<Sub(Last(n.a), Statement)>>

StructPhrase(n) ==
    <<Tok("struct"), Unseen("id", n.v), Unseen("{", <<"{">>)>>
      \o FlattenSeq([i \in DOMAIN n.a |-> NamedPhrase(n.a[i]) \o <<Unseen(";", <<";">>)>>])
      \o <<Tok("}"), Unseen(";", <<";">>)>>

ExpressionPhrase(n) ==
    CASE n.k = "assign" -> <<Sub(n.a[1], Expression + 1), Tok("="), Sub(n.a[2], Expression)>>
      [] n.k = "binary" ->
           <<Sub(n.a[1], OpLevel(Op(n))), Tok(Op(n)), Sub(n.a[2], OpLevel(Op(n)) + 1)>>
      [] n.k = "address" -> <<Tok("&"), Sub(n.a[1], Factor)>>
      [] n.k = "deref"   -> <<Tok("*"), Sub(n.a[1], Factor)>>
      [] n.k = "number"  ->
           IF Head(n.v) = "-" THEN <<Tok("-"), Val("number", Tail(n.v))>>
           ELSE <<Val("number", n.v)>>
      [] n.k = "name"    -> <<Val("id", n.v)>>
      [] n.k \in {"string", "asm"} -> <<Val(n.k, n.v)>>
      [] n.k = "call"    -> <<Val("id", n.v), Tok("(")>> \o Listed(n.a, Expression) \o <<Tok(")")>>
      [] n.k = "member"  -> <<Sub(n.a[1], Primary), Tok("."), Unseen("id", n.v)>>
      [] n.k = "index"   ->
           <<Sub(n.a[1], Primary), Tok("["), Sub(n.a[2], Expression), Tok("]")>>
      [] n.k = "cast"    -> <<Sub(n.a[1], Primary), Tok("as")>> \o TypePhrase(n.a[2])

StatementPhrase(n) ==
    CASE n.k = "fn"     -> FunctionPhrase(n)
      [] n.k = "struct" -> StructPhrase(n)
      [] n.k = "block"  -> <<Tok("{")>> \o Statements(n.a) \o <<Tok("}")>>
      [] n.k = "return" -> <<Tok("return")>> \o [i \in DOMAIN n.a |-> Sub(n.a[i], Expression)]
      [] n.k = "if"     ->
           <<Tok("if"), Sub(n.a[1], Expression), Sub(n.a[2], Statement)>>
             \o (IF Len(n.a) = 2 THEN <<>> ELSE <<Tok("else"), Sub(n.a[3], Statement)>>)
      [] n.k = "while"  -> <<Tok("while"), Sub(n.a[1], Expression), Sub(n.a[2], Statement)>>
      [] n.k = "var"    ->
           NamedPhrase(n)
             \o (IF Len(n.a) = 1 THEN <<>> ELSE <<Tok("="), Sub(n.a[2], Expression)>>)
             \o <<Unseen(";", <<";">>)>>
      [] n.k = "const"  ->
           <<Tok("const")>> \o NamedPhrase(n)
             \o <<Unseen("=", <<"=">>), Sub(n.a[2], Expression), Unseen(";", <<";">>)>>
      [] n.k = "import" -> <<Tok("import"), Unseen("string", n.v)>>
      [] n.k = "foreign" ->
           <<Tok("foreign"), Unseen("string", n.v), Unseen("id", n.a[1].v)>>

\* comptime takes a statement where a statement stands, and a factor elsewhere.
Phrase(n, level) ==
    IF n.k = "comptime"
    THEN <<Tok("comptime"), Sub(n.a[1], IF level = Statement THEN Statement ELSE Factor)>>
    ELSE IF LevelOf(n) = Statement THEN StatementPhrase(n) ELSE ExpressionPhrase(n)

Matches(tok, item) == tok.t = item.t /\ tok.v = item.v

\* An unseen token may be any, the end of the file too; where it is a name, it
\* gives the tree its value.
Passes(ts, i, item, strict) ==
    IF strict THEN i < Len(ts) /\ Matches(ts[i], item)
    ELSE item.t \in {"id", "string"} => ts[i].v = item.v

RECURSIVE Follow(_, _, _, _), Ends(_, _, _, _)

\* The places after the tree, read from place i at the level given.
Ends(ts, i, item, strict) ==
    LET n == item.tree
    IN  (IF LevelOf(n) >= item.level THEN Follow(ts, {i}, Phrase(n, item.level), strict) ELSE {})
          \cup (IF LevelOf(n) = Statement \/ ts[i].t # "(" THEN {}
                ELSE Follow(ts, {i}, <<Tok("("), Sub(n, Expression), Tok(")")>>, strict))

\* The places after the items, from any of the places given.  The last token
\* is the end of the file, which nothing passes.
Follow(ts, places, items, strict) ==
    FoldLeft(LAMBDA here, item :
               CASE item.i = "token" ->
                      {i + 1 : i \in {j \in here : j < Len(ts) /\ Matches(ts[j], item)}}
                 [] item.i = "opt" ->
                      here \cup {i + 1 : i \in {j \in here : j < Len(ts) /\ Matches(ts[j], item)}}
                 [] item.i = "unseen" ->
                      {IF i < Len(ts) THEN i + 1 ELSE i :
                         i \in {j \in here : Passes(ts, j, item, strict)}}
                 [] item.i = "sub" -> UNION {Ends(ts, i, item, strict) : i \in here},
             places, items)

\* The tokens, all of them, read as the statements.
Reads(ts, stmts, strict) == Len(ts) \in Follow(ts, {1}, Statements(stmts), strict)
=============================================================================
