------------------------------- MODULE Parser -------------------------------
(***************************************************************************)
(* The recursive descent parser (Parser.cpp).  A parser is a record        *)
(*   [ts |-> tokens, the last of type "eof", pos |-> the current one,      *)
(*    errs |-> places where an error was reported,                         *)
(*    node |-> the tree that the last parse function returned,             *)
(*    ok   |-> FALSE while an exception is on its way to a handler]        *)
(* and a parse function maps one to another.  Trees are                    *)
(*   [k |-> kind, v |-> name, value or operator, a |-> subtrees].          *)
(* Error messages are left out, and the layout of structs, which module    *)
(* StructLayout has; a struct member that is a struct is an error here.    *)
(***************************************************************************)
EXTENDS Lexer

Tree(k, v, a) == [k |-> k, v |-> v, a |-> a]
Nothing       == Tree("none", <<>>, <<>>)
Parsing(ts)   == [ts |-> ts, pos |-> 1, errs |-> {}, node |-> Nothing, ok |-> TRUE]

Type(p)  == p.ts[p.pos].t
Value(p) == p.ts[p.pos].v
Peek(p)  == IF p.pos < Len(p.ts) THEN p.ts[p.pos + 1].t ELSE "eof"

\* At the end of the file eat() stays there.
Eat(p) == IF p.pos < Len(p.ts) THEN [p EXCEPT !.pos = @ + 1] ELSE p

Throw(p)     == [p EXCEPT !.ok = FALSE]
Expect(p, t) == IF Type(p) = t THEN Eat(p) ELSE Throw(p)
Give(p, k, v, a) == [p EXCEPT !.node = Tree(k, v, a)]

\* What comes after p in a function, unless p has thrown.
Then(p, F(_)) == IF p.ok THEN F(p) ELSE p

-----------------------------------------------------------------------------
(* Types: the base, a "*" for each level, and the array size if there is one *)

RECURSIVE Stars(_)
Stars(p) ==
    IF Type(p) = "*"
    THEN Stars([Eat(p) EXCEPT !.node.a = Append(@, Tree("*", <<>>, <<>>))]) ELSE p

ArraySize(p) ==
    IF Type(p) # "[" THEN p
    ELSE LET n == Eat(p)
         IN  IF Type(n) # "number" THEN Throw(n)
             ELSE Expect([Eat(n) EXCEPT !.node.a = Append(@, Tree("[]", Value(n), <<>>))], "]")

IsPointer(t) == \E i \in DOMAIN t.a : t.a[i].k = "*"

ParseType(p) ==
    IF Type(p) \notin TypeWords \cup {"id"} THEN Throw(p)
    ELSE Then(ArraySize(Stars(Eat(Give(p, Type(p), Value(p), <<>>)))),
              LAMBDA q : IF q.node.k = "void" /\ ~IsPointer(q.node) THEN Throw(q) ELSE q)

-----------------------------------------------------------------------------
(* Expressions *)

\* Mutation of Levels: sums and products bind alike.
FlatLevels == <<{"||"}, {"&&"}, {"==", "!="}, {"<", ">", "<=", ">="}, {"+", "-", "*", "/"}>>

\* The operators from the loosest to the tightest, parseLogicalOr to parseTerm.
Levels == <<{"||"}, {"&&"}, {"==", "!="}, {"<", ">", "<=", ">="}, {"+", "-"}, {"*", "/"}>>

RECURSIVE ParseExpression(_), ParseLevel(_, _), Climb(_, _), ParseFactor(_), Postfix(_),
          Arguments(_, _)

\* parseAssignment: anything may stand on the left.
ParseExpression(p) ==
    Then(ParseLevel(p, 1),
         LAMBDA l : IF Type(l) # "=" THEN l
                    ELSE Then(ParseExpression(Eat(l)),
                              LAMBDA r : Give(r, "assign", <<>>, <<l.node, r.node>>)))

ParseLevel(p, n) ==
    IF n > Len(Levels) THEN ParseFactor(p) ELSE Then(ParseLevel(p, n + 1), LAMBDA l : Climb(l, n))

\* The loop of a level: its operators associate to the left.
Climb(l, n) ==
    IF Type(l) \notin Levels[n] THEN l
    ELSE Then(ParseLevel(Eat(l), n + 1),
              LAMBDA r : Climb(Give(r, "binary", Value(l), <<l.node, r.node>>), n))

\* The arguments of a call from the first one on, those before it in args.
Arguments(p, args) ==
    Then(ParseExpression(p),
         LAMBDA q : IF Type(q) = "," THEN Arguments(Eat(q), Append(args, q.node))
                    ELSE [q EXCEPT !.node.a = Append(args, q.node)])

ParseCall(p) ==
    Then(IF Type(Eat(Eat(p))) = ")" THEN Give(Eat(Eat(p)), "", <<>>, <<>>)
         ELSE Arguments(Eat(Eat(p)), <<>>),
         LAMBDA q : Expect(Give(q, "call", Value(p), q.node.a), ")"))

\* A factor wrapped in a node of its own: after comptime, & and *.
Wrapped(p, kind) == Then(ParseFactor(Eat(p)), LAMBDA q : Give(q, kind, <<>>, <<q.node>>))

ParseFactor(p) ==
    LET f ==
        CASE Type(p) \in {"number", "string", "asm"} -> Eat(Give(p, Type(p), Value(p), <<>>))
          [] Type(p) = "comptime" -> Wrapped(p, "comptime")
          [] Type(p) = "&" -> Wrapped(p, "address")
          [] Type(p) = "*" -> Wrapped(p, "deref")
          [] Type(p) = "-" /\ Peek(p) = "number" ->
               Eat(Give(Eat(p), "number", <<"-">> \o Value(Eat(p)), <<>>))
          [] Type(p) = "id" ->
               IF Peek(p) = "(" THEN ParseCall(p) ELSE Eat(Give(p, "name", Value(p), <<>>))
          [] Type(p) = "(" -> Then(ParseExpression(Eat(p)), LAMBDA q : Expect(q, ")"))
          [] OTHER -> Throw(p)
    IN  Then(f, Postfix)

\* Any token is taken as the name of a member.
Postfix(p) ==
    CASE Type(p) = "." -> Postfix(Eat(Give(Eat(p), "member", Value(Eat(p)), <<p.node>>)))
      [] Type(p) = "[" ->
           Then(Then(ParseExpression(Eat(p)),
                     LAMBDA q : Expect(Give(q, "index", <<>>, <<p.node, q.node>>), "]")), Postfix)
      [] Type(p) = "as" ->
           Then(Then(ParseType(Eat(p)), LAMBDA q : Give(q, "cast", <<>>, <<p.node, q.node>>)), Postfix)
      [] OTHER -> p

-----------------------------------------------------------------------------
(* Error recovery *)

RECURSIVE SkipTo(_, _)
SkipTo(p, stops) == IF Type(p) \in stops THEN p ELSE SkipTo(Eat(p), stops)

\* Mutation of Synchronize: the token that the exception was thrown at is kept.
SynchronizeInFront(p) ==
    IF Type(p) = "eof" THEN p
    ELSE LET q == SkipTo(p, {";", "}", "fn", "struct", "eof"})
         IN  IF Type(q) = ";" THEN Eat(q) ELSE q

\* The token that the exception was thrown at is given up whatever it is, a
\* closing brace too.
Synchronize(p) ==
    IF Type(p) = "eof" THEN p
    ELSE LET q == SkipTo(Eat(p), {";", "}", "fn", "struct", "eof"})
         IN  IF Type(q) = ";" THEN Eat(q) ELSE q

\* The handler of parse and parseBlock.
Catch(p) == [Synchronize([p EXCEPT !.errs = @ \cup {p.pos}]) EXCEPT !.ok = TRUE]

-----------------------------------------------------------------------------
(* Statements *)

RECURSIVE ParseStatement(_), ParseBlock(_), BlockLoop(_, _), Params(_, _), Members(_, _)

\* One turn of the loop of parse or parseBlock: a statement and a ';' if there
\* is one, or an exception and the recovery from it.
\* Mutation of Turn: nobody hears of the error.
TurnSilent(p) ==
    LET s == ParseStatement(p)
    IN  IF ~s.ok THEN [Synchronize([s EXCEPT !.ok = TRUE]) EXCEPT !.node = Nothing]
        ELSE IF Type(s) = ";" THEN Eat(s) ELSE s

Turn(p) ==
    LET s == ParseStatement(p)
    IN  IF ~s.ok THEN [Catch(s) EXCEPT !.node = Nothing]
        ELSE IF Type(s) = ";" THEN Eat(s) ELSE s

Gathered(stmts, p) == IF p.node = Nothing THEN stmts ELSE Append(stmts, p.node)

BlockLoop(p, stmts) ==
    IF Type(p) \in {"}", "eof"} THEN Give(p, "block", <<>>, stmts)
    ELSE LET t == Turn(p) IN BlockLoop(t, Gathered(stmts, t))

ParseBlock(p) ==
    IF Type(p) # "{" THEN Throw(p) ELSE Expect(BlockLoop(Eat(p), <<>>), "}")

\* A type and the token after it, whatever it is, as a name.
Named(p, kind) ==
    Then(ParseType(p), LAMBDA q : Eat(Give(q, kind, Value(q), <<q.node>>)))

Params(p, ps) ==
    Then(Named(p, "param"),
         LAMBDA q : IF Type(q) = "," THEN Params(Eat(q), Append(ps, q.node))
                    ELSE [q EXCEPT !.node.a = Append(ps, q.node)])

ParseFunction(p) ==
    LET list(q) == IF Type(q) = ")" THEN Give(q, "", <<>>, <<>>) ELSE Params(q, <<>>)
        result(q) == IF Type(q) = "->" THEN ParseType(Eat(q))
                     ELSE Give(q, "void", <<>>, <<>>)
    IN  Then(Expect(Eat(Eat(p)), "("), LAMBDA q0 :
        Then(list(q0), LAMBDA q1 :
        Then(Expect(q1, ")"), LAMBDA q2 :
        Then(result(q2), LAMBDA q3 :
        Then(ParseBlock(q3), LAMBDA q4 :
             Give(q4, "fn", Value(Eat(p)), q1.node.a \o <<q3.node, q4.node>>))))))

ParseReturn(p) ==
    IF Type(Eat(p)) \in {";", "}"} THEN Give(Eat(p), "return", <<>>, <<>>)
    ELSE Then(ParseExpression(Eat(p)), LAMBDA q : Give(q, "return", <<>>, <<q.node>>))

ParseIf(p) ==
    Then(ParseExpression(Eat(p)), LAMBDA c :
    Then(ParseBlock(c), LAMBDA b :
         IF Type(b) # "else" THEN Give(b, "if", <<>>, <<c.node, b.node>>)
         ELSE Then(ParseBlock(Eat(b)), LAMBDA e : Give(e, "if", <<>>, <<c.node, b.node, e.node>>))))

ParseWhile(p) ==
    Then(ParseExpression(Eat(p)), LAMBDA c :
    Then(ParseBlock(c), LAMBDA b : Give(b, "while", <<>>, <<c.node, b.node>>)))

\* Name, '=' and ';' are taken unseen.
ParseConst(p) ==
    LET typed == IF Type(Eat(p)) = "id" /\ Peek(Eat(p)) = "=" THEN Give(Eat(p), "i32", <<>>, <<>>)
                 ELSE ParseType(Eat(p))
    IN  Then(typed, LAMBDA t :
        Then(ParseExpression(Eat(Eat(t))), LAMBDA e :
             Eat(Give(e, "const", Value(t), <<t.node, e.node>>))))

\* Members up to a '}'; the tokens taken for the names and the ';' may be any.
Members(p, ms) ==
    IF Type(p) = "}" THEN Give(p, "", <<>>, ms)
    ELSE Then(Named(p, "field"), LAMBDA q :
         IF q.node.a[1].k = "id" /\ ~IsPointer(q.node.a[1]) THEN Throw(Eat(q))
         ELSE Members(Eat(q), Append(ms, q.node)))

ParseStruct(p) ==
    Then(Members(Eat(Eat(Eat(p))), <<>>),
         LAMBDA q : Eat(Eat(Give(q, "struct", Value(Eat(p)), q.node.a))))

\* Mutation of ParseVarDecl: one token less is taken.
ParseVarDeclShort(p) ==
    Then(Named(p, "var"), LAMBDA q :
         IF Type(q) # "=" THEN q
         ELSE Then(ParseExpression(Eat(q)),
                   LAMBDA e : Give(e, "var", q.node.v, Append(q.node.a, e.node))))

\* The token where the ';' should be is taken, whatever it is.
ParseVarDecl(p) ==
    Then(Named(p, "var"), LAMBDA q :
         IF Type(q) # "=" THEN Eat(q)
         ELSE Then(ParseExpression(Eat(q)),
                   LAMBDA e : Eat(Give(e, "var", q.node.v, Append(q.node.a, e.node)))))

\* A statement that starts with a name is a declaration if a name or a '*'
\* follows it: x * y is one.
StartsDeclaration(p) == Type(p) \in TypeWords \/ (Type(p) = "id" /\ Peek(p) \in {"id", "*"})

ParseStatement(p) ==
    CASE Type(p) = "fn"     -> ParseFunction(p)
      [] Type(p) = "return" -> ParseReturn(p)
      [] Type(p) = "if"     -> ParseIf(p)
      [] Type(p) = "while"  -> ParseWhile(p)
      [] Type(p) = "const"  -> ParseConst(p)
      [] Type(p) = "comptime" ->
           Then(ParseStatement(Eat(p)), LAMBDA q : Give(q, "comptime", <<>>, <<q.node>>))
      [] Type(p) = "{"      -> ParseBlock(p)
      [] Type(p) = "struct" -> ParseStruct(p)
      [] Type(p) = "import" -> Eat(Give(Eat(p), "import", Value(Eat(p)), <<>>))
      [] Type(p) = "foreign" ->
           LET lib == Eat(p)
               func == Eat(lib)
           IN  Eat(Give(func, "foreign", Value(lib), <<Tree("name", Value(func), <<>>)>>))
      [] StartsDeclaration(p) -> ParseVarDecl(p)
      [] OTHER -> ParseExpression(p)
=============================================================================
