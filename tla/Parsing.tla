------------------------------ MODULE Parsing ------------------------------
(***************************************************************************)
(* What the three recursive descent parsers of internal/dialects share.    *)
(*                                                                         *)
(* Each function of a parser is a production here: a sequence of items,    *)
(* one for every test it makes of the current token, with Read as the      *)
(* machine that runs them in their order.  So a production says which      *)
(* words a function requires, which it lets pass, where it stops and what  *)
(* it returns when it does not find what it wants.                         *)
(*                                                                         *)
(* A token is a word, a value the tokens it was read from, and a node has  *)
(* a field for each clause that was read.  Comments are no tokens.  Which  *)
(* operator binds tighter is the subject of module Expr, and what is       *)
(* inside a data type that of ColumnTypes.                                 *)
(***************************************************************************)
EXTENDS Syntax, Integers, SequencesExt, FiniteSetsExt, TLC

MyQ == INSTANCE MySQLQueries
OraQ == INSTANCE OracleQueries

Puncts == {"(", ")", ",", ".", ";", "=", "<>", "<", ">", "/", "-", "+", "@", ":=", "||", "&&", "=>", "%", "*"}
Binds == {":x"}
Numbers == {"0", "1", "2", "3"}
Strings == {"'a'", "'b'"}
\* identifiers; every other word is a keyword
Names == {"a", "b", "c", "t", "u", "v", "x", "y", "s", "r", "k", "f", "l1", "OVERLAPS"}

EmptyNode == [field \in {} |-> <<>>]

\* A parser: the tokens it has not read, the nodes it is building (innermost
\* first), whether the function that runs returns nil, the last value it read,
\* the variables of an INTO, the number of its errors, and the delimiter of
\* statements.
NoInto == [vars |-> <<>>, from |-> 0, to |-> 0]
Parser(lang, toks) ==
    [lang |-> lang, in |-> toks, n |-> <<EmptyNode>>, nil |-> FALSE, v |-> NoValue, into |-> NoInto, err |-> 0, delim |-> ";"]

cur(p) == IF p.in = <<>> THEN "EOF" ELSE Head(p.in)
peek(p) == IF Len(p.in) < 2 THEN "EOF" ELSE p.in[2]
isName(p) == cur(p) \notin Puncts \cup Numbers \cup Strings \cup Binds \cup {"EOF"}

\* The words that end a statement.  Of a delimiter // the lexer makes two
\* tokens /, and the first one ends the statement.
Ends(p) ==
    CASE p.lang # "mysql" -> {";", "/"}
      [] p.delim = "//" -> {";", "/"}
      [] OTHER -> {";"}
atStatementEnd(p) == cur(p) \in Ends(p) \cup {"EOF"}

\* Tests of the current token by its kind, or with the token after it.
Classes == {"<end>", "<name>", "<ident>", "<keyword>", "<string>", "<number>", "<bind>", "<any>", "<check option>", "<delimiter>",
            "<package end>", "<t.*>", "<query>"}
inClass(p, c) ==
    CASE c = "<end>" -> atStatementEnd(p)
      [] c = "<name>" -> isName(p)
      [] c = "<ident>" -> cur(p) \in Names
      [] c = "<keyword>" -> isName(p) /\ cur(p) \notin Names
      [] c = "<string>" -> cur(p) \in Strings
      [] c = "<number>" -> cur(p) \in Numbers
      [] c = "<bind>" -> cur(p) \in Binds
      [] c = "<any>" -> cur(p) # "EOF"
      [] c = "<t.*>" -> isName(p) /\ peek(p) = "." /\ Len(p.in) > 2 /\ p.in[3] = "*"
      [] c = "<query>" -> \E i \in 2 .. Len(p.in) : p.in[i] \in {"SELECT", "WITH"} /\ \A j \in 1 .. i - 1 : p.in[j] = "("
      [] c = "<check option>" -> cur(p) = "WITH" /\ peek(p) \in {"CHECK", "CASCADED", "LOCAL"}
      [] c = "<delimiter>" -> p.delim # ";" /\ cur(p) = "/"
      [] c = "<package end>" -> p.delim = ";" /\ cur(p) = "END"
at(p, ws) == cur(p) \in ws \/ \E c \in ws \cap Classes : inClass(p, c)

\* The command DELIMITER of a MySQL script works wherever it comes, and no
\* function of the parser sees it.
DelimiterCmd == "DELIMITER //" :> "//" @@ "DELIMITER ;" :> ";"
RECURSIVE settle(_)
settle(p) ==
    IF p.in # <<>> /\ Head(p.in) \in DOMAIN DelimiterCmd
    THEN settle([p EXCEPT !.in = Tail(@), !.delim = DelimiterCmd[Head(p.in)]])
    ELSE p
advance(p) == IF p.in = <<>> THEN p ELSE settle([p EXCEPT !.in = Tail(@)])
errorHere(p) == [p EXCEPT !.err = @ + 1]
\* expectKw and expectPunct: if the word is not there, an error and no token less
expect(p, w) == IF cur(p) = w THEN advance(p) ELSE errorHere(p)
take(p) == [advance(p) EXCEPT !.v = <<cur(p)>>]
nothing(p) == [p EXCEPT !.v = NoValue]

-----------------------------------------------------------------------------
(* Captured text: the tokens up to a stop. *)

keepOne(p) == [advance(p) EXCEPT !.v = Append(p.v, cur(p))]
RECURSIVE Capture(_, _, _, _)
\* level is the number of open parentheses; ends stop it at every level
Capture(p, stops, ends, level) ==
    CASE cur(p) = "EOF" \/ at(p, ends) \/ (level = 0 /\ at(p, stops)) -> p
      [] cur(p) = "(" -> Capture(keepOne(p), stops, ends, level + 1)
      [] cur(p) = ")" /\ level > 0 -> Capture(keepOne(p), stops, ends, level - 1)
      [] OTHER -> Capture(keepOne(p), stops, ends, level)
captureText(p, stops) == Capture(nothing(p), stops, {}, 0)
captureFlat(p, ends) == Capture(nothing(p), {}, ends, 0)
captureWithin(p, stops) == Capture(nothing(p), stops, {"<end>"}, 0)
\* Mutant: only ";" ends a statement.
BugSyncToSemicolon(p) == captureFlat(p, {";"})
syncToDelimiter(p) == captureFlat(p, {"<end>"})
captureUntilDelimiter(p) == captureFlat(p, {"<end>"})

\* up to the ")" of a "(" that has been read, and over it
closeExpr(q) == IF cur(q) = "EOF" THEN nothing(q) ELSE [advance(q) EXCEPT !.v = q.v]
\* Mutant: the first ")" ends it.
BugCaptureToFirstClose(p) == closeExpr(captureFlat(p, {")"}))
captureBalancedExpr(p) == closeExpr(captureText(p, {")"}))
closeParens(q) == IF cur(q) = "EOF" THEN nothing(errorHere(q)) ELSE closeExpr(q)
captureBalancedParens(p) ==
    IF cur(p) = "(" THEN closeParens(captureText(advance(p), {")"})) ELSE nothing(errorHere(p))

-----------------------------------------------------------------------------
(* Routine bodies: text up to the END of the block that the body opens. *)

Openers ==
    [mysql |-> {"BEGIN", "CASE", "LOOP", "IF"}, oracle |-> {"BEGIN", "LOOP", "IF"},
     db2 |-> {"BEGIN", "LOOP", "IF", "WHILE", "REPEAT"}]
EndOf ==
    [mysql |-> {"IF", "LOOP", "CASE", "REPEAT", "WHILE"}, oracle |-> {"IF", "LOOP"},
     db2 |-> {"IF", "LOOP", "WHILE", "REPEAT"}]

RECURSIVE captureBeginEnd(_, _), beginEnd(_, _)
captureBeginEnd(p, depth) ==
    CASE cur(p) = "EOF" -> errorHere(p)
      [] cur(p) \in Openers["mysql"] -> captureBeginEnd(keepOne(p), depth + 1)
      [] cur(p) = "END" /\ peek(p) \in EndOf["mysql"] -> beginEnd(keepOne(keepOne(p)), depth - 1)
      [] cur(p) = "END" -> beginEnd(keepOne(p), depth - 1)
      [] OTHER -> captureBeginEnd(keepOne(p), depth)
beginEnd(p, depth) == IF depth <= 0 THEN p ELSE captureBeginEnd(p, depth)
captureRawBody(p) ==
    IF cur(p) = "BEGIN" THEN captureBeginEnd(nothing(p), 0) ELSE captureUntilDelimiter(p)

\* Oracle and DB2: a CASE, whose END may end an expression, has a count of its
\* own.  After an END Oracle reads on to the ";".
afterEnd(p) == IF p.lang = "oracle" THEN Capture(p, {}, {"<end>"}, 0) ELSE p
RECURSIVE captureBlock(_, _, _), blockEnd(_, _, _)
captureBlock(p, depth, cases) ==
    CASE cur(p) = "EOF" -> errorHere(p)
      [] cur(p) \in Openers[p.lang] -> captureBlock(keepOne(p), depth + 1, cases)
      [] cur(p) = "CASE" -> captureBlock(keepOne(p), depth, cases + 1)
      [] cur(p) = "END" /\ peek(p) = "CASE" ->
            captureBlock(afterEnd(keepOne(keepOne(p))), depth, IF cases > 0 THEN cases - 1 ELSE 0)
      [] cur(p) = "END" /\ peek(p) \in EndOf[p.lang] -> blockEnd(afterEnd(keepOne(keepOne(p))), depth - 1, cases)
      [] cur(p) = "END" /\ peek(p) = "FOR" /\ p.lang = "db2" -> captureBlock(keepOne(keepOne(p)), depth, cases)
      [] cur(p) = "END" /\ cases > 0 -> captureBlock(keepOne(p), depth, cases - 1)
      [] cur(p) = "END" -> blockEnd(Capture(keepOne(p), {}, {"<end>", "BEGIN", "DECLARE", "END"}, 0), depth - 1, cases)
      [] OTHER -> captureBlock(keepOne(p), depth, cases)
blockEnd(p, depth, cases) == IF depth <= 0 THEN p ELSE captureBlock(p, depth, cases)

\* A package body or a type body of Oracle: its routines, one after the other,
\* and the END of its own.  A CASE in the head of a routine has an END too, which
\* the one for packages knows.
RECURSIVE skipUntilRoutineBegin(_, _), restOfBody(_, _)
skipUntilRoutineBegin(p, cases) ==
    CASE cur(p) = "EOF" \/ (cases = 0 /\ cur(p) \in {"BEGIN", "END"}) -> p
      [] cur(p) = "CASE" -> skipUntilRoutineBegin(keepOne(p), cases + 1)
      [] cur(p) = "END" /\ peek(p) = "CASE" -> skipUntilRoutineBegin(keepOne(keepOne(p)), cases - 1)
      [] cur(p) = "END" -> skipUntilRoutineBegin(keepOne(p), cases - 1)
      [] OTHER -> skipUntilRoutineBegin(keepOne(p), cases)
nextRoutine(q, kind) == restOfBody(IF cur(q) = "BEGIN" THEN captureBlock(q, 0, 0) ELSE q, kind)
restOfBody(p, kind) ==
    CASE cur(p) = "EOF" -> p
      [] cur(p) \in {";", "/"} -> restOfBody(keepOne(p), kind)
      [] cur(p) = "END" -> IF peek(p) \in Names THEN keepOne(keepOne(p)) ELSE keepOne(p)
      [] kind = "package" -> nextRoutine(skipUntilRoutineBegin(p, 0), kind)
      [] OTHER -> nextRoutine(Capture(p, {}, {"BEGIN", "END"}, 0), kind)

\* A compound trigger ends at a "/"; its body at the last END that only its
\* name, or nothing, follows.
outerEnds(toks, name) ==
    {i + 1 : i \in {j \in 1 .. Len(toks) - 1 : toks[j] = "END" /\ toks[j + 1] = ";"}} \cup
    {i + 1 : i \in {j \in 1 .. Len(toks) - 1 : toks[j] = "END" /\ toks[j + 1] = name}} \cup
    {i + 2 : i \in {j \in 1 .. Len(toks) - 2 : toks[j] = "END" /\ toks[j + 1] = name /\ toks[j + 2] = ";"}}
toOuterEnd(q, ends) == IF ends = {} THEN q ELSE [q EXCEPT !.v = SubSeq(@, 1, Max(ends))]
compoundBody(q) == toOuterEnd(q, outerEnds(q.v, Last(q.n[1].name)))

-----------------------------------------------------------------------------
(* Values. *)

parseIdent(p) == IF isName(p) THEN take(p) ELSE nothing(errorHere(p))
takeIf(p, ws) == IF at(p, ws) THEN take(p) ELSE nothing(p)
\* q.v and the value that is read after it
joined(r, v) == [r EXCEPT !.v = v \o @]
qualified(q) == IF cur(q) = "." THEN joined(parseIdent(advance(q)), q.v) ELSE q
parseTableRef(p) == qualified(parseIdent(p))
parseSignedInt(p) ==
    CASE cur(p) = "-" -> joined(takeIf(advance(p), {"<number>"}), IF peek(p) \in Numbers THEN <<"-">> ELSE <<>>)
      [] cur(p) = "+" -> takeIf(advance(p), {"<number>"})
      [] OTHER -> takeIf(p, {"<number>"})
RECURSIVE names(_)
nameMore(q) == IF cur(q) = "," THEN joined(names(advance(q)), q.v) ELSE q
names(p) == nameMore(parseIdent(p))

Types == {"INT", "VARCHAR", "DATE", "NUMBER", "INTEGER"}
typeLength(q) ==
    IF cur(q) = "(" THEN [expect(takeIf(advance(q), {"<number>"}), ")") EXCEPT !.v = q.v \o takeIf(advance(q), {"<number>"}).v]
    ELSE q
\* Oracle takes any other name for that of a type the user made.
parseDataType(p) ==
    CASE cur(p) \in Types -> typeLength(take(p))
      [] p.lang = "oracle" /\ isName(p) -> parseTableRef(p)
      [] OTHER -> nothing(errorHere(p))

\* `user`@`host`, CURRENT_USER or CURRENT_USER()
parseUserSpec(p) ==
    CASE cur(p) = "CURRENT_USER" /\ peek(p) = "(" -> [expect(advance(advance(p)), ")") EXCEPT !.v = <<"CURRENT_USER">>, !.err = p.err]
      [] cur(p) = "CURRENT_USER" -> take(p)
      [] peek(p) = "@" -> joined(parseIdent(advance(advance(p))), <<cur(p), "@">>)
      [] OTHER -> parseIdent(p)

\* K = V, where "=" and V may be missing
pairValue(q, k) == joined(takeIf(q, {"<name>", "<number>", "<string>"}), <<k>>)
parsePair(p) == pairValue(IF peek(p) = "=" THEN advance(advance(p)) ELSE advance(p), cur(p))

Rule(p, name) == IF p.lang = "mysql" THEN MyQ!Rules[name] ELSE OraQ!Rules[name]

readValue(p, how) ==
    CASE how = "ident" -> parseIdent(p)
      [] how = "ref" -> parseTableRef(p)
      [] how = "names" -> names(p)
      [] how = "int" -> parseSignedInt(p)
      [] how = "type" -> parseDataType(p)
      [] how = "user" -> parseUserSpec(p)
      [] how = "pair" -> parsePair(p)
      [] how = "rest)" -> captureBalancedExpr(p)
      [] how = "(text)" -> captureBalancedParens(p)
      [] how = "statement" -> captureUntilDelimiter(p)
      [] how = "body" -> captureRawBody(p)
      [] how = "block" -> captureBlock(nothing(p), 0, 0)
      [] how \in {"package", "type body"} -> restOfBody(captureBlock(nothing(p), 0, 0), how)
      [] how = "compound" -> compoundBody(captureFlat(p, {"/"}))

-----------------------------------------------------------------------------
(* Reading a production. *)

put(p, field, x) == [p EXCEPT !.n[1] = (field :> x) @@ @]
field(n, f) == IF f \in DOMAIN n THEN n[f] ELSE NoValue
\* where the value of an item goes
stored(p, i) ==
    CASE i.to = "extend" ->
            put(p, i.field, IF field(p.n[1], i.field) = NoValue THEN p.v ELSE field(p.n[1], i.field) \o i.sep \o p.v)
      [] i.to # "extend" /\ (p.v = NoValue \/ i.field = "") -> p
      [] i.to = "add" /\ p.v # NoValue -> put(p, i.field, Append(field(p.n[1], i.field), p.v))
      [] OTHER -> put(p, i.field, p.v)
narrowed(n, kind, fields) == ("is" :> <<kind>>) @@ [f \in DOMAIN n \cap fields |-> n[f]]
openNode(p, kind) == [p EXCEPT !.n = <<"is" :> <<kind>>>> \o @]
\* the innermost node is done; a nil one is not kept
closeNode(p, Kept(_, _)) ==
    [p EXCEPT !.nil = FALSE,
              !.n = <<IF p.nil THEN p.n[2] ELSE Kept(p.n[1], p.n[2])>> \o SubSeq(@, 3, Len(@))]
closeSub(p, f) == closeNode(p, LAMBDA n, m : (f :> Append(field(m, f), n)) @@ m)
closeOne(p, f) == closeNode(p, LAMBDA n, m : (f :> n) @@ m)

fits(p, a) ==
    /\ at(p, a.ws)
    /\ a.next # {} => at(advance(p), a.next)
    /\ a.has # "" => field(p.n[1], a.has) = a.x
armOf(p, arms) == SelectInSeq(arms, LAMBDA a : fits(p, a))
skip(p, k) == CASE k = 0 -> p [] k = 1 -> advance(p) [] k = 2 -> advance(advance(p))

ReadValue(p, i) ==
    CASE i.op = "val" -> readValue(p, i.arg)
      [] i.op = "word" -> takeIf(p, i.arg)
      [] i.op = "text" -> captureText(p, i.arg)
      [] i.op = "flat" -> captureFlat(p, i.arg)
      [] i.op = "within" -> captureWithin(p, i.arg)

\* What an item does to the node.
dropped(n, f) == [x \in DOMAIN n \ {f} |-> n[x]]
moved(n, from, to) == IF from \in DOMAIN n THEN (to :> n[from]) @@ dropped(n, from) ELSE n
Alone(n, f, kind) == f \in DOMAIN n /\ Len(n[f]) = 1 /\ n[f][1]["is"] = <<kind>>
ReadNode(n, i) ==
    CASE i.op = "put" -> (i.field :> i.x) @@ n
      [] i.op = "node" -> narrowed(n, i.kind, i.fields)
      [] i.op = "drop" -> dropped(n, i.field)
      [] i.op = "move" -> moved(n, i.from, i.to)
      [] i.op = "group" -> (i.to :> Append(field(n, i.to), field(n, i.from))) @@ dropped(n, i.from)
      [] i.op = "wrap" -> ("is" :> <<i.kind>>) @@ (i.field :> n)
      [] i.op = "hoist" -> IF Alone(n, i.field, i.kind) THEN dropped(n, i.field) @@ dropped(n[i.field][1], "is") ELSE n

\* An item without a production of its own.
ReadToken(p, i) ==
    CASE i.op = "may" -> IF at(p, i.ws) THEN advance(p) ELSE p
      [] i.op = "must" -> expect(p, i.w)
      [] i.op = "keep" -> IF at(p, i.ws) THEN keepOne(p) ELSE errorHere(p)
      [] i.op = "restart" -> nothing(p)
      [] i.op = "err" -> errorHere(p)
      [] i.op = "nil" -> [p EXCEPT !.nil = TRUE]
      [] i.op = "has" -> IF i.field \in DOMAIN p.n[1] THEN p ELSE [p EXCEPT !.nil = TRUE]
      [] i.op = "become" -> IF i.field \in DOMAIN p.n[1] THEN [p EXCEPT !.n[1] = @[i.field] @@ dropped(@, i.field)] ELSE [p EXCEPT !.nil = TRUE]
      [] i.op \in {"put", "node", "drop", "move", "group", "wrap", "hoist"} -> [p EXCEPT !.n[1] = ReadNode(@, i)]
      [] OTHER -> stored(ReadValue(p, i), i)

\* An item with one: the parser that reads it, what that one reads, and what
\* becomes of it.
subParser(p, toks) == Parser(p.lang, toks)
intoOnce(p) == IF p.into = NoInto THEN p ELSE errorHere(p)
enter(p, i) ==
    CASE i.op \in {"keeps", "value"} -> nothing(p)
      [] i.op \in {"sub", "one"} -> openNode(p, i.kind)
      [] i.op = "consumed" -> openNode(p, "")
      [] i.op = "into" -> openNode(intoOnce(p), "")
      [] i.op \in {"query", "expr"} -> subParser(p, p.v)
      [] i.op \in {"unkept", "call", "need"} -> p

QueryAlone == <<One("stmt", "SELECT", <<Call("select")>>)>>
inside(p, i) ==
    CASE i.op \in {"sub", "one", "value", "unkept", "consumed"} -> i.g
      [] i.op = "keeps" -> i.arg
      [] i.op = "call" -> Rule(p, i.rule)
      [] i.op = "into" -> <<List(<<Keeps("var", <<Call("variable")>>), Group("var", "vars")>>)>>
      [] i.op = "query" -> QueryAlone
      [] i.op = "expr" -> <<Call("expr")>>
      [] i.op = "need" -> IF p.v = NoValue THEN i.g \o <<Nil>> ELSE <<>>

\* all the tokens between p and q
consumed(p, q) == [q EXCEPT !.n = p.n, !.nil = FALSE, !.v = p.v \o SubSeq(p.in, 1, Len(p.in) - Len(q.in))]
\* the place of the INTO is counted from the end of the text
readInto(p, q) == [q EXCEPT !.n = p.n, !.into = [vars |-> q.n[1].vars, from |-> Len(p.in) + 1, to |-> Len(q.in)]]
viewBody(p, f, q) ==
    IF q.err = 0 /\ "stmt" \in DOMAIN q.n[1] /\ q.in = <<>> /\ q.into = NoInto THEN put(p, f, q.n[1].stmt)
    ELSE put(p, "selectParseError", Yes)
oneExpr(p, f, q) == IF p.v # NoValue /\ q.err = 0 /\ q.in = <<>> THEN put(p, f, q.v) ELSE p
leave(p, i, q) ==
    CASE i.op = "keeps" -> stored(q, i)
      [] i.op = "value" -> joined(q, p.v)
      [] i.op = "unkept" -> [q EXCEPT !.v = p.v]
      [] i.op = "consumed" -> consumed(p, q)
      [] i.op = "sub" -> closeSub(q, i.field)
      [] i.op = "one" -> closeOne(q, i.field)
      [] i.op = "into" -> readInto(p, q)
      [] i.op = "query" -> viewBody(p, i.field, q)
      [] i.op = "expr" -> oneExpr(p, i.field, q)
      [] i.op \in {"call", "need"} -> q

RECURSIVE Read(_, _), ReadArms(_, _, _, _), ReadList(_, _)
armsAgain(p, arms, again) == IF again /\ ~p.nil THEN ReadArms(p, arms, armOf(p, arms), again) ELSE p
ReadArms(p, arms, i, again) ==
    IF i = 0 THEN p ELSE armsAgain(Read(skip(p, arms[i].skip), arms[i].g), arms, again /\ ~arms[i].leave)
listAgain(p, i) == IF cur(p) = "," /\ ~p.nil THEN ReadList(advance(p), i) ELSE p
ReadList(p, i) == IF i.op = "each" /\ cur(p) \in {")", "EOF"} THEN p ELSE listAgain(Read(p, i.g), i)

ReadItem(p, i) ==
    CASE i.op \in {"switch", "loop"} -> ReadArms(p, i.arms, armOf(p, i.arms), i.op = "loop")
      [] i.op \in {"list", "each"} -> ReadList(p, i)
      [] i.op \in {"keeps", "value", "unkept", "consumed", "sub", "one", "call", "into", "query", "expr", "need"} ->
            leave(p, i, Read(enter(p, i), inside(p, i)))
      [] OTHER -> ReadToken(p, i)

Read(p, g) == IF g = <<>> \/ p.nil THEN p ELSE Read(ReadItem(p, Head(g)), Tail(g))
parseQuery(p, toks) == Read(subParser(p, toks), QueryAlone)
=============================================================================
