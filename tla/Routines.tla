------------------------------ MODULE Routines ------------------------------
(***************************************************************************)
(* The body of a routine on its way to PL/pgSQL: the statement parsers of  *)
(* internal/dialects/{mysql,oracle}/parser_plsql.go, the translation of    *)
(* internal/translate/plsql_xlate.go and the writer of                     *)
(* internal/dialects/postgres/plpgsql.go.                                  *)
(*                                                                         *)
(* A routine is a tree.  It is printed as the tokens of its source text,   *)
(* parsed, translated, printed again, and read back as PostgreSQL reads    *)
(* it.  Both trees are then executed on the same answers to their          *)
(* conditions, and have to leave the same trace.                           *)
(***************************************************************************)
EXTENDS Integers, Sequences, FiniteSets, SequencesExt

CONSTANTS RoutineSources,   \* kind -> the trees of routine bodies
          Tapes,            \* sequences of answers to the conditions
          MaxFuel           \* iterations after which an execution is cut

VARIABLES rtKind, rtSrc,    \* "mysql" or "oracle", the tree of the source
          rtAST,            \* what the parser made of it
          rtOut,            \* [text, warned] of the translation
          rtPhase

rtVars == <<rtKind, rtSrc, rtAST, rtOut, rtPhase>>

\* A statement: kind, label, text, names, declarations, bodies.
Stmt(k, l, x, n, d, bs) == [k |-> k, l |-> l, x |-> x, n |-> n, d |-> d, bs |-> bs]
Simple(k, x) == Stmt(k, "", x, <<>>, <<>>, <<>>)
Jump(k, l, x) == Stmt(k, l, x, <<>>, <<>>, <<>>)     \* x is the condition, or ""
Loop(k, l, x, body) == Stmt(k, l, x, <<>>, <<>>, <<body>>)
\* IF and CASE: the conditions, "ELSE" for the last body if it has none
Choice(k, n, bs) == Stmt(k, "", "", n, <<>>, bs)
\* a block: its body, then one body for each handler named in n
Block(l, d, n, bs) == Stmt("block", l, "", n, d, bs)
Decl(d, x, c, action) == [d |-> d, x |-> x, c |-> c, action |-> action]

Tok(toks) == IF toks = <<>> THEN "EOF" ELSE Head(toks)
Left(t, rest) == [t |-> t, rest |-> rest]
\* what is read before the rest, and the next branch before the others
Ahead(t, more) == Left(t \o more.t, more.rest)
NoArms(rest) == [n |-> <<>>, bs |-> <<>>, rest |-> rest]
ArmBefore(cond, body, more) == [n |-> <<cond>> \o more.n, bs |-> <<body>> \o more.bs, rest |-> more.rest]
With(x, F(_)) == F(x)

RECURSIVE Trim(_)
\* NL, a line break, is no token: no parser sees one
Trim(toks) == IF Tok(toks) = "NL" THEN Trim(Tail(toks)) ELSE toks
Drop(n, toks) == Trim(SubSeq(toks, n + 1, Len(toks)))
\* expectKw, and the tokens that are read over when they are there
Skip(tok, toks) == IF Tok(toks) = tok THEN Drop(1, toks) ELSE toks
SkipAny(set, toks) == IF Tok(toks) \in set THEN Drop(1, toks) ELSE toks
ToSemicolon(toks) ==
    IF ";" \in Range(toks)
    THEN SubSeq(toks, CHOOSE i \in 1..Len(toks) : toks[i] = ";" /\ \A j \in 1..(i - 1) : toks[j] # ";", Len(toks))
    ELSE <<>>

-----------------------------------------------------------------------------
(* The text of a source, as MySQL and Oracle store it (external). *)

RECURSIVE MySQLText(_), OracleText(_)
MySQLSeq(ss) == FlattenSeq([i \in 1..Len(ss) |-> MySQLText(ss[i]) \o <<";">>])
OracleSeq(ss) == FlattenSeq([i \in 1..Len(ss) |-> OracleText(ss[i]) \o <<";", "NL">>])

Labelled(l, text) == IF l = "" THEN text ELSE <<l, ":">> \o text \o <<l>>

MySQLDecl(d) ==
    CASE d.d = "cursor" -> <<"DECLARE", d.x, "CURSOR", "FOR", "query">>
      [] d.d = "handler" -> <<"DECLARE", d.x, "HANDLER", "FOR", d.c>> \o MySQLText(d.action[1])
      [] OTHER -> <<"DECLARE", d.x, "INT">>

\* word(i) introduces the i-th condition
Arms(s, word(_), Text(_)) ==
    FlattenSeq([i \in 1..Len(s.n) |->
        (IF s.n[i] = "ELSE" THEN <<"ELSE">> ELSE <<word(i), s.n[i], "THEN">>) \o Text(s.bs[i])])

MySQLText(s) ==
    LET body == MySQLSeq(s.bs[1])
        if(i) == IF i = 1 THEN "IF" ELSE "ELSEIF"
        when(i) == "WHEN"
    IN  CASE s.k = "insert" -> <<"INSERT", s.x>>
          [] s.k = "call" -> <<"CALL", s.x>>
          [] s.k = "set" -> <<"SET", s.x, "=", "1">>
          [] s.k = "raise" -> IF s.x = "" THEN <<"RESIGNAL">> ELSE <<"SIGNAL", s.x>>
          [] s.k = "return" -> <<"RETURN">>
          [] s.k = "leave" -> <<"LEAVE", s.l>>
          [] s.k = "iterate" -> <<"ITERATE", s.l>>
          [] s.k = "open" -> <<"OPEN", s.x>>
          [] s.k = "close" -> <<"CLOSE", s.x>>
          [] s.k = "fetch" -> <<"FETCH", s.x, "INTO", "v">>
          [] s.k = "if" -> Arms(s, if, MySQLSeq) \o <<"END", "IF">>
          [] s.k = "case" -> <<"CASE">> \o Arms(s, when, MySQLSeq) \o <<"END", "CASE">>
          [] s.k = "while" -> Labelled(s.l, <<"WHILE", s.x, "DO">> \o body \o <<"END", "WHILE">>)
          [] s.k = "loop" -> Labelled(s.l, <<"LOOP">> \o body \o <<"END", "LOOP">>)
          [] s.k = "repeat" -> Labelled(s.l, <<"REPEAT">> \o body \o <<"UNTIL", s.x, "END", "REPEAT">>)
          [] s.k = "block" ->
                Labelled(s.l, <<"BEGIN">> \o FlattenSeq([i \in 1..Len(s.d) |-> MySQLDecl(s.d[i]) \o <<";">>])
                              \o body \o <<"END">>)

OracleDecl(d) ==
    CASE d.d = "cursor" -> <<"CURSOR", d.x, "IS", "query">>
      [] d.d = "exception" -> <<d.x, "EXCEPTION">>
      [] d.d = "pragma" -> <<"PRAGMA", d.x>>
      [] OTHER -> <<d.x, "NUMBER">>

Opt(words, x) == IF x = "" THEN <<>> ELSE words

\* the lines of an EXCEPTION section
HandlerText(s) ==
    FlattenSeq([i \in 1..Len(s.n) |-> <<"WHEN", s.n[i], "THEN", "NL">> \o OracleSeq(s.bs[i + 1])])

OracleText(s) ==
    LET body == OracleSeq(s.bs[1])
        label == Opt(<<"<<", s.l, ">>">>, s.l)
        name == Opt(<<s.l>>, s.l)
        loop == <<"LOOP", "NL">> \o body \o <<"END", "LOOP">> \o name
        if(i) == IF i = 1 THEN "IF" ELSE "ELSIF"
        when(i) == "WHEN"
    IN  CASE s.k = "insert" -> <<"INSERT", s.x>>
          [] s.k = "call" -> <<s.x>>
          [] s.k = "null" -> <<"NULL">>
          [] s.k = "goto" -> <<"GOTO", s.x>>
          [] s.k = "raise" -> <<"RAISE">> \o Opt(<<s.x>>, s.x)
          [] s.k = "return" -> <<"RETURN">>
          [] s.k = "leave" -> <<"EXIT">> \o name \o Opt(<<"WHEN", s.x>>, s.x)
          [] s.k = "iterate" -> <<"CONTINUE">> \o name \o Opt(<<"WHEN", s.x>>, s.x)
          [] s.k = "open" -> <<"OPEN", s.x>>
          [] s.k = "close" -> <<"CLOSE", s.x>>
          [] s.k = "fetch" -> <<"FETCH", s.x, "INTO", "v">>
          [] s.k = "if" -> Arms(s, if, OracleSeq) \o <<"END", "IF">>
          [] s.k = "case" -> <<"CASE", "NL">> \o Arms(s, when, OracleSeq) \o <<"END", "CASE">>
          [] s.k = "while" -> label \o <<"WHILE", s.x>> \o loop
          [] s.k = "loop" -> label \o loop
          [] s.k = "forquery" -> label \o <<"FOR", "rec", "IN", "query">> \o loop
          [] s.k = "forrange" -> label \o <<"FOR", "i", "IN", "1..2">> \o loop
          [] s.k = "block" ->
                label \o (IF s.d = <<>> THEN <<>> ELSE <<"DECLARE">>) \o
                FlattenSeq([i \in 1..Len(s.d) |-> OracleDecl(s.d[i]) \o <<";">>]) \o
                <<"BEGIN", "NL">> \o body \o
                (IF s.n = <<>> THEN <<>> ELSE <<"EXCEPTION", "NL">> \o HandlerText(s)) \o <<"END">> \o name

-----------------------------------------------------------------------------
(* The MySQL parser.  An operator returns the statements it made, none or   *)
(* one, and the tokens that are left.                                       *)

RECURSIVE MyStmts(_, _), parsePLStmt(_), MyArms(_, _), MyDecls(_)

\* isPlStopKeyword
MyStop == {"END", "ELSE", "ELSEIF", "WHEN", "UNTIL"}

\* parsePLBlockStmts, and with {"END"} the loop of parseBlock
MyStmts(stop, toks) ==
    IF Tok(toks) \in stop \cup {"EOF"} THEN Left(<<>>, toks)
    ELSE With(parsePLStmt(toks), LAMBDA s : Ahead(s.t, MyStmts(stop, Skip(";", s.rest))))

\* the branches of IF and CASE, and the ELSE after them
MyArms(words, toks) ==
    IF Tok(toks) \in words
    THEN With(MyStmts(MyStop, Skip("THEN", Drop(2, toks))),
              LAMBDA b : ArmBefore(toks[2], b.t, MyArms(words, b.rest)))
    ELSE IF Tok(toks) # "ELSE" THEN NoArms(toks)
    ELSE With(MyStmts(MyStop, Drop(1, toks)), LAMBDA b : ArmBefore("ELSE", b.t, NoArms(b.rest)))

parseIf(toks) ==
    With(MyArms({"IF", "ELSEIF"}, toks), LAMBDA a :
        Left(<<Choice("if", a.n, a.bs)>>, Skip("IF", Skip("END", a.rest))))

parseCase(toks) ==
    With(MyArms({"WHEN"}, Drop(1, toks)), LAMBDA a :
        Left(<<Choice("case", a.n, a.bs)>>, Skip("CASE", Skip("END", a.rest))))

\* the label after END is read over if it is the one in front
EndLabel(l, toks) == IF l # "" /\ Tok(toks) = l THEN Drop(1, toks) ELSE toks

parseWhile(l, toks) ==
    With(MyStmts(MyStop, Skip("DO", Drop(2, toks))), LAMBDA b :
        Left(<<Loop("while", l, toks[2], b.t)>>, EndLabel(l, Skip("WHILE", Skip("END", b.rest)))))

parseLoop(l, toks) ==
    With(MyStmts(MyStop, Drop(1, toks)), LAMBDA b :
        Left(<<Loop("loop", l, "", b.t)>>, EndLabel(l, Skip("LOOP", Skip("END", b.rest)))))

parseRepeat(l, toks) ==
    With(MyStmts(MyStop, Drop(1, toks)), LAMBDA b : With(Skip("UNTIL", b.rest), LAMBDA until :
        Left(<<Loop("repeat", l, Tok(until), b.t)>>, EndLabel(l, Skip("REPEAT", Skip("END", Drop(1, until)))))))

\* parsePLDecl; of the conditions of a handler those it knows end the scan
MyDecl(toks) ==
    CASE Tok(toks) \in {"CONTINUE", "EXIT"} ->
            With(parsePLStmt(Drop(4, toks)), LAMBDA a : Left(Decl("handler", Tok(toks), toks[4], a.t), a.rest))
      [] Tok(toks) \notin {"CONTINUE", "EXIT"} /\ toks[2] = "CURSOR" ->
            Left(Decl("cursor", Tok(toks), "", <<>>), ToSemicolon(toks))
      [] OTHER -> Left(Decl("var", Tok(toks), "", <<>>), Drop(2, toks))

MyDecls(toks) ==
    IF Tok(toks) # "DECLARE" THEN Left(<<>>, toks)
    ELSE With(MyDecl(Drop(1, toks)), LAMBDA d : Ahead(<<d.t>>, MyDecls(Skip(";", d.rest))))

parseBlock(l, toks) ==
    With(MyDecls(Skip("BEGIN", toks)), LAMBDA d : With(MyStmts({"END"}, d.rest), LAMBDA b :
        Left(<<Block(l, d.t, <<>>, <<b.t>>)>>, EndLabel(l, Skip("END", b.rest)))))

\* the statements without a body: LEAVE, CALL, FETCH, SIGNAL, SET, INSERT ...
parseSimple(toks) ==
    LET x == toks[2]
        one(s, n) == Left(<<s>>, Drop(n, toks))
    IN  CASE Tok(toks) = "LEAVE" -> one(Jump("leave", x, ""), 2)
          [] Tok(toks) = "ITERATE" -> one(Jump("iterate", x, ""), 2)
          [] Tok(toks) = "INSERT" -> one(Simple("insert", x), 2)
          [] Tok(toks) = "CALL" -> one(Simple("call", x), 2)
          [] Tok(toks) = "SIGNAL" -> one(Simple("raise", x), 2)
          [] Tok(toks) = "RESIGNAL" -> one(Simple("raise", ""), 1)
          [] Tok(toks) = "RETURN" -> one(Simple("return", ""), 1)
          [] Tok(toks) = "OPEN" -> one(Simple("open", x), 2)
          [] Tok(toks) = "CLOSE" -> one(Simple("close", x), 2)
          [] Tok(toks) = "FETCH" -> one(Simple("fetch", x), 4)
          [] Tok(toks) = "SET" -> one(Simple("set", x), 4)
          [] OTHER -> Left(<<Simple("raw", Tok(toks))>>, ToSemicolon(toks))

parsePLStmt(toks) ==
    LET labelled == Len(toks) > 1 /\ toks[2] = ":"
        l == IF labelled THEN Tok(toks) ELSE ""
        t == IF labelled THEN Drop(2, toks) ELSE toks
    IN  CASE Tok(t) = "BEGIN" -> parseBlock(l, t)
          [] Tok(t) = "IF" -> parseIf(t)
          [] Tok(t) = "CASE" -> parseCase(t)
          [] Tok(t) = "WHILE" -> parseWhile(l, t)
          [] Tok(t) = "LOOP" -> parseLoop(l, t)
          [] Tok(t) = "REPEAT" -> parseRepeat(l, t)
          [] OTHER -> parseSimple(t)

\* ParseRoutineBody
ParseMySQL(toks) == IF Tok(toks) = "BEGIN" THEN parseBlock("", toks) ELSE parsePLStmt(toks)

-----------------------------------------------------------------------------
(* The Oracle parser. *)

RECURSIVE OraStmts(_, _), oraStmt(_), OraArms(_, _, _), OraDecls(_), Capture(_, _), OraHandlers(_), Lines(_)

\* parseStmtsUntilAny: a word that stops another list is an error and skipped
OraStmts(stops, toks) ==
    IF Tok(toks) \in stops \cup {"EOF"} THEN Left(<<>>, toks)
    ELSE With(oraStmt(toks), LAMBDA s : Ahead(s.t, OraStmts(stops, Skip(";", s.rest))))

OraArms(words, stops, toks) ==
    IF Tok(toks) \in words
    THEN With(OraStmts(stops, Skip("THEN", Drop(2, toks))),
              LAMBDA b : ArmBefore(toks[2], b.t, OraArms(words, stops, b.rest)))
    ELSE IF Tok(toks) # "ELSE" THEN NoArms(toks)
    ELSE With(OraStmts({"END"}, Drop(1, toks)), LAMBDA b : ArmBefore("ELSE", b.t, NoArms(b.rest)))

\* END is left alone unless it is END IF
parseIfStmt(toks) ==
    With(OraArms({"IF", "ELSIF"}, {"END", "ELSIF", "ELSE"}, toks), LAMBDA a :
        Left(<<Choice("if", a.n, a.bs)>>,
               IF Tok(a.rest) = "END" /\ Tok(Drop(1, a.rest)) = "IF" THEN Drop(2, a.rest) ELSE a.rest))

parseCaseStmt(toks) ==
    With(OraArms({"WHEN"}, {"WHEN", "ELSE", "END"}, Drop(1, toks)), LAMBDA a :
        Left(<<Choice("case", a.n, a.bs)>>, Skip("CASE", Skip("END", a.rest))))

Idents == {"l1", "l2", "p", "q", "v", "mine"}

\* LOOP body END LOOP [name], for every kind of loop
OraLoopBody(toks) ==
    With(OraStmts({"END"}, Skip("LOOP", toks)), LAMBDA b :
        Left(b.t, SkipAny(Idents, Skip("LOOP", Skip("END", b.rest)))))

parseLoopStmt(l, toks) == With(OraLoopBody(toks), LAMBDA b : Left(<<Loop("loop", l, "", b.t)>>, b.rest))

parseWhileStmt(l, toks) ==
    With(OraLoopBody(Drop(2, toks)), LAMBDA b : Left(<<Loop("while", l, toks[2], b.t)>>, b.rest))

parseForStmt(l, toks) ==
    With(OraLoopBody(Drop(4, toks)), LAMBDA b :
        Left(<<Loop(IF toks[4] = "query" THEN "forquery" ELSE "forrange", l, "", b.t)>>, b.rest))

\* parseExitStmt and parseContinueStmt
OraJump(k, toks) ==
    LET t == Drop(1, toks)
        l == IF Tok(t) \in Idents THEN Tok(t) ELSE ""
        w == SkipAny(Idents, t)
    IN  IF Tok(w) = "WHEN" THEN Left(<<Jump(k, l, w[2])>>, Drop(2, w)) ELSE Left(<<Jump(k, l, "")>>, w)

OraDecl(toks) ==
    CASE Tok(toks) = "CURSOR" -> Left(Decl("cursor", toks[2], "", <<>>), ToSemicolon(toks))
      [] Tok(toks) = "PRAGMA" -> Left(Decl("pragma", toks[2], "", <<>>), ToSemicolon(toks))
      [] Tok(toks) \notin {"CURSOR", "PRAGMA"} ->
            Left(Decl(IF toks[2] = "EXCEPTION" THEN "exception" ELSE "var", Tok(toks), "", <<>>), Drop(2, toks))

OraDecls(toks) ==
    IF Tok(toks) \in {"BEGIN", "EOF"} THEN Left(<<>>, toks)
    ELSE With(OraDecl(toks), LAMBDA d : Ahead(<<d.t>>, OraDecls(Skip(";", d.rest))))

Openers == {"BEGIN", "IF", "LOOP", "CASE"}

\* the text of a handler, up to the next WHEN or END outside of any statement
Capture(depth, toks) ==
    IF toks = <<>> \/ (depth = 0 /\ Tok(toks) \in {"WHEN", "END"}) THEN Left(<<>>, toks)
    ELSE LET closed == Tok(toks) = "END" /\ Tok(Drop(1, toks)) \in Openers \ {"BEGIN"}
             n == IF closed THEN 2 ELSE 1
             d == IF Tok(toks) \in Openers THEN depth + 1 ELSE IF Tok(toks) = "END" THEN depth - 1 ELSE depth
         IN  Ahead(SubSeq(toks, 1, n), Capture(d, SubSeq(toks, n + 1, Len(toks))))

Lines(toks) ==
    IF "NL" \notin Range(toks) THEN IF toks = <<>> THEN <<>> ELSE <<toks>>
    ELSE LET i == CHOOSE i \in 1..Len(toks) : toks[i] = "NL" /\ \A j \in 1..(i - 1) : toks[j] # "NL"
         IN  <<SubSeq(toks, 1, i - 1)>> \o Lines(SubSeq(toks, i + 1, Len(toks)))

\* WHEN names THEN and the trimmed body begin one line
HandlerLines(name, text) ==
    LET body == Lines(Trim(text))
    IN  <<<<"WHEN", name, "THEN">> \o (IF body = <<>> THEN <<>> ELSE body[1])>> \o
        (IF body = <<>> THEN <<>> ELSE Tail(body))

OraHandlers(toks) ==
    IF Tok(toks) # "WHEN" THEN Left(<<>>, toks)
    ELSE With(Capture(0, SubSeq(toks, 4, Len(toks))), LAMBDA b :
             Ahead(HandlerLines(toks[2], b.t), OraHandlers(b.rest)))

\* parsePLBlock: n holds the lines of the EXCEPTION section; after END
\* everything up to the semicolon is skipped
OraBlock(l, toks) ==
    With(IF Tok(toks) = "DECLARE" THEN OraDecls(Drop(1, toks)) ELSE Left(<<>>, toks), LAMBDA d :
    With(OraStmts({"END", "EXCEPTION"}, Skip("BEGIN", d.rest)), LAMBDA b :
    With(IF Tok(b.rest) = "EXCEPTION" THEN OraHandlers(Drop(1, b.rest)) ELSE Left(<<>>, b.rest), LAMBDA h :
        Left(<<Block(l, d.t, h.t, <<b.t>>)>>, ToSemicolon(Skip("END", h.rest))))))

oraSimple(toks) ==
    LET x == toks[2]
        one(s, n) == Left(<<s>>, Drop(n, toks))
    IN  CASE Tok(toks) = "EXIT" -> OraJump("leave", toks)
          [] Tok(toks) = "CONTINUE" -> OraJump("iterate", toks)
          [] Tok(toks) = "GOTO" -> one(Simple("goto", x), 2)
          [] Tok(toks) = "RETURN" -> one(Simple("return", ""), 1)
          [] Tok(toks) = "NULL" -> one(Simple("null", ""), 1)
          [] Tok(toks) = "RAISE" -> IF x = ";" THEN one(Simple("raise", ""), 1) ELSE one(Simple("raise", x), 2)
          [] Tok(toks) = "OPEN" -> one(Simple("open", x), 2)
          [] Tok(toks) = "CLOSE" -> one(Simple("close", x), 2)
          [] Tok(toks) = "FETCH" -> one(Simple("fetch", x), 4)
          [] Tok(toks) = "INSERT" -> one(Simple("insert", x), 2)
          [] Tok(toks) \in Idents -> one(Simple("call", Tok(toks)), 1)
          [] OTHER -> Left(<<>>, Drop(1, toks))

\* parsePLStmt
oraStmt(toks) ==
    LET labelled == Tok(toks) = "<<"
        l == IF labelled THEN toks[2] ELSE ""
        t == IF labelled THEN Drop(3, toks) ELSE toks
    IN  CASE Tok(t) \in {"BEGIN", "DECLARE"} -> OraBlock(l, t)
          [] Tok(t) = "IF" -> parseIfStmt(t)
          [] Tok(t) = "CASE" -> parseCaseStmt(t)
          [] Tok(t) = "LOOP" -> parseLoopStmt(l, t)
          [] Tok(t) = "WHILE" -> parseWhileStmt(l, t)
          [] Tok(t) = "FOR" -> parseForStmt(l, t)
          [] OTHER -> oraSimple(t)

\* the body as it follows IS or AS: declarations without DECLARE
prefixOracleDeclare(toks) == IF Tok(toks) \in {"DECLARE", "BEGIN", "<<"} THEN toks ELSE <<"DECLARE">> \o toks

ParseOracle(toks) == OraBlock("", prefixOracleDeclare(toks))

-----------------------------------------------------------------------------
(* The translation. *)

RECURSIVE stmt(_, _)
stmts(kind, ss) == FlattenSeq([i \in 1..Len(ss) |-> stmt(kind, ss[i])])

\* of several cursors the last declared one counts
LastCursor(blk) ==
    LET is == {i \in 1..Len(blk.d) : blk.d[i].d = "cursor"}
    IN  IF is = {} THEN "" ELSE blk.d[CHOOSE i \in is : \A j \in is : j <= i].x

NotFoundHandler(d) == d.d = "handler" /\ d.c = "NOT FOUND"

\* a NOT FOUND handler that sets a flag, OPEN, and a LOOP with a FETCH in it
detectCursorIdiom(blk) ==
    LET cur == LastCursor(blk)
    IN  /\ cur # ""
        /\ \E d \in Range(blk.d) : NotFoundHandler(d) /\ d.action # <<>> /\ d.action[1].k = "set"
        /\ Simple("open", cur) \in Range(blk.bs[1])
        /\ \E s \in Range(blk.bs[1]) : s.k = "loop" /\ Simple("fetch", cur) \in Range(s.bs[1])

\* IF condition THEN LEAVE label; END IF
LeaveGuard(s) == s.k = "if" /\ Len(s.n) = 1 /\ Len(s.bs[1]) = 1 /\ s.bs[1][1].k = "leave"

filterCursorLoopBody(body, cur) ==
    SelectSeq(body, LAMBDA s : s # Simple("fetch", cur) /\ ~LeaveGuard(s))

translateCursorBody(kind, blk) ==
    FlattenSeq([i \in 1..Len(blk.bs[1]) |->
        LET s == blk.bs[1][i]
        IN  CASE s.k \in {"open", "close"} -> <<>>
              [] s.k = "loop" ->
                    <<Loop("forquery", s.l, "", stmts(kind, filterCursorLoopBody(s.bs[1], LastCursor(blk))))>>
              [] OTHER -> stmt(kind, s)])

\* The text passes over the EXCEPTION section, line by line.
pgKnownExceptionConditions == {"OTHERS", "NO_DATA_FOUND"}

\* a name that PostgreSQL does not know becomes OTHERS, and a comment keeps
\* the name, in front of the rest of the line
remapUserNamedWhenClauses(ln) ==
    IF Tok(ln) # "WHEN" \/ ln[2] \in pgKnownExceptionConditions THEN ln
    ELSE <<"WHEN", "OTHERS", "THEN", "--">> \o SubSeq(ln, 4, Len(ln))

\* the first RAISE of the line, if a name follows
rewriteBareRaiseInHandlers(ln) ==
    LET raises == {i \in 1..Len(ln) : ln[i] = "RAISE"}
        i == CHOOSE i \in raises : \A j \in raises : i <= j
    IN  IF raises = {} THEN ln
        ELSE IF i = Len(ln) \/ ln[i + 1] \notin Idents \cup pgKnownExceptionConditions THEN ln
        ELSE SubSeq(ln, 1, i) \o <<"EXCEPTION">> \o SubSeq(ln, i + 1, Len(ln))

RECURSIVE LineDepth(_, _)
\* the depth after the words of a line
LineDepth(depth, ln) ==
    IF ln = <<>> THEN depth
    ELSE LET closed == Tok(ln) = "END" /\ Len(ln) > 1 /\ ln[2] \in Openers \ {"BEGIN"}
         IN  LineDepth(CASE Tok(ln) \in Openers -> depth + 1
                         [] Tok(ln) = "END" -> IF depth > 0 THEN depth - 1 ELSE 0
                         [] OTHER -> depth,
                       SubSeq(ln, IF closed THEN 3 ELSE 2, Len(ln)))

\* the last line of each handler ends in a semicolon
normalizeExceptionHandlerSemicolons(lines) ==
    LET depth[i \in 0..Len(lines)] == IF i = 0 THEN 0 ELSE LineDepth(depth[i - 1], lines[i])
        starts == {i \in 1..Len(lines) : Tok(lines[i]) = "WHEN" /\ depth[i - 1] = 0}
        ends == {i \in 1..Len(lines) : i = Len(lines) \/ i + 1 \in starts}
    IN  [i \in 1..Len(lines) |->
            IF i \in ends /\ (lines[i] = <<>> \/ lines[i][Len(lines[i])] # ";") THEN lines[i] \o <<";">> ELSE lines[i]]

extractExceptionHandlers(lines) ==
    normalizeExceptionHandlerSemicolons(
        [i \in 1..Len(lines) |-> rewriteBareRaiseInHandlers(remapUserNamedWhenClauses(lines[i]))])

\* declarations that stay; exceptions and pragmas go, and so does what the
\* loop over a cursor replaces
KeptDecl(blk, idiom, d) ==
    CASE d.d = "cursor" -> ~(idiom /\ d.x = LastCursor(blk))
      [] d.d = "var" -> ~(idiom /\ \E h \in Range(blk.d) : NotFoundHandler(h) /\ h.action = <<Simple("set", d.x)>>)
      [] OTHER -> FALSE

block(kind, blk) ==
    LET idiom == detectCursorIdiom(blk)
    IN  Block(blk.l, SelectSeq(blk.d, LAMBDA d : KeptDecl(blk, idiom, d)),
              IF kind = "oracle" THEN extractExceptionHandlers(blk.n) ELSE <<>>,
              <<IF idiom THEN translateCursorBody(kind, blk) ELSE stmts(kind, blk.bs[1])>>)

\* Mutant: the condition is tested before the body.
BugUntilFirst(kind, s) ==
    <<Loop("loop", s.l, "", <<Jump("leave", "", s.x)>> \o stmts(kind, s.bs[1]))>>

RepeatAsLoop(kind, s) ==
    <<Loop("loop", s.l, "", stmts(kind, s.bs[1]) \o <<Jump("leave", "", s.x)>>)>>

translatedBodies(kind, s) == <<[s EXCEPT !.bs = [i \in 1..Len(s.bs) |-> stmts(kind, s.bs[i])]]>>

\* the statements only Oracle has; GOTO has no translation and is dropped
oracleStmt(kind, s) == IF s.k = "goto" THEN <<>> ELSE translatedBodies(kind, s)

stmt(kind, s) ==
    CASE s.k = "block" -> <<block(kind, s)>>
      [] s.k = "repeat" -> RepeatAsLoop(kind, s)
      [] s.k \in {"goto", "forquery", "forrange", "null"} -> oracleStmt(kind, s)
      [] s.k \notin {"block", "repeat", "goto", "forquery", "forrange", "null"} -> translatedBodies(kind, s)

RECURSIVE Warned(_)
\* what is listed for manual review
Warned(s) ==
    \/ s.k \in {"raw", "goto"}
    \/ s.k = "block" /\ \E d \in Range(s.d) :
          d.d = "handler" /\ ~(detectCursorIdiom(s) /\ NotFoundHandler(d))
    \/ \E i \in 1..Len(s.bs) : \E t \in Range(s.bs[i]) : Warned(t)

-----------------------------------------------------------------------------
(* The writer. *)

RECURSIVE writePLStmt(_)
writeBody(ss) == FlattenSeq([i \in 1..Len(ss) |-> writePLStmt(ss[i])])

PGLabel(l) == Opt(<<"<<", l, ">>">>, l)

writePLBlock(s) ==
    PGLabel(s.l) \o (IF s.d = <<>> THEN <<>> ELSE <<"DECLARE">> \o [i \in 1..Len(s.d) |-> s.d[i].x]) \o
    <<"BEGIN">> \o writeBody(s.bs[1]) \o
    (IF s.n = <<>> THEN <<>>
     ELSE <<"EXCEPTION", "NL">> \o FlattenSeq([i \in 1..Len(s.n) |-> s.n[i] \o <<"NL">>])) \o
    <<"END", ";">>

\* a loop over a query declares its record in a block of its own
writeForQuery(s) ==
    PGLabel(s.l) \o <<"DECLARE", "rec", "BEGIN", "FOR", "rec", "IN", "query", "LOOP">> \o
    writeBody(s.bs[1]) \o <<"END", "LOOP", ";", "END", ";">>

\* an ELSE without statements is left out
writeArms(s) ==
    LET last == Len(s.n)
        empty == s.n[last] = "ELSE" /\ s.bs[last] = <<>>
        word(i) == IF s.k = "case" THEN "WHEN" ELSE IF i = 1 THEN "IF" ELSE "ELSIF"
    IN  Arms(IF empty THEN [s EXCEPT !.n = Front(@)] ELSE s, word, writeBody)

writeSimple(s) ==
    LET jump(word) == <<word>> \o Opt(<<s.l>>, s.l) \o Opt(<<"WHEN", s.x>>, s.x)
    IN  CASE s.k = "leave" -> jump("EXIT")
          [] s.k = "iterate" -> jump("CONTINUE")
          [] s.k = "return" -> <<"RETURN">>
          [] s.k = "null" -> <<"NULL">>
          [] s.k = "insert" -> <<"INSERT", s.x>>
          [] s.k = "set" -> <<s.x, ":=", "1">>
          [] s.k = "call" -> <<"CALL", s.x>>
          [] s.k = "raise" -> <<"RAISE">> \o Opt(<<"EXCEPTION", s.x>>, s.x)
          [] s.k = "open" -> <<"OPEN", s.x>>
          [] s.k = "close" -> <<"CLOSE", s.x>>
          [] s.k = "fetch" -> <<"FETCH", s.x, "INTO", "v">>
          [] s.k = "raw" -> <<s.x>>

writePLStmt(s) ==
    LET loop == <<"LOOP">> \o writeBody(s.bs[1]) \o <<"END", "LOOP", ";">>
    IN  CASE s.k = "block" -> writePLBlock(s)
          [] s.k = "if" -> writeArms(s) \o <<"END", "IF", ";">>
          [] s.k = "case" -> <<"CASE">> \o writeArms(s) \o <<"END", "CASE", ";">>
          [] s.k = "while" -> PGLabel(s.l) \o <<"WHILE", s.x>> \o loop
          [] s.k = "loop" -> PGLabel(s.l) \o loop
          [] s.k = "forquery" -> writeForQuery(s)
          [] s.k = "forrange" -> PGLabel(s.l) \o <<"FOR", "i", "IN", "1..2">> \o loop
          [] OTHER -> writeSimple(s) \o <<";">>

\* the attribute of a cursor becomes the flag that every statement sets
rewriteOracleCursorAttributes(toks) ==
    [i \in 1..Len(toks) |-> IF toks[i] = "cur%NOTFOUND" THEN "NOT FOUND" ELSE toks[i]]

-----------------------------------------------------------------------------
(* PostgreSQL's reading of the text (external). *)

PGReject == Left(<<>>, <<"syntax error">>)
Need(tok, toks) == IF Tok(toks) = tok THEN Tail(toks) ELSE <<"syntax error">>

RECURSIVE Uncomment(_)
Uncomment(toks) ==
    LET line == IF "NL" \in Range(toks)
                THEN CHOOSE i \in 1..Len(toks) : toks[i] = "NL" /\ \A j \in 1..(i - 1) : toks[j] # "NL"
                ELSE Len(toks)
    IN  CASE toks = <<>> -> <<>>
          [] Tok(toks) = "NL" -> Uncomment(Tail(toks))
          [] Tok(toks) = "--" -> Uncomment(SubSeq(toks, line + 1, Len(toks)))
          [] OTHER -> <<Tok(toks)>> \o Uncomment(Tail(toks))

RECURSIVE PGStmts(_), PGStmt(_), PGArms(_, _), PGHandlers(_)
PGStmts(toks) ==
    IF Tok(toks) \in {"END", "ELSE", "ELSIF", "WHEN", "EXCEPTION", "EOF", "syntax error"} THEN Left(<<>>, toks)
    ELSE LET s == PGStmt(toks)
             more == PGStmts(s.rest)
         IN  Left(s.t \o more.t, more.rest)

PGArms(words, toks) ==
    IF Tok(toks) \in words
    THEN LET b == PGStmts(Need("THEN", Drop(2, toks)))
             more == PGArms(words, b.rest)
         IN  [n |-> <<toks[2]>> \o more.n, bs |-> <<b.t>> \o more.bs, rest |-> more.rest]
    ELSE IF Tok(toks) # "ELSE" THEN [n |-> <<>>, bs |-> <<>>, rest |-> toks]
    ELSE LET b == PGStmts(Tail(toks)) IN [n |-> <<"ELSE">>, bs |-> <<b.t>>, rest |-> b.rest]

PGHandlers(toks) ==
    IF Tok(toks) # "WHEN" THEN [n |-> <<>>, bs |-> <<>>, rest |-> toks]
    ELSE LET b == PGStmts(Need("THEN", Drop(2, toks)))
             more == PGHandlers(b.rest)
         IN  [n |-> <<toks[2]>> \o more.n, bs |-> <<b.t>> \o more.bs, rest |-> more.rest]

PGLoopBody(k, l, x, toks) ==
    LET b == PGStmts(Need("LOOP", toks))
    IN  Left(<<Loop(k, l, x, b.t)>>, Need(";", Need("LOOP", Need("END", b.rest))))

PGBlock(l, toks) ==
    LET at == CHOOSE i \in 1..Len(toks) : toks[i] = "BEGIN" /\ \A j \in 1..(i - 1) : toks[j] # "BEGIN"
        b == PGStmts(SubSeq(toks, at + 1, Len(toks)))
        h == IF Tok(b.rest) = "EXCEPTION" THEN PGHandlers(Tail(b.rest))
             ELSE [n |-> <<>>, bs |-> <<>>, rest |-> b.rest]
    IN  IF "BEGIN" \notin Range(toks) THEN PGReject
        ELSE Left(<<Block(l, <<>>, h.n, <<b.t>> \o h.bs)>>, Need(";", Need("END", h.rest)))

PGJump(k, toks) ==
    LET l == IF Tok(toks) \in Idents THEN Tok(toks) ELSE ""
        w == SkipAny(Idents, toks)
    IN  IF Tok(w) = "WHEN" THEN Left(<<Jump(k, l, w[2])>>, Need(";", Drop(2, w)))
        ELSE Left(<<Jump(k, l, "")>>, Need(";", w))

PGStmt(toks) ==
    LET l == IF Tok(toks) = "<<" THEN toks[2] ELSE ""
        t == IF Tok(toks) = "<<" THEN Drop(3, toks) ELSE toks
        x == IF Len(t) < 2 THEN "EOF" ELSE t[2]
        one(k, n) == Left(<<Simple(k, x)>>, Need(";", Drop(n, t)))
        a == PGArms({"IF", "ELSIF"}, t)
        c == PGArms({"WHEN"}, Drop(1, t))
    IN  CASE Tok(t) \in {"DECLARE", "BEGIN"} -> PGBlock(l, t)
          [] Tok(t) = "IF" -> Left(<<Choice("if", a.n, a.bs)>>, Need(";", Need("IF", Need("END", a.rest))))
          [] Tok(t) = "CASE" -> Left(<<Choice("case", c.n, c.bs)>>, Need(";", Need("CASE", Need("END", c.rest))))
          [] Tok(t) = "LOOP" -> PGLoopBody("loop", l, "", t)
          [] Tok(t) = "WHILE" -> PGLoopBody("while", l, x, Drop(2, t))
          [] Tok(t) = "FOR" -> PGLoopBody(IF t[4] = "query" THEN "forquery" ELSE "forrange", l, "", Drop(4, t))
          [] Tok(t) = "EXIT" -> PGJump("leave", Tail(t))
          [] Tok(t) = "CONTINUE" -> PGJump("iterate", Tail(t))
          [] Tok(t) \in {"RETURN", "NULL"} ->
                Left(<<Simple(IF Tok(t) = "NULL" THEN "null" ELSE "return", "")>>, Need(";", Tail(t)))
          [] Tok(t) = "RAISE" ->
                IF x = "EXCEPTION" THEN Left(<<Simple("raise", t[3])>>, Need(";", Drop(3, t)))
                ELSE Left(<<Simple("raise", "")>>, Need(";", Tail(t)))
          [] Tok(t) = "INSERT" -> one("insert", 2)
          [] Tok(t) = "CALL" -> one("call", 2)
          [] Tok(t) = "OPEN" -> one("open", 2)
          [] Tok(t) = "CLOSE" -> one("close", 2)
          [] Tok(t) = "FETCH" -> one("fetch", 4)
          [] x = ":=" -> Left(<<Simple("set", Tok(t))>>, Need(";", Drop(3, t)))
          [] OTHER -> PGReject

RECURSIVE LegalJumps(_, _, _)
\* EXIT names an enclosing block or loop, CONTINUE a loop; without a name
\* they are inside of one
LegalJumps(s, blocks, loops) ==
    LET bs == IF s.k = "block" THEN blocks \cup {s.l} ELSE blocks
        ls == IF s.k \in {"loop", "while", "forquery", "forrange"} THEN loops \cup {s.l, ""} ELSE loops
    IN  /\ s.k = "iterate" => s.l \in loops
        /\ s.k = "leave" => s.l \in loops \/ (s.l # "" /\ s.l \in blocks)
        /\ \A i \in 1..Len(s.bs) : \A t \in Range(s.bs[i]) : LegalJumps(t, bs, ls)

PGRead(toks) ==
    LET p == PGStmts(Uncomment(toks))
    IN  IF p.rest = <<>> /\ Len(p.t) = 1 /\ LegalJumps(p.t[1], {}, {}) THEN p.t ELSE <<>>

-----------------------------------------------------------------------------
(* Executions.  An execution is its trace, the answers still to be given to  *)
(* its conditions, the iterations left, the state of its cursor (rows read,  *)
(* whether the last FETCH found one), the variable v it reads into (0 stands *)
(* for NULL), the flags, and how the last statement ended: "on", or a jump,  *)
(* an exception, a return, or "cut".                                         *)

CursorRows == 2

Begun(tape) ==
    [trace |-> <<>>, tape |-> tape, fuel |-> MaxFuel, row |-> 0, v |-> 0, hit |-> TRUE, found |-> FALSE,
     done |-> FALSE, how |-> "on", what |-> "", err |-> ""]

Went(st, how, what) == [st EXCEPT !.how = how, !.what = what]
On(st) == Went(st, "on", "")
\* the statement, and the value of v if it is its argument
Traced(st, x) == [st EXCEPT !.trace = Append(@, <<x, IF x = "v" THEN st.v ELSE 0>>), !.found = TRUE]

\* the value of a condition, and whether it took an answer
Holds(x, st) ==
    CASE x = "c" -> st.tape # <<>> /\ Head(st.tape)
      [] x = "done" -> st.done
      [] x = "cur%NOTFOUND" -> ~st.hit
      [] x = "NOT FOUND" -> ~st.found
      [] OTHER -> TRUE
Asked(x, st) == IF x = "c" /\ st.tape # <<>> THEN [st EXCEPT !.tape = Tail(@)] ELSE st

\* past the last row the NOT FOUND handler of MySQL sets the flag, and
\* PostgreSQL sets the variable to NULL, where the others leave it alone
Fetched(lang, st) ==
    LET hit == st.row < CursorRows
    IN  [st EXCEPT !.row = IF hit THEN @ + 1 ELSE @, !.hit = hit, !.found = hit, !.done = @ \/ ~hit,
                   !.v = IF hit THEN st.row + 1 ELSE IF lang = "postgres" THEN 0 ELSE @]

RECURSIVE Exec(_, _, _), ExecLoop(_, _, _, _), ExecArms(_, _, _, _)
ExecSeq(lang, ss, st) == FoldLeft(LAMBDA acc, s : IF acc.how = "on" THEN Exec(lang, s, acc) ELSE acc, st, ss)

\* the first branch whose condition holds; CASE has to have one
ExecArms(lang, s, i, st) ==
    IF i > Len(s.n) THEN IF s.k = "case" THEN [Went(st, "raise", "CASE_NOT_FOUND") EXCEPT !.err = "CASE_NOT_FOUND"] ELSE st
    ELSE IF Holds(s.n[i], st) THEN ExecSeq(lang, s.bs[i], Asked(s.n[i], st))
    ELSE ExecArms(lang, s, i + 1, Asked(s.n[i], st))

\* rounds is what is left of a bounded loop.  ITERATE starts a REPEAT again,
\* past UNTIL.
ExecLoop(lang, s, rounds, st) ==
    LET goes == CASE s.k = "while" -> Holds(s.x, st)
                  [] s.k \in {"forquery", "forrange"} -> rounds > 0
                  [] OTHER -> TRUE
        before == IF s.k = "while" THEN Asked(s.x, st) ELSE st
        ran == ExecSeq(lang, s.bs[1], [before EXCEPT !.fuel = @ - 1])
        mine == ran.what \in {"", s.l}
        again == ran.how = "iterate" /\ mine
        until == s.k = "repeat" /\ ~again
    IN  CASE ~goes -> before
          [] goes /\ st.fuel = 0 -> Went(st, "cut", "")
          [] goes /\ st.fuel > 0 ->
                IF ran.how = "leave" /\ mine THEN On(ran)
                ELSE IF ran.how # "on" /\ ~again THEN ran
                ELSE IF until /\ Holds(s.x, ran) THEN Asked(s.x, ran)
                ELSE ExecLoop(lang, s, rounds - 1, On(IF until THEN Asked(s.x, ran) ELSE ran))

\* RAISE in PostgreSQL has no condition name of its own
Catches(lang, name, err) == name = "OTHERS" \/ (lang # "postgres" /\ name = err)

ExecBlock(lang, s, st) ==
    LET ran == ExecSeq(lang, s.bs[1], st)
        hs == {i \in 1..Len(s.n) : Catches(lang, s.n[i], ran.err)}
        h == CHOOSE i \in hs : \A j \in hs : i <= j
        end == IF ran.how = "raise" /\ hs # {} THEN ExecSeq(lang, s.bs[h + 1], On(ran)) ELSE ran
    IN  IF end.how = "leave" /\ s.l # "" /\ end.what = s.l THEN On(end) ELSE end

Exec(lang, s, st) ==
    CASE s.k \in {"insert", "call"} -> Traced(st, s.x)
      [] s.k = "set" -> [st EXCEPT !.done = @ \/ s.x = "done"]
      [] s.k = "open" -> [st EXCEPT !.row = 0]
      [] s.k = "fetch" -> Fetched(lang, st)
      [] s.k \in {"close", "null"} -> st
      [] s.k = "return" -> Went(st, "return", "")
      [] s.k = "raise" -> [Went(st, "raise", "") EXCEPT !.err = IF s.x = "" THEN @ ELSE s.x]
      [] s.k \in {"leave", "iterate"} ->
            IF s.x = "" \/ Holds(s.x, st) THEN Went(Asked(s.x, st), s.k, s.l) ELSE Asked(s.x, st)
      [] s.k \in {"if", "case"} -> ExecArms(lang, s, 1, st)
      [] s.k = "block" -> ExecBlock(lang, s, st)
      [] OTHER -> ExecLoop(lang, s, CursorRows, st)

Ending(st) == [trace |-> st.trace, how |-> st.how]

-----------------------------------------------------------------------------

NoTree == Block("", <<>>, <<>>, <<<<>>>>)
RtStart == rtAST = NoTree /\ rtOut = [text |-> <<>>, warned |-> FALSE] /\ rtPhase = "parse"

RtInit ==
    /\ rtKind \in DOMAIN RoutineSources
    /\ rtSrc \in RoutineSources[rtKind]
    /\ RtStart

\* parseRoutineBodyByKind
parseRoutineBodyByKind ==
    /\ rtPhase = "parse"
    /\ rtAST' = IF rtKind = "mysql" THEN ParseMySQL(MySQLText(rtSrc)).t[1] ELSE ParseOracle(OracleText(rtSrc)).t[1]
    /\ rtPhase' = "translate"
    /\ UNCHANGED <<rtKind, rtSrc, rtOut>>

\* translateRoutineBodyWithSigs
translateRoutineBody ==
    /\ rtPhase = "translate"
    /\ LET text == writePLBlock(block(rtKind, rtAST))
       IN  rtOut' = [text |-> IF rtKind = "oracle" THEN rewriteOracleCursorAttributes(text) ELSE text,
                     warned |-> Warned(rtAST)]
    /\ rtPhase' = "done"
    /\ UNCHANGED <<rtKind, rtSrc, rtAST>>

RtNext == parseRoutineBodyByKind \/ translateRoutineBody

-----------------------------------------------------------------------------

Target == PGRead(rtOut.text)

RECURSIVE Somewhere(_, _)
\* P holds of s or of a statement in it
Somewhere(P(_), s) == P(s) \/ \E i \in 1..Len(s.bs) : \E t \in Range(s.bs[i]) : Somewhere(P, t)

\* The label of a loop over a query is the label of the block around it, which
\* EXIT may name and CONTINUE may not.
ContinuesCursorLoop(s) ==
    /\ s.k = "forquery" \/ (s.k = "loop" /\ \E t \in Range(s.bs[1]) : t.k = "fetch")
    /\ Somewhere(LAMBDA t : t.k = "iterate" /\ t.l # "" /\ t.l = s.l, s)

\* A handler with a name, or with the WHEN of a CASE in it, which is taken
\* for one.
NamesHandler(s) ==
    s.k = "block" /\ \E i \in 1..Len(s.n) :
        s.n[i] # "OTHERS" \/ \E t \in Range(s.bs[i + 1]) : Somewhere(LAMBDA u : u.k = "case", t)

\* FOUND is the flag of the last statement, %NOTFOUND that of the last FETCH:
\* they agree when nothing stands between the two
ReadsLate(s) ==
    \E i \in 1..Len(s.bs) : \E j \in 1..Len(s.bs[i]) :
        s.bs[i][j].x = "cur%NOTFOUND" /\ (j = 1 \/ s.bs[i][j - 1].k # "fetch")

\* every IF c THEN LEAVE of a cursor loop is taken for the test of its flag
LeavesEarly(s) ==
    s.k = "loop" /\ (\E t \in Range(s.bs[1]) : t.k = "fetch")
                 /\ (\E t \in Range(s.bs[1]) : LeaveGuard(t) /\ t.n # <<"done">>)

ReadsVariable(s) == s.k = "insert" /\ s.x = "v"
HasFetch(s) == s.k = "fetch"

\* The FOR loop that replaces the cursor idiom of MySQL reads its rows into
\* _row, and filterCursorLoopBody drops the FETCH with its variable, which
\* stays NULL.  A FETCH that is kept gives the variable each row; past the
\* last row it is NULL in PostgreSQL only.
LosesFetched(s) ==
    /\ s.k = "block"
    /\ \/ detectCursorIdiom(s) /\ Somewhere(ReadsVariable, s)
       \/ \E i, j \in 1..Len(s.bs[1]) :
             /\ i < j /\ s.bs[1][i].k = "loop" /\ Somewhere(HasFetch, s.bs[1][i])
             /\ Somewhere(ReadsVariable, s.bs[1][j])

EndsAlike(tree) ==
    \A tape \in Tapes :
        LET src == Exec(rtKind, rtSrc, Begun(tape))
            tgt == Exec("postgres", tree, Begun(tape))
        IN  "cut" \in {src.how, tgt.how} \/ Ending(src) = Ending(tgt)

\* The translated body does what the source does.  PostgreSQL accepts it: the
\* parser found which END closes what, blocks and loops are closed again, every
\* jump has a target, a FETCH loop that became a FOR loop kept none of its
\* OPEN, FETCH and LEAVE.  On the same answers to the conditions it executes
\* the same statements in the same order, on the same rows of its cursor, with
\* the same ending.  Left out are bodies listed for manual review, handlers
\* with a name (NamedHandlersFire), CONTINUE of a loop over a query and, for
\* the effects, a cursor attribute that is read late, a cursor loop that is
\* left early, and a fetched variable that is read in a loop that became a FOR
\* loop, or after its loop: plsql_xlate.go:3213 drops the FETCH that sets it.
SameEffects ==
    rtPhase = "done" /\ ~rtOut.warned
        /\ ~Somewhere(ContinuesCursorLoop, rtSrc) /\ ~Somewhere(NamesHandler, rtSrc)
    => /\ Target # <<>>
       /\ Somewhere(ReadsLate, rtSrc) \/ Somewhere(LeavesEarly, rtSrc) \/ Somewhere(LosesFetched, rtSrc)
          \/ EndsAlike(Target[1])

\* plsql_xlate.go:2650 has the conditions "mapped 1:1", so that a handler with
\* a name runs when, and does what, it does in Oracle.
NamedHandlersFire ==
    rtPhase = "done" /\ ~rtOut.warned /\ Somewhere(NamesHandler, rtSrc)
    => Target # <<>> /\ EndsAlike(Target[1])
============================================================================
