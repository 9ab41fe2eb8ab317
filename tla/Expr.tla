-------------------------------- MODULE Expr --------------------------------
(***************************************************************************)
(* An expression of a routine or a view on its way to PostgreSQL: the      *)
(* recursive-descent parsers of internal/dialects/{mysql,oracle}, the AST  *)
(* rewriters of internal/translate/mysql_visitors.go that replace calls by *)
(* operators, and the writer of internal/dialects/postgres, which prints   *)
(* the operands of an operator without parentheses of its own.  What       *)
(* matters is the grouping: each of the three languages has precedences of *)
(* its own, and a wrong group is valid SQL with another result.            *)
(*                                                                         *)
(* A node is an operator and its operands; a leaf has none.  Text is a     *)
(* sequence of tokens.  "u-" is the prefix minus, "()" a pair of           *)
(* parentheses, a name that ends in "(" a call.                            *)
(***************************************************************************)
EXTENDS Integers, Sequences, FiniteSets, SequencesExt

CONSTANT ExprSources     \* kind -> the trees that the source text means

VARIABLES exKind,        \* "mysql" or "oracle"
          exSrc,         \* the tree as the source database reads its text
          exTree,        \* the AST
          exOut,         \* the printed tokens
          exPhase

exVars == <<exKind, exSrc, exTree, exOut, exPhase>>

Node(op, args) == [op |-> op, args |-> args]
Leaf(x) == Node(x, <<>>)

CmpOps == {"=", "<", "<=>", "IS", "IS NOT", "LIKE", "NOT LIKE"}
BinaryOps == {"OR", "AND", "||", "+", "-", "*", "/", "DIV", "#>>", "IS NOT DISTINCT FROM"} \cup CmpOps
Calls == {"f(", "count(", "count(DISTINCT", "DATE_ADD(", "DATE_SUB(", "JSON_UNQUOTE("}

-----------------------------------------------------------------------------
(* The parsers: parseOr calls parseAnd and so on down to parsePrimary.  Each *)
(* returns a tree and the tokens that are left.                              *)

Cur(toks) == IF toks = <<>> THEN "EOF" ELSE Head(toks)
Next1(toks) == IF toks = <<>> THEN <<>> ELSE Tail(toks)
Parsed(t, rest) == [t |-> t, rest |-> rest]

\* expectKw, expectPunct: without the token an error is noted and nothing read
Expect(tok, toks) == IF Cur(toks) = tok THEN Tail(toks) ELSE toks

OrLevel == 1
AndLevel == 2
NotLevel == 3
CmpLevel == 4
ConcatLevel == 5
AddLevel == 6
MulLevel == 7
UnaryLevel == 8
PrimaryLevel == 9        \* a primary needs no parentheses

\* the operators that parseOr, parseAnd, parseConcat, parseAdd, parseMul loop on
MySQLOps(level) ==
    CASE level = OrLevel  -> {"OR", "||"}
      [] level = AndLevel -> {"AND"}
      [] level = AddLevel -> {"+", "-"}
      [] level = MulLevel -> {"*", "/", "DIV"}
      [] OTHER            -> {}

OracleOps(level) ==
    CASE level = OrLevel     -> {"OR"}
      [] level = AndLevel    -> {"AND"}
      [] level = ConcatLevel -> {"||"}
      [] level = AddLevel    -> {"+", "-"}
      [] level = MulLevel    -> {"*", "/"}

LoopOps(kind, level) == IF kind = "mysql" THEN MySQLOps(level) ELSE OracleOps(level)

RECURSIVE ParseAt(_, _, _), ParseLoop(_, _, _), parseCmp(_, _), parseList(_, _)

ParseLoop(kind, level, l) ==
    IF Cur(l.rest) \notin LoopOps(kind, level) THEN l
    ELSE LET r == ParseAt(kind, level + 1, Tail(l.rest))
         IN  ParseLoop(kind, level, Parsed(Node(Cur(l.rest), <<l.t, r.t>>), r.rest))

\* the arguments of a call, the list of IN, up to the parenthesis that closes
parseList(kind, toks) ==
    IF Cur(toks) \in {")", "EOF"} THEN Parsed(<<>>, Expect(")", toks))
    ELSE LET e == ParseAt(kind, OrLevel, toks)
             r == parseList(kind, Expect(",", e.rest))
         IN  Parsed(<<e.t>> \o r.t, r.rest)

\* [NOT] IN ( list )
parseInRest(kind, lhs, op, toks) ==
    LET list == parseList(kind, Expect("(", toks))
    IN  Parsed(Node(op, <<lhs>> \o list.t), list.rest)

\* [NOT] BETWEEN low AND high
parseBetween(kind, lhs, op, toks) ==
    LET low == ParseAt(kind, ConcatLevel, toks)
        high == ParseAt(kind, ConcatLevel, Expect("AND", low.rest))
    IN  Parsed(Node(op, <<lhs, low.t, high.t>>), high.rest)

\* the loop of parseCmp, from the operand that is already read
parseCmp(kind, l) ==
    LET not == Cur(l.rest) = "NOT"
        toks == IF not THEN Tail(l.rest) ELSE l.rest
        op == IF not THEN "NOT " \o Cur(toks) ELSE Cur(toks)
        rhs == ParseAt(kind, ConcatLevel, Next1(toks))
    IN  CASE Cur(toks) = "BETWEEN" -> parseCmp(kind, parseBetween(kind, l.t, op, Tail(toks)))
          [] Cur(toks) = "IN" -> parseCmp(kind, parseInRest(kind, l.t, op, Tail(toks)))
          [] Cur(toks) \in CmpOps -> parseCmp(kind, Parsed(Node(op, <<l.t, rhs.t>>), rhs.rest))
          [] OTHER -> l

\* one WHEN stands for all
parseCaseExpr(kind, toks) ==
    LET w == ParseAt(kind, OrLevel, Expect("WHEN", toks))
        t == ParseAt(kind, OrLevel, Expect("THEN", w.rest))
    IN  Parsed(Node("CASE", <<w.t, t.t>>), Expect("END", t.rest))

parseIntervalLit(kind, toks) ==
    LET e == ParseAt(kind, AddLevel, toks)
    IN  Parsed(Node("INTERVAL", <<e.t>>), Expect("DAY", e.rest))

\* the calls of parsePrimary; the Oracle parser reads over DISTINCT
parseFuncCall(kind, name, toks) ==
    LET quantified == Cur(toks) = "DISTINCT"
        args == parseList(kind, IF quantified THEN Tail(toks) ELSE toks)
    IN  Parsed(Node(IF quantified /\ kind = "mysql" THEN "count(DISTINCT" ELSE name, args.t), args.rest)

parsePrimary(kind, toks) ==
    CASE Cur(toks) = "(" ->
            LET e == ParseAt(kind, OrLevel, Tail(toks))
            IN  Parsed(Node("()", <<e.t>>), Expect(")", e.rest))
      [] Cur(toks) = "CASE" -> parseCaseExpr(kind, Tail(toks))
      [] Cur(toks) = "INTERVAL" -> parseIntervalLit(kind, Tail(toks))
      [] Cur(toks) \in Calls -> parseFuncCall(kind, Cur(toks), Tail(toks))
      [] OTHER -> Parsed(Leaf(Cur(toks)), Next1(toks))

parseUnary(kind, toks) ==
    IF Cur(toks) # "-" THEN parsePrimary(kind, toks)
    ELSE LET r == IF kind = "mysql" THEN parsePrimary(kind, Tail(toks)) ELSE ParseAt(kind, UnaryLevel, Tail(toks))
         IN  Parsed(Node("u-", <<r.t>>), r.rest)

parseNot(kind, toks) ==
    IF Cur(toks) # "NOT" THEN ParseAt(kind, CmpLevel, toks)
    ELSE LET r == ParseAt(kind, CmpLevel, Tail(toks)) IN Parsed(Node("NOT", <<r.t>>), r.rest)

ParseAt(kind, level, toks) ==
    CASE level = NotLevel -> parseNot(kind, toks)
      [] level = CmpLevel -> parseCmp(kind, ParseAt(kind, ConcatLevel, toks))
      [] level = UnaryLevel -> parseUnary(kind, toks)
      [] OTHER -> ParseLoop(kind, level, ParseAt(kind, level + 1, toks))

parseExpr(kind, toks) == ParseAt(kind, OrLevel, toks)

-----------------------------------------------------------------------------
(* RewriteMySQLAST: every child before its parent. *)

pgPrec(op) ==
    CASE op = "OR" -> 1
      [] op = "AND" -> 2
      [] op = "NOT" -> 3
      [] op \in {"IS", "IS NOT", "IS NOT DISTINCT FROM"} -> 4
      [] op \in {"=", "<", "<=>"} -> 5
      [] op \in {"LIKE", "NOT LIKE", "BETWEEN", "NOT BETWEEN", "IN", "NOT IN"} -> 6
      [] op \in {"||", "#>>"} -> 7
      [] op \in {"+", "-"} -> 8
      [] op \in {"*", "/", "DIV"} -> 9
      [] op = "u-" -> 11
      [] OTHER -> 100

pgPrecNonAssoc(p) == p \in 4..6

Paren(e) == Node("()", <<e>>)
parenIf(e, cond) == IF cond THEN Paren(e) ELSE e

parenIfCompound(e) == parenIf(e, pgPrec(e.op) # 100)

PGInterval == Leaf("INTERVAL '1 day'")
isPGIntervalValue(e) == e = PGInterval \/ (e.op = "*" /\ e.args[2] = PGInterval)

VisitMySQLJSONExtract(n) ==
    IF n.op # "JSON_UNQUOTE(" THEN n
    ELSE Node("#>>", <<parenIfCompound(n.args[1]), Leaf("'{}'")>>)

VisitMySQLNullSafeEq(n) ==
    IF n.op = "<=>" THEN [n EXCEPT !.op = "IS NOT DISTINCT FROM"] ELSE n

\* a literal quantity goes into the interval, any other is a factor
VisitMySQLInterval(n) ==
    IF n.op # "INTERVAL" THEN n
    ELSE IF n.args[1] = Leaf("1") THEN PGInterval
    ELSE Node("*", <<parenIfCompound(n.args[1]), PGInterval>>)

VisitMySQLDateAddSub(n) ==
    IF n.op \in {"DATE_ADD(", "DATE_SUB("} /\ isPGIntervalValue(n.args[2])
    THEN LET d == n.args[1]
         IN  Node(IF n.op = "DATE_ADD(" THEN "+" ELSE "-",
                  <<parenIf(d, d.op \in BinaryOps \ {"+", "-", "*", "/"}), n.args[2]>>)
    ELSE n

\* Mutant: an operand of the same precedence needs no parentheses.
BugSameLevelBare(n) ==
    LET p == pgPrec(n.op)
    IN  IF n.op \in BinaryOps
        THEN [n EXCEPT !.args = <<parenIf(@[1], pgPrec(@[1].op) < p), parenIf(@[2], pgPrec(@[2].op) < p)>>]
        ELSE n

VisitMySQLOperandPrecedence(n) ==
    LET p == pgPrec(n.op)
        q(i) == pgPrec(n.args[i].op)
    IN  CASE n.op \in BinaryOps ->
                [n EXCEPT !.args = <<parenIf(@[1], q(1) < p \/ (q(1) = p /\ pgPrecNonAssoc(p))),
                                     parenIf(@[2], q(2) <= p)>>]
          [] n.op = "NOT" -> [n EXCEPT !.args[1] = parenIf(@, q(1) < p)]
          [] n.op = "u-" -> [n EXCEPT !.args[1] = parenIf(@, q(1) <= p)]
          [] n.op \in {"BETWEEN", "NOT BETWEEN"} ->
                [n EXCEPT !.args = [i \in 1..3 |-> parenIf(@[i], q(i) <= p)]]
          [] n.op \in {"IN", "NOT IN"} -> [n EXCEPT !.args[1] = parenIf(@, q(1) <= p)]
          [] OTHER -> n

RECURSIVE RewriteMySQLAST(_)
RewriteMySQLAST(n) ==
    LET kids == [n EXCEPT !.args = [i \in 1..Len(@) |-> RewriteMySQLAST(@[i])]]
    IN  VisitMySQLOperandPrecedence(VisitMySQLDateAddSub(VisitMySQLInterval(
            VisitMySQLNullSafeEq(VisitMySQLJSONExtract(kids)))))

-----------------------------------------------------------------------------
(* The writers. *)

RECURSIVE WriteExpr(_), WriteList(_)
WriteList(args) ==
    IF args = <<>> THEN <<>>
    ELSE WriteExpr(Head(args)) \o
         (IF Len(args) = 1 THEN <<>> ELSE <<",">> \o WriteList(Tail(args)))

\* A prefix minus is printed without a space: two of them begin a comment.
WriteExpr(n) ==
    LET w(i) == WriteExpr(n.args[i])
    IN  CASE n.op = "DIV" -> w(1) \o <<"/">> \o w(2)
          [] n.op \in BinaryOps \ {"DIV"} -> w(1) \o <<n.op>> \o w(2)
          [] n.op = "NOT" -> <<"NOT">> \o w(1)
          [] n.op = "u-" -> IF Head(w(1)) = "-" THEN <<"--">> ELSE <<"-">> \o w(1)
          [] n.op = "()" -> <<"(">> \o w(1) \o <<")">>
          [] n.op = "CASE" -> <<"CASE", "WHEN">> \o w(1) \o <<"THEN">> \o w(2) \o <<"END">>
          [] n.op \in {"BETWEEN", "NOT BETWEEN"} -> w(1) \o <<n.op>> \o w(2) \o <<"AND">> \o w(3)
          [] n.op \in {"IN", "NOT IN"} -> w(1) \o <<n.op, "(">> \o WriteList(Tail(n.args)) \o <<")">>
          [] n.op = "count(DISTINCT" -> <<"count(", "DISTINCT">> \o WriteList(n.args) \o <<")">>
          [] n.op \in Calls \ {"count(DISTINCT"} -> <<n.op>> \o WriteList(n.args) \o <<")">>
          [] OTHER -> <<n.op>>

\* the renderer of Oracle bodies: no node here is printed differently
rawExpr(n) == WriteExpr(n)

exprFor(kind, n) == IF kind = "oracle" THEN rawExpr(n) ELSE WriteExpr(n)

-----------------------------------------------------------------------------
(* PostgreSQL's reading of the text, by its own precedences (external). *)

Unread == Parsed(Leaf("syntax error"), <<"syntax error">>)

RECURSIVE PGAt(_, _), PGLoop(_, _), PGList(_)
PGList(toks) ==
    LET e == PGAt(toks, 1)
    IN  IF Cur(e.rest) = "," THEN LET r == PGList(Tail(e.rest)) IN Parsed(<<e.t>> \o r.t, r.rest)
        ELSE IF Cur(e.rest) = ")" THEN Parsed(<<e.t>>, Tail(e.rest))
        ELSE Parsed(<<e.t>>, <<"syntax error">>)

\* an operator binds its operands if it binds tighter than those around it;
\* of the nonassociative levels one cannot follow another
PGLoop(l, min) ==
    LET op == Cur(l.rest)
        p == pgPrec(op)
        a == PGAt(Tail(l.rest), p + 1)
        b == PGAt(Next1(a.rest), p + 1)
        list == PGList(Tail(Tail(l.rest)))
        more(r) == IF pgPrecNonAssoc(p) /\ pgPrec(Cur(r.rest)) = p THEN Unread ELSE PGLoop(r, min)
    IN  IF p = 100 \/ p < min THEN l
        ELSE CASE op \in {"BETWEEN", "NOT BETWEEN"} ->
                    IF Cur(a.rest) # "AND" THEN Unread
                    ELSE more(Parsed(Node(op, <<l.t, a.t, b.t>>), b.rest))
               [] op \in {"IN", "NOT IN"} -> more(Parsed(Node(op, <<l.t>> \o list.t), list.rest))
               [] OTHER -> more(Parsed(Node(op, <<l.t, a.t>>), a.rest))

PGPrimary(toks) ==
    CASE Cur(toks) = "(" ->
            LET e == PGAt(Tail(toks), 1) IN IF Cur(e.rest) = ")" THEN Parsed(e.t, Tail(e.rest)) ELSE Unread
      [] Cur(toks) = "NOT" -> LET e == PGAt(Tail(toks), 3) IN Parsed(Node("NOT", <<e.t>>), e.rest)
      [] Cur(toks) = "-" -> LET e == PGAt(Tail(toks), 11) IN Parsed(Node("u-", <<e.t>>), e.rest)
      [] Cur(toks) = "CASE" ->
            LET w == PGAt(Tail(Tail(toks)), 1)
                t == PGAt(Next1(w.rest), 1)
            IN  IF Cur(w.rest) = "THEN" /\ Cur(t.rest) = "END"
                THEN Parsed(Node("CASE", <<w.t, t.t>>), Tail(t.rest)) ELSE Unread
      [] Cur(toks) \in Calls ->
            LET d == Cur(Tail(toks)) = "DISTINCT"
                args == PGList(IF d THEN Tail(Tail(toks)) ELSE Tail(toks))
            IN  Parsed(Node(IF d THEN "count(DISTINCT" ELSE Cur(toks), args.t), args.rest)
      [] Cur(toks) \in {"--", "EOF", ")", ","} -> Unread
      [] OTHER -> Parsed(Leaf(Cur(toks)), Tail(toks))

PGAt(toks, min) == PGLoop(PGPrimary(toks), min)

-----------------------------------------------------------------------------
(* What a text of the source means to the source database (external): the   *)
(* inputs are trees, written with the parentheses that MySQL or Oracle      *)
(* needs to read them so.  Also in parentheses are a comparison or NOT as   *)
(* an operand of another, and || as an operand of + in Oracle, where the    *)
(* parsers are known to group differently.                                  *)

SrcLevel(n) ==
    CASE n.op \in {"OR", "||"} -> IF n.op = "||" /\ exKind = "oracle" THEN ConcatLevel ELSE OrLevel
      [] n.op = "AND" -> AndLevel
      [] n.op = "NOT" -> NotLevel
      [] n.op \in CmpOps \cup {"BETWEEN", "NOT BETWEEN", "IN", "NOT IN"} -> CmpLevel
      [] n.op \in {"+", "-"} -> AddLevel
      [] n.op \in {"*", "/", "DIV"} -> MulLevel
      [] n.op = "u-" -> UnaryLevel
      [] OTHER -> PrimaryLevel

RECURSIVE SrcText(_)
SrcText(n) ==
    LET at(i, level) == parenIf(SrcText(n.args[i]), SrcLevel(n.args[i]) < level)
        p == SrcLevel(n)
    IN  CASE p \in {OrLevel, AndLevel, ConcatLevel, AddLevel, MulLevel} ->
                [n EXCEPT !.args = <<at(1, p), at(2, p + 1)>>]
          [] p = NotLevel -> [n EXCEPT !.args = <<at(1, CmpLevel)>>]
          [] p = CmpLevel -> [n EXCEPT !.args = [i \in 1..Len(@) |-> at(i, ConcatLevel)]]
          [] p = UnaryLevel -> [n EXCEPT !.args = <<at(1, PrimaryLevel)>>]
          [] n.op = "INTERVAL" -> [n EXCEPT !.args = <<at(1, AddLevel)>>]
          [] OTHER -> [n EXCEPT !.args = [i \in 1..Len(@) |-> SrcText(@[i])]]

RECURSIVE SrcTokens(_)
SrcTokens(n) ==
    LET w(i) == SrcTokens(n.args[i])
        list == FlattenSeq([i \in 1..Len(n.args) |-> w(i) \o (IF i = Len(n.args) THEN <<>> ELSE <<",">>)])
        split == [op \in {"NOT LIKE", "NOT BETWEEN", "NOT IN"} |->
                     <<"NOT", CASE op = "NOT LIKE" -> "LIKE" [] op = "NOT IN" -> "IN" [] OTHER -> "BETWEEN">>]
        words == IF n.op \in DOMAIN split THEN split[n.op] ELSE <<n.op>>
    IN  CASE n.op = "INTERVAL" -> <<"INTERVAL">> \o w(1) \o <<"DAY">>
          [] n.op \in BinaryOps -> w(1) \o words \o w(2)
          [] n.op \in {"BETWEEN", "NOT BETWEEN"} -> w(1) \o words \o w(2) \o <<"AND">> \o w(3)
          [] n.op \in {"IN", "NOT IN"} -> w(1) \o words \o <<"(">> \o w(2) \o <<")">>
          [] n.op = "NOT" -> <<"NOT">> \o w(1)
          [] n.op = "u-" -> <<"-">> \o w(1)
          [] n.op = "()" -> <<"(">> \o w(1) \o <<")">>
          [] n.op = "CASE" -> <<"CASE", "WHEN">> \o w(1) \o <<"THEN">> \o w(2) \o <<"END">>
          [] n.op = "count(DISTINCT" -> <<"count(", "DISTINCT">> \o list \o <<")">>
          [] n.op \in Calls \ {"count(DISTINCT"} -> <<n.op>> \o list \o <<")">>
          [] OTHER -> <<n.op>>

-----------------------------------------------------------------------------

ExStart == exTree = Leaf("") /\ exOut = <<>> /\ exPhase = "parse"

ExInit ==
    /\ exKind \in {"mysql", "oracle"}
    /\ exSrc \in ExprSources[exKind]
    /\ ExStart

ParseStep ==
    /\ exPhase = "parse"
    /\ exTree' = parseExpr(exKind, SrcTokens(SrcText(exSrc))).t
    /\ exPhase' = "rewrite"
    /\ UNCHANGED <<exKind, exSrc, exOut>>

\* The rewriters of Oracle change no operator.
RewriteStep ==
    /\ exPhase = "rewrite"
    /\ exTree' = IF exKind = "mysql" THEN RewriteMySQLAST(exTree) ELSE exTree
    /\ exPhase' = "write"
    /\ UNCHANGED <<exKind, exSrc, exOut>>

WriteStep ==
    /\ exPhase = "write"
    /\ exOut' = exprFor(exKind, exTree)
    /\ exPhase' = "done"
    /\ UNCHANGED <<exKind, exSrc, exTree>>

ExNext == ParseStep \/ RewriteStep \/ WriteStep

-----------------------------------------------------------------------------
(* Properties. *)

RECURSIVE Bare(_)
\* the tree without parentheses, and without the quantifier of an aggregate
Bare(n) ==
    IF n.op = "()" THEN Bare(n.args[1])
    ELSE [op |-> IF n.op = "count(DISTINCT" THEN "count(" ELSE IF n.op = "DIV" THEN "/" ELSE n.op,
          args |-> [i \in 1..Len(n.args) |-> Bare(n.args[i])]]

\* An expression keeps its grouping.  The parser groups the text as the source
\* database does (parseOr down to parsePrimary), and PostgreSQL groups the
\* printed text as the rewritten tree does, although the rewriters have put
\* operators where calls were and the writer adds no parentheses
\* (VisitMySQLOperandPrecedence, WriteExpr).
GroupingKept ==
    /\ exPhase = "rewrite" => Bare(exTree) = Bare(exSrc)
    /\ exPhase = "done" =>
           LET read == PGAt(exOut, 1)
           IN  read.rest = <<>> /\ Bare(read.t) = Bare(exTree)
=============================================================================
