------------------------------- MODULE Bodies -------------------------------
(***************************************************************************)
(* The queries and the changes of rows among the statements of a routine's *)
(* body: parser_plsql.go of internal/dialects/mysql and of                 *)
(* internal/dialects/oracle.  A SELECT ... INTO is kept twice, as the text *)
(* without its INTO and as the node that a parser of its own makes of it.  *)
(***************************************************************************)
EXTENDS Parsing

Result(q, n) == [q EXCEPT !.n[1] = n]
StmtOf(s) == IF s.err = 0 /\ "stmt" \in DOMAIN s.n[1] THEN "stmt" :> s.n[1].stmt ELSE EmptyNode

-----------------------------------------------------------------------------
(* MySQL: the text up to the end of the statement, and what it says. *)

captureUntilStmtEnd == Within({")"}, "text")
MyBody ==
    <<Switch(<<See({"SELECT"}, <<Kind("TEXT"), captureUntilStmtEnd>>),
               See({"INSERT"}, <<Kind("INSERT")>> \o MyQ!parseInsertStatement),
               See({"UPDATE"}, <<Kind("UPDATE")>> \o MyQ!parseUpdateStatement),
               See({"DELETE"}, <<Kind("DELETE")>> \o MyQ!parseDeleteStatement)>>)>>

parseDelimitedSelect(s) == IF s.err = 0 /\ s.in # <<>> THEN errorHere(s) ELSE s
withoutInto(text, into) == SubSeq(text, 1, Len(text) - into.from) \o SubSeq(text, Len(text) - into.to + 1, Len(text))
delimited(q, s) ==
    Result([q EXCEPT !.err = @ + s.err],
           CASE s.into # NoInto ->
                  [is |-> <<"SELECT INTO">>, vars |-> s.into.vars, query |-> withoutInto(q.n[1].text, s.into)] @@ StmtOf(s)
             [] s.into = NoInto /\ StmtOf(s) # EmptyNode -> s.n[1].stmt
             [] OTHER -> [is |-> <<"RAW">>, text |-> q.n[1].text])
parsePLSelect(q, s) == delimited(q, parseDelimitedSelect(s))

-----------------------------------------------------------------------------
(* Oracle: the columns, the variables, and the rest. *)

peekProceduralSelectInto(p) == cur(captureText(p, {"INTO", "BULK", "FROM", ";", ")"})) \in {"INTO", "BULK"}
parseSelectOrRawDML(p) ==
    IF peekProceduralSelectInto(p)
    THEN <<Kind("PARTS"), Within({"BULK", "INTO"}, "list"), When({"BULK"}, <<Must("COLLECT"), Flag("bulk")>>),
           May({"<any>"}), Into, Flat({";"}, "rest")>>
    ELSE <<Kind("SELECT"), Call("select")>>
OraBody(p) ==
    <<Switch(<<See({"SELECT", "WITH"}, parseSelectOrRawDML(p)),
               See({"INSERT"}, <<Kind("INSERT")>> \o OraQ!parseInsertStatement),
               See({"UPDATE"}, <<Kind("UPDATE")>> \o OraQ!parseUpdateStatement),
               See({"DELETE"}, <<Kind("DELETE")>> \o OraQ!parseDeleteStatement),
               See({"MERGE"}, <<Kind("MERGE")>> \o OraQ!parseMergeStatement)>>)>>

\* the parts of a list, between the commas outside parentheses
Level(list, i) == Cardinality({j \in 1 .. i : list[j] = "("}) - Cardinality({j \in 1 .. i : list[j] = ")"})
Commas(list) == {i \in DOMAIN list : list[i] = "," /\ Level(list, i) = 0}
PartFrom(list, i) == SubSeq(list, i + 1, Min({j \in Commas(list) : j > i} \cup {Len(list) + 1}) - 1)
\* Whatever identifier comes last is the name of the column, if a blank can be
\* before it.
HasAlias(part) ==
    /\ Len(part) > 1 /\ part[Len(part) - 1] \notin {".", "("}
    /\ Last(part) \notin Puncts \cup Numbers \cup Strings \cup Binds \cup {"AS"}
AliasLen(part) == CASE ~HasAlias(part) -> 0 [] part[Len(part) - 1] = "AS" -> 2 [] OTHER -> 1
arrayAgg(part) ==
    LET k == Len(part) - AliasLen(part)
    IN  IF part = <<>> THEN <<>> ELSE <<"ARRAY_AGG", "(">> \o SubSeq(part, 1, k) \o <<")">> \o SubSeq(part, k + 1, Len(part))
wrapProjectionsInArrayAgg(list) ==
    arrayAgg(PartFrom(list, 0)) \o
    FlattenSeq([i \in DOMAIN list |-> IF i \in Commas(list) THEN <<",">> \o arrayAgg(PartFrom(list, i)) ELSE <<>>])

selectList(text) == IF text # <<>> /\ Head(text) = "SELECT" THEN Tail(text) ELSE text
columns(n) == IF "bulk" \in DOMAIN n THEN wrapProjectionsInArrayAgg(selectList(field(n, "list"))) ELSE selectList(field(n, "list"))
assembled(list, rest) == IF list = <<>> THEN rest ELSE <<"SELECT">> \o list \o rest
rawQuery(n) == assembled(columns(n), field(n, "rest"))
\* errors of the parser for the new text are not reported
selectIntoOf(q, s) == Result(q, [is |-> <<"SELECT INTO">>, vars |-> q.into.vars, query |-> rawQuery(q.n[1])] @@ StmtOf(s))

-----------------------------------------------------------------------------
(* A statement, and the query in it that has a parser of its own. *)

parseStatement(p) == IF p.lang = "mysql" THEN MyBody ELSE OraBody(p)
Untyped == {<<"TEXT">>, <<"PARTS">>}
typed(q, s) == IF q.n[1]["is"] = <<"TEXT">> THEN parsePLSelect(q, s) ELSE selectIntoOf(q, s)
withQuery(q) ==
    IF field(q.n[1], "is") \in Untyped
    THEN typed(q, parseQuery(q, IF q.n[1]["is"] = <<"TEXT">> THEN q.n[1].text ELSE rawQuery(q.n[1])))
    ELSE q
=============================================================================
