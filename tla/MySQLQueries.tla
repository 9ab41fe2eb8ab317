---------------------------- MODULE MySQLQueries ----------------------------
(***************************************************************************)
(* SELECT, INSERT, UPDATE and DELETE of MySQL and MariaDB:                 *)
(* internal/dialects/mysql, parser_dml.go; and its expressions, from       *)
(* parser_ddl.go.  Productions that call each other do so by the names of  *)
(* Rules.                                                                  *)
(***************************************************************************)
EXTENDS Syntax

-----------------------------------------------------------------------------
(* Expressions.  Their value is the tokens that are kept; which operator     *)
(* binds tighter is the subject of module Expr.                              *)

Subquery == Consumed(<<Call("select")>>)
ExprList == <<Call("expr"), Loop(<<On({","}, <<Call("expr")>>)>>)>>
path == <<Keep({"<name>"}), Loop(<<On({"."}, <<Value(<<Val("ident", "")>>)>>)>>)>>

parseExpr ==
    <<KeepIf({"NOT"}), Call("cmp"), Loop(<<On({"OR", "||", "AND", "&&"}, <<KeepIf({"NOT"}), Call("cmp")>>)>>)>>
parseInRest ==
    Switch(<<On({"("}, <<Switch(<<See({"SELECT", "WITH"}, <<Subquery>>), See({")"}, <<>>), Else(ExprList)>>), Keep({")"})>>),
             Else(<<Call("add")>>)>>)
Negatable ==
    <<On({"BETWEEN"}, <<Call("add"), Keep({"AND"}), Call("add")>>), On({"IN"}, <<parseInRest>>),
      On({"LIKE"}, <<Call("add")>>)>>
\* Before any other word NOT begins a new expression, and what is on its left
\* is lost.
parseCmp ==
    <<Value(<<Call("add"),
      Loop(<<SeePair({"NOT"}, {"BETWEEN", "IN", "LIKE"}, <<Keep({"NOT"}), Switch(Negatable)>>),
             See({"NOT"}, <<Restart, Keep({"NOT"}), Call("add")>>)>> \o Negatable \o
           <<On({"IS"}, <<KeepIf({"NOT"}), Call("add")>>), On({"=", "<>", "<", ">"}, <<Call("add")>>)>>)>>)>>
parseAdd == <<Call("unary"), Loop(<<On({"+", "-", "*", "/", "%", "DIV", "MOD"}, <<Call("unary")>>)>>)>>
parseUnary == <<KeepIf({"-", "+"}), Call("primary")>>

parseCaseExpr ==
    <<Switch(<<See({"WHEN"}, <<>>), Else(<<Call("expr")>>)>>),
      Loop(<<On({"WHEN"}, <<Call("expr"), Keep({"THEN"}), Call("expr")>>)>>),
      Switch(<<On({"ELSE"}, <<Call("expr")>>)>>), Keep({"END"}), May({"CASE"})>>
parseCastExpr ==
    <<Keep({"("}), Call("expr"), Keep({"AS"}),
      Switch(<<On({"SIGNED", "UNSIGNED"}, <<May({"INTEGER", "INT"})>>), Else(<<Value(<<Val("type", "")>>)>>)>>), Keep({")"})>>
parseIntervalLit == <<Call("add"), KeepIf({"<name>"})>>
\* The name of a window is not understood.
parseOverWindowSpec ==
    Switch(<<
      See({"<ident>"}, <<Err, Keep({"<ident>"})>>),
      On({"("}, <<Switch(<<On({"PARTITION"}, <<Keep({"BY"})>> \o ExprList)>>), Switch(<<See({"ORDER"}, <<Consumed(<<Call("order")>>)>>)>>),
                  Switch(<<See({"ROWS", "RANGE", "GROUPS"}, <<Value(<<Within({")"}, "")>>)>>)>>), Keep({")"})>>),
      Else(<<Err>>)>>)
parseFuncArg == Switch(<<On({"*"}, <<>>), Else(<<Call("expr")>>)>>)
FuncCall ==
    <<Switch(<<On({"DISTINCT"}, <<>>), At({"ALL"}, <<>>)>>),
      Switch(<<See({")"}, <<>>), Else(<<parseFuncArg, Loop(<<On({","}, <<parseFuncArg>>)>>)>>)>>),
      Switch(<<See({"ORDER"}, <<Consumed(<<Call("order")>>)>>)>>), Switch(<<On({"SEPARATOR"}, <<Keep({"<string>"})>>)>>), Keep({")"}),
      Switch(<<On({"OVER"}, <<parseOverWindowSpec>>)>>)>>
DateWords == {"CURRENT_TIMESTAMP", "NOW", "LOCALTIMESTAMP", "CURRENT_DATE", "CURRENT_TIME"}
parsePrimary ==
    <<Switch(<<
        On({"EXISTS"}, <<Keep({"("}), Subquery, Keep({")"})>>),
        On({"("}, <<Switch(<<See({"SELECT", "WITH"}, <<Subquery>>), Else(<<Call("expr")>>)>>), Keep({")"})>>),
        On({"<number>", "<string>", "NULL", "TRUE", "FALSE"}, <<>>),
        On(DateWords, <<Switch(<<On({"("}, <<KeepIf({"<number>"}), Keep({")"})>>)>>)>>),
        On({"CASE"}, parseCaseExpr), On({"CAST"}, parseCastExpr), On({"INTERVAL"}, parseIntervalLit),
        OnPair({"<name>"}, {"("}, FuncCall), See({"<name>"}, path),
        See({"<end>"}, <<Err>>), Else(<<Err, May({"<any>"})>>)>>)>>

-----------------------------------------------------------------------------
(* Parts of a SELECT. *)

SetOperators == {"UNION", "INTERSECT", "EXCEPT", "MINUS"}
Alias == Switch(<<At({"AS"}, <<Val("ident", "alias")>>), See({"<ident>"}, <<Word({"<ident>"}, "alias")>>)>>)
skipBalancedParens == When({"("}, <<Val("rest)", "")>>)

ItemPath == <<Keep({"<name>"}), Keep({"."}), KeepIf({"<name>"}), Loop(<<On({"."}, <<Value(<<Val("ident", "")>>)>>)>>)>>
\* A path `t.a` is taken for the whole expression: an operator behind it is not.
parseSelectElement ==
    <<Switch(<<At({"*"}, <<Flag("star")>>),
               See({"<t.*>"}, <<Word({"<name>"}, "qualifier"), Must("."), Must("*"), Flag("star")>>),
               SeePair({"<name>"}, {"."}, <<Keeps("expr", ItemPath), Alias>>),
               Else(<<Expr("expr"), Alias>>)>>)>>
parseSelectElements(f) == List(<<Sub(f, "ITEM", parseSelectElement)>>)
consumeSelectSpec ==
    Loop(<<At({"DISTINCT", "DISTINCTROW"}, <<Flag("distinct")>>), At({"ALL"}, <<Flag("allOnly")>>),
           At({"HIGH_PRIORITY", "STRAIGHT_JOIN", "SQL_NO_CACHE", "SQL_CALC_FOUND_ROWS"}, <<>>)>>)
parseSelectIntoVariables == Switch(<<SeePair({"INTO"}, {"OUTFILE", "DUMPFILE"}, <<>>), At({"INTO"}, <<Into>>)>>)

parseGroupByItems == List(<<Add(Expr("groupBy")), May({"ASC", "DESC"})>>)
\* Behind NULLS an identifier is asked for, and FIRST is a keyword.
parseOrderByClause ==
    MustAll(<<"ORDER", "BY">>) \o
    <<Drop("orderBy"),
      List(<<Sub("orderBy", "ORDER ITEM",
        <<Expr("expr"), Switch(<<At({"ASC"}, <<>>), At({"DESC"}, <<Flag("desc")>>)>>),
          When({"NULLS"}, <<Put("nullsLast", No), When({"LAST"}, <<Put("nullsLast", Yes)>>)>>)>>)>>)>>
parseIntoVariable == <<KeepIf({"@"}), KeepIf({"@"})>> \o path
parseLimitAtom(f) ==
    Keeps(f, <<Switch(<<On({"<number>"}, <<>>), See({"@"}, parseIntoVariable), Else(<<Call("expr")>>)>>)>>)
parseLimitClause ==
    <<Must("LIMIT"), Drop("limit"), Drop("offset"), parseLimitAtom("limit"),
      Switch(<<At({","}, <<Move("limit", "offset"), parseLimitAtom("limit")>>),
               At({"OFFSET"}, <<parseLimitAtom("offset")>>)>>)>>
parseLockClause == Switch(<<See({"FOR", "LOCK"}, <<Flat(SetOperators \cup {"<end>", "INTO", ")"}, "forUpdate")>>)>>)
skipWindowClause == <<Must("WINDOW"), List(<<Val("ident", ""), May({"AS"}), skipBalancedParens>>)>>

OrderAndLimit == <<Switch(<<See({"ORDER"}, parseOrderByClause)>>), Switch(<<See({"LIMIT"}, parseLimitClause)>>)>>
IntoAndLock == <<parseSelectIntoVariables, parseLockClause, parseSelectIntoVariables>>

-----------------------------------------------------------------------------
(* FROM *)

parseJoinSpec ==
    Loop(<<At({"ON"}, <<Extend(Expr("on"), <<"AND">>)>>),
           At({"USING"}, Parens(<<Extend(Val("names", "using"), <<>>)>>))>>)
\* the node read so far becomes the left side of a join
JoinOf(kind, words) == <<Wrap("left", "JOIN"), Put("kind", <<kind>>)>> \o words \o <<One("right", "", <<Call("item")>>)>>
optionalLateral == May({"LATERAL"})
InnerOrCross(kind) == At({kind}, JoinOf(kind, <<Must("JOIN"), optionalLateral>>) \o <<parseJoinSpec>>)
OuterJoin(kind) == At({kind}, JoinOf(kind, <<May({"OUTER"}), Must("JOIN"), optionalLateral>>) \o <<parseJoinSpec>>)
tryParseJoinPart ==
    <<InnerOrCross("INNER"), InnerOrCross("CROSS"),
      At({"STRAIGHT_JOIN"}, JoinOf("INNER", <<>>) \o <<When({"ON"}, <<Expr("on")>>)>>),
      OuterJoin("LEFT"), OuterJoin("RIGHT"), OuterJoin("FULL"),
      At({"NATURAL"}, JoinOf("INNER",
          <<Flag("natural"),
            Switch(<<At({"LEFT"}, <<May({"OUTER"}), Put("kind", <<"LEFT">>)>>),
                     At({"RIGHT"}, <<May({"OUTER"}), Put("kind", <<"RIGHT">>)>>)>>),
            Must("JOIN")>>)),
      At({"JOIN"}, JoinOf("INNER", <<optionalLateral>>) \o <<parseJoinSpec>>)>>
parseTableSource == <<Call("item"), Loop(tryParseJoinPart)>>
parseTableSources(f) == List(<<Sub(f, "", <<Call("source")>>)>>)

\* A "," behind a hint is read as the one before another hint.
indexHint ==
    <<When({"USE", "IGNORE", "FORCE"},
        <<May({"INDEX", "KEY"}), When({"FOR"}, <<When({"JOIN", "ORDER", "GROUP"}, <<May({"BY"})>>)>>), skipBalancedParens,
          When({","}, <<Call("hint")>>)>>)>>
parseTableSourceItem ==
    <<Switch(<<
        See({"<query>"}, <<Must("("), Kind("SUBQUERY"), One("stmt", "SELECT", <<Call("select")>>), Must(")"), Alias>>),
        At({"("}, <<Call("source"),
                    Loop(<<At({","}, <<Wrap("left", "JOIN"), Put("kind", <<"CROSS">>), One("right", "", <<Call("source")>>)>>)>>),
                    Must(")")>>),
        Else(<<Kind("TABLE"), Val("ref", "name"), When({"PARTITION"}, <<skipBalancedParens>>), Alias, Call("hint")>>)>>)>>

-----------------------------------------------------------------------------
(* SELECT *)

\* Of a query in parentheses the node of the inner one remains.
parseQuerySpecification ==
    <<Switch(<<
        At({"("}, <<One("inner", "SELECT", <<Call("select")>>), Must(")"), Become("inner")>>),
        At({"SELECT"},
           <<consumeSelectSpec, parseSelectElements("cols"), parseSelectIntoVariables,
             When({"FROM"}, <<parseTableSources("from")>>), When({"WHERE"}, <<Expr("where")>>),
             When({"GROUP"}, <<Must("BY"), parseGroupByItems, When({"WITH"}, <<May({"ROLLUP"})>>)>>),
             When({"HAVING"}, <<Expr("having")>>), Switch(<<See({"WINDOW"}, skipWindowClause)>>)>>
           \o OrderAndLimit \o IntoAndLock),
        Else(<<Err, Nil>>)>>)>>

parseWithClause ==
    <<When({"RECURSIVE"}, <<Flag("recursive")>>),
      List(<<Sub("ctes", "CTE",
        <<Val("ident", "name"), When({"("}, <<Val("names", "columns"), Must(")")>>), Must("AS")>> \o
        Parens(<<One("body", "SELECT", <<Call("select")>>)>>))>>)>>

\* The WITH of this query, or none, takes the place of the one inside parentheses.
parseSelectStatement ==
    <<When({"WITH"}, <<One("outer", "WITH", parseWithClause)>>), Call("block"), Drop("with"), Move("outer", "with"),
      Loop(<<See(SetOperators,
        <<Sub("setOps", "SET OPERATION",
            <<Word(SetOperators, "op"), Switch(<<At({"ALL"}, <<Flag("all")>>), At({"DISTINCT"}, <<>>)>>),
              One("stmt", "SELECT", <<Call("block")>>), Has("stmt")>>)>>)>>)>>
    \o OrderAndLimit \o IntoAndLock

-----------------------------------------------------------------------------
(* INSERT, UPDATE and DELETE *)

consumeInsertModifiers == Loop(<<At({"LOW_PRIORITY", "DELAYED", "HIGH_PRIORITY", "IGNORE", "QUICK"}, <<>>)>>)
Operand(f) == Keeps(f, <<Switch(<<On({"DEFAULT"}, <<>>), Else(<<Call("expr")>>)>>)>>)
Assigned == Switch(<<At({":="}, <<>>), Else(<<Must("=")>>)>>)
parseInsertValues ==
    <<List(Parens(<<Switch(<<See({")"}, <<>>), Else(<<List(<<Add(Operand("row"))>>)>>)>>)>>) \o <<Group("row", "rows")>>)>>
parseInsertSetForm == <<List(<<Add(Val("ref", "cols")), Assigned, Add(Operand("row"))>>), Group("row", "rows")>>
parseUpdatedElements == <<List(<<Sub("sets", "SET", <<Keeps("col", path), Assigned, Operand("expr")>>)>>)>>
Returning == When({"RETURNING"}, <<parseSelectElements("returning")>>)

InsertSource ==
    <<At({"VALUES", "VALUE"}, parseInsertValues), See({"SELECT", "WITH"}, <<One("select", "SELECT", <<Call("select")>>)>>)>>
parseInsertStatement ==
    <<Must("INSERT"), consumeInsertModifiers, May({"INTO"}), Val("ref", "table"),
      When({"PARTITION"}, <<skipBalancedParens>>),
      Switch(<<At({"("}, <<List(<<Add(Val("ident", "cols"))>>), Must(")"), Switch(InsertSource)>>)>> \o InsertSource \o
             <<At({"SET"}, parseInsertSetForm)>>),
      When({"AS"}, <<Val("ident", ""), skipBalancedParens>>),
      When({"ON"}, MustAll(<<"DUPLICATE", "KEY", "UPDATE">>) \o <<One("onConflict", "ON CONFLICT", parseUpdatedElements)>>),
      Returning>>

\* ORDER BY and LIMIT are read, and lost.
WhichRows == <<When({"WHERE"}, <<Expr("where")>>)>> \o OrderAndLimit \o <<Drop("orderBy"), Drop("limit"), Drop("offset"), Returning>>
WithoutAlias(arm) == Having("alias", NoValue, arm)
parseUpdateStatement ==
    <<Must("UPDATE"), consumeInsertModifiers, parseTableSources("from"), Hoist("from", "TABLE"),
      Switch(<<Having("from", NoValue, Else(<<Switch(<<
        WithoutAlias(At({"AS"}, <<Val("ident", "alias")>>)), WithoutAlias(See({"<ident>"}, <<Word({"<ident>"}, "alias")>>))>>)>>))>>),
      Must("SET")>> \o parseUpdatedElements \o WhichRows

consumeStarSuffix == When({"."}, <<May({"*"})>>)
Target == <<Sub("using", "TABLE", <<Val("ref", "name"), consumeStarSuffix>>)>>
MoreTargets == Loop(<<At({","}, Target)>>)
parseDeleteStatement ==
    <<Must("DELETE"), consumeInsertModifiers,
      Switch(<<
        At({"FROM"}, Target \o <<Switch(<<
             See({",", "USING"}, <<MoreTargets, Must("USING"), parseTableSources("using")>>),
             Else(<<Hoist("using", "TABLE"), Alias, When({"PARTITION"}, <<skipBalancedParens>>)>>)>>)>>),
        Else(Target \o <<MoreTargets, Must("FROM"), parseTableSources("using")>>)>>)>> \o WhichRows

Rules ==
    [expr |-> parseExpr, cmp |-> parseCmp, add |-> parseAdd, unary |-> parseUnary, primary |-> parsePrimary,
     order |-> parseOrderByClause, variable |-> parseIntoVariable, select |-> parseSelectStatement,
     block |-> parseQuerySpecification, source |-> parseTableSource, item |-> parseTableSourceItem, hint |-> indexHint]
=============================================================================
