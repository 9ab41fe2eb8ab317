--------------------------- MODULE OracleQueries ---------------------------
(***************************************************************************)
(* SELECT, INSERT, UPDATE, DELETE and MERGE of Oracle:                     *)
(* internal/dialects/oracle, parser_dml.go, and its expressions,           *)
(* parser_expr.go.                                                         *)
(***************************************************************************)
EXTENDS Syntax

-----------------------------------------------------------------------------
(* Expressions. *)

Subquery == Consumed(<<Call("select")>>)
ExprList == <<Call("expr"), Loop(<<On({","}, <<Call("expr")>>)>>)>>

parseExpr == <<KeepIf({"NOT"}), Call("cmp"), Loop(<<On({"OR", "AND"}, <<KeepIf({"NOT"}), Call("cmp")>>)>>)>>
consumeEscape == Switch(<<At({"ESCAPE"}, <<Unkept(<<Call("add")>>)>>)>>)
parseInRest ==
    Switch(<<On({"("}, <<Switch(<<See({"SELECT", "WITH"}, <<Subquery>>), See({")"}, <<>>), Else(ExprList)>>), Keep({")"})>>),
             Else(<<Call("add")>>)>>)
Negatable ==
    <<On({"BETWEEN"}, <<Call("add"), Keep({"AND"}), Call("add")>>), On({"IN"}, <<parseInRest>>),
      On({"LIKE"}, <<Call("add"), consumeEscape>>)>>
parseCmp ==
    <<Value(<<Call("add"),
      Loop(<<SeePair({"NOT"}, {"BETWEEN", "IN", "LIKE"}, <<Keep({"NOT"}), Switch(Negatable)>>),
             See({"NOT"}, <<Restart, Keep({"NOT"}), Call("add")>>)>> \o Negatable \o
           <<On({"IS"}, <<KeepIf({"NOT"}),
                Switch(<<On({"NULL"}, <<>>), On({"DISTINCT"}, <<Keep({"FROM"}), Call("add")>>), Else(<<Call("add")>>)>>)>>),
             On({"=", "<>", "<", ">"}, <<Call("add")>>)>>)>>)>>
parseAdd == <<Call("unary"), Loop(<<On({"||", "+", "-", "*", "/"}, <<Call("unary")>>)>>)>>
parseUnary == <<Loop(<<On({"-", "+", "PRIOR", "CONNECT_BY_ROOT"}, <<>>)>>), Call("primary")>>

parseCaseExpr ==
    <<Switch(<<See({"WHEN"}, <<>>), Else(<<Call("expr")>>)>>),
      Loop(<<On({"WHEN"}, <<Call("expr"), Keep({"THEN"}), Call("expr")>>)>>),
      Switch(<<On({"ELSE"}, <<Call("expr")>>)>>), Keep({"END"})>>
parseCastExpr == <<Keep({"("}), Call("expr"), Keep({"AS"}), Value(<<Val("type", "")>>), Keep({")"})>>
\* The precision of the unit is lost.
parseIntervalLit ==
    <<Call("primary"),
      Switch(<<On({"<name>"}, <<When({"("}, <<Unkept(<<Val("rest)", "")>>)>>), Switch(<<On({"TO"}, <<KeepIf({"<name>"})>>)>>)>>)>>)>>

OrderItem == <<Call("expr"), Switch(<<At({"ASC"}, <<>>), On({"DESC"}, <<>>)>>)>>
OrderItems == OrderItem \o <<Loop(<<On({","}, OrderItem)>>)>>
Frame == <<Value(<<Text({")"}, "")>>)>>
parseWindowSpec ==
    <<Keep({"("}),
      Switch(<<See({"PARTITION", "ORDER"},
                   <<Switch(<<On({"PARTITION"}, <<Keep({"BY"})>> \o ExprList)>>), Switch(<<On({"ORDER"}, <<Keep({"BY"})>> \o OrderItems)>>),
                     Switch(<<See({"ROWS", "RANGE", "GROUPS"}, Frame)>>)>>),
               Else(Frame)>>),
      Keep({")"})>>
maybeWindowedAgg ==
    <<Switch(<<On({"WITHIN"}, <<Keep({"GROUP"}), Keep({"("}), Switch(<<On({"ORDER"}, <<Keep({"BY"})>> \o OrderItems)>>), Keep({")"})>>)>>),
      Switch(<<On({"OVER"}, parseWindowSpec)>>)>>

\* Of an argument name => value only the value is kept.
parseFuncArg == Switch(<<On({"*"}, <<>>), AtPair({"<name>"}, {"=>"}, <<Call("expr")>>), Else(<<Call("expr")>>)>>)
Args == Switch(<<See({")"}, <<>>), Else(<<parseFuncArg, Loop(<<On({","}, <<parseFuncArg>>)>>)>>)>>)
FuncCall == <<May({"DISTINCT", "ALL"}), Args, Keep({")"})>> \o maybeWindowedAgg
Niladic == {"SYSDATE", "SYSTIMESTAMP", "CURRENT_TIMESTAMP", "CURRENT_DATE", "LOCALTIMESTAMP", "UID", "ROWNUM", "LEVEL"}
CursorAttributes == {"FOUND", "NOTFOUND", "ISOPEN", "ROWCOUNT"}
OuterJoinHint == OnPair({"("}, {"+"}, <<KeepIf({")"})>>)
\* what may follow a name: the rest of its path, then the marker of an outer
\* join or the arguments of a call
pathRest ==
    <<Switch(<<OnPair({"."}, {"*"}, <<Switch(<<OuterJoinHint>>)>>),
               On({"."}, <<Value(<<Val("ident", "")>>), Call("pathRest")>>),
               OuterJoinHint, On({"("}, FuncCall)>>)>>
parsePrimary ==
    <<Switch(<<
        On({"EXISTS"}, <<Keep({"("}), Subquery, Keep({")"})>>),
        On({"("}, <<Switch(<<See({"SELECT", "WITH"}, <<Subquery>>), Else(<<Call("expr")>>)>>), Keep({")"})>>),
        On({"<number>", "<string>", "<bind>", "NULL", "TRUE", "FALSE"}, <<>>),
        On({"CASE"}, parseCaseExpr), On({"CAST"}, parseCastExpr), On({"INTERVAL"}, parseIntervalLit),
        On(Niladic, <<Switch(<<On({"("}, <<Args, Keep({")"})>>)>>)>>),
        OnPair({"<name>"}, {"("}, FuncCall),
        On({"<name>"}, <<Switch(<<OnPair({"%"}, CursorAttributes, <<>>), Else(<<Call("pathRest")>>)>>)>>),
        Else(<<Err, May({"<any>"})>>)>>)>>

-----------------------------------------------------------------------------
(* Parts of a SELECT. *)

SetOperators == {"UNION", "INTERSECT", "MINUS", "EXCEPT"}
Alias(f) == Switch(<<At({"AS"}, <<Val("ident", f)>>), See({"<ident>"}, <<Word({"<ident>"}, f)>>)>>)

path == <<Keep({"<name>"}), Loop(<<On({"."}, <<Value(<<Val("ident", "")>>)>>)>>)>>
ItemPath == <<Keep({"<name>"}), Keep({"."}), KeepIf({"<name>"}), Loop(<<On({"."}, <<Value(<<Val("ident", "")>>)>>)>>)>>
parseSelectItem ==
    <<Switch(<<At({"*"}, <<Flag("star")>>),
               See({"<t.*>"}, <<Word({"<name>"}, "qualifier"), Must("."), Must("*"), Flag("star")>>),
               SeePair({"<name>"}, {"."}, <<Keeps("expr", ItemPath), Alias("alias")>>),
               Else(<<Expr("expr"), Alias("alias")>>)>>)>>
parseSelectList(f) == List(<<Sub(f, "ITEM", parseSelectItem)>>)
consumeSelectModifiers == Loop(<<At({"DISTINCT", "UNIQUE"}, <<Flag("distinct")>>), At({"ALL"}, <<Flag("allOnly")>>)>>)
parseGroupByList == List(<<Add(Expr("groupBy"))>>)
parseOrderByClause ==
    <<Must("ORDER"), May({"SIBLINGS"}), Must("BY"), Drop("orderBy"),
      List(<<Sub("orderBy", "ORDER ITEM",
        <<Expr("expr"), Switch(<<At({"ASC"}, <<>>), At({"DESC"}, <<Flag("desc")>>)>>),
          When({"NULLS"}, <<Put("nullsLast", No),
               Switch(<<At({"FIRST"}, <<>>), At({"LAST"}, <<Put("nullsLast", Yes)>>)>>)>>)>>)>>)>>
parseForUpdateClause == Switch(<<See({"FOR"}, <<Flat(SetOperators \cup {"<end>", ")"}, "forUpdate")>>)>>)
\* START WITH and CONNECT BY, up to the next clause or the first ")"
captureHierarchicalTail ==
    Flat(SetOperators \cup {"<end>", ")", "GROUP", "HAVING", "ORDER", "OFFSET", "FETCH", "FOR"}, "forUpdate")
parseFetchOffsetAtom(f) == Keeps(f, <<Switch(<<On({"<number>"}, <<>>), Else(<<Call("expr")>>)>>)>>)
Fetch ==
    When({"FETCH"},
      <<May({"FIRST", "NEXT"}), parseFetchOffsetAtom("limit"), May({"PERCENT"}), May({"ROW", "ROWS"}),
        Switch(<<At({"WITH"}, <<May({"TIES"})>>), At({"ONLY"}, <<>>)>>)>>)
OrderBy == Switch(<<See({"ORDER"}, parseOrderByClause)>>)

-----------------------------------------------------------------------------
(* FROM *)

parseJoinSpec ==
    Loop(<<At({"ON"}, <<Extend(Expr("on"), <<"AND">>)>>),
           At({"USING"}, Parens(<<Extend(Val("names", "using"), <<>>)>>))>>)
JoinOf(kind, words) == <<Wrap("left", "JOIN"), Put("kind", <<kind>>)>> \o words \o <<One("right", "", <<Call("item")>>)>>
InnerOrCross(kind) == At({kind}, JoinOf(kind, <<Must("JOIN")>>) \o <<parseJoinSpec>>)
OuterJoin(kind) == At({kind}, JoinOf(kind, <<May({"OUTER"}), Must("JOIN")>>) \o <<parseJoinSpec>>)
tryParseJoin ==
    <<InnerOrCross("INNER"), InnerOrCross("CROSS"), OuterJoin("LEFT"), OuterJoin("RIGHT"), OuterJoin("FULL"),
      At({"NATURAL"}, JoinOf("INNER",
          <<Flag("natural"),
            Switch(<<At({"LEFT"}, <<May({"OUTER"}), Put("kind", <<"LEFT">>)>>),
                     At({"RIGHT"}, <<May({"OUTER"}), Put("kind", <<"RIGHT">>)>>)>>),
            Must("JOIN")>>)),
      At({"JOIN"}, JoinOf("INNER", <<>>) \o <<parseJoinSpec>>)>>
parseTableSourceWithJoins == <<Call("item"), Loop(tryParseJoin)>>
parseFromList(f) == List(<<Sub(f, "", <<Call("source")>>)>>)
parseTableSourceItem ==
    <<May({"LATERAL"}),
      Switch(<<
        SeePair({"("}, {"SELECT", "WITH"},
                <<Must("("), Kind("SUBQUERY"), One("stmt", "SELECT", <<Call("select")>>), Must(")"), Alias("alias")>>),
        At({"("}, <<Call("source"),
                    Loop(<<At({","}, <<Wrap("left", "JOIN"), Put("kind", <<"CROSS">>), One("right", "", <<Call("source")>>)>>)>>),
                    Must(")")>>),
        Else(<<Kind("TABLE"), Val("ref", "name"), When({"PARTITION", "SUBPARTITION"}, <<Val("(text)", "")>>), Alias("alias")>>)>>)>>

-----------------------------------------------------------------------------
(* SELECT *)

parseQueryBlock ==
    <<Switch(<<
        At({"("}, <<One("inner", "SELECT", <<Call("select")>>), Must(")"), Become("inner")>>),
        At({"SELECT"},
           <<consumeSelectModifiers, parseSelectList("cols"),
             When({"FROM"}, <<parseFromList("from")>>), When({"WHERE"}, <<Expr("where")>>),
             Switch(<<See({"CONNECT", "START"}, <<captureHierarchicalTail>>)>>),
             When({"GROUP"}, <<Must("BY"), parseGroupByList>>), When({"HAVING"}, <<Expr("having")>>), OrderBy,
             When({"OFFSET"}, <<parseFetchOffsetAtom("offset"), May({"ROW", "ROWS"})>>), Fetch, parseForUpdateClause>>),
        Else(<<Err, Nil>>)>>)>>

parseWithClause ==
    <<When({"RECURSIVE"}, <<Flag("recursive")>>),
      List(<<Sub("ctes", "CTE",
        <<Val("ident", "name"), When({"("}, <<Val("names", "columns"), Must(")")>>), Must("AS")>> \o
        Parens(<<One("body", "SELECT", <<Call("select")>>)>>))>>)>>

\* Behind the last block the word OFFSET itself is read as the number of rows.
parseSelectStatement ==
    <<When({"WITH"}, <<One("outer", "WITH", parseWithClause)>>), Call("block"), Drop("with"), Move("outer", "with"),
      Loop(<<See(SetOperators,
        <<Sub("setOps", "SET OPERATION",
            <<Word(SetOperators, "op"), Switch(<<At({"ALL"}, <<Flag("all")>>), At({"DISTINCT"}, <<>>)>>),
              One("stmt", "SELECT", <<Call("block")>>), Has("stmt")>>)>>)>>),
      OrderBy, Switch(<<See({"OFFSET"}, <<parseFetchOffsetAtom("offset"), May({"ROW", "ROWS"})>>)>>), Fetch, parseForUpdateClause>>

-----------------------------------------------------------------------------
(* INSERT, UPDATE, DELETE and MERGE *)

Operand(f) == Keeps(f, <<Switch(<<On({"DEFAULT"}, <<>>), Else(<<Call("expr")>>)>>)>>)
Assigned == Switch(<<At({":="}, <<>>), Else(<<Must("=")>>)>>)
Row(f) == Parens(<<Switch(<<See({")"}, <<>>), Else(<<List(<<Add(Operand(f))>>)>>)>>)>>)
parseInsertValues == <<List(Row("row") \o <<Group("row", "rows")>>)>>
ColumnList == When({"("}, <<List(<<Add(Val("ident", "cols"))>>), Must(")")>>)
\* the variables of RETURNING ... INTO are lost
Returning ==
    When({"RETURNING"}, <<parseSelectList("returning"),
         When({"INTO"}, <<List(<<Switch(<<At({"<bind>"}, <<>>), Else(<<Val("ident", "")>>)>>)>>)>>)>>)
parseInsertStatement ==
    <<Must("INSERT"), May({"INTO"}), Val("ref", "table"), ColumnList,
      Switch(<<At({"VALUES", "VALUE"}, parseInsertValues),
               See({"SELECT", "WITH", "("}, <<One("select", "SELECT", <<Call("select")>>)>>)>>),
      Returning>>

parseUpdatedElements ==
    <<List(<<Sub("sets", "SET",
        <<Switch(<<SeePair({"("}, {"<ident>"}, Parens(<<Val("names", "tuple")>>)), Else(<<Keeps("col", path)>>)>>),
          Assigned, Operand("expr")>>)>>)>>
\* a table, or a view written in its place
TargetOf(table, from) ==
    Switch(<<See({"("}, <<Sub(from, "", <<Call("item")>>)>>), Else(<<Val("ref", table), Alias("alias")>>)>>)
Where == When({"WHERE"}, <<Expr("where")>>)
parseUpdateStatement == <<Must("UPDATE"), TargetOf("name", "from"), Must("SET")>> \o parseUpdatedElements \o <<Where, Returning>>
parseDeleteStatement == <<Must("DELETE"), May({"FROM"}), TargetOf("name", "using"), Where, Returning>>

MergeWhere == When({"WHERE"}, <<Extend(Expr("cond"), <<"AND">>)>>)
MergeAction ==
    Switch(<<
      At({"UPDATE"}, <<Kind("UPDATE"), Must("SET")>> \o parseUpdatedElements \o
         <<MergeWhere, When({"DELETE"}, <<When({"WHERE"}, <<Expr("")>>), Flag("hasInlineDelete")>>)>>),
      At({"DELETE"}, <<Kind("DELETE"), MergeWhere>>),
      At({"INSERT"}, <<Kind("INSERT"), ColumnList, When({"VALUES"}, Row("values")), MergeWhere>>),
      At({"DO"}, <<Kind("DO NOTHING"), May({"NOTHING"})>>),
      Else(<<Nil>>)>>)
WhenBranch(f) == <<Sub(f, "", <<Must("MATCHED"), When({"AND"}, <<Expr("cond")>>), Must("THEN"), MergeAction>>)>>
parseMergeStatement ==
    MustAll(<<"MERGE", "INTO">>) \o
    <<Val("ref", "target"), Alias("targetAlias"), Must("USING"), One("source", "", <<Call("item")>>), Must("ON"),
      Switch(<<At({"("}, <<Expr("on"), Must(")")>>), Else(<<Expr("on")>>)>>),
      Loop(<<AtPair({"WHEN"}, {"NOT"}, WhenBranch("whenNotMatched")), At({"WHEN"}, WhenBranch("whenMatched"))>>),
      Switch(<<See({"LOG"}, <<Flag("hasLogErrors"), Flat({"<end>"}, "")>>)>>)>>

Rules ==
    [expr |-> parseExpr, cmp |-> parseCmp, add |-> parseAdd, unary |-> parseUnary, primary |-> parsePrimary, pathRest |-> pathRest,
     variable |-> path,
     select |-> parseSelectStatement, block |-> parseQueryBlock, source |-> parseTableSourceWithJoins,
     item |-> parseTableSourceItem]
=============================================================================
