----------------------------- MODULE MCQueries -----------------------------
(***************************************************************************)
(* Queries and changes of rows, as a routine's body or a view may hold     *)
(* them.                                                                   *)
(***************************************************************************)
EXTENDS MCClauses

Sub1 == <<"(", "SELECT", "b", "FROM", "u", ")">>
\* expressions that both dialects read
CommonExprs ==
    {<<"a">>, <<"1">>, <<"'a'">>, <<"NULL">>, <<"-", "1">>, <<"a", "+", "b", "*", "2">>, <<"a", "||", "b">>,
     <<"a", "=", "1", "AND", "b", "<>", "2", "OR", "NOT", "c">>, <<"a", "BETWEEN", "1", "AND", "2">>,
     <<"a", "NOT", "IN", "(", "1", ",", "2", ")">>, <<"a", "IN">> \o Sub1, <<"a", "NOT", "LIKE", "'a'">>, <<"a", "IS", "NOT", "NULL">>,
     <<"EXISTS">> \o Sub1, <<"(", "a", "+", "1", ")">>, Sub1, <<"f", "(", ")">>, <<"f", "(", "a", ",", "b", ")">>,
     <<"f", "(", "*", ")">>, <<"CASE", "a", "WHEN", "1", "THEN", "b", "ELSE", "c", "END">>,
     <<"CASE", "WHEN", "a", "<", "b", "THEN", "f", "(", "a", ")", "END">>, <<"CAST", "(", "a", "AS", "INT", ")">>,
     <<"f", "(", "a", ")", "OVER", "(", "PARTITION", "BY", "b", ",", "c", "ORDER", "BY", "a", "ROWS", "f", "(", "1", ")", ")">>}
MyExprs ==
    CommonExprs \cup
    {<<"f", "(", "DISTINCT", "a", ")">>, <<"NOW", "(", ")">>, <<"CURRENT_TIMESTAMP">>, <<"a", "-", "INTERVAL", "b", "+", "1", "DAY">>,
     <<"CAST", "(", "a", "AS", "UNSIGNED", ")">>, <<"f", "(", "a", "ORDER", "BY", "b", "DESC", "SEPARATOR", "'a'", ")">>, <<"a", "DIV", "2">>}
OraExprs ==
    CommonExprs \cup
    {<<":x">>, <<"SYSDATE">>, <<"PRIOR", "a">>, <<"x", "%", "NOTFOUND">>, <<"a", "IS", "NOT", "DISTINCT", "FROM", "b">>,
     <<"INTERVAL", "'a'", "DAY", "TO", "SECOND">>, <<"f", "(", "a", ")", "WITHIN", "GROUP", "(", "ORDER", "BY", "b", "DESC", ",", "c", ")">>,
     <<"f", "(", ")", "OVER", "(", ")">>}
FewExprs == {<<"a", "=", "1", "AND", "b", "<>", "2", "OR", "NOT", "c">>, Sub1}
\* a path begins these; at the start of a column of a query it is all that is read
PathExprs == {<<"t", ".", "a">>, <<"s", ".", "t", ".", "a", "+", "1">>}
OraPathExprs == PathExprs \cup {<<"s", ".", "f", "(", "a", ")">>, <<"t", ".", "a", "(", "+", ")", "=", "b">>, <<"r", ".", "NEXTVAL">>}

ItemOf(f, c) == OneOf(f, "ITEM", c)
Item(e) == ItemOf("cols", Says(<<>>, "expr", e))
ItemAs(e, words) == ItemOf("cols", Then(Says(<<>>, "expr", e), Says(words, "alias", <<"x">>)))
Items(es) ==
    {ItemAs(e, <<"AS">>) : e \in es} \cup
    {ItemOf("cols", Sets(<<"*">>, "star")), ItemOf("cols", Then(Says(<<>>, "qualifier", <<"t">>), Sets(<<".", "*">>, "star"))),
     Commas(<<ItemAs(<<"t", ".", "a">>, <<>>), Item(<<"b">>)>>), Commas(<<ItemAs(<<"a">>, <<>>), Item(<<"s", ".", "t", ".", "b">>)>>)}

TableNamed(n) == [kind |-> "TABLE", c |-> Says(<<>>, "name", <<n>>)]
TableAs(words) == [kind |-> "TABLE", c |-> All(<<Ref(<<>>, "name"), Says(words, "alias", <<"x">>)>>)]
SourceNode(s) == NodeOf(s.kind, s.c)
InFrom(f, s) == OneOf(f, s.kind, s.c)
\* two sources and a word between them make a join
JoinOf(s, ws, r, kind, more) ==
    [kind |-> "JOIN", c |-> Then(Cl(s.c.w \o ws \o r.c.w, ("left" :> SourceNode(s)) @@ ("right" :> SourceNode(r)) @@ ("kind" :> <<kind>>)), more)]
Joined(ws, kind, more) == JoinOf(TableNamed("t"), ws, TableNamed("u"), kind, more)
SimpleQuery == All(<<Noise(<<"SELECT">>), Item(<<"a">>), Noise(<<"FROM">>), InFrom("from", TableNamed("u"))>>)
OnA == Says(<<"ON">>, "on", <<"a", "=", "b">>)
UsingA == Cl(<<"USING", "(", "a", ",", "b", ")">>, "using" :> <<"a", "b">>)
SubQuery == [kind |-> "SUBQUERY", c |-> Then(Cl(InParens(SimpleQuery).w, "stmt" :> NodeOf("SELECT", SimpleQuery)), Says(<<"AS">>, "alias", <<"x">>))]
Nothing == Noise(<<>>)
FromItems ==
    {TableAs(<<"AS">>), TableAs(<<>>), SubQuery, Joined(<<"INNER", "JOIN">>, "INNER", OnA), Joined(<<"LEFT", "OUTER", "JOIN">>, "LEFT", UsingA),
     Joined(<<"FULL", "JOIN">>, "FULL", OnA), Joined(<<"CROSS", "JOIN">>, "CROSS", Nothing), Joined(<<"JOIN">>, "INNER", OnA),
     Joined(<<"NATURAL", "JOIN">>, "INNER", Cl(<<>>, "natural" :> <<"yes">>)),
     Joined(<<"NATURAL", "RIGHT", "OUTER", "JOIN">>, "RIGHT", Cl(<<>>, "natural" :> <<"yes">>)),
     JoinOf(Joined(<<"JOIN">>, "INNER", OnA), <<"LEFT", "JOIN">>, SubQuery, "LEFT", OnA),
     [kind |-> "JOIN", c |-> Cl(<<"(">> \o Joined(<<",">>, "CROSS", Nothing).c.w \o <<")">>, Joined(<<",">>, "CROSS", Nothing).c.f)]}
FromClauses(sources) ==
    {Then(Noise(<<"FROM">>), InFrom("from", s)) : s \in sources} \cup
    {Then(Noise(<<"FROM">>), Commas(<<InFrom("from", s), InFrom("from", TableAs(<<>>))>>)) : s \in {TableNamed("t"), SubQuery}}
FromT == Then(Noise(<<"FROM">>), InFrom("from", TableNamed("t")))
Optional(others) == Place(Nothing, others)

WhereOf(es) == {Says(<<"WHERE">>, "where", e) : e \in es}
Rows(f, seq) == Cl(FlattenSeq([i \in DOMAIN seq |-> IF i = 1 THEN seq[i] ELSE <<",">> \o seq[i]]), f :> seq)
GroupBy == Then(Noise(<<"GROUP", "BY">>), Rows("groupBy", <<<<"a">>, <<"f", "(", "b", ")">>>>))
Having1 == Says(<<"HAVING">>, "having", <<"f", "(", "a", ")", ">", "1">>)
OrderItem(c) == OneOf("orderBy", "ORDER ITEM", c)
OrderBy(nulls) ==
    Then(Noise(<<"ORDER", "BY">>), Commas(<<OrderItem(All(<<Says(<<>>, "expr", <<"a">>), Sets(<<"DESC">>, "desc"), nulls>>)),
                                           OrderItem(Then(Says(<<>>, "expr", <<"b">>), Noise(<<"ASC">>)))>>))

\* UNION: what comes behind the last query is a part of that one.
SetOp(words, all, q) ==
    OneOf("setOps", "SET OPERATION", All(<<Says(<<>>, "op", words), all, Cl(q.w, "stmt" :> NodeOf("SELECT", q))>>))
Unions(simple, tail) ==
    {All(<<simple, SetOp(<<o>>, all, Then(simple, tail))>>) : o \in {"UNION", "INTERSECT", "MINUS"}, all \in {Nothing, Sets(<<"ALL">>, "all")}} \cup
    {All(<<simple, SetOp(<<"UNION">>, Noise(<<"DISTINCT">>), simple), SetOp(<<"EXCEPT">>, Nothing, simple)>>)}
CteOf(cols) == OneOf("ctes", "CTE", All(<<Says(<<>>, "name", <<"x">>), cols, Cl(<<"AS">> \o InParens(SimpleQuery).w, "body" :> NodeOf("SELECT", SimpleQuery))>>))
WithOf(c) == Cl(<<"WITH">> \o c.w, "with" :> NodeOf("WITH", c))
Withs ==
    {Then(WithOf(c), SimpleQuery) : c \in {CteOf(Nothing), Commas(<<CteOf(Nothing), CteOf(Cl(<<"(", "a", ")">>, "columns" :> <<"a">>))>>),
                                    Then(Sets(<<"RECURSIVE">>, "recursive"), CteOf(Nothing))}}

\* rows of values and columns that are set
Tuple(seq) == Cl(<<"(">> \o Rows("", seq).w \o <<")">>, "rows" :> <<seq>>)
Columns == Cl(<<"(", "a", ",", "b", ")">>, "cols" :> <<<<"a">>, <<"b">>>>)
SetTo(col, e) == OneOf("sets", "SET", Then(Says(<<>>, "col", col), Says(<<"=">>, "expr", e)))
SetClauses(es) == {SetTo(<<"a">>, e) : e \in es} \cup {Commas(<<SetTo(<<"x", ".", "a">>, <<"DEFAULT">>), SetTo(<<"b">>, <<"a", "+", "1">>)>>)}
AsSelect(q) == Cl(q.w, "select" :> NodeOf("SELECT", q))
ReturningAB == Then(Noise(<<"RETURNING">>), Commas(<<ItemOf("returning", Says(<<>>, "expr", <<"a">>)), ItemOf("returning", Says(<<>>, "expr", <<"b">>))>>))

-----------------------------------------------------------------------------
(* MySQL. *)

MyFromItems ==
    FromItems \cup {Joined(<<"STRAIGHT_JOIN">>, "INNER", OnA),
                  [kind |-> "TABLE", c |-> Then(TableNamed("t").c, Noise(<<"USE", "INDEX", "FOR", "ORDER", "BY", "(", "a", ")">>))],
                  [kind |-> "TABLE", c |-> All(<<TableNamed("t").c, Noise(<<"PARTITION", "(", "x", ")">>), Says(<<"AS">>, "alias", <<"y">>)>>)]}
MyLimits ==
    {Says(<<"LIMIT">>, "limit", <<"2">>), All(<<Says(<<"LIMIT">>, "offset", <<"1">>), Says(<<",">>, "limit", <<"2">>)>>),
     Then(Says(<<"LIMIT">>, "limit", <<"@", "x">>), Says(<<"OFFSET">>, "offset", <<"b">>))}
MyPlaces(exprs) ==
    <<Place(Noise(<<"SELECT">>), {Sets(<<"SELECT", "DISTINCT">>, "distinct"), Noise(<<"SELECT", "SQL_NO_CACHE">>), Sets(<<"SELECT", "ALL">>, "allOnly")}),
      Place(Item(<<"a">>), Items(exprs)), Place(FromT, FromClauses(MyFromItems)), Optional(WhereOf(exprs \cup PathExprs)),
      Optional({GroupBy, Then(GroupBy, Noise(<<"WITH", "ROLLUP">>))}), Optional({Having1}), Optional({Noise(<<"WINDOW", "x", "AS", "(", "f", "(", "a", ")", ")">>)}),
      Optional({OrderBy(Nothing), OrderBy(Sets(<<"NULLS", "LAST">>, "nullsLast"))}), Optional(MyLimits),
      Optional({Says(<<>>, "forUpdate", <<"FOR", "UPDATE">>), Says(<<>>, "forUpdate", <<"LOCK", "IN", "SHARE", "MODE">>)})>>
MyQueries == OneVaried(MyPlaces(MyExprs)) \cup Varied(MyPlaces(FewExprs)) \cup Unions(SimpleQuery, Then(OrderBy(Nothing), Says(<<"LIMIT">>, "limit", <<"2">>)))
ViewQueries == {SimpleQuery} \cup Withs

\* SELECT ... INTO: the text without the INTO, and the node of the query
IntoVars == Cl(<<"INTO", "x", ",", "@", "y">>, "vars" :> <<<<"x">>, <<"@", "y">>>>)
IntoNode(cs, at) ==
    LET query == All(RemoveAt(cs, at))
    IN  Cl(All(cs).w, ("vars" :> cs[at].f["vars"]) @@ ("query" :> query.w) @@ ("stmt" :> NodeOf("SELECT", query)))
MySelectInto ==
    {IntoNode(<<Noise(<<"SELECT">>), i, IntoVars, f, w>>, 3) : i \in Items({<<"a">>}), f \in {Nothing, FromT}, w \in {Nothing} \cup WhereOf({<<"b", "=", "1">>})} \cup
    {IntoNode(<<SimpleQuery, l, IntoVars, k>>, 3) : l \in {Nothing} \cup MyLimits, k \in {Nothing, Says(<<>>, "forUpdate", <<"FOR", "UPDATE">>)}}

MyInserts ==
    {All(<<Noise(<<"INSERT">> \o m), Ref(<<>>, "table"), c, v, d, r>>) :
        m \in {<<"INTO">>, <<"IGNORE", "INTO">>, <<>>}, c \in {Nothing, Columns},
        v \in {Then(Noise(<<"VALUES">>), Tuple(<<<<"1">>, <<"DEFAULT">>>>)),
               Then(Noise(<<"VALUES">>), Commas(<<Tuple(<<<<"1">>, <<"f", "(", "a", ")">>>>), Tuple(<<<<"NULL">>, <<"a", "+", "1">>>>)>>)), AsSelect(SimpleQuery)},
        d \in {Nothing} \cup {Cl(<<"ON", "DUPLICATE", "KEY", "UPDATE">> \o s.w, "onConflict" :> NodeOf("ON CONFLICT", s)) : s \in SetClauses({<<"f", "(", "a", ")">>})},
        r \in {Nothing, ReturningAB}} \cup
    {All(<<Noise(<<"INSERT", "INTO">>), Ref(<<>>, "table"), Cl(<<"SET", "a", "=", "1", ",", "b", "=", "DEFAULT">>,
           ("cols" :> <<<<"a">>, <<"b">>>>) @@ ("rows" :> <<<<<<"1">>, <<"DEFAULT">>>>>>))>>)}
MyUpdates ==
    Varied(<<Place(Noise(<<"UPDATE">>), {}), Place(TableNamed("t").c, {TableAs(<<"AS">>).c, InFrom("from", Joined(<<"JOIN">>, "INNER", OnA))}),
             Place(Noise(<<"SET">>), {}), Place(SetTo(<<"a">>, <<"1">>), SetClauses(MyExprs)),
             Optional(WhereOf({<<"a", "=", "1">>, <<"EXISTS">> \o Sub1})), Optional({ReturningAB})>>)
MyDeletes ==
    {All(<<Noise(<<"DELETE", "FROM">>), t, w, r>>) : t \in {TableNamed("t").c, TableAs(<<>>).c}, w \in {Nothing} \cup WhereOf(MyExprs), r \in {Nothing, ReturningAB}} \cup
    {All(<<Noise(<<"DELETE">> \o h), Commas(<<InFrom("using", TableNamed("t")), InFrom("using", TableNamed("u"))>>), Noise(<<m>>),
           InFrom("using", Joined(<<"JOIN">>, "INNER", OnA)), w>>) :
        <<h, m>> \in {<<<<>>, "FROM">>, <<<<"FROM">>, "USING">>}, w \in {Nothing} \cup WhereOf({<<"a", "=", "1">>})}
MySQL == Ended("SELECT", MyQueries) \cup Ended("SELECT INTO", MySelectInto) \cup Ended("INSERT", MyInserts) \cup
         Ended("UPDATE", MyUpdates) \cup Ended("DELETE", MyDeletes)

-----------------------------------------------------------------------------
(* Oracle. *)

OraFromItems ==
    FromItems \cup {[kind |-> "TABLE", c |-> All(<<TableNamed("t").c, Noise(<<"PARTITION", "(", "x", ")">>), Says(<<>>, "alias", <<"y">>)>>)],
                  [kind |-> "SUBQUERY", c |-> Then(Noise(<<"LATERAL">>), SubQuery.c)]}
Hierarchy == {Says(<<>>, "forUpdate", <<"START", "WITH", "a", "=", "1", "CONNECT", "BY", "PRIOR", "a", "=", "b">>)}
Locks == {Says(<<>>, "forUpdate", <<"FOR", "UPDATE", "OF", "a">>)}
Fetches == {Says(<<"FETCH", "FIRST">>, "limit", <<"2">>)}
FetchRows(c) == {Then(c, Noise(<<"ROWS", "ONLY">>)), Then(c, Noise(<<"PERCENT", "ROWS", "WITH", "TIES">>))}
OraPlaces(exprs, hierarchy, locks) ==
    <<Place(Noise(<<"SELECT">>), {Sets(<<"SELECT", "UNIQUE">>, "distinct"), Sets(<<"SELECT", "ALL">>, "allOnly")}),
      Place(Item(<<"a">>), Items(exprs)), Place(FromT, FromClauses(OraFromItems)), Optional(WhereOf(exprs \cup OraPathExprs)), Optional(hierarchy),
      Optional({GroupBy}), Optional({Having1}), Optional({OrderBy(Sets(<<"NULLS", "LAST">>, "nullsLast")), OrderBy(Unsets(<<"NULLS", "FIRST">>, "nullsLast"))}),
      Optional({Then(Says(<<"OFFSET">>, "offset", <<"1">>), Noise(<<"ROWS">>))}), Optional(UNION {FetchRows(c) : c \in Fetches}), Optional(locks)>>
OraQueries ==
    OneVaried(OraPlaces(OraExprs, {}, {})) \cup Varied(OraPlaces(FewExprs, {}, Locks)) \cup Varied(OraPlaces(FewExprs, Hierarchy, {})) \cup Withs \cup
    Unions(SimpleQuery, Then(OrderBy(Nothing), Then(Says(<<"FETCH", "NEXT">>, "limit", <<"2">>), Noise(<<"ROWS", "ONLY">>))))

OraInto(words) == Cl(words \o <<"x", ",", "t", ".", "y">>, "vars" :> <<<<"x">>, <<"t", ".", "y">>>>)
\* ... and with BULK COLLECT every column becomes an array
Arrays(e, words) == ItemOf("cols", Then(Says(<<>>, "expr", <<"ARRAY_AGG", "(">> \o e \o <<")">>), words))
BulkItems == {<<e, w>> : e \in {<<"a">>, <<"t", ".", "a">>, <<"f", "(", "a", ",", "b", ")">>, <<"1">>},
                         w \in {Nothing, Says(<<>>, "alias", <<"x">>), Says(<<"AS">>, "alias", <<"x">>)}}
BulkNode(i, k, rest) ==
    LET query == All(<<Noise(<<"SELECT">>), Commas(<<Arrays(i[1], i[2]), Arrays(k[1], k[2])>>), rest>>)
        written == All(<<Noise(<<"SELECT">>), Commas(<<Then(Noise(i[1]), i[2]), Then(Noise(k[1]), k[2])>>), OraInto(<<"BULK", "COLLECT", "INTO">>), rest>>)
    IN  Cl(written.w, ("vars" :> written.f["vars"]) @@ ("query" :> query.w) @@ ("stmt" :> NodeOf("SELECT", query)))
OraSelectInto ==
    {IntoNode(<<Noise(<<"SELECT">>), i, OraInto(<<"INTO">>), f, w>>, 3) :
        i \in Items(OraExprs \ {<<"a", "IS", "NOT", "DISTINCT", "FROM", "b">>}), f \in {FromT}, w \in {Nothing} \cup WhereOf({<<"b", "=", "1">>, <<"EXISTS">> \o Sub1})} \cup
    {BulkNode(i, k, Then(FromT, w)) : i \in BulkItems, k \in BulkItems, w \in {Nothing} \cup WhereOf({<<"b", "=", "1">>})}

OraReturning == {ReturningAB, Then(ReturningAB, Noise(<<"INTO", "x", ",", ":x">>))}
OraValues(f, seq) == Then(Noise(<<"VALUES">>), Cl(<<"(">> \o Rows("", seq).w \o <<")">>, f :> seq))
OraInserts ==
    {All(<<Noise(<<"INSERT", "INTO">>), Ref(<<>>, "table"), c, v, r>>) : c \in {Nothing, Columns}, r \in {Nothing} \cup OraReturning,
        v \in {Then(Noise(<<"VALUES">>), Tuple(<<e, <<"DEFAULT">>>>)) : e \in OraExprs} \cup {AsSelect(SimpleQuery)}} \cup
    {All(<<Noise(<<"INSERT", "INTO">>), Ref(<<>>, "table"), Columns, Cl(InParens(SimpleQuery).w, "select" :> NodeOf("SELECT", SimpleQuery))>>)}
OraSets ==
    SetClauses(OraExprs) \cup {OneOf("sets", "SET", Then(Cl(<<"(", "a", ",", "b", ")">>, "tuple" :> <<"a", "b">>), Says(<<"=">>, "expr", Sub1)))}
Targets(f) == {TableAs(<<>>).c, InFrom(f, SubQuery)}
OraUpdates ==
    Varied(<<Place(Noise(<<"UPDATE">>), {}), Place(TableNamed("t").c, Targets("from")), Place(Noise(<<"SET">>), {}),
             Place(SetTo(<<"a">>, <<"1">>), OraSets), Optional(WhereOf({<<"a", "=", "1">>, <<"a", "IN">> \o Sub1})), Optional(OraReturning)>>)
OraDeletes ==
    Varied(<<Place(Noise(<<"DELETE">>), {Noise(<<"DELETE", "FROM">>)}), Place(TableNamed("t").c, Targets("using")), Optional(WhereOf(OraExprs)),
             Optional(OraReturning)>>)
Branch(f, words, and, kind, c) == OneOf(f, kind, All(<<Noise(words), and, Noise(<<"THEN">>), c>>))
AndCond == {Nothing, Says(<<"AND">>, "cond", <<"a", "=", "1">>)}
WhereCond == {Nothing, Says(<<"WHERE">>, "cond", <<"a", "=", "1">>)}
MatchedBranches ==
    {Branch("whenMatched", <<"WHEN", "MATCHED">>, a, "UPDATE", All(<<Noise(<<"UPDATE", "SET">>), SetTo(<<"x", ".", "a">>, <<"b">>), w, d>>)) :
        <<a, w>> \in (AndCond \X {Nothing}) \cup ({Nothing} \X WhereCond), d \in {Nothing, Sets(<<"DELETE", "WHERE", "b", "=", "1">>, "hasInlineDelete")}} \cup
    {Branch("whenMatched", <<"WHEN", "MATCHED">>, a, "DELETE", Noise(<<"DELETE">>)) : a \in AndCond}
NotMatchedBranches ==
    {Branch("whenNotMatched", <<"WHEN", "NOT", "MATCHED">>, Nothing, "INSERT", All(<<Noise(<<"INSERT">>), c, OraValues("values", <<<<"a">>, <<"DEFAULT">>>>), w>>)) :
        c \in {Nothing, Columns}, w \in WhereCond}
Merges ==
    {All(<<Noise(<<"MERGE", "INTO">>), Ref(<<>>, "target"), Says(<<>>, "targetAlias", <<"x">>), Cl(<<"USING">> \o s.c.w, "source" :> SourceNode(s)),
           Between(<<"ON", "(">>, "on", <<"x", ".", "a", "=", "b">>, <<")">>), b, l>>) :
        s \in {TableAs(<<>>), SubQuery}, b \in MatchedBranches \cup NotMatchedBranches \cup {Then(m, n) : m \in MatchedBranches, n \in NotMatchedBranches},
        l \in {Nothing, Sets(<<"LOG", "ERRORS">>, "hasLogErrors")}}
OraSQL == Ended("SELECT", OraQueries) \cup Ended("SELECT INTO", OraSelectInto) \cup Ended("INSERT", OraInserts) \cup
          Ended("UPDATE", OraUpdates) \cup Ended("DELETE", OraDeletes) \cup Ended("MERGE", Merges)

\* one more statement
MoreSQL == [w |-> <<"DELETE", "FROM", "u", ";">>, node |-> [is |-> <<"DELETE">>, name |-> <<"u">>], sound |-> TRUE]
=============================================================================
