------------------------------- MODULE MCDump -------------------------------
(***************************************************************************)
(* What a dump may hold.  Of the clauses that a statement leaves to the    *)
(* writer there are up to two, in any order.                               *)
(*                                                                         *)
(* Clauses the parsers are known to lose are not in here; the README lists *)
(* them.                                                                   *)
(***************************************************************************)
EXTENDS MCQueries

-----------------------------------------------------------------------------
(* Clauses that the dialects have in common. *)

Ident(ws, f) == Says(ws, f, <<"k">>)
OneWord(f, ws) == {Says(<<>>, f, <<x>>) : x \in ws}
Typed(n) == Then(Says(<<>>, "name", <<n>>), Cl(<<"VARCHAR", "(", "2", ")">>, "type" :> <<"VARCHAR", "2">>))
Cols(opts) == {OneOf("columns", "COLUMN", c) : c \in Free(<<Typed("a")>>, opts)}
PlainCol(n) == OneOf("columns", "COLUMN", Typed(n))
Desc == Says(<<>>, "order", <<"DESC">>)
KeyOf(c) == OneOf("keys", "KEYPART", c)
TwoKeys == InParens(Commas(<<KeyOf(Says(<<>>, "name", <<"a">>)), KeyOf(Then(Says(<<>>, "name", <<"b">>), Desc))>>))
Constraint(kind, cs) == {OneOf("constraints", kind, c) : c \in cs}
NamedC == Ident(<<"CONSTRAINT">>, "name")
RefActions ==
    {Says(<<"ON", "DELETE">>, "onDelete", v) : v \in {<<"CASCADE">>, <<"SET", "NULL">>, <<"NO", "ACTION">>}} \cup
    {Says(<<"ON", "UPDATE">>, "onUpdate", v) : v \in {<<"RESTRICT">>, <<"SET", "DEFAULT">>}}
ForeignKey(cols, refs, opts) ==
    Free(<<NamedC, Noise(<<"FOREIGN", "KEY">>), cols, Ref(<<"REFERENCES">>, "references"), refs>>, opts)
SelectText == <<"SELECT", "a", "FROM", "f", "(", "b", ",", "c", ")">>
CheckOptions ==
    Maybe(Sets(<<"WITH", "CHECK", "OPTION">>, "checkOption")) \cup
    {All(<<Says(<<"WITH">>, "check", <<x>>), Sets(<<"CHECK", "OPTION">>, "checkOption")>>) : x \in {"LOCAL", "CASCADED"}}
Views(head, queries) ==
    {All(<<head, Ref(<<"VIEW">>, "name"), cols, Noise(<<"AS">>), query, check>>) : query \in queries,
        cols \in Maybe(Cl(<<"(", "x", ",", "y", ")">>, "columns" :> <<"x", "y">>)), check \in CheckOptions}
SequenceOptions ==
    {Says(<<"START", "WITH">>, "start", <<"-", "1">>), Says(<<"INCREMENT", "BY">>, "increment", <<"2">>),
     Says(<<"MINVALUE">>, "min", <<"-", "3">>), Sets(<<"NOMINVALUE">>, "noMin"), Says(<<"MAXVALUE">>, "max", <<"3">>),
     Sets(<<"NOMAXVALUE">>, "noMax"), Sets(<<"CYCLE">>, "cycle"), Unsets(<<"NOCYCLE">>, "cycle"),
     Says(<<"CACHE">>, "cache", <<"2">>), Sets(<<"NOCACHE">>, "noCache")}
\* a body with blocks inside
BlockText ==
    <<"BEGIN", "IF", "x", "=", "1", "THEN", "LOOP", "x", ";", "END", "LOOP", ";", "END", "IF", ";",
      "SET", "x", "=", "CASE", "WHEN", "y", "THEN", "1", "END", ";", "END">>

-----------------------------------------------------------------------------
(* MySQL. *)

MyExpr(ws, f) == {Says(ws, f, <<"f", "(", "b", ")">>), Says(ws, f, <<"'a'">>)}
MyColumnOptions ==
    MyExpr(<<"DEFAULT">>, "default") \cup MyExpr(<<"ON", "UPDATE">>, "onUpdate") \cup
    {Sets(<<"NOT", "NULL">>, "notNull"), Unsets(<<"NULL">>, "notNull"), Sets(<<"AUTO_INCREMENT">>, "autoInc"),
     Sets(<<"UNIQUE", "KEY">>, "unique"), Sets(<<"PRIMARY", "KEY">>, "primaryKey"), Says(<<"COMMENT">>, "comment", <<"'b'">>),
     Says(<<"COLLATE">>, "collation", <<"c">>), Says(<<"CHARACTER", "SET">>, "charset", <<"c">>),
     Sets(<<"INVISIBLE">>, "invisible"), Noise(<<"VISIBLE">>),
     Then(Between(<<"GENERATED", "ALWAYS", "AS", "(">>, "generated", <<"b">>, <<")">>), Unsets(<<"STORED">>, "virtual")),
     Then(Between(<<"AS", "(">>, "generated", <<"b">>, <<")">>), Sets(<<"VIRTUAL">>, "virtual")),
     Then(Between(<<"CHECK", "(">>, "check", <<"b">>, <<")">>), Sets(<<"NOT", "ENFORCED">>, "checkNotEnforced"))}
\* NOT NULL right behind an expression is read as a part of it.
LosesNotNull(c) == \E i \in DOMAIN c.w : c.w[i] \in {"DEFAULT", "UPDATE"} /\ \E k \in i .. Len(c.w) - 1 : c.w[k] = "NOT" /\ c.w[k + 1] = "NULL"
NamesOf(f) == Cl(<<"(", "a", ",", "b", ")">>, f :> <<"a", "b">>)
MyElements ==
    Constraint("PK", {Then(Noise(<<"PRIMARY", "KEY">>), TwoKeys)}) \cup
    Constraint("UQ", {All(<<NamedC, Noise(<<"UNIQUE", "INDEX">>), TwoKeys>>), All(<<Noise(<<"UNIQUE">>), Ident(<<>>, "name"), TwoKeys>>)}) \cup
    Constraint("FK", ForeignKey(NamesOf("columns"), NamesOf("refColumns"), RefActions)) \cup
    Constraint("CHECK", {All(<<NamedC, Between(<<"CHECK", "(">>, "check", <<"b">>, <<")">>), e>>) :
                             e \in {Cl(<<>>, "enforced" :> <<"yes">>), Noise(<<"NOT", "ENFORCED">>)}}) \cup
    {OneOf("indexes", "INDEX", i) :
        i \in Free(<<Noise(<<"KEY">>), Ident(<<>>, "name"), TwoKeys>>,
                   {Says(<<"USING">>, "using", <<"BTREE">>), Says(<<"COMMENT">>, "comment", <<"'a'">>),
                    Sets(<<"INVISIBLE">>, "invisible"), Noise(<<"KEY_BLOCK_SIZE", "=", "1">>)})} \cup
    {OneOf("indexes", "INDEX", All(<<Says(<<>>, "kind", <<"FULLTEXT">>), Noise(<<"INDEX">>), Ident(<<>>, "name"),
           InParens(KeyOf(Cl(<<"(", "f", "(", "a", ")", ")">>, "expr" :> <<"f", "(", "a", ")">>)))>>))}
MyTableOptions ==
    {Says(<<"ENGINE", "=">>, "engine", <<"INNODB">>), Says(<<"DEFAULT", "CHARSET">>, "charset", <<"c">>),
     Says(<<"COLLATE", "=">>, "collate", <<"c">>), Says(<<"AUTO_INCREMENT", "=">>, "autoIncrement", <<"3">>),
     Says(<<"COMMENT">>, "comment", <<"'a'">>), Says(<<"ROW_FORMAT", "=">>, "rowFormat", <<"DYNAMIC">>),
     Noise(<<"DATA", "DIRECTORY", "=", "'a'">>), Noise(<<"UNION", "=", "(", "t", ",", "u", ")">>),
     Cl(<<"STATS_PERSISTENT", "=", "1">>, "extras" :> <<<<"STATS_PERSISTENT", "1">>>>)}
MyTable(cols, opts) ==
    {All(<<Ref(<<"CREATE", "TABLE">>, "name"), InParens(c), Only("options", "OPTIONS", o)>>) : c \in cols, o \in opts}
NoOptions == {Noise(<<>>)}
Atoms(f, seq) == Cl(FlattenSeq([i \in DOMAIN seq |-> IF i = 1 THEN seq[i] ELSE <<",">> \o seq[i]]), f :> seq)
LessThan(n, c) ==
    OneOf("definitions", "PARTITION", All(<<Says(<<"PARTITION">>, "name", <<n>>), Sets(<<"VALUES", "LESS", "THAN">>, "hasLessThan"), c>>))
ValuesIn(n, c) ==
    OneOf("definitions", "PARTITION", All(<<Says(<<"PARTITION">>, "name", <<n>>), Sets(<<"VALUES", "IN">>, "hasIn"), InParens(c)>>))
MyPartitioning ==
    {All(<<Cl(<<"RANGE">>, "method" :> <<"RANGE">>), Cl(<<"(", "f", "(", "a", ")", ")">>, "expr" :> <<"f", "(", "a", ")">>),
           InParens(Commas(<<LessThan("x", InParens(Atoms("lessThan", <<<<"1">>>>))),
                             Then(LessThan("y", Atoms("lessThan", <<<<"MAXVALUE">>>>)), Noise(<<"ENGINE", "=", "INNODB">>))>>))>>),
     All(<<Cl(<<"RANGE", "COLUMNS">>, "method" :> <<"RANGE", "COLUMNS">>), NamesOf("columns"),
           InParens(LessThan("x", InParens(Atoms("lessThan", <<<<"1">>, <<"MAXVALUE">>>>))))>>),
     All(<<Cl(<<"LIST">>, "method" :> <<"LIST">>), Between(<<"(">>, "expr", <<"a">>, <<")">>),
           InParens(Commas(<<ValuesIn("x", Atoms("inAtoms", <<<<"1">>, <<"2">>>>)), ValuesIn("y", Atoms("inAtoms", <<<<"NULL">>>>))>>))>>),
     All(<<Cl(<<"LIST", "COLUMNS">>, "method" :> <<"LIST", "COLUMNS">>), NamesOf("columns"),
           InParens(ValuesIn("x", OneOf("inVectors", "VECTOR", InParens(Atoms("atoms", <<<<"1">>, <<"2">>>>)))))>>),
     All(<<Sets(<<"LINEAR">>, "linear"), Cl(<<"HASH">>, "method" :> <<"HASH">>), Between(<<"(">>, "expr", <<"a">>, <<")">>),
           Says(<<"PARTITIONS">>, "count", <<"3">>)>>),
     All(<<Cl(<<"KEY">>, "method" :> <<"KEY">>), NamesOf("columns"), Says(<<"PARTITIONS">>, "count", <<"2">>),
           Only("subpartition", "SUBPARTITIONING",
                All(<<Noise(<<"SUBPARTITION", "BY">>), Cl(<<"HASH">>, "method" :> <<"HASH">>), Between(<<"(">>, "expr", <<"b">>, <<")">>),
                      Says(<<"SUBPARTITIONS">>, "count", <<"2">>)>>))>>)}
    \cup
    {All(<<Cl(<<"SYSTEM_TIME">>, "method" :> <<"SYSTEM_TIME">>), c, InParens(Commas(<<
           OneOf("definitions", "PARTITION", All(<<Says(<<"PARTITION">>, "name", <<"x">>), Says(<<>>, "systemTime", <<"HISTORY">>)>>)),
           OneOf("definitions", "PARTITION", All(<<Says(<<"PARTITION">>, "name", <<"y">>), Says(<<>>, "systemTime", <<"CURRENT">>)>>))>>))>>) :
        c \in {Says(<<"LIMIT">>, "limit", <<"2">>), Then(Says(<<"INTERVAL">>, "interval", <<"1">>), Then(Says(<<>>, "unit", <<"DAY">>), Sets(<<"AUTO">>, "auto")))}}
Versioned(c) == Then(c, Cl(<<>>, "systemVersioned" :> <<"yes">>))
MyVersioned ==
    {Versioned(All(<<Ref(<<"CREATE", "TABLE">>, "name"), InParens(PlainCol("a")),
                     Only("options", "OPTIONS", Sets(<<"WITH", "SYSTEM", "VERSIONING">>, "systemVersioning"))>>)),
     Versioned(All(<<Ref(<<"CREATE", "TABLE">>, "name"),
         InParens(Commas(<<OneOf("columns", "COLUMN", Then(Typed("a"), Sets(<<"WITH", "SYSTEM", "VERSIONING">>, "withSystemVersioning"))),
                           OneOf("columns", "COLUMN", Then(Typed("b"), Cl(<<>>, "withoutSystemVersioning" :> <<"yes">>)))>>)),
         Only("options", "OPTIONS", Noise(<<>>))>>)),
     Versioned(All(<<Ref(<<"CREATE", "TABLE">>, "name"),
         InParens(Commas(<<OneOf("columns", "COLUMN", Then(Typed("x"), Sets(<<"GENERATED", "ALWAYS", "AS", "ROW", "START">>, "systemVersioning"))),
                           OneOf("periods", "PERIOD", All(<<Noise(<<"PERIOD", "FOR">>), Says(<<>>, "name", <<"SYSTEM_TIME">>),
                               InParens(Then(Says(<<>>, "start", <<"x">>), Says(<<",">>, "end", <<"y">>)))>>))>>)),
         Only("options", "OPTIONS", Noise(<<>>))>>))}
MyTables ==
    Ended("TABLE", MyTable({c \in Cols(MyColumnOptions) : ~LosesNotNull(c)}, NoOptions) \cup
                  MyTable({Commas(<<PlainCol("a")>> \o e) : e \in {<<e1>> : e1 \in MyElements}
                              \cup {<<e1, PlainCol("b")>> : e1 \in MyElements}}, NoOptions) \cup
                  MyTable({PlainCol("a")}, Free(<<>>, MyTableOptions)) \cup
                  {All(<<t, Noise(<<"PARTITION", "BY">>), Only("partitioning", "PARTITIONING", c)>>) :
                      t \in MyTable({PlainCol("a")}, {Noise(<<>>), Says(<<"ENGINE", "=">>, "engine", <<"INNODB">>)}), c \in MyPartitioning} \cup
                  MyVersioned)
    \cup Ended("TABLE LIKE", {All(<<Noise(<<"CREATE">>), e, Noise(<<"TABLE">>), n, Ref(<<>>, "name"), Says(<<"LIKE">>, "like", <<"t">>)>>) :
                 e \in Maybe(Sets(<<"TEMPORARY">>, "temporary")), n \in Maybe(Sets(<<"IF", "NOT", "EXISTS">>, "ifNotExists"))})
    \cup Ended("TABLE AS", {All(<<Ref(<<"CREATE", "TABLE">>, "name"), c, Says(<<"AS">>, "select", SelectText)>>) :
                 c \in {Noise(<<>>), Says(<<>>, "keyConflict", <<"IGNORE">>)} \cup
                       {Then(InParens(PlainCol("a")), Only("options", "OPTIONS", o)) : o \in Maybe(Says(<<"ENGINE", "=">>, "engine", <<"INNODB">>))}})

\* A routine is written between two DELIMITER commands.
Delimited(kind, cs) ==
    {[s EXCEPT !.w = <<"DELIMITER //">> \o @ \o <<"DELIMITER ;">>] : s \in Of(kind, cs, <<"/", "/">>)}
Definer == Cl(<<"DEFINER", "=", "r", "@", "x">>, "definer" :> <<"r", "@", "x">>)
MyBody == Says(<<>>, "body", BlockText)
Characteristics ==
    {Sets(<<"LANGUAGE", "SQL">>, "languageSQL"), Sets(<<"DETERMINISTIC">>, "deterministic"), Unsets(<<"NOT", "DETERMINISTIC">>, "deterministic"),
     Cl(<<"NO", "SQL">>, "dataAccess" :> <<"NO">>), Cl(<<"READS", "SQL", "DATA">>, "dataAccess" :> <<"READS">>),
     Says(<<"SQL", "SECURITY">>, "sqlSecurity", <<"INVOKER">>), Says(<<"COMMENT">>, "comment", <<"'a'">>)}
Param(c) == OneOf("params", "PARAM", c)
MyRoutines ==
    Delimited("TRIGGER", {All(<<Noise(<<"CREATE">>), d, Ident(<<"TRIGGER">>, "name"), t, e, Ref(<<"ON">>, "table"), Noise(<<"FOR", "EACH", "ROW">>), o, MyBody>>) :
        d \in Maybe(Definer), t \in OneWord("time", {"BEFORE", "AFTER"}), e \in OneWord("event", {"INSERT", "DELETE"}),
        o \in Maybe(Then(Says(<<>>, "order", <<"FOLLOWS">>), Says(<<>>, "orderRef", <<"r">>)))})
    \cup Delimited("PROCEDURE", {All(<<Noise(<<"CREATE">>), Definer, Ident(<<"PROCEDURE">>, "name"), InParens(ps), c, b>>) :
        ps \in {Noise(<<>>), Commas(<<Param(Then(Says(<<>>, "direction", <<"INOUT">>), Typed("x"))), Param(Typed("y"))>>)},
        c \in Free(<<>>, Characteristics), b \in {MyBody, Says(<<>>, "body", <<"SET", "x", "=", "1">>)}})
    \cup Delimited("FUNCTION", {All(<<Ident(<<"CREATE", "FUNCTION">>, "name"), InParens(Param(Typed("x"))), Says(<<"RETURNS">>, "returns", <<"INT">>), c, MyBody>>) :
        c \in Free(<<>>, Characteristics)})
    \cup Delimited("EVENT", {All(<<Ident(<<"CREATE", "EVENT">>, "name"), Noise(<<"ON", "SCHEDULE">>), at, c, e, Says(<<"COMMENT">>, "comment", <<"'a'">>), Noise(<<"DO">>), MyBody>>) :
        at \in {Cl(<<"AT", "f", "(", "a", ")">>, ("at" :> <<"f", "(", "a", ")">>) @@ ("atExpr" :> <<"f", "(", "a", ")">>)), Then(Says(<<"EVERY">>, "every", <<"1">>), Says(<<>>, "unit", <<"DAY">>)),
                All(<<Says(<<"EVERY">>, "every", <<"2">>), Says(<<>>, "unit", <<"DAY">>), Says(<<"STARTS">>, "starts", <<"'a'">>), Says(<<"ENDS">>, "ends", <<"'b'">>)>>)},
        c \in {Noise(<<>>), Sets(<<"ON", "COMPLETION", "PRESERVE">>, "preserve"), Unsets(<<"ON", "COMPLETION", "NOT", "PRESERVE">>, "preserve")},
        e \in {Noise(<<>>), Says(<<>>, "enable", <<"DISABLE">>), Says(<<>>, "enable", <<"DISABLE", "ON", "SLAVE">>)}})
    \cup Delimited("NOOP", {Cl(<<"CREATE", "PACKAGE", "BODY", "k">> \o BlockText, "name" :> <<"k">>)})

MyObjects ==
    Ended("VIEW", Views(All(<<Noise(<<"CREATE">>), Sets(<<"OR", "REPLACE">>, "orReplace"), Says(<<"ALGORITHM", "=">>, "algorithm", <<"MERGE">>),
                             Definer, Says(<<"SQL", "SECURITY">>, "sqlSecurity", <<"INVOKER">>)>>),
                       {Cl(q.w, ("select" :> q.w) @@ ("query" :> NodeOf("SELECT", q))) : q \in ViewQueries}))
    \cup Ended("INDEX", {All(<<Noise(<<"CREATE">>), k, Ident(<<"INDEX">>, "name"), u, Ref(<<"ON">>, "table"), TwoKeys, c>>) :
        k \in {Noise(<<>>), Sets(<<"UNIQUE">>, "unique"), Says(<<>>, "kind", <<"FULLTEXT">>)},
        u \in Maybe(Says(<<"USING">>, "using", <<"BTREE">>)), c \in Maybe(Noise(<<"COMMENT", "'a'">>))})
    \cup Ended("SEQUENCE", Free(<<Noise(<<"CREATE">>), Sets(<<"OR", "REPLACE">>, "orReplace"), Ref(<<"SEQUENCE">>, "name")>>,
        SequenceOptions \cup {Sets(<<"NO", "MAXVALUE">>, "noMax"), Unsets(<<"NO", "CYCLE">>, "cycle"), Noise(<<"ENGINE", "=", "INNODB">>)}))
    \cup Ended("ALTER SEQUENCE", Free(<<Ref(<<"ALTER", "SEQUENCE", "IF", "EXISTS">>, "name")>>,
        SequenceOptions \cup {Sets(<<"RESTART">>, "restart"), Then(Sets(<<"RESTART">>, "restart"), Says(<<"WITH">>, "startWith", <<"1">>))}))

TheColumn(opts) == {OneOf("column", "COLUMN", c) : c \in Free(<<Typed("a")>>, opts)}
Act(kind, cs) == {OneOf("actions", kind, c) : c \in cs}
SomeOptions == {Sets(<<"NOT", "NULL">>, "notNull"), Sets(<<"UNIQUE">>, "unique")}
Position == {Noise(<<>>), Noise(<<"FIRST">>), Noise(<<"AFTER", "b">>)}
Renames(ws) == Then(Says(ws, "oldName", <<"a">>), Says(<<"TO">>, "newName", <<"b">>))
MyActions ==
    Act("ADD_COLUMN", {All(<<Noise(<<"ADD">> \o w), c, p>>) : w \in {<<>>, <<"COLUMN">>}, c \in TheColumn(SomeOptions), p \in Position})
    \cup Act("ADD_CONSTRAINT", {Then(Noise(<<"ADD">>), OneOf("constraint", "FK", c)) : c \in ForeignKey(NamesOf("columns"), NamesOf("refColumns"), {})})
    \cup Act("DROP_COLUMN", {Ident(<<"DROP", "COLUMN">>, "name"), Ident(<<"DROP">>, "name")})
    \cup Act("DROP_CONSTRAINT", {Noise(<<"DROP", "PRIMARY", "KEY">>), Ident(<<"DROP", "FOREIGN", "KEY">>, "name"), Ident(<<"DROP", "CONSTRAINT">>, "name")})
    \cup Act("RENAME_COLUMN", {Renames(<<"RENAME", "COLUMN">>)}) \cup Act("RENAME_TABLE", {Ref(<<"RENAME", "TO">>, "newName")})
    \cup Act("MODIFY_COLUMN", {All(<<Noise(<<"MODIFY">>), c, p>>) : c \in TheColumn({Sets(<<"UNIQUE">>, "unique")}), p \in Position})
    \cup Act("CHANGE_COLUMN", {All(<<Says(<<"CHANGE", "COLUMN">>, "oldName", <<"b">>), c>>) : c \in TheColumn({})})
    \cup Act("DROP_DEFAULT", {All(<<Ident(<<"ALTER", "COLUMN">>, "name"), Noise(<<"DROP", "DEFAULT">>)>>)})
    \cup Act("NOOP", {Says(<<>>, "text", <<"ENABLE", "KEYS">>)})
MyChanges ==
    Ended("ALTER TABLE", {All(<<Ref(<<"ALTER", "TABLE">>, "name"), a>>) :
        a \in MyActions \cup {Commas(<<b, c>>) : b \in MyActions, c \in {x \in MyActions : Len(x.w) < 5}}})
    \cup Ended("DROP TABLE", {All(<<Noise(<<"DROP", "TABLE">>), e, Cl(<<"t", ",", "s", ".", "u">>, "names" :> <<<<"t">>, <<"s", "u">>>>), Noise(<<"CASCADE">>)>>) :
        e \in Maybe(Sets(<<"IF", "EXISTS">>, "ifExists"))})
    \cup Ended("DROP INDEX", {Then(Ident(<<"DROP", "INDEX">>, "name"), Ref(<<"ON">>, "table"))})
    \cup Ended("DROP VIEW", {All(<<Noise(<<"DROP", "VIEW">>), Cl(<<"t">>, "names" :> <<<<"t">>>>), Says(<<>>, "behaviour", <<"RESTRICT">>)>>)})
    \cup UNION {Ended(k[1], {All(<<Noise(k[2]), e, Ref(<<>>, "name")>>) : e \in Maybe(Sets(<<"IF", "EXISTS">>, "ifExists"))}) :
        k \in {<<"DROP PROCEDURE", <<"DROP", "PROCEDURE">>>>, <<"DROP FUNCTION", <<"DROP", "FUNCTION">>>>,
               <<"DROP TRIGGER", <<"DROP", "TRIGGER">>>>, <<"DROP EVENT", <<"DROP", "EVENT">>>>}}
    \cup Ended("TRUNCATE", {Ref(<<"TRUNCATE", "TABLE">>, "name")})
    \cup Ended("RENAME", {Then(Noise(<<"RENAME", "TABLE">>), Commas(<<OneOf("pairs", "PAIR", Then(Says(<<>>, "from", <<"t">>), Says(<<"TO">>, "to", <<"u">>))),
                                                                   OneOf("pairs", "PAIR", Then(Says(<<>>, "from", <<"x">>), Says(<<"TO">>, "to", <<"y">>)))>>))})
    \cup Ended("NOOP", {Says(<<>>, "text", <<"SET", "x", "=", "1">>), Says(<<>>, "text", <<"LOCK", "t">>), Says(<<"CREATE">>, "text", <<"DATABASE", "x">>)})
MyStatements == MyTables \cup MyRoutines \cup MyObjects \cup MyChanges

-----------------------------------------------------------------------------
(* Oracle.  A statement with a block in it ends with a "/". *)

PLStmt(kind, cs) == Of(kind, cs, <<";", "/">>)
Call == <<"f", "(", "b", ",", "c", ")">>
OraColumnOptions ==
    {Says(<<"DEFAULT">>, "default", Call), Then(Sets(<<"DEFAULT", "ON", "NULL">>, "defaultOnNull"), Says(<<>>, "default", <<"1">>)),
     Sets(<<"NOT", "NULL">>, "notNull"), Unsets(<<"NULL">>, "notNull"), Sets(<<"INVISIBLE">>, "invisible"), Sets(<<"UNIQUE">>, "unique"),
     Sets(<<"PRIMARY", "KEY">>, "primaryKey"), Between(<<"CHECK", "(">>, "check", Call, <<")">>), Says(<<"COLLATE">>, "collation", <<"c">>),
     Then(Between(<<"GENERATED", "ALWAYS", "AS", "(">>, "generated", Call, <<")">>), Sets(<<"VIRTUAL">>, "virtual")),
     Then(Sets(<<"GENERATED", "BY", "DEFAULT", "ON", "NULL", "AS", "IDENTITY">>, "autoInc"), Noise(<<"START", "WITH", "1", "NOCACHE">>))}
OraState ==
    {Sets(<<"DISABLE">>, "disabled"), Unsets(<<"ENABLE">>, "disabled"), Sets(<<"NOVALIDATE">>, "noValidate"), Sets(<<"RELY">>, "rely"),
     Sets(<<"DEFERRABLE">>, "deferrable"), Unsets(<<"NOT", "DEFERRABLE">>, "deferrable"), Sets(<<"INITIALLY", "DEFERRED">>, "initiallyDeferred"),
     Sets(<<"USING", "INDEX", "s", ".", "x">>, "usingIndex")}
OraElements ==
    Constraint("PK", Free(<<NamedC, Noise(<<"PRIMARY", "KEY">>), TwoKeys>>, OraState)) \cup
    Constraint("UQ", {All(<<NamedC, Noise(<<"UNIQUE">>), TwoKeys>>)}) \cup
    Constraint("FK", ForeignKey(NamesOf("columns"), NamesOf("refColumns"), RefActions)) \cup
    Constraint("FK", {Then(k, o) : k \in ForeignKey(NamesOf("columns"), Noise(<<>>), {}), o \in OraState}) \cup
    Constraint("CHECK", {All(<<NamedC, Between(<<"CHECK", "(">>, "check", Call, <<")">>), o>>) : o \in OraState})
OraTableOptions ==
    {Says(<<"TABLESPACE">>, "tablespace", <<"x">>), Between(<<"STORAGE", "(">>, "storage", Call, <<")">>),
     Says(<<"ORGANIZATION">>, "organization", <<"INDEX">>), Says(<<"PARTITION">>, "partitioning", <<"BY", "HASH", "(", "a", ")">>)}
OraTable(heads, cols, opts) ==
    {All(<<Noise(<<"CREATE">>), h, Ref(<<"TABLE">>, "name"), InParens(c), Only("options", "OPTIONS", o)>>) : h \in heads, c \in cols, o \in opts}
OraTables ==
    Ended("TABLE", OraTable(NoOptions, Cols(OraColumnOptions), NoOptions) \cup
                  OraTable(NoOptions, {Commas(<<PlainCol("a"), e, PlainCol("b")>>) : e \in OraElements}, NoOptions) \cup
                  OraTable({Noise(<<>>), Sets(<<"GLOBAL", "TEMPORARY">>, "temporary")}, {PlainCol("a")}, Free(<<Noise(<<"NOLOGGING">>)>>, OraTableOptions)))

OraBlockText == <<"BEGIN", "IF", "x", "=", "1", "THEN", "LOOP", "x", ";", "END", "LOOP", ";", "END", "IF", ";",
              "x", ":=", "CASE", "WHEN", "y", "THEN", "1", "END", ";", "END", "k">>
OraBody == {Says(<<"IS">>, "body", <<"x", "INT", ";">> \o OraBlockText), Says(<<"AS">>, "body", OraBlockText)}
Qualified(ws, f) == Cl(ws \o <<"s", ".", "k">>, f :> <<"k">>)
OraParams ==
    {Noise(<<>>), InParens(Commas(<<
        Param(All(<<Says(<<>>, "name", <<"x">>), Cl(<<"IN", "OUT">>, "direction" :> <<"INOUT">>), Noise(<<"NOCOPY">>), Says(<<>>, "type", <<"NUMBER">>)>>)),
        Param(All(<<Says(<<>>, "name", <<"y">>), Says(<<>>, "direction", <<"IN">>), Cl(<<"u", ".", "t">>, "type" :> <<"u", "t">>), Says(<<"DEFAULT">>, "default", Call)>>))>>))}
OraRoutines ==
    PLStmt("PROCEDURE", {All(<<Noise(<<"CREATE", "OR", "REPLACE">>), Qualified(<<"PROCEDURE">>, "name"), ps, o, b>>) :
        ps \in OraParams, o \in Maybe(Noise(<<"AUTHID", "DEFINER">>)), b \in OraBody})
    \cup PLStmt("FUNCTION", {All(<<Noise(<<"CREATE">>), Qualified(<<"FUNCTION">>, "name"), ps, Says(<<"RETURN">>, "returns", <<"NUMBER">>), o, b>>) :
        ps \in OraParams, o \in Maybe(Noise(<<"DETERMINISTIC">>)), b \in OraBody})
    \cup PLStmt("PACKAGE", {All(<<Noise(<<"CREATE">>), Sets(<<"OR", "REPLACE">>, "orReplace"), Ref(<<"PACKAGE">>, "name"),
                                  Says(<<"IS">>, "body", <<"PROCEDURE", "f", ";", "END", "k">>)>>)})
    \cup PLStmt("PACKAGE BODY", {All(<<Ref(<<"CREATE", "PACKAGE", "BODY">>, "name"),
        Says(<<"IS">>, "body", <<"PROCEDURE", "f", "IS">> \o OraBlockText \o <<";", "FUNCTION", "t", "RETURN", "NUMBER", "IS">> \o OraBlockText \o <<";", "END", "k">>)>>)})
    \cup PLStmt("TYPE BODY", {All(<<Ref(<<"CREATE", "TYPE", "BODY">>, "name"),
        Says(<<"AS">>, "body", <<"MEMBER", "FUNCTION", "t", "RETURN", "NUMBER", "IS">> \o OraBlockText \o <<";", "END", "k">>)>>)})
    \cup Ended("TYPE", {All(<<Ref(<<"CREATE", "TYPE">>, "name"), c>>) : c \in
        {All(<<Says(<<"AS">>, "kind", <<"OBJECT">>), InParens(Commas(<<OneOf("attributes", "COLUMN", Typed("a")), OneOf("attributes", "COLUMN", Typed("b")),
                Sets(<<"MEMBER", "FUNCTION", "f", "RETURN", "NUMBER">>, "hasMethods")>>)), Noise(<<"NOT", "FINAL">>)>>),
         All(<<Says(<<"AS">>, "kind", <<"VARRAY">>), Noise(<<"(", "3", ")", "OF">>), Says(<<>>, "element", <<"NUMBER">>)>>),
         All(<<Says(<<"AS">>, "kind", <<"TABLE">>), Noise(<<"OF">>), Says(<<>>, "element", <<"u">>)>>),
         All(<<Qualified(<<"UNDER">>, "parent"), Cl(<<>>, "kind" :> <<"OBJECT">>), InParens(OneOf("attributes", "COLUMN", Typed("a")))>>)}})
    \cup PLStmt("NOOP", {Says(<<>>, "text", <<"DECLARE", "x", "INT", ";">> \o OraBlockText)})

OraEvents ==
    {Cl(<<"INSERT">>, "events" :> <<<<"INSERT">>>>), Cl(<<"UPDATE", "OR", "DELETE">>, "events" :> <<<<"UPDATE">>, <<"DELETE">>>>)}
ForEachRow == Then(Sets(<<"FOR", "EACH">>, "hasForEach"), Sets(<<"ROW">>, "forEachRow"))
OraTriggerOptions ==
    {ForEachRow, Then(Says(<<"REFERENCING", "NEW", "AS">>, "newAlias", <<"x">>), Says(<<"OLD", "AS">>, "oldAlias", <<"y">>)),
     Between(<<"WHEN", "(">>, "when", Call, <<")">>), All(<<Says(<<>>, "order", <<"FOLLOWS">>), Qualified(<<>>, "orderRef")>>)}
OraTriggers ==
    PLStmt("TRIGGER", {All(<<Noise(<<"CREATE">>), Qualified(<<"TRIGGER">>, "name"), t, e, Ref(<<"ON">>, "table"), o, b>>) :
        t \in OneWord("time", {"BEFORE", "AFTER"}) \cup {Says(<<>>, "time", <<"INSTEAD", "OF">>)}, e \in OraEvents, o \in Free(<<>>, OraTriggerOptions),
        b \in {Says(<<>>, "body", <<"DECLARE", "x", "INT", ";">> \o OraBlockText), Says(<<>>, "body", OraBlockText)}})
    \cup PLStmt("TRIGGER", {All(<<Noise(<<"CREATE">>), Qualified(<<"TRIGGER">>, "name"), Says(<<>>, "time", <<"AFTER">>),
        Cl(<<"LOGON">>, ("system" :> <<"yes">>) @@ ("events" :> <<<<"LOGON">>>>)), Says(<<"ON">>, "scope", <<"DATABASE">>), Says(<<>>, "body", OraBlockText)>>)})
    \cup Of("TRIGGER", {All(<<Noise(<<"CREATE">>), Qualified(<<"TRIGGER">>, "name"), Cl(<<"FOR">>, "time" :> <<"COMPOUND">>), e, Ref(<<"ON">>, "table"),
        Noise(<<"COMPOUND", "TRIGGER">>), Says(<<>>, "body", <<"BEFORE", "STATEMENT", "IS", "BEGIN", "x", ";", "END", "BEFORE", "STATEMENT", ";", "END", "k", ";">>)>>) :
        e \in OraEvents}, <<"/">>)

OraObjects ==
    Ended("INDEX", {All(<<Noise(<<"CREATE">>), k, Qualified(<<"INDEX">>, "name"), Ref(<<"ON">>, "table"), c, o>>) :
        k \in {Noise(<<>>), Sets(<<"UNIQUE">>, "unique"), Sets(<<"BITMAP">>, "bitmap")},
        c \in {TwoKeys, InParens(KeyOf(Then(Says(<<>>, "expr", Call), Desc)))}, o \in Maybe(Noise(<<"TABLESPACE", "x">>))})
    \cup Ended("VIEW", {All(<<Noise(<<"CREATE">>), Sets(<<"OR", "REPLACE">>, "orReplace"), Noise(<<"FORCE">>), Ref(<<"VIEW">>, "name"), c, o, Says(<<"AS">>, "select", SelectText)>>) :
        c \in Maybe(Cl(<<"(", "x", ",", "y", ")">>, "columns" :> <<"x", "y">>)),
        o \in Maybe(Then(Qualified(<<"OF">>, "ofType"), Noise(<<"WITH", "OBJECT", "IDENTIFIER", "(", "a", ")">>)))})
    \cup Ended("MATERIALIZED VIEW", {All(<<Noise(<<"CREATE", "MATERIALIZED">>), Ref(<<"VIEW">>, "name"), b, r, Says(<<"AS">>, "select", SelectText)>>) :
        b \in Maybe(Says(<<"BUILD">>, "build", <<"DEFERRED">>)), r \in {Noise(<<>>), Says(<<"REFRESH">>, "refresh", <<"FAST">>),
              Then(Says(<<"REFRESH">>, "refresh", <<"COMPLETE">>), Says(<<"ON">>, "refreshOn", <<"COMMIT">>))}})
    \cup Ended("SEQUENCE", Free(<<Ref(<<"CREATE", "SEQUENCE">>, "name")>>,
        SequenceOptions \cup {Cl(<<"ORDER">>, "ignored" :> <<<<"ORDER">>>>), Cl(<<"SHARING", "NONE">>, "ignored" :> <<<<"SHARING">>>>)}))
    \cup Ended("ALTER SEQUENCE", Free(<<Ref(<<"ALTER", "SEQUENCE">>, "name")>>,
        {o \in SequenceOptions : "start" \notin DOMAIN o.f} \cup {Sets(<<"RESTART">>, "restart"), Then(Says(<<"START", "WITH">>, "startWith", <<"1">>), Cl(<<>>, "restart" :> <<"yes">>))}))
    \cup Ended("NOOP", {Says(<<"CREATE", "PUBLIC", "SYNONYM">>, "text", <<"x", "FOR", "u">>), Says(<<"CREATE">>, "text", <<"DIRECTORY", "x">>),
                       Says(<<"CREATE", "MATERIALIZED", "VIEW", "LOG">>, "text", <<"ON", "t">>), Says(<<>>, "text", <<"GRANT", "a", "TO", "b">>)})

OraActions ==
    Act("ADD_COLUMN", {Cl(<<"ADD", "(">> \o c.w \o <<")">>, c.f) : c \in {Only("column", "COLUMN", d) : d \in Free(<<Typed("a")>>, OraColumnOptions)}})
    \cup Act("ADD_CONSTRAINT", {Then(Noise(<<"ADD">>), OneOf("constraint", "FK", c)) : c \in ForeignKey(NamesOf("columns"), NamesOf("refColumns"), {})})
    \cup Act("DROP_CONSTRAINT", {Ident(<<"DROP", "CONSTRAINT">>, "name")})
    \cup Act("MODIFY_COLUMN", {Cl(<<"MODIFY", "(">> \o Typed("a").w \o <<")">>, "column" :> NodeOf("COLUMN", Typed("a")))})
    \cup Act("RENAME_COLUMN", {Then(Says(<<"RENAME", "COLUMN">>, "name", <<"a">>), Says(<<"TO">>, "newName", <<"b">>))})
    \cup {Cl(<<"ADD", "(">> \o Typed("a").w \o <<",">> \o Typed("b").w \o <<")">>,
             "actions" :> [i \in 1 .. 2 |-> NodeOf("ADD_COLUMN", Cl(<<>>, "column" :> NodeOf("COLUMN", Typed(<<"a", "b">>[i]))))])}
Behaviours == {Noise(<<>>), Sets(<<"CASCADE">>, "cascade")}
DropsOf(words, kind) == Ended(kind, {All(<<Noise(<<"DROP">> \o words), e, Ref(<<>>, "name"), b>>) :
    e \in Maybe(Sets(<<"IF", "EXISTS">>, "ifExists")), b \in Behaviours})
OraChanges ==
    Ended("ALTER TABLE", {Then(Ref(<<"ALTER", "TABLE">>, "name"), a) : a \in OraActions})
    \cup Ended("ALTER TRIGGER", {Then(Ref(<<"ALTER", "TRIGGER">>, "name"), a) : a \in OneWord("action", {"ENABLE", "DISABLE", "COMPILE"}) \cup
            {All(<<Cl(<<"RENAME", "TO">>, "action" :> <<"RENAME">>), Qualified(<<>>, "newName")>>)}})
    \cup Ended("ALTER INDEX", {Then(Ref(<<"ALTER", "INDEX">>, "name"), a) : a \in OneWord("action", {"REBUILD", "UNUSABLE"}) \cup
            {All(<<Cl(<<"RENAME", "TO">>, "action" :> <<"RENAME">>), Qualified(<<>>, "newName")>>), Cl(<<"MODIFY", "x">>, "action" :> <<"PARTITION">>)}})
    \cup Ended("ALTER VIEW", {Then(Ref(<<"ALTER", "VIEW">>, "name"), a) : a \in OneWord("action", {"COMPILE"}) \cup {Cl(<<"ADD", "x">>, "action" :> <<"CONSTRAINT">>)}})
    \cup Ended("ALTER TYPE", {Then(Ref(<<"ALTER", "TYPE">>, "name"), a) : a \in OneWord("action", {"COMPILE"}) \cup {Cl(<<"ADD", "ATTRIBUTE", "x">>, "action" :> <<"ADD">>)}})
    \cup Ended("ALTER ROUTINE", {Then(Ref(<<"ALTER", k>>, "name"), Noise(<<"COMPILE">>)) : k \in {"PROCEDURE", "FUNCTION", "PACKAGE"}})
    \cup Ended("DROP TABLE", {All(<<Noise(<<"DROP", "TABLE">>), e, Cl(<<"t", "CASCADE", "CONSTRAINTS">>, "names" :> <<<<"t">>>>)>>) :
            e \in Maybe(Sets(<<"IF", "EXISTS">>, "ifExists"))})
    \cup Ended("DROP VIEW", {Then(Cl(<<"DROP", "VIEW", "t">>, "names" :> <<<<"t">>>>), b) : b \in Behaviours})
    \cup DropsOf(<<"SEQUENCE">>, "DROP SEQUENCE") \cup DropsOf(<<"MATERIALIZED", "VIEW">>, "DROP MATERIALIZED VIEW")
    \cup DropsOf(<<"PACKAGE", "BODY">>, "DROP PACKAGE BODY") \cup DropsOf(<<"TYPE">>, "DROP TYPE") \cup DropsOf(<<"TRIGGER">>, "DROP TRIGGER")
OraStatements == OraTables \cup OraRoutines \cup OraTriggers \cup OraObjects \cup OraChanges

-----------------------------------------------------------------------------
(* Db2.  A body of one statement ends with a ";", one with a block also with *)
(* a "/".                                                                    *)

HasDefault(ws, v) == Then(Sets(ws, "hasDefault"), Says(<<>>, "default", v))
DbColumnOptions ==
    {Sets(<<"NOT", "NULL">>, "notNull"), Unsets(<<"NULL">>, "notNull"), HasDefault(<<"DEFAULT">>, Call), HasDefault(<<"WITH", "DEFAULT">>, <<"1">>),
     Sets(<<"GENERATED", "ALWAYS", "AS", "IDENTITY", "(", "START", "WITH", "1", ")">>, "autoInc"),
     Says(<<"GENERATED", "ALWAYS", "AS">>, "generated", <<"(", "b", ")">>), Sets(<<"PRIMARY", "KEY">>, "primaryKey"), Sets(<<"UNIQUE">>, "unique"),
     Noise(<<"INLINE", "LENGTH", "1">>), Noise(<<"IMPLICITLY", "HIDDEN">>), Noise(<<"LOGGED">>)}
DbNames(f) == Cl(<<"(", "a", ",", "b", ")">>, f :> <<<<"a">>, <<"b">>>>)
DbElements ==
    Constraint("PK", {All(<<NamedC, Noise(<<"PRIMARY", "KEY">>), TwoKeys>>)}) \cup
    Constraint("UQ", {All(<<Noise(<<"UNIQUE">>), TwoKeys>>)}) \cup
    Constraint("FK", {Then(k, e) : k \in ForeignKey(DbNames("columns"), DbNames("refColumns"), RefActions), e \in Maybe(Noise(<<"NOT", "ENFORCED">>))}) \cup
    Constraint("CHECK", {All(<<NamedC, Between(<<"CHECK", "(">>, "check", Call, <<")">>)>>)})
DbTableOptions ==
    {Says(<<"IN">>, "tablespace", <<"x">>), Says(<<"INDEX", "IN">>, "indexIn", <<"x">>), Says(<<"LONG", "IN">>, "longIn", <<"x">>),
     Then(Sets(<<"COMPRESS", "YES">>, "compression"), Says(<<>>, "compressionMethod", <<"ADAPTIVE">>)), Noise(<<"COMPRESS", "NO">>),
     Says(<<"ORGANIZE", "BY">>, "organizeBy", <<"ROW">>),
     All(<<Says(<<"ORGANIZE", "BY">>, "organizeBy", <<"KEY">>), Sets(<<"SEQUENCE", "(", "a", ")">>, "bySequence")>>),
     Then(Between(<<"PARTITION", "BY", "RANGE", "(">>, "partitionColumns", <<"a">>, <<")">>), Between(<<"(">>, "partitions", Call, <<")">>)),
     Then(Says(<<"DISTRIBUTE", "BY">>, "distributeBy", <<"HASH">>), Between(<<"(">>, "distributeOn", <<"a">>, <<")">>)),
     Says(<<"DATA", "CAPTURE">>, "dataCapture", <<"CHANGES">>), Sets(<<"VOLATILE", "CARDINALITY">>, "volatile"),
     Sets(<<"NOT_LOGGED", "INITIALLY">>, "notLogged"), Sets(<<"VALUE", "COMPRESSION">>, "inRow")}
DbTables ==
    Ended("TABLE", OraTable(NoOptions, Cols(DbColumnOptions), NoOptions) \cup
                  OraTable(NoOptions, {Commas(<<PlainCol("a"), e, PlainCol("b")>>) : e \in DbElements}, NoOptions) \cup
                  OraTable({Sets(<<"GLOBAL", "TEMPORARY">>, "temporary")}, {PlainCol("a")}, Free(<<>>, DbTableOptions)))

DbBlockText == <<"BEGIN", "ATOMIC", "WHILE", "x", "DO", "IF", "y", "THEN", "x", ";", "END", "IF", ";", "END", "WHILE", ";",
             "SET", "x", "=", "CASE", "WHEN", "y", "THEN", "1", "END", ";", "END">>
DbBodies(kind, cs, single) ==
    Of(kind, {Then(c, Says(<<>>, "body", DbBlockText)) : c \in cs}, <<"/">>) \cup Ended(kind, {Then(c, Says(<<>>, "body", single)) : c \in cs})
DbAttrs ==
    {Says(<<"LANGUAGE">>, "language", <<"SQL">>), Sets(<<"DETERMINISTIC">>, "deterministic"), Unsets(<<"NOT", "DETERMINISTIC">>, "deterministic"),
     Cl(<<"READS", "SQL", "DATA">>, "dataAccess" :> <<"READS">>), Cl(<<"NO", "SQL">>, "dataAccess" :> <<"NO">>), Noise(<<"SPECIFIC", "r">>),
     Noise(<<"INHERIT", "SPECIAL", "REGISTERS">>), Noise(<<"NO", "EXTERNAL", "ACTION">>), Noise(<<"PARAMETER", "STYLE", "SQL">>)}
DbTriggerOptions ==
    {All(<<r, f, Noise(<<"MODE", "DB2SQL">>), w>>) :
        r \in {Noise(<<>>), All(<<Says(<<"REFERENCING", "NEW", "AS">>, "newAlias", <<"x">>), Says(<<"OLD", "ROW", "AS">>, "oldAlias", <<"y">>)>>), Noise(<<"REFERENCING", "NEW_TABLE", "AS", "x">>)},
        f \in {ForEachRow, Sets(<<"FOR", "EACH", "STATEMENT">>, "hasForEach")}, w \in Maybe(Between(<<"WHEN", "(">>, "when", Call, <<")">>))}
DbRoutines ==
    DbBodies("PROCEDURE", Free(<<Ref(<<"CREATE", "PROCEDURE">>, "name"), Noise(<<"(", ")">>)>>, DbAttrs), <<"CALL", "f", "(", ")">>)
    \cup DbBodies("FUNCTION", Free(<<Ref(<<"CREATE", "OR", "REPLACE", "FUNCTION">>, "name"), Noise(<<"(", ")">>), Says(<<"RETURNS">>, "returns", <<"INT">>)>>, DbAttrs), <<"RETURN", "1">>)
    \cup DbBodies("TRIGGER", {All(<<Ref(<<"CREATE", "TRIGGER">>, "name"), t, e, Ref(<<"ON">>, "table"), o>>) :
            t \in OneWord("time", {"BEFORE", "AFTER"}) \cup {Says(<<>>, "time", <<"INSTEAD", "OF">>)}, e \in OraEvents, o \in DbTriggerOptions}, <<"SET", "x", "=", "1">>)
    \cup Of("NOOP", {Says(<<>>, "text", DbBlockText)}, <<";">>)
DbObjects ==
    Ended("VIEW", Views(Then(Noise(<<"CREATE">>), Sets(<<"OR", "REPLACE">>, "orReplace")), {Says(<<>>, "select", SelectText)}))
    \cup Ended("INDEX", {All(<<Noise(<<"CREATE">>), k, Ref(<<"INDEX">>, "name"), Ref(<<"ON">>, "table"), TwoKeys, c>>) :
        k \in Maybe(Sets(<<"UNIQUE">>, "unique")), c \in Maybe(Noise(<<"INCLUDE", "(", "c", ")", "ALLOW", "REVERSE", "SCANS">>))})
    \cup Ended("SEQUENCE", Free(<<Ref(<<"CREATE", "SEQUENCE">>, "name"), Noise(<<"AS", "INTEGER">>)>>, SequenceOptions \cup {Sets(<<"NO", "MAXVALUE">>, "noMax"), Noise(<<"NO", "ORDER">>)}))
    \cup Ended("NOOP", {Says(<<"CREATE", "ALIAS">>, "text", <<"x", "FOR", "u">>), Says(<<"CREATE">>, "text", <<"TABLESPACE", "x">>), Says(<<>>, "text", <<"INSERT", "t">>)})
DbActions ==
    Act("ADD_COLUMN", {Then(Noise(w), c) : w \in {<<"ADD">>, <<"ADD", "COLUMN">>}, c \in TheColumn(DbColumnOptions)})
    \cup Act("ADD_CONSTRAINT", {Then(Noise(<<"ADD">>), OneOf("constraint", "FK", c)) : c \in ForeignKey(DbNames("columns"), DbNames("refColumns"), {})})
    \cup Act("DROP_COLUMN", {Then(Ident(<<"DROP", "COLUMN">>, "name"), Noise(<<"CASCADE">>))})
    \cup Act("DROP_CONSTRAINT", {Noise(<<"DROP", "PRIMARY", "KEY">>), Ident(<<"DROP", "FOREIGN", "KEY">>, "name"), Ident(<<"DROP", "CONSTRAINT">>, "name")})
    \cup Act("SET_DEFAULT", {Then(Ident(<<"ALTER", "COLUMN">>, "name"), Says(<<"SET", "DEFAULT">>, "default", Call))})
    \cup Act("DROP_DEFAULT", {Then(Ident(<<"ALTER">>, "name"), Noise(<<"DROP", "DEFAULT">>))})
    \cup Act("MODIFY_COLUMN", {Then(Ident(<<"ALTER", "COLUMN">>, "name"), c) : c \in {Sets(<<"SET", "NOT", "NULL">>, "notNull"), Unsets(<<"DROP", "NOT", "NULL">>, "notNull")}})
    \cup Act("RENAME_COLUMN", {Renames(<<"RENAME", "COLUMN">>)})
DbChanges ==
    Ended("ALTER TABLE", {Then(Ref(<<"ALTER", "TABLE">>, "name"), a) : a \in DbActions \cup
        {Then(b, c) : b \in {x \in DbActions : Len(x.w) < 6}, c \in {x \in DbActions : Len(x.w) < 6}}})
    \cup Ended("DROP TABLE", {Cl(<<"DROP", "TABLE", "t", ",", "u">>, "names" :> <<<<"t">>, <<"u">>>>)})
    \cup DropsOf(<<"VIEW">>, "DROP VIEW") \cup DropsOf(<<"INDEX">>, "DROP INDEX") \cup DropsOf(<<"ALIAS">>, "DROP ALIAS") \cup DropsOf(<<"PROCEDURE">>, "DROP PROCEDURE")
DbStatements == DbTables \cup DbRoutines \cup DbObjects \cup DbChanges

-----------------------------------------------------------------------------
(* Dumps: a statement and one more behind it; and a statement, one in which  *)
(* a word is another, and one more.                                          *)

MoreStmt == [w |-> <<"DROP", "TABLE", "t", ";">>, node |-> [is |-> <<"DROP TABLE">>, names |-> <<<<"t">>>>], sound |-> TRUE]
Structure == {"(", ")", "BEGIN", "END", "IF", "LOOP", "WHILE", "CASE", ";", "/", "DELIMITER //", "DELIMITER ;"}
\* After these a "(" that is not where the parser looks for it, or NO before
\* the delimiter, takes what follows along.
OpenEnded(s, i) == s.w[i] = "COLUMNS" \/ (i > 1 /\ s.w[i - 1] = "NO")
Spots(s) == {i \in DOMAIN s.w : s.w[i] \notin Structure /\ ~OpenEnded(s, i)}
Spoiled(s) ==
    {[s EXCEPT !.w[i] = "bogus", !.sound = FALSE] : i \in Spots(s)} \cup
    {[s EXCEPT !.w = RemoveAt(s.w, i), !.sound = FALSE] : i \in Spots(s)}
\* one statement of every kind, and of about every length
Shape(s) == <<s.node["is"], Len(s.w) \div 4>>
OneOfEach(ss) == {CHOOSE s \in ss : Shape(s) = k : k \in {Shape(s) : s \in ss}}
DumpsOf(ss, open) ==
    {<<s, MoreStmt>> : s \in ss} \cup
    {<<MoreStmt, s, MoreStmt>> : s \in UNION {Spoiled(s) : s \in {x \in OneOfEach(ss) : x.node["is"] \notin open}}}
MCDumps ==
    "mysql" :> DumpsOf(MyStatements, {}) @@ "oracle" :> DumpsOf(OraStatements, {<<"INDEX">>}) @@ "db2" :> DumpsOf(DbStatements, {}) @@
    "mysql body" :> {<<s, MoreSQL>> : s \in MySQL} @@ "oracle body" :> {<<s, MoreSQL>> : s \in OraSQL}
=============================================================================
