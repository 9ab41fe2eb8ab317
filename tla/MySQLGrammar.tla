--------------------------- MODULE MySQLGrammar ---------------------------
(***************************************************************************)
(* The statements of a dump of MySQL or MariaDB: internal/dialects/mysql,  *)
(* parser.go and the DDL of parser_ddl.go.                                 *)
(***************************************************************************)
EXTENDS Parsing

IfNotExists == When({"IF"}, MustAll(<<"NOT", "EXISTS">>) \o <<Flag("ifNotExists")>>)
IfExists == When({"IF"}, <<Must("EXISTS"), Flag("ifExists")>>)

\* a word and a value, with a "=" that may be missing
Option(w, ws, f) == At({w}, <<May({"="}), Word(ws, f)>>)
Ignored(ws, words) == At(ws, <<May({"="}), May(words)>>)

-----------------------------------------------------------------------------
(* Columns, keys and constraints. *)

GeneratedExpr ==
    Parens(<<Expr("generated")>>) \o
    <<Switch(<<At({"VIRTUAL"}, <<Put("virtual", Yes)>>), At({"STORED"}, <<Put("virtual", No)>>)>>)>>

columnOptions ==
    <<At({"NOT"}, <<Must("NULL"), Put("notNull", Yes)>>),
      At({"NULL"}, <<Put("notNull", No)>>),
      At({"DEFAULT"}, <<Expr("default")>>),
      At({"ON"}, <<Must("UPDATE"), Expr("onUpdate")>>),
      At({"AUTO_INCREMENT"}, <<Flag("autoInc")>>),
      At({"UNIQUE"}, <<May({"KEY"}), Flag("unique")>>),
      At({"PRIMARY"}, <<Must("KEY"), Flag("primaryKey")>>),
      At({"KEY"}, <<Flag("primaryKey")>>),
      At({"COMMENT"}, <<Word({"<string>"}, "comment")>>),
      At({"COLLATE"}, <<Word({"<name>"}, "collation")>>),
      At({"CHARACTER"}, <<Must("SET"), Word({"<name>"}, "charset")>>),
      At({"GENERATED"}, MustAll(<<"ALWAYS", "AS">>) \o
          <<Switch(<<At({"ROW"}, <<May({"START", "END"}), Flag("systemVersioning")>>), Else(GeneratedExpr)>>)>>),
      At({"AS"}, GeneratedExpr),
      At({"CHECK"}, Parens(<<Expr("check")>>) \o
          <<Switch(<<At({"NOT"}, <<Must("ENFORCED"), Flag("checkNotEnforced")>>), At({"ENFORCED"}, <<>>)>>)>>),
      At({"INVISIBLE"}, <<Flag("invisible")>>),
      At({"VISIBLE"}, <<>>),
      At({"COMPRESSED"}, <<Flag("compressed"), When({"="}, <<May({"<name>"})>>)>>),
      At({"STORAGE"}, <<May({"DISK", "MEMORY"})>>),
      AtPair({"WITH"}, {"SYSTEM"}, <<Must("VERSIONING"), Flag("withSystemVersioning")>>),
      AtPair({"WITHOUT"}, {"SYSTEM"}, <<Must("VERSIONING"), Flag("withoutSystemVersioning")>>)>>
parseColumnDef ==
    <<Val("ident", "name"), Need(<<Flat({"<end>"}, "")>>), Val("type", "type"), Need(<<>>), Loop(columnOptions)>>

captureAtom(f) == Text({",", ")"}, f)
parseColList(f) == Parens(<<Val("names", f)>>)
KeyPart ==
    <<Switch(<<At({"("}, <<Val("rest)", "expr")>>),
               Else(<<Val("ident", "name"), When({"("}, <<Word({"<number>"}, "prefixLen"), Must(")")>>)>>)>>),
      Word({"ASC", "DESC"}, "order"),
      When({"WITHOUT"}, <<Must("OVERLAPS"), Flag("withoutOverlaps")>>)>>
parseIndexedCols == Parens(<<List(<<Sub("keys", "KEYPART", KeyPart)>>)>>)

parseRefAction(f) ==
    Switch(<<See({"RESTRICT", "CASCADE"}, <<Word({"<any>"}, f)>>),
             At({"NO"}, <<Must("ACTION"), Put(f, <<"NO", "ACTION">>)>>),
             At({"SET"}, <<Switch(<<At({"NULL"}, <<Put(f, <<"SET", "NULL">>)>>),
                                    At({"DEFAULT"}, <<Put(f, <<"SET", "DEFAULT">>)>>)>>)>>)>>)

\* a name in its place, if CONSTRAINT has given none
OwnName == Switch(<<Having("name", NoValue, See({"<ident>"}, <<Val("ident", "name")>>))>>)
parseTableConstraint ==
    <<When({"CONSTRAINT"}, <<Word({"<ident>"}, "name")>>),
      Switch(<<
        At({"PRIMARY"}, <<Node("PK", {"name"}), Must("KEY")>> \o parseIndexedCols),
        At({"UNIQUE"}, <<Node("UQ", {"name"}), May({"KEY", "INDEX"}), OwnName>> \o parseIndexedCols),
        At({"FOREIGN"}, <<Node("FK", {"name"}), Must("KEY"), OwnName>> \o parseColList("columns") \o
            <<Must("REFERENCES"), Val("ref", "references")>> \o parseColList("refColumns") \o
            <<Loop(<<AtPair({"ON"}, {"DELETE"}, <<parseRefAction("onDelete")>>),
                     AtPair({"ON"}, {"UPDATE"}, <<parseRefAction("onUpdate")>>),
                     Leave(At({"ON"}, <<>>))>>)>>),
        At({"CHECK"}, <<Node("CHECK", {"name"})>> \o Parens(<<Expr("check")>>) \o
            <<Switch(<<At({"NOT"}, <<Must("ENFORCED")>>), Else(<<May({"ENFORCED"}), Flag("enforced")>>)>>)>>),
        Else(<<Err, Nil>>)>>)>>

parseIndexDef ==
    <<Word({"FULLTEXT", "SPATIAL", "VECTOR"}, "kind"), May({"INDEX", "KEY"}), Word({"<ident>"}, "name")>> \o
    parseIndexedCols \o
    <<Loop(<<At({"USING"}, <<Word({"<name>"}, "using")>>), At({"COMMENT"}, <<Word({"<string>"}, "comment")>>),
             At({"INVISIBLE"}, <<Flag("invisible")>>), At({"VISIBLE"}, <<>>),
             Ignored({"KEY_BLOCK_SIZE"}, {"<number>"}),
             At({"WITH"}, <<When({"PARSER"}, <<Val("ident", "")>>)>>),
             Having("kind", <<"VECTOR">>, AtPair({"<name>"}, {"="}, <<May({"<name>", "<number>", "<string>"})>>)),
             Having("kind", <<"VECTOR">>, Leave(At({"<name>"}, <<>>)))>>)>>

parsePeriod ==
    <<Must("FOR"), Word({"<name>"}, "name"),
      When({"("}, <<Word({"<name>"}, "start"), May({","}), Word({"<name>"}, "end"), Flat({")"}, ""), May({")"})>>)>>

-----------------------------------------------------------------------------
(* Partitions. *)

Auto == When({"AUTO"}, <<Flag("auto")>>)
\* an error leaves the rest of the rule, AUTO too, unread
parseSystemTimePartitionRule ==
    <<Switch(<<
        At({"LIMIT"}, <<Switch(<<See({"0"}, <<Err>>),
                                 See({"<number>"}, <<Word({"<number>"}, "limit"), Auto>>), Else(<<Err>>)>>)>>),
        At({"INTERVAL"},
           <<Keeps("interval", <<Call("add")>>),
             Switch(<<See({"<name>"}, <<Word({"<name>"}, "unit"),
                        Switch(<<AtPair({"STARTS"}, {"TIMESTAMP", "DATE"},
                                     <<Switch(<<See({"<string>"}, <<Word({"<string>"}, "starts"), Auto>>), Else(<<Err>>)>>)>>),
                                 At({"STARTS"}, <<Expr("starts"), Auto>>),
                                 Else(<<Auto>>)>>)>>),
                      Else(<<Err>>)>>)>>),
        Else(<<Auto>>)>>)>>

ByExpr(m) == <<Put("method", <<m>>), Must("("), Val("rest)", "expr")>>
ByColumns(m) == <<Put("method", <<m, "COLUMNS">>)>> \o parseColList("columns")
HashOrKey ==
    <<At({"HASH"}, ByExpr("HASH")),
      At({"KEY"}, <<Put("method", <<"KEY">>),
                    When({"ALGORITHM"}, <<Must("="), Word({"<number>"}, "keyAlgorithm")>>), Must("("),
                    Switch(<<See({")"}, <<>>), Else(<<Val("names", "columns")>>)>>), Must(")")>>)>>
parsePartitionFunc ==
    <<When({"LINEAR"}, <<Flag("linear")>>),
      Switch(HashOrKey \o
        <<AtPair({"RANGE"}, {"COLUMNS"}, ByColumns("RANGE")), At({"RANGE"}, ByExpr("RANGE")),
          AtPair({"LIST"}, {"COLUMNS"}, ByColumns("LIST")), At({"LIST"}, ByExpr("LIST")),
          At({"SYSTEM_TIME"}, <<Put("method", <<"SYSTEM_TIME">>)>> \o parseSystemTimePartitionRule),
          Else(<<Err>>)>>)>>
parseSubpartitionFunc == <<When({"LINEAR"}, <<Flag("linear")>>), Switch(HashOrKey \o <<Else(<<Err>>)>>)>>

\* of a partition, and read over
consumePartitionOption ==
    Loop(<<Ignored({"ENGINE", "TABLESPACE", "NODEGROUP"}, {"<name>"}), Ignored({"COMMENT"}, {"<string>"}),
           At({"DATA", "INDEX"}, <<May({"DIRECTORY"}), May({"="}), May({"<string>"})>>),
           Ignored({"MAX_ROWS", "MIN_ROWS"}, {"<number>"}), At({"STORAGE"}, <<>>)>>)

PartitionBound ==
    <<Switch(<<
        At({"LESS"}, <<Must("THAN"), Flag("hasLessThan"),
           Switch(<<See({"MAXVALUE"}, <<Add(Word({"<any>"}, "lessThan"))>>),
                    At({"("}, <<List(<<Add(captureAtom("lessThan"))>>), Must(")")>>),
                    Else(<<Add(captureAtom("lessThan"))>>)>>)>>),
        At({"IN"}, <<Flag("hasIn")>> \o Parens(<<List(<<
           Switch(<<At({"("}, <<Sub("inVectors", "VECTOR", <<List(<<Add(captureAtom("atoms"))>>)>>), Must(")")>>),
                    Else(<<Add(captureAtom("inAtoms"))>>)>>)>>)>>))>>)>>

parsePartitionDefinition ==
    <<Switch(<<At({"PARTITION"}, <<>>), Else(<<Err, Nil>>)>>), Val("ident", "name"),
      Word({"HISTORY", "CURRENT"}, "systemTime"),
      When({"VALUES"}, PartitionBound), consumePartitionOption,
      When({"("}, <<Each(<<Switch(<<At({"SUBPARTITION"}, <<Add(Val("ident", "subpartitions")), consumePartitionOption>>),
                                    At({"<any>"}, <<>>)>>)>>), Must(")")>>)>>

parsePartitionBy ==
    <<Must("BY")>> \o parsePartitionFunc \o
    <<When({"PARTITIONS"}, <<Word({"<number>"}, "count")>>),
      When({"SUBPARTITION"}, <<Must("BY"), One("subpartition", "SUBPARTITIONING",
           parseSubpartitionFunc \o <<When({"SUBPARTITIONS"}, <<Word({"<number>"}, "count")>>)>>)>>),
      When({"("}, <<Each(<<Sub("definitions", "PARTITION", parsePartitionDefinition)>>), Must(")")>>)>>

-----------------------------------------------------------------------------
(* CREATE TABLE. *)

tableOptions ==
    <<Option("ENGINE", {"<name>"}, "engine"), Option("CHARSET", {"<name>"}, "charset"),
      At({"CHARACTER"}, <<Must("SET"), May({"="}), Word({"<name>"}, "charset")>>),
      Option("COLLATE", {"<name>"}, "collate"), Option("AUTO_INCREMENT", {"<number>"}, "autoIncrement"),
      Option("COMMENT", {"<string>"}, "comment"), Option("ROW_FORMAT", {"<name>"}, "rowFormat"),
      Option("KEY_BLOCK_SIZE", {"<number>"}, "keyBlockSize"),
      At({"WITH"}, <<When({"SYSTEM"}, <<When({"VERSIONING"}, <<Put("systemVersioning", Yes)>>)>>)>>),
      At({"WITHOUT"}, <<When({"SYSTEM"}, <<When({"VERSIONING"}, <<Put("systemVersioning", No)>>)>>)>>),
      AtPair({"DATA", "INDEX"}, {"DIRECTORY"}, <<May({"="}), May({"<string>"})>>),
      See({"DATA", "INDEX"}, <<Add(Word({"<any>"}, "extras"))>>),
      At({"TABLESPACE"}, <<May({"="}), May({"<name>"}), When({"STORAGE"}, <<May({"DISK", "MEMORY", "DEFAULT"})>>)>>),
      At({"UNION"}, <<May({"="}), When({"("}, <<Val("rest)", "")>>)>>),
      See({"<name>"}, <<Add(Val("pair", "extras"))>>)>>
TableEnd == {"<end>", "PARTITION", "SUBPARTITION", "IGNORE", "REPLACE", "AS", "SELECT"}
\* DEFAULT before an option is noise
parseTableOptions ==
    One("options", "OPTIONS",
        <<Loop(<<Leave(See(TableEnd, <<>>)), At({"DEFAULT"}, <<Switch(tableOptions)>>)>> \o tableOptions)>>)

AsTail == {"IGNORE", "REPLACE", "AS", "SELECT"}
finishCreateTableAs ==
    <<Node("TABLE AS", {"name", "ifNotExists", "temporary", "columns", "options"}),
      Word({"IGNORE", "REPLACE"}, "keyConflict"), May({"AS"}), Val("statement", "select")>>
CreateTableLike == <<Node("TABLE LIKE", {"name", "ifNotExists", "temporary"}), Val("ref", "like")>>

tableElement ==
    <<Switch(<<
        See({"CONSTRAINT", "PRIMARY", "UNIQUE", "FOREIGN", "CHECK"},
            <<Sub("constraints", "CONSTRAINT", parseTableConstraint)>>),
        See({"INDEX", "KEY", "FULLTEXT", "SPATIAL", "VECTOR"}, <<Sub("indexes", "INDEX", parseIndexDef)>>),
        At({"PERIOD"}, <<Sub("periods", "PERIOD", parsePeriod)>>),
        Else(<<Sub("columns", "COLUMN", parseColumnDef)>>)>>)>>

parseCreateTable ==
    <<Node("TABLE", {"temporary", "orReplace"}), IfNotExists, Val("ref", "name"),
      Switch(<<
        At({"LIKE"}, CreateTableLike),
        See(AsTail, finishCreateTableAs),
        AtPair({"("}, {"LIKE"}, CreateTableLike \o <<Must(")")>>),
        At({"("}, <<Each(tableElement), Must(")"), parseTableOptions,
                    When({"PARTITION"}, <<One("partitioning", "PARTITIONING", parsePartitionBy)>>),
                    Switch(<<See(AsTail, finishCreateTableAs)>>)>>),
        Else(<<Err, Flat({"<end>"}, "")>>)>>)>>

\* What the clauses of a table, of its columns and its PERIOD say about system
\* versioning, together: a column WITH it makes the others WITHOUT, unless the
\* table itself says WITH.
versioned(p) ==
    LET n == p.n[1]
        tableLevel == field(field(n, "options"), "systemVersioning") = Yes
        period == \E i \in DOMAIN field(n, "periods") : field(n.periods[i], "name") = <<"SYSTEM_TIME">>
        columnLevel ==
            ~tableLevel /\ \E i \in DOMAIN field(n, "columns") : field(n.columns[i], "withSystemVersioning") = Yes
        without(c) ==
            IF field(c, "withSystemVersioning") = Yes \/ field(c, "systemVersioning") = Yes
            THEN c ELSE ("withoutSystemVersioning" :> Yes) @@ c
        columns == IF columnLevel THEN [i \in DOMAIN n.columns |-> without(n.columns[i])] ELSE field(n, "columns")
        withColumns == IF columns = <<>> THEN n ELSE ("columns" :> columns) @@ n
    IN  CASE p.nil \/ "options" \notin DOMAIN n -> p
          [] n.is = <<"TABLE">> /\ (tableLevel \/ period \/ columnLevel) ->
                [p EXCEPT !.n[1] = ("systemVersioned" :> Yes) @@ withColumns]
          [] OTHER -> [p EXCEPT !.n[1] = withColumns]

-----------------------------------------------------------------------------
(* Indexes, views and routines. *)

parseCreateIndex ==
    <<Node("INDEX", {}),
      Switch(<<At({"UNIQUE"}, <<Flag("unique")>>), See({"FULLTEXT", "SPATIAL"}, <<Word({"<any>"}, "kind")>>)>>),
      Must("INDEX"), Val("ident", "name"), When({"USING"}, <<Word({"<name>"}, "using")>>),
      Must("ON"), Val("ref", "table")>> \o parseIndexedCols \o
    <<Loop(<<At({"USING"}, <<May({"<name>"})>>), At({"COMMENT"}, <<May({"<string>"})>>)>>)>>

parseCreateView ==
    <<Node("VIEW", {"orReplace", "algorithm", "definer", "sqlSecurity"}), Val("ref", "name"),
      Switch(<<See({"("}, parseColList("columns"))>>), Must("AS"), Flat({"<end>", "<check option>"}, "select"), AsQuery("query"),
      When({"WITH"}, <<Word({"CASCADED", "LOCAL"}, "check"), Must("CHECK"), Must("OPTION"), Flag("checkOption")>>)>>

parseCreateTrigger ==
    <<Node("TRIGGER", {"definer"}), Val("ident", "name"), Word({"BEFORE", "AFTER"}, "time"),
      Word({"INSERT", "UPDATE", "DELETE"}, "event"), Must("ON"), Val("ref", "table")>> \o
    MustAll(<<"FOR", "EACH", "ROW">>) \o
    <<Switch(<<See({"FOLLOWS", "PRECEDES"}, <<Word({"<any>"}, "order"), Val("ident", "orderRef")>>)>>),
      Val("body", "body")>>

parseRoutineCharacteristics ==
    Loop(<<At({"LANGUAGE"}, <<When({"SQL"}, <<Flag("languageSQL")>>)>>),
           At({"NOT"}, <<When({"DETERMINISTIC"}, <<Put("deterministic", No)>>)>>),
           At({"DETERMINISTIC"}, <<Put("deterministic", Yes)>>),
           At({"CONTAINS"}, <<Must("SQL"), Put("dataAccess", <<"CONTAINS">>)>>),
           At({"NO"}, <<Must("SQL"), Put("dataAccess", <<"NO">>)>>),
           At({"READS"}, <<Must("SQL"), Must("DATA"), Put("dataAccess", <<"READS">>)>>),
           At({"MODIFIES"}, <<Must("SQL"), Must("DATA"), Put("dataAccess", <<"MODIFIES">>)>>),
           At({"SQL"}, <<Must("SECURITY"), Word({"DEFINER", "INVOKER"}, "sqlSecurity")>>),
           At({"COMMENT"}, <<Word({"<string>"}, "comment")>>)>>)
parseFuncParams == <<List(<<Sub("params", "PARAM", <<Val("ident", "name"), Val("type", "type")>>)>>)>>
parseProcParams ==
    <<List(<<Sub("params", "PARAM",
                 <<Word({"IN", "OUT", "INOUT"}, "direction"), Val("ident", "name"), Val("type", "type")>>)>>)>>
Params(g) == <<Must("("), Switch(<<See({")"}, <<>>), Else(g)>>), Must(")")>>
parseCreateProcedure ==
    <<Node("PROCEDURE", {"definer"}), Val("ident", "name")>> \o Params(parseProcParams) \o
    <<parseRoutineCharacteristics, Val("body", "body")>>
parseCreateFunction ==
    <<Node("FUNCTION", {"definer"}), Val("ident", "name")>> \o Params(parseFuncParams) \o
    <<Must("RETURNS"), Val("type", "returns"), parseRoutineCharacteristics, Val("body", "body")>>

AfterSchedule == {"<end>", "ON", "DO", "COMMENT", "ENABLE", "DISABLE"}
captureExprUpto(stops, f) == Flat(stops, f)
parseCreateEvent ==
    <<Node("EVENT", {"definer"}), IfNotExists, Val("ident", "name"), Must("ON"), Must("SCHEDULE"),
      Switch(<<
        At({"AT"}, <<captureExprUpto(AfterSchedule, "at"), AsExpr("atExpr")>>),
        At({"EVERY"}, <<Word({"<number>"}, "every"), Word({"<keyword>"}, "unit"),
            When({"STARTS"}, <<captureExprUpto(AfterSchedule \cup {"ENDS"}, "starts")>>),
            When({"ENDS"}, <<captureExprUpto(AfterSchedule, "ends")>>)>>)>>),
      Switch(<<AtPair({"ON"}, {"COMPLETION"},
            <<Switch(<<At({"NOT"}, <<Must("PRESERVE"), Put("preserve", No)>>),
                       Else(<<Must("PRESERVE"), Put("preserve", Yes)>>)>>)>>)>>),
      Switch(<<At({"ENABLE"}, <<Put("enable", <<"ENABLE">>)>>),
               At({"DISABLE"}, <<Put("enable", <<"DISABLE">>),
                                 When({"ON"}, <<Must("SLAVE"), Put("enable", <<"DISABLE", "ON", "SLAVE">>)>>)>>)>>),
      When({"COMMENT"}, <<Word({"<string>"}, "comment")>>), Must("DO"), Val("body", "body")>>

sequenceOptions(other) ==
    <<Leave(See({"<end>"}, <<>>)),
      At({"INCREMENT"}, <<May({"BY"}), May({"="}), Val("int", "increment")>>),
      At({"START"}, <<May({"WITH"}), May({"="}), Val("int", "start")>>),
      At({"MINVALUE"}, <<May({"="}), Val("int", "min")>>), At({"NOMINVALUE"}, <<Flag("noMin")>>),
      At({"MAXVALUE"}, <<May({"="}), Val("int", "max")>>), At({"NOMAXVALUE"}, <<Flag("noMax")>>),
      At({"NO"}, <<Switch(<<At({"MINVALUE"}, <<Flag("noMin")>>), At({"MAXVALUE"}, <<Flag("noMax")>>),
                            At({"CYCLE"}, <<Put("cycle", No)>>), At({"CACHE"}, <<Flag("noCache")>>), Else(other)>>)>>),
      At({"CYCLE"}, <<Put("cycle", Yes)>>), At({"NOCYCLE"}, <<Put("cycle", No)>>),
      At({"CACHE"}, <<May({"="}), Val("int", "cache")>>), At({"NOCACHE"}, <<Flag("noCache")>>)>>
\* CREATE skips a word it does not know, ALTER records an error as well
parseCreateSequence ==
    <<Node("SEQUENCE", {"orReplace", "temporary"}), IfNotExists, Val("ref", "name"),
      Loop(sequenceOptions(<<May({"<any>"})>>) \o
           <<At({"ENGINE"}, <<May({"="}), May({"<name>"})>>), At({"<any>"}, <<>>)>>)>>
parseAlterSequence ==
    <<Node("ALTER SEQUENCE", {}), When({"IF"}, <<Must("EXISTS")>>), Val("ref", "name"),
      Loop(sequenceOptions(<<Err, May({"<any>"})>>) \o
           <<At({"RESTART"}, <<Flag("restart"), May({"WITH"}), May({"="}), Val("int", "startWith")>>),
             See({"<any>"}, <<Err, May({"<any>"})>>)>>)>>

-----------------------------------------------------------------------------
(* ALTER, DROP and the statements that are only read over. *)

captureCurrentSegment == <<Node("NOOP", {}), Text({"<end>", ","}, "text")>>
consumeAlterColumnPosition == Switch(<<At({"FIRST"}, <<>>), At({"AFTER"}, <<Val("ident", "")>>)>>)
ColumnAction(kind) ==
    <<Node(kind, {"oldName"}), Sub("column", "COLUMN", parseColumnDef),
      Switch(<<Having("column", NoValue, Else(<<Nil>>)), Else(<<consumeAlterColumnPosition>>)>>)>>

\* of ADD COLUMN (c1, c2) only the first column is kept
parseAlterAdd ==
    <<Switch(<<
        AtPair({"COLUMN"}, {"("}, <<Node("ADD_COLUMN", {}), Sub("column", "COLUMN", parseColumnDef),
            Loop(<<At({","}, <<Sub("others", "COLUMN", parseColumnDef)>>)>>), Must(")"), Node("ADD_COLUMN", {"column"}),
            Switch(<<Having("column", NoValue, Else(<<Nil>>))>>)>>),
        At({"COLUMN"}, ColumnAction("ADD_COLUMN")),
        See({"CONSTRAINT", "PRIMARY", "UNIQUE", "FOREIGN", "CHECK", "FULLTEXT", "SPATIAL"},
            <<Node("ADD_CONSTRAINT", {}), Sub("constraint", "CONSTRAINT", parseTableConstraint),
              Switch(<<Having("constraint", NoValue, Else(<<Nil>>))>>)>>),
        See({"INDEX", "KEY", "PARTITION"}, captureCurrentSegment),
        Else(ColumnAction("ADD_COLUMN"))>>)>>

Dropped(kind) == <<Node(kind, {}), Val("ident", "name")>>
parseAlterDrop ==
    <<Switch(<<
        At({"PRIMARY"}, <<Must("KEY"), Node("DROP_CONSTRAINT", {})>>),
        At({"FOREIGN"}, <<Must("KEY")>> \o Dropped("DROP_CONSTRAINT") \o <<When({"."}, <<Val("ident", "")>>)>>),
        At({"CONSTRAINT", "CHECK"}, Dropped("DROP_CONSTRAINT")),
        At({"INDEX", "KEY"}, Dropped("NOOP")),
        See({"PARTITION"}, captureCurrentSegment),
        Else(<<May({"COLUMN"})>> \o Dropped("DROP_COLUMN") \o <<May({"RESTRICT", "CASCADE"})>>)>>)>>

Renamed(kind) == <<Node(kind, {}), Val("ident", "oldName"), Must("TO"), Val("ident", "newName")>>
parseAlterRename ==
    <<Switch(<<
        At({"COLUMN"}, Renamed("RENAME_COLUMN")), At({"INDEX", "KEY"}, Renamed("NOOP")),
        Else(<<Node("RENAME_TABLE", {}), May({"TO", "AS"}), Val("ref", "newName")>>)>>)>>

parseAlterColumnSpec ==
    <<Switch(<<
        See({"INDEX", "CHECK", "CONSTRAINT"}, captureCurrentSegment),
        Else(<<May({"COLUMN"}), Val("ident", "name"),
            Switch(<<AtPair({"SET"}, {"DEFAULT"}, <<Node("SET_DEFAULT", {"name"}), captureAtom("default")>>),
                     AtPair({"SET"}, {"VISIBLE", "INVISIBLE"}, <<Node("NOOP", {"name"})>>),
                     AtPair({"DROP"}, {"DEFAULT"}, <<Node("DROP_DEFAULT", {"name"})>>),
                     Else(<<May({"SET", "DROP"}), Err, Nil>>)>>)>>)>>)>>

parseAlterAction ==
    <<Switch(<<
        At({"ADD"}, parseAlterAdd), At({"DROP"}, parseAlterDrop), At({"RENAME"}, parseAlterRename),
        At({"ALTER"}, parseAlterColumnSpec),
        At({"MODIFY"}, <<May({"COLUMN"})>> \o ColumnAction("MODIFY_COLUMN")),
        At({"CHANGE"}, <<May({"COLUMN"}), Val("ident", "oldName")>> \o ColumnAction("CHANGE_COLUMN")),
        At({"FORCE"}, <<Node("NOOP", {}), Put("text", <<"FORCE">>)>>),
        See({"CONVERT", "DEFAULT", "CHARACTER", "CHARSET", "COLLATE", "ALGORITHM", "LOCK", "WITH", "WITHOUT",
             "DISABLE", "ENABLE", "DISCARD", "IMPORT", "ORDER", "PARTITION", "REORGANIZE", "COALESCE", "EXCHANGE",
             "ANALYZE", "OPTIMIZE", "REBUILD", "REPAIR", "REMOVE", "UPGRADE", "TRUNCATE"}, captureCurrentSegment),
        Else(<<Err, Flat({"<end>"}, ""), Nil>>)>>)>>

parseNoopToStmtEnd == <<Node("NOOP", {}), Val("statement", "text")>>
parseUseOrCall == parseNoopToStmtEnd
parseAlter ==
    <<Switch(<<
        At({"SEQUENCE"}, parseAlterSequence),
        At({"TABLE"}, <<Node("ALTER TABLE", {}), Val("ref", "name"),
                        List(<<Sub("actions", "ACTION", parseAlterAction)>>)>>),
        Else(parseNoopToStmtEnd)>>)>>

parseDropIndex ==
    <<Node("DROP INDEX", {}), May({"ONLINE", "OFFLINE"}), Val("ident", "name"), When({"ON"}, <<Val("ref", "table")>>),
      Loop(<<Ignored({"ALGORITHM", "LOCK"}, {"<name>"})>>)>>
parseDropSingle(kind) == <<Node(kind, {}), IfExists, Val("ref", "name")>>
parseDropList ==
    <<Node("DROP VIEW", {}), IfExists, List(<<Add(Val("ref", "names"))>>), Word({"RESTRICT", "CASCADE"}, "behaviour")>>
parseDrop ==
    <<May({"TEMPORARY"}),
      Switch(<<
        At({"TABLE"}, <<Node("DROP TABLE", {}), IfExists, List(<<Add(Val("ref", "names"))>>), May({"RESTRICT", "CASCADE"})>>),
        At({"INDEX"}, parseDropIndex), At({"VIEW"}, parseDropList),
        At({"PROCEDURE"}, parseDropSingle("DROP PROCEDURE")), At({"FUNCTION"}, parseDropSingle("DROP FUNCTION")),
        At({"TRIGGER"}, parseDropSingle("DROP TRIGGER")), At({"EVENT"}, parseDropSingle("DROP EVENT")),
        Else(parseNoopToStmtEnd)>>)>>

parseTruncate == <<Node("TRUNCATE", {}), May({"TABLE"}), Val("ref", "name")>>
parseRenameTable ==
    <<Node("RENAME", {}), Must("TABLE"),
      List(<<Sub("pairs", "PAIR", <<Val("ref", "from"), Must("TO"), Val("ref", "to")>>)>>)>>

\* A package ends at the delimiter, or, if that is ";", after its first END.
parseCreatePackageNoop ==
    <<Node("NOOP", {}), May({"BODY"}), When({"IF"}, <<May({"NOT"}), May({"EXISTS"})>>),
      Switch(<<See({"<name>"}, <<Val("ref", "name")>>)>>),
      Loop(<<Leave(See({"<delimiter>"}, <<>>)), Leave(At({"<package end>"}, <<May({"<name>"}), May({";"})>>)),
             At({"<any>"}, <<>>)>>)>>

parseCreate ==
    <<When({"OR"}, <<Must("REPLACE"), Flag("orReplace")>>),
      When({"ALGORITHM"}, <<Must("="), Word({"<name>"}, "algorithm")>>),
      When({"DEFINER"}, <<Must("="), Val("user", "definer")>>),
      When({"SQL"}, <<Must("SECURITY"), Word({"DEFINER", "INVOKER"}, "sqlSecurity")>>),
      When({"TEMPORARY"}, <<Flag("temporary")>>),
      Switch(<<
        At({"TABLE"}, parseCreateTable), See({"UNIQUE", "FULLTEXT", "SPATIAL", "INDEX"}, parseCreateIndex),
        At({"VIEW"}, parseCreateView), At({"TRIGGER"}, parseCreateTrigger), At({"PROCEDURE"}, parseCreateProcedure),
        At({"FUNCTION"}, parseCreateFunction), At({"EVENT"}, parseCreateEvent), At({"SEQUENCE"}, parseCreateSequence),
        At({"PACKAGE"}, parseCreatePackageNoop),
        See({"LOGFILE", "TABLESPACE", "SERVER", "ROLE", "USER", "DATABASE", "SCHEMA"}, parseNoopToStmtEnd),
        Else(<<Err, Nil>>)>>)>>

parseStatement ==
    <<Switch(<<
        At({"CREATE"}, parseCreate), At({"DROP"}, parseDrop), At({"ALTER"}, parseAlter),
        At({"TRUNCATE"}, parseTruncate), At({"RENAME"}, parseRenameTable),
        See({"USE", "SET", "CALL"}, parseUseOrCall),
        See({"LOAD", "GRANT", "REVOKE", "FLUSH", "HANDLER", "SIGNAL", "RESIGNAL", "CHANGE", "START",
             "STOP", "XA", "PREPARE", "EXECUTE", "DEALLOCATE", "LOCK", "UNLOCK", "ANALYZE", "OPTIMIZE", "REPAIR",
             "CHECKSUM", "RESET", "PURGE"}, parseNoopToStmtEnd),
        Else(<<Err, Nil>>)>>)>>
============================================================================
