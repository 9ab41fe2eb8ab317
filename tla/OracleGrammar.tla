--------------------------- MODULE OracleGrammar ---------------------------
(***************************************************************************)
(* The statements of a dump of Oracle: internal/dialects/oracle, parser.go *)
(* and parser_ddl.go.  Most clauses that PostgreSQL has no use for are     *)
(* passed over one word at a time.                                         *)
(***************************************************************************)
EXTENDS Parsing

IfNotExists == When({"IF"}, MustAll(<<"NOT", "EXISTS">>) \o <<Flag("ifNotExists")>>)
ToEnd == Flat({"<end>"}, "")
\* schema.name, of which only the name is kept
parseQualifiedName(f) ==
    Switch(<<SeePair({"<name>"}, {"."}, <<May({"<name>"}), May({"."}), Val("ident", f)>>), Else(<<Val("ident", f)>>)>>)

-----------------------------------------------------------------------------
(* Columns, keys and constraints. *)

IdentityOptions ==
    Loop(<<At({"MINVALUE", "MAXVALUE", "CACHE"}, <<Val("int", "")>>),
           At({"NOMINVALUE", "NOMAXVALUE", "NOCACHE", "NOCYCLE", "CYCLE", "ORDER", "NOORDER", "KEEP",
               "NOKEEP", "NOSCALE", "SCALE"}, <<>>),
           At({"INCREMENT"}, <<May({"BY"}), Val("int", "")>>), At({"START"}, <<May({"WITH"}), Val("int", "")>>)>>)
parseExprUntilParenClose(f) == Text({")"}, f)
\* whatever is not AS (expr) makes the column an identity
parseGeneratedClause ==
    <<Switch(<<At({"ALWAYS"}, <<>>), At({"BY"}, <<Must("DEFAULT"), When({"ON"}, <<Must("NULL")>>)>>)>>),
      Switch(<<
        AtPair({"AS"}, {"("}, <<parseExprUntilParenClose("generated"), Must(")"),
            Switch(<<At({"VIRTUAL"}, <<Put("virtual", Yes)>>), At({"STORED"}, <<Put("virtual", No)>>)>>)>>),
        AtPair({"AS"}, {"IDENTITY"}, <<Flag("autoInc"), When({"("}, <<Val("rest)", "")>>), IdentityOptions>>),
        Else(<<May({"AS"}), Flag("autoInc")>>)>>)>>

parseRefAction(f) ==
    Switch(<<See({"CASCADE", "RESTRICT"}, <<Word({"<any>"}, f)>>),
             At({"SET"}, <<Switch(<<At({"NULL"}, <<Put(f, <<"SET", "NULL">>)>>),
                                    At({"DEFAULT"}, <<Put(f, <<"SET", "DEFAULT">>)>>)>>)>>),
             At({"NO"}, <<Must("ACTION"), Put(f, <<"NO", "ACTION">>)>>)>>)
parseFKActions ==
    Loop(<<AtPair({"ON"}, {"DELETE"}, <<parseRefAction("onDelete")>>),
           AtPair({"ON"}, {"UPDATE"}, <<parseRefAction("onUpdate")>>), Leave(At({"ON"}, <<>>))>>)
References ==
    <<Val("ref", "references"), When({"("}, <<Val("names", "refColumns"), Must(")")>>), parseFKActions>>

parseExprUntilBoundary(f) ==
    Text({",", ")", "<end>", "NOT", "NULL", "PRIMARY", "UNIQUE", "CHECK", "REFERENCES", "GENERATED", "VISIBLE", "INVISIBLE",
          "CONSTRAINT", "ENABLE", "DISABLE", "COLLATE"}, f)
\* A foreign key inside a column is read and dropped.  The loop ends only at a
\* "," or a ")": not at the end of the statement.
columnClauses ==
    <<Leave(See({",", ")", "EOF"}, <<>>)),
      At({"DEFAULT"}, <<When({"ON"}, <<May({"NULL"}), Flag("defaultOnNull")>>), parseExprUntilBoundary("default")>>),
      At({"NOT"}, <<Must("NULL"), Put("notNull", Yes)>>), At({"NULL"}, <<Put("notNull", No)>>),
      At({"VISIBLE"}, <<Put("invisible", No)>>), At({"INVISIBLE"}, <<Put("invisible", Yes)>>),
      At({"GENERATED"}, parseGeneratedClause),
      At({"PRIMARY"}, <<Must("KEY"), Flag("primaryKey")>>), At({"UNIQUE"}, <<Flag("unique")>>),
      At({"CHECK"}, Parens(<<parseExprUntilParenClose("check")>>)),
      At({"REFERENCES"}, <<One("dropped", "FK", References)>>),
      At({"CONSTRAINT"}, <<Val("ident", "")>>),
      At({"COLLATE"}, <<Val("ident", "collation")>>), At({"<any>"}, <<>>)>>
ColumnFields ==
    {"name", "type", "default", "defaultOnNull", "notNull", "invisible", "generated", "virtual", "autoInc", "primaryKey",
     "unique", "check", "collation"}
parseColumnDef ==
    <<Val("ident", "name"),
      Switch(<<See({")", ","}, <<Err>>), Else(<<Val("type", "type"), Loop(columnClauses), Node("COLUMN", ColumnFields)>>)>>)>>

AscDesc == {"ASC", "DESC"}
\* a name, or whatever else is there up to the next key as an expression
parseOneIndexedCol ==
    <<Switch(<<
        SeePair({"<name>"}, {",", ")"} \cup AscDesc, <<Val("ident", "name")>>),
        See({"<name>", "(", "<string>", "<number>"}, <<Text({",", ")"} \cup AscDesc, "expr")>>),
        Else(<<Err, Text({",", ")"} \cup AscDesc, "expr")>>)>>),
      Word(AscDesc, "order")>>
parseIndexedCols == Parens(<<List(<<Sub("keys", "KEYPART", parseOneIndexedCol)>>)>>)

parseConstraintState ==
    Loop(<<At({"ENABLE"}, <<Put("disabled", No)>>), At({"DISABLE"}, <<Put("disabled", Yes)>>),
           At({"VALIDATE"}, <<Put("noValidate", No)>>), At({"NOVALIDATE"}, <<Put("noValidate", Yes)>>),
           At({"RELY"}, <<Put("rely", Yes)>>), At({"NORELY"}, <<Put("rely", No)>>),
           At({"NOT"}, <<When({"DEFERRABLE"}, <<Put("deferrable", No)>>)>>), At({"DEFERRABLE"}, <<Put("deferrable", Yes)>>),
           At({"INITIALLY"}, <<Switch(<<At({"DEFERRED"}, <<Put("initiallyDeferred", Yes)>>),
                                        At({"IMMEDIATE"}, <<Put("initiallyDeferred", No)>>)>>)>>),
           At({"USING"}, <<Flag("usingIndex"), May({"INDEX"}),
                           Switch(<<See({"("}, <<Val("(text)", "")>>), At({"<ident>"}, <<When({"."}, <<May({"<ident>"})>>)>>)>>)>>)>>)
parseTableConstraint ==
    <<When({"CONSTRAINT"}, <<Val("ident", "name")>>),
      Switch(<<
        At({"PRIMARY"}, <<Node("PK", {"name"}), Must("KEY")>> \o parseIndexedCols \o <<parseConstraintState>>),
        At({"UNIQUE"}, <<Node("UQ", {"name"})>> \o parseIndexedCols \o <<parseConstraintState>>),
        At({"FOREIGN"}, <<Node("FK", {"name"}), Must("KEY")>> \o Parens(<<Val("names", "columns")>>) \o
                        <<Must("REFERENCES")>> \o References \o <<parseConstraintState>>),
        At({"CHECK"}, <<Node("CHECK", {"name"})>> \o Parens(<<parseExprUntilParenClose("check")>>) \o
                      <<parseConstraintState>>),
        Else(<<Err, Nil>>)>>)>>

-----------------------------------------------------------------------------
(* Tables. *)

\* A PARTITION clause is kept as text, up to the next option.
partitionClause ==
    <<Text({"<end>", "TABLESPACE", "STORAGE", "ORGANIZATION", "LOB", "COMMENT"}, "partitioning")>>
parseTableOptions ==
    One("options", "OPTIONS", <<Loop(<<
        At({"TABLESPACE"}, <<Val("ident", "tablespace")>>),
        At({"STORAGE"}, <<Switch(<<See({"("}, <<Val("(text)", "storage")>>)>>)>>),
        At({"PARTITION"}, partitionClause),
        At({"ORGANIZATION"}, <<Switch(<<
            See({"HEAP", "INDEX", "EXTERNAL"}, <<Word({"<any>"}, "organization"), Switch(<<
                Having("organization", <<"EXTERNAL">>, See({"("}, <<Val("(text)", "")>>)),
                Having("organization", <<"INDEX">>, See({"("}, <<Val("(text)", "")>>))>>)>>)>>)>>),
        At({"LOB"}, <<Flat({"<end>", "TABLESPACE", "PARTITION", "STORAGE"}, "lob")>>),
        At({"COMMENT"}, <<May({"IS"}), Word({"<string>"}, "comment")>>),
        Leave(See({"<end>"}, <<>>)),
        At({"<any>"}, <<>>)>>)>>)

Qualifiers == {"temporary", "privateTemp", "immutable", "blockchain", "sharded", "duplicated"}
parseCreateTableQuals ==
    <<Node("TABLE", Qualifiers), IfNotExists, Val("ref", "name"),
      Switch(<<
        At({"("}, <<List(<<Switch(<<
                      See({"CONSTRAINT", "PRIMARY", "UNIQUE", "FOREIGN", "CHECK"},
                          <<Sub("constraints", "CONSTRAINT", parseTableConstraint)>>),
                      Else(<<Sub("columns", "COLUMN", parseColumnDef)>>)>>)>>),
                    Must(")"), parseTableOptions>>),
        Else(<<Err>>)>>)>>

parseCreateIndex ==
    <<Node("INDEX", {"unique", "bitmap"}), parseQualifiedName("name"), Must("ON"), Val("ref", "table")>> \o
    parseIndexedCols \o <<ToEnd>>

-----------------------------------------------------------------------------
(* Views and sequences. *)

\* OF type, WITH OBJECT IDENTIFIER and the like, before AS
parseCreateView ==
    <<Node("VIEW", {"orReplace"}), Val("ref", "name"),
      When({"("}, <<Val("names", "columns"), Must(")")>>),
      Loop(<<Leave(See({"AS", "<end>"}, <<>>)),
             At({"OF"}, <<parseQualifiedName("ofType")>>),
             At({"WITH"}, <<When({"OBJECT"}, <<May({"IDENTIFIER", "OID"}),
                            Switch(<<At({"("}, <<Val("rest)", "")>>), At({"DEFAULT"}, <<>>)>>)>>)>>),
             At({"UNDER"}, <<Val("ref", "")>>), At({"("}, <<Val("rest)", "")>>)>>),
      Must("AS"), Val("statement", "select")>>

parseCreateMaterializedView ==
    <<Node("MATERIALIZED VIEW", {"orReplace"}), Val("ref", "name"),
      Loop(<<Leave(See({"AS", "<end>"}, <<>>)),
             At({"BUILD"}, <<Word({"IMMEDIATE", "DEFERRED"}, "build")>>),
             At({"REFRESH"}, <<Loop(<<See({"COMPLETE", "FAST", "FORCE", "NEVER"}, <<Word({"<any>"}, "refresh")>>)>>),
                               When({"ON"}, <<Word({"DEMAND", "COMMIT"}, "refreshOn")>>)>>),
             See({"<any>"}, <<Add(Word({"<any>"}, "extras"))>>)>>),
      Must("AS"), Val("statement", "select")>>

sequenceLimits ==
    <<At({"MAXVALUE"}, <<Val("int", "max")>>), At({"NOMAXVALUE"}, <<Flag("noMax")>>),
      At({"MINVALUE"}, <<Val("int", "min")>>), At({"NOMINVALUE"}, <<Flag("noMin")>>),
      At({"CYCLE"}, <<Put("cycle", Yes)>>), At({"NOCYCLE"}, <<Put("cycle", No)>>),
      At({"CACHE"}, <<Val("int", "cache")>>), At({"NOCACHE"}, <<Flag("noCache")>>),
      SeePair({"SHARING"}, {"METADATA", "DATA", "EXTENDED", "NONE"}, <<Add(Word({"<any>"}, "ignored")), May({"<name>"})>>),
      See({"ORDER", "NOORDER", "KEEP", "SESSION", "GLOBAL", "NOKEEP", "SCALE", "NOSCALE", "EXTEND", "NOEXTEND", "SHARD",
           "NOSHARD", "SHARING"}, <<Add(Word({"<any>"}, "ignored"))>>)>>
parseCreateSequence ==
    <<Node("SEQUENCE", {"orReplace"}), IfNotExists, Val("ref", "name"),
      Loop(<<Leave(See({"<end>"}, <<>>)), At({"START"}, <<Must("WITH"), Val("int", "start")>>),
             At({"INCREMENT"}, <<Must("BY"), Val("int", "increment")>>)>> \o sequenceLimits \o <<At({"<any>"}, <<>>)>>)>>
\* START WITH of an ALTER restarts
parseAlterSequence ==
    <<Node("ALTER SEQUENCE", {}), Val("ref", "name"),
      Loop(<<Leave(See({"<end>"}, <<>>)), At({"INCREMENT"}, <<May({"BY"}), Val("int", "increment")>>),
             At({"START"}, <<May({"WITH"}), Val("int", "startWith"), Flag("restart")>>),
             At({"RESTART"}, <<Flag("restart"), When({"WITH"}, <<Val("int", "startWith")>>)>>)>>
           \o sequenceLimits \o <<At({"<any>"}, <<>>)>>)>>

-----------------------------------------------------------------------------
(* Routines, triggers, packages and types: a head, and a body as text. *)

parseRoutineParamDefault == Text({",", ")", "<end>"}, "default")
Param ==
    <<Val("ident", "name"),
      Switch(<<AtPair({"IN"}, {"OUT"}, <<Put("direction", <<"INOUT">>)>>), See({"IN", "OUT"}, <<Word({"<any>"}, "direction")>>)>>),
      May({"NOCOPY"}), Val("type", "type"), When({"DEFAULT", ":="}, <<parseRoutineParamDefault>>)>>
parseRoutineParams ==
    Switch(<<AtPair({"("}, {")"}, <<>>), At({"("}, <<List(<<Sub("params", "PARAM", Param)>>), Must(")")>>)>>)
skipRoutineOptions ==
    Loop(<<At({"AUTHID"}, <<May({"CURRENT_USER", "DEFINER"})>>),
           At({"DETERMINISTIC", "PIPELINED", "PARALLEL_ENABLE", "RESULT_CACHE"}, <<>>)>>)
parseCreateProcedure ==
    <<Node("PROCEDURE", {}), parseQualifiedName("name"), parseRoutineParams, skipRoutineOptions, May({"IS", "AS"}),
      Val("block", "body")>>
parseCreateFunction ==
    <<Node("FUNCTION", {}), parseQualifiedName("name"), parseRoutineParams, Must("RETURN"), Val("type", "returns"),
      skipRoutineOptions, May({"IS", "AS"}), Val("block", "body")>>

SystemEvents ==
    {"CREATE", "ALTER", "DROP", "ANALYZE", "AUDIT", "COMMENT", "GRANT", "NOAUDIT", "RENAME", "REVOKE", "TRUNCATE", "LOGON",
     "LOGOFF", "STARTUP", "SHUTDOWN", "SERVERERROR", "SUSPEND", "DB_ROLE_CHANGE"}
triggerTime ==
    <<Switch(<<At({"FOR"}, <<Put("time", <<"COMPOUND">>)>>), See({"BEFORE", "AFTER"}, <<Word({"<any>"}, "time")>>),
               At({"INSTEAD"}, <<Must("OF"), Put("time", <<"INSTEAD", "OF">>)>>)>>)>>
\* the columns of UPDATE OF are dropped
triggerEvent ==
    <<Switch(<<
        See({"INSERT", "UPDATE", "DELETE"}, <<Add(Word({"<any>"}, "events")), When({"OF"}, <<Val("names", "")>>)>>),
        See(SystemEvents, <<Flag("system"), Add(Word({"<any>"}, "events"))>>)>>)>>
triggerObject ==
    <<Must("ON"),
      Switch(<<
        Having("system", Yes, At({"DATABASE", "PLUGGABLE"}, <<Put("scope", <<"DATABASE">>), May({"DATABASE"})>>)),
        Having("system", Yes, At({"SCHEMA"}, <<Put("scope", <<"SCHEMA">>)>>)),
        Having("system", Yes, Else(<<Put("scope", <<"SCHEMA">>), Val("ref", "table")>>)),
        At({"NESTED"}, <<May({"TABLE"}), Val("ref", ""), May({"OF"}), Val("ref", "table"), Flag("nested")>>),
        Else(<<Val("ref", "table")>>)>>)>>
triggerOptions ==
    <<Leave(See({"BEGIN", "DECLARE", "COMPOUND", "<end>"}, <<>>)),
      At({"FOR"}, <<Flag("hasForEach"), When({"EACH"}, <<Switch(<<At({"ROW"}, <<Put("forEachRow", Yes)>>),
                                                                  At({"STATEMENT"}, <<Put("forEachRow", No)>>)>>)>>)>>),
      See({"FOLLOWS", "PRECEDES"}, <<Word({"<any>"}, "order"), parseQualifiedName("orderRef")>>),
      At({"REFERENCING"}, <<Loop(<<At({"NEW"}, <<May({"AS"}), Word({"<ident>"}, "newAlias")>>),
                                   At({"OLD"}, <<May({"AS"}), Word({"<ident>"}, "oldAlias")>>),
                                   At({"PARENT"}, <<May({"AS"}), May({"<ident>"})>>)>>)>>),
      At({"WHEN"}, <<Switch(<<See({"("}, <<Val("(text)", "when")>>)>>)>>),
      At({"<any>"}, <<>>)>>
parseCreateTrigger ==
    <<Node("TRIGGER", {}), parseQualifiedName("name")>> \o triggerTime \o triggerEvent \o
    <<Loop(<<At({"OR"}, triggerEvent)>>)>> \o triggerObject \o
    <<Loop(triggerOptions),
      Switch(<<Having("time", <<"COMPOUND">>, Else(<<When({"COMPOUND"}, <<May({"TRIGGER"})>>), Val("compound", "body")>>)),
               Else(<<Val("block", "body")>>)>>)>>

parseCreatePackage ==
    <<Switch(<<
        At({"BODY"}, <<Node("PACKAGE BODY", {"orReplace"}), Val("ref", "name"), skipRoutineOptions, May({"IS", "AS"}),
                       Val("package", "body")>>),
        Else(<<Node("PACKAGE", {"orReplace"}), Val("ref", "name"), skipRoutineOptions, May({"IS", "AS"}),
               Val("block", "body")>>)>>)>>

Methods == {"MEMBER", "STATIC", "MAP", "ORDER", "CONSTRUCTOR", "FINAL", "INSTANTIABLE", "OVERRIDING"}
objectType ==
    <<When({"("}, <<Loop(<<Leave(See({")", "EOF"}, <<>>)),
                           See(Methods, <<Flag("hasMethods"), Text({",", ")"}, ""), May({","})>>),
                           Else(<<Sub("attributes", "COLUMN", parseColumnDef), May({","})>>)>>), May({")"})>>),
      ToEnd>>
\* UNDER without OBJECT is an object too
parseCreateType ==
    <<Switch(<<
        At({"BODY"}, <<Node("TYPE BODY", {"orReplace"}), Val("ref", "name"), skipRoutineOptions,
                       When({"UNDER"}, <<parseQualifiedName("")>>), May({"IS", "AS"}), Val("type body", "body")>>),
        Else(<<Node("TYPE", {"orReplace"}), Val("ref", "name"), skipRoutineOptions,
               When({"UNDER"}, <<parseQualifiedName("parent")>>), May({"IS", "AS"}),
               Switch(<<
                 At({"OBJECT"}, <<Put("kind", <<"OBJECT">>)>> \o objectType),
                 At({"VARRAY", "VARYING"}, <<Put("kind", <<"VARRAY">>), May({"ARRAY"}),
                     Switch(<<See({"("}, <<Val("(text)", "")>>)>>), May({"OF"}), Val("statement", "element")>>),
                 At({"TABLE"}, <<Put("kind", <<"TABLE">>), May({"OF"}), Val("statement", "element")>>),
                 Having("parent", NoValue, Else(<<Val("statement", "body")>>)),
                 Else(<<Put("kind", <<"OBJECT">>)>> \o objectType)>>)>>)>>)>>

-----------------------------------------------------------------------------
(* ALTER and DROP. *)

parseAlterRoutine == <<Node("ALTER ROUTINE", {}), Val("ref", "name"), ToEnd>>
AttributeOr(ws, action) == AtPair(ws, {"ATTRIBUTE"}, <<Put("action", action)>>)
parseAlterType ==
    <<Node("ALTER TYPE", {}), Val("ref", "name"),
      Switch(<<At({"COMPILE"}, <<Put("action", <<"COMPILE">>)>>), AttributeOr({"ADD"}, <<"ADD">>),
               AttributeOr({"DROP"}, <<"DROP">>), AttributeOr({"MODIFY"}, <<"MODIFY">>),
               Else(<<Put("action", <<"OTHER">>)>>)>>), ToEnd>>
parseAlterView ==
    <<Node("ALTER VIEW", {}), Val("ref", "name"),
      Switch(<<See({"COMPILE", "EDITIONABLE", "NONEDITIONABLE"}, <<Word({"<any>"}, "action")>>),
               See({"ADD", "MODIFY", "DROP"}, <<Put("action", <<"CONSTRAINT">>)>>), Else(<<Put("action", <<"OTHER">>)>>)>>), ToEnd>>
RenameTo == <<Put("action", <<"RENAME">>), May({"TO"}), parseQualifiedName("newName")>>
parseAlterTrigger ==
    <<Node("ALTER TRIGGER", {}), Val("ref", "name"),
      Switch(<<See({"ENABLE", "DISABLE"}, <<Word({"<any>"}, "action")>>), At({"RENAME"}, RenameTo),
               Else(<<Put("action", <<"COMPILE">>)>>)>>), ToEnd>>
parseAlterIndex ==
    <<Node("ALTER INDEX", {}), Val("ref", "name"),
      Switch(<<At({"RENAME"}, RenameTo),
               See({"REBUILD", "COMPILE", "ENABLE", "DISABLE", "UNUSABLE", "VISIBLE", "INVISIBLE", "COMPRESS", "NOCOMPRESS"},
                   <<Word({"<any>"}, "action")>>),
               See({"MODIFY", "ADD", "SPLIT", "COALESCE", "DROP"}, <<Put("action", <<"PARTITION">>)>>),
               Else(<<Put("action", <<"OTHER">>)>>)>>), ToEnd>>

Column(kind) == Sub("actions", kind, <<One("column", "COLUMN", parseColumnDef)>>)
\* ADD (c1, c2) adds both columns, MODIFY (c1, c2) keeps the first; DROP of
\* whatever it is becomes the drop of a constraint
parseAlterAction ==
    <<Switch(<<
        At({"ADD"}, <<Switch(<<
            See({"CONSTRAINT", "PRIMARY", "UNIQUE", "FOREIGN", "CHECK"},
                <<Sub("actions", "ADD_CONSTRAINT", <<Sub("constraint", "CONSTRAINT", parseTableConstraint),
                      Switch(<<Having("constraint", NoValue, Else(<<Nil>>))>>)>>)>>),
            At({"("}, <<List(<<Column("ADD_COLUMN")>>), Must(")")>>),
            Else(<<Column("ADD_COLUMN")>>)>>)>>),
        At({"DROP"}, <<May({"CONSTRAINT", "PRIMARY", "UNIQUE", "COLUMN"}), Sub("actions", "DROP_CONSTRAINT", <<Val("ident", "name")>>)>>),
        AtPair({"MODIFY"}, {"("}, <<Column("MODIFY_COLUMN"),
            Loop(<<At({","}, <<Sub("others", "COLUMN", parseColumnDef)>>)>>), Must(")"), Node("ALTER TABLE", {"name", "actions"})>>),
        At({"MODIFY"}, <<Column("MODIFY_COLUMN")>>),
        At({"RENAME"}, <<May({"COLUMN"}),
            Sub("actions", "RENAME_COLUMN", <<Val("ident", "name"), Must("TO"), Val("ident", "newName")>>)>>),
        Else(<<Err, ToEnd>>)>>)>>

parseNoopToStmtEnd == <<Node("NOOP", {}), Val("statement", "text")>>
parseAlter ==
    <<Switch(<<
        At({"TABLE"}, <<Node("ALTER TABLE", {}), Val("ref", "name"), List(parseAlterAction)>>),
        At({"SEQUENCE"}, parseAlterSequence), At({"INDEX"}, parseAlterIndex), At({"TRIGGER"}, parseAlterTrigger),
        At({"VIEW"}, parseAlterView), At({"TYPE"}, parseAlterType),
        At({"PROCEDURE", "FUNCTION", "PACKAGE"}, parseAlterRoutine), Else(parseNoopToStmtEnd)>>)>>

IfExists == When({"IF"}, <<May({"EXISTS"}), Flag("ifExists")>>)
Behaviour ==
    Loop(<<Leave(See({"<end>"}, <<>>)), At({"CASCADE"}, <<Flag("cascade")>>), At({"RESTRICT"}, <<Flag("restrict")>>),
           At({"<any>"}, <<>>)>>)
parseDropObjectAfterKw(kind) == <<Node(kind, {}), IfExists, Val("ref", "name"), Behaviour>>
DropKinds ==
    <<At({"SEQUENCE"}, parseDropObjectAfterKw("DROP SEQUENCE")), At({"SYNONYM"}, parseDropObjectAfterKw("DROP SYNONYM")),
      At({"INDEX"}, parseDropObjectAfterKw("DROP INDEX")), AtPair({"MATERIALIZED"}, {"VIEW"}, parseDropObjectAfterKw("DROP MATERIALIZED VIEW")),
      At({"PROCEDURE"}, parseDropObjectAfterKw("DROP PROCEDURE")), At({"FUNCTION"}, parseDropObjectAfterKw("DROP FUNCTION")),
      AtPair({"PACKAGE"}, {"BODY"}, parseDropObjectAfterKw("DROP PACKAGE BODY")), At({"PACKAGE"}, parseDropObjectAfterKw("DROP PACKAGE")),
      At({"TRIGGER"}, parseDropObjectAfterKw("DROP TRIGGER")),
      AtPair({"TYPE"}, {"BODY"}, parseDropObjectAfterKw("DROP TYPE BODY")), At({"TYPE"}, parseDropObjectAfterKw("DROP TYPE"))>>
parseDrop ==
    <<Switch(<<
        At({"TABLE"}, <<Node("DROP TABLE", {}), When({"IF"}, <<Must("EXISTS"), Flag("ifExists")>>),
                        List(<<Add(Val("ref", "names"))>>), ToEnd>>),
        At({"VIEW"}, <<Node("DROP VIEW", {}), IfExists, List(<<Add(Val("ref", "names"))>>), Behaviour>>)>>
        \o DropKinds \o <<Else(<<May({"MATERIALIZED"})>> \o parseNoopToStmtEnd)>>)>>

-----------------------------------------------------------------------------
(* CREATE, and the statements. *)

createQualifiers ==
    Loop(<<AtPair({"GLOBAL"}, {"TEMPORARY"}, <<Flag("temporary")>>), Leave(At({"GLOBAL"}, <<>>)),
           AtPair({"PRIVATE"}, {"TEMPORARY"}, <<Flag("temporary"), Flag("privateTemp")>>), Leave(At({"PRIVATE"}, <<>>)),
           At({"UNIQUE"}, <<Flag("unique")>>), At({"BITMAP"}, <<Flag("bitmap")>>),
           At({"MATERIALIZED"}, <<Flag("materialized")>>), At({"IMMUTABLE"}, <<Flag("immutable")>>),
           At({"BLOCKCHAIN"}, <<Flag("blockchain")>>), At({"SHARDED"}, <<Flag("sharded")>>),
           At({"DUPLICATED"}, <<Flag("duplicated")>>),
           At({"FORCE", "NOFORCE", "EDITIONABLE", "NONEDITIONABLE"}, <<>>)>>)
NoCounterpart ==
    {"CLUSTER", "CONTEXT", "DIRECTORY", "LIBRARY", "JAVA", "DATABASE", "PROFILE", "LOCKDOWN", "EDITION", "ATTRIBUTE",
     "HIERARCHY", "ANALYTIC", "FLASHBACK", "AUDIT", "TABLESPACE", "ROLE", "USER", "INDEXTYPE", "OPERATOR", "PLUGGABLE",
     "SCHEMA", "RESTORE"}
parseCreateSynonym == <<Must("SYNONYM")>> \o parseNoopToStmtEnd
createObject ==
    <<Switch(<<
        At({"TABLE"}, parseCreateTableQuals), At({"INDEX"}, parseCreateIndex),
        Having("materialized", Yes, AtPair({"VIEW"}, {"LOG"}, parseNoopToStmtEnd)),
        Having("materialized", Yes, At({"VIEW"}, parseCreateMaterializedView)),
        At({"VIEW"}, parseCreateView), At({"SEQUENCE"}, parseCreateSequence), See({"SYNONYM"}, parseCreateSynonym),
        At({"TRIGGER"}, parseCreateTrigger), At({"PROCEDURE"}, parseCreateProcedure), At({"FUNCTION"}, parseCreateFunction),
        At({"PACKAGE"}, parseCreatePackage), At({"TYPE"}, parseCreateType), See(NoCounterpart, parseNoopToStmtEnd),
        Else(<<Err, Nil>>)>>)>>
parseCreate ==
    <<When({"OR"}, <<Must("REPLACE"), Flag("orReplace")>>),
      Switch(<<At({"PUBLIC"}, parseCreateSynonym), Else(<<createQualifiers>> \o createObject)>>)>>

parseAnonymousBlock == <<Node("NOOP", {}), Val("block", "text")>>
parseStatement ==
    <<Switch(<<
        At({"CREATE"}, parseCreate), At({"ALTER"}, parseAlter), At({"DROP"}, parseDrop),
        See({"BEGIN", "DECLARE"}, parseAnonymousBlock),
        See({"COMMENT", "GRANT", "REVOKE", "ANALYZE", "SET", "AUDIT", "NOAUDIT", "FLASHBACK", "PURGE", "LOCK", "ASSOCIATE",
             "DISASSOCIATE"}, parseNoopToStmtEnd),
        Else(<<Err, Nil>>)>>)>>
============================================================================
