----------------------------- MODULE DB2Grammar -----------------------------
(***************************************************************************)
(* The statements of a dump of Db2: internal/dialects/db2, parser.go and   *)
(* parser_ddl.go.                                                          *)
(***************************************************************************)
EXTENDS Parsing

IfNotExists == When({"IF"}, MustAll(<<"NOT", "EXISTS">>) \o <<Flag("ifNotExists")>>)
ToEnd == Flat({"<end>"}, "")
\* ( ... ), read over if it is there
Balanced(f) == Switch(<<See({"("}, <<Val("(text)", f)>>)>>)
parseNoopToStmtEnd == <<Node("NOOP", {}), Val("statement", "text")>>

-----------------------------------------------------------------------------
(* Columns, keys and constraints. *)

atColumnEnd == {",", ")", "<end>"}
columnWords ==
    {"NOT", "NULL", "PRIMARY", "UNIQUE", "REFERENCES", "CHECK", "GENERATED", "CONSTRAINT", "WITH", "INLINE", "COMPRESS",
     "LOGGED", "NOT_LOGGED", "IMPLICITLY"}
parseDefaultExpr(f) == Text(atColumnEnd \cup columnWords, f)

\* read over, and lost: the foreign keys and the checks inside a column
anyAction ==
    At({"ON"}, <<May({"<any>"}), Switch(<<At({"NO"}, <<Must("ACTION")>>),
                                          At({"CASCADE", "RESTRICT", "SET"}, <<May({"NULL", "DEFAULT"})>>)>>)>>)
inlineReferences == <<Val("ref", ""), Balanced(""), Loop(<<anyAction>>)>>
columnOptions ==
    <<At({"NOT"}, <<Must("NULL"), Put("notNull", Yes)>>), At({"NULL"}, <<Put("notNull", No)>>),
      At({"DEFAULT"}, <<Flag("hasDefault"), parseDefaultExpr("default")>>),
      At({"WITH"}, <<When({"DEFAULT"}, <<Flag("hasDefault"),
                         Switch(<<See(atColumnEnd, <<>>), Else(<<parseDefaultExpr("default")>>)>>)>>)>>),
      At({"GENERATED"},
         <<Switch(<<At({"ALWAYS"}, <<>>), At({"BY"}, <<Must("DEFAULT")>>)>>),
           When({"AS"}, <<Switch(<<At({"IDENTITY"}, <<Flag("autoInc"), Balanced("")>>),
                                   Else(<<parseDefaultExpr("generated")>>)>>)>>)>>),
      At({"PRIMARY"}, <<Must("KEY"), Flag("primaryKey")>>), At({"UNIQUE"}, <<Flag("unique")>>),
      At({"REFERENCES"}, inlineReferences), At({"CHECK"}, <<Balanced("")>>), At({"CONSTRAINT"}, <<Val("ident", "")>>),
      At({"INLINE"}, <<May({"LENGTH"}), May({"<number>"})>>), At({"COMPRESS", "LOGGED", "NOT_LOGGED"}, <<>>),
      At({"IMPLICITLY"}, <<May({"HIDDEN"})>>)>>
parseColumnDef == <<Val("ident", "name"), Val("type", "type"), Loop(columnOptions)>>

KeyPart == <<Val("ident", "name"), Word({"ASC", "DESC"}, "order")>>
parseIndexedColList ==
    <<Switch(<<At({"("}, <<List(<<Sub("keys", "KEYPART", KeyPart)>>), Must(")")>>), Else(<<Err>>)>>)>>
parseColumnList(f) ==
    <<Switch(<<At({"("}, <<List(<<Add(Val("ident", f)), May({"ASC", "DESC"})>>), Must(")")>>), Else(<<Err>>)>>)>>

refAction(f) ==
    <<Switch(<<At({"NO"}, <<Must("ACTION"), Put(f, <<"NO", "ACTION">>)>>),
               See({"CASCADE", "RESTRICT"}, <<Word({"<any>"}, f)>>),
               At({"SET"}, <<Switch(<<At({"NULL"}, <<Put(f, <<"SET", "NULL">>)>>),
                                      At({"DEFAULT"}, <<Put(f, <<"SET", "DEFAULT">>)>>)>>)>>)>>)>>
foreignKey ==
    parseColumnList("columns") \o <<Must("REFERENCES"), Val("ref", "references"),
      Switch(<<See({"("}, parseColumnList("refColumns"))>>),
      Loop(<<AtPair({"ON"}, {"DELETE"}, refAction("onDelete")), AtPair({"ON"}, {"UPDATE"}, refAction("onUpdate")), anyAction>>),
      When({"NOT"}, <<May({"ENFORCED"})>>)>>
parseTableConstraint ==
    <<When({"CONSTRAINT"}, <<Val("ident", "name")>>),
      Switch(<<
        At({"PRIMARY"}, <<Node("PK", {"name"}), Must("KEY")>> \o parseIndexedColList),
        At({"UNIQUE"}, <<Node("UQ", {"name"})>> \o parseIndexedColList),
        At({"FOREIGN"}, <<Node("FK", {"name"}), Must("KEY")>> \o foreignKey),
        AtPair({"CHECK"}, {"("}, <<Node("CHECK", {"name"}), Val("rest)", "check")>>),
        At({"CHECK"}, <<Err, Nil>>),
        Else(<<Err, Nil>>)>>)>>

-----------------------------------------------------------------------------
(* Tables and indexes. *)

InTablespace(f) == <<When({"IN"}, <<Val("ident", f)>>)>>
\* a word that is no option ends the statement, wherever its delimiter is
parseTableTrailingOptions ==
    One("options", "OPTIONS", <<Loop(<<
        Leave(See({"<end>"}, <<>>)),
        At({"IN"}, <<Val("ident", "tablespace")>>), At({"INDEX"}, InTablespace("indexIn")), At({"LONG"}, InTablespace("longIn")),
        At({"COMPRESS"}, <<Switch(<<
            At({"YES"}, <<Flag("compression"), Word({"STATIC", "ADAPTIVE"}, "compressionMethod")>>), At({"NO"}, <<>>)>>)>>),
        At({"ORGANIZE"}, <<When({"BY"}, <<Word({"<any>"}, "organizeBy"),
            When({"SEQUENCE"}, <<Flag("bySequence"), Balanced("")>>)>>)>>),
        At({"PARTITION"}, <<When({"BY"}, <<May({"RANGE"}), Balanced("partitionColumns"), Balanced("partitions")>>)>>),
        At({"DISTRIBUTE"}, <<When({"BY"}, <<Switch(<<
            At({"HASH"}, <<Put("distributeBy", <<"HASH">>), Balanced("distributeOn")>>),
            At({"REPLICATION"}, <<Put("distributeBy", <<"REPLICATION">>)>>)>>)>>)>>),
        At({"DATA"}, <<When({"CAPTURE"}, <<Word({"CHANGES", "NONE"}, "dataCapture")>>)>>),
        At({"VOLATILE"}, <<Flag("volatile"), May({"CARDINALITY"})>>),
        At({"NOT_LOGGED"}, <<Flag("notLogged"), May({"INITIALLY"})>>), At({"LOGGED"}, <<May({"INITIALLY"})>>),
        At({"VALUE"}, <<When({"COMPRESSION"}, <<Flag("inRow")>>)>>), At({","}, <<>>)>>)>>)

tableElement ==
    <<Switch(<<See({"CONSTRAINT", "PRIMARY", "UNIQUE", "FOREIGN", "CHECK"},
                   <<Sub("constraints", "CONSTRAINT", parseTableConstraint)>>),
               Else(<<Sub("columns", "COLUMN", parseColumnDef)>>)>>)>>
parseCreateTable ==
    <<Node("TABLE", {"orReplace", "temporary"}), IfNotExists, Val("ref", "name"),
      Switch(<<At({"("}, <<List(tableElement), Must(")"), parseTableTrailingOptions>>), Else(<<Err>>)>>)>>

parseCreateIndex ==
    <<Node("INDEX", {"unique"}), Val("ref", "name"), Must("ON"), Val("ref", "table"),
      Switch(<<See({"("}, parseIndexedColList)>>), When({"INCLUDE"}, <<Balanced("")>>), ToEnd>>

-----------------------------------------------------------------------------
(* Views and sequences. *)

\* a query that nothing ends is lost
parseCreateView ==
    <<Node("VIEW", {"orReplace"}), Val("ref", "name"),
      When({"("}, <<Val("names", "columns"), Must(")")>>), Must("AS"), Text({"<end>", "<check option>"}, "select"),
      Switch(<<See({"EOF"}, <<Node("VIEW", {"orReplace", "name", "columns"})>>)>>),
      When({"WITH"}, <<Word({"CASCADED", "LOCAL"}, "check"), Must("CHECK"), Must("OPTION"), Flag("checkOption")>>)>>

parseCreateSequence ==
    <<Node("SEQUENCE", {"orReplace"}), IfNotExists, Val("ref", "name"), When({"AS"}, <<Val("type", "")>>),
      Loop(<<
        Leave(See({"<end>"}, <<>>)),
        At({"START"}, <<May({"WITH"}), Val("int", "start")>>), At({"INCREMENT"}, <<May({"BY"}), Val("int", "increment")>>),
        At({"MAXVALUE"}, <<Val("int", "max")>>), At({"NOMAXVALUE", "NO_MAXVALUE"}, <<Flag("noMax")>>),
        At({"MINVALUE"}, <<Val("int", "min")>>), At({"NOMINVALUE"}, <<Flag("noMin")>>),
        At({"CYCLE"}, <<Put("cycle", Yes)>>), At({"NOCYCLE"}, <<Put("cycle", No)>>),
        At({"CACHE"}, <<Val("int", "cache")>>), At({"NOCACHE"}, <<Flag("noCache")>>),
        At({"NO"}, <<Switch(<<
            At({"MAXVALUE"}, <<Flag("noMax")>>), At({"MINVALUE"}, <<Flag("noMin")>>), At({"CYCLE"}, <<Put("cycle", No)>>),
            At({"CACHE"}, <<Flag("noCache")>>), At({"ORDER"}, <<>>)>>)>>),
        At({"<any>"}, <<>>)>>)>>

-----------------------------------------------------------------------------
(* Routines and triggers: a head, and a body as text. *)

routineBody == Switch(<<See({"BEGIN"}, <<Val("block", "body")>>), Else(<<Val("statement", "body")>>)>>)
skipRoutineAttrs ==
    Loop(<<
        Leave(See({"<end>", "BEGIN", "RETURN"}, <<>>)),
        At({"LANGUAGE"}, <<Val("ident", "language")>>), At({"DETERMINISTIC"}, <<Put("deterministic", Yes)>>),
        At({"NOT"}, <<When({"DETERMINISTIC"}, <<Put("deterministic", No)>>)>>),
        At({"READS"}, <<May({"SQL"}), May({"DATA"}), Put("dataAccess", <<"READS">>)>>),
        At({"MODIFIES"}, <<May({"SQL"}), May({"DATA"}), Put("dataAccess", <<"MODIFIES">>)>>),
        At({"CONTAINS"}, <<May({"SQL"}), Put("dataAccess", <<"CONTAINS">>)>>),
        At({"NO"}, <<When({"SQL"}, <<Put("dataAccess", <<"NO">>)>>)>>),
        At({"SPECIFIC"}, <<Val("ident", "")>>), At({"INHERIT"}, <<May({"SPECIAL"}), May({"REGISTERS"})>>),
        At({"EXTERNAL"}, <<May({"ACTION"})>>), At({"PARAMETER"}, <<When({"STYLE"}, <<Val("ident", "")>>)>>),
        At({"FENCED", "THREADSAFE", "VARIANT"}, <<>>)>>)
\* the parameters are read over
parseCreateProcedure == <<Node("PROCEDURE", {}), Val("ref", "name"), Balanced(""), skipRoutineAttrs, routineBody>>
parseCreateFunction ==
    <<Node("FUNCTION", {}), Val("ref", "name"), Balanced(""),
      When({"RETURNS"}, <<Switch(<<At({"TABLE"}, <<Balanced("")>>), Else(<<Val("type", "returns")>>)>>)>>),
      skipRoutineAttrs, routineBody>>

\* the columns of UPDATE OF, with or without parentheses, are dropped
parseColumnListLoose ==
    Switch(<<At({"("}, <<Val("names", ""), Must(")")>>), See({"<name>"}, <<Val("names", "")>>)>>)
triggerEvent ==
    <<Switch(<<SeePair({"UPDATE"}, {"OF"}, <<Add(Word({"<any>"}, "events")), May({"OF"}), parseColumnListLoose>>),
               See({"INSERT", "UPDATE", "DELETE"}, <<Add(Word({"<any>"}, "events"))>>)>>)>>
Alias(f) == <<May({"ROW"}), May({"AS"}), Word({"<ident>"}, f)>>
triggerClauses ==
    <<When({"ON"}, <<Val("ref", "table")>>),
      When({"REFERENCING"}, <<Loop(<<At({"NEW"}, Alias("newAlias")), At({"OLD"}, Alias("oldAlias")),
                                     At({"NEW_TABLE", "OLD_TABLE"}, <<May({"AS"}), May({"<ident>"})>>)>>)>>),
      When({"FOR"}, <<When({"EACH"}, <<Switch(<<At({"ROW"}, <<Put("forEachRow", Yes), Flag("hasForEach")>>),
                                                At({"STATEMENT"}, <<Flag("hasForEach")>>)>>)>>)>>),
      When({"MODE"}, <<May({"DB2SQL"})>>), When({"WHEN"}, <<Balanced("when")>>)>>
parseCreateTrigger ==
    <<Node("TRIGGER", {}), Val("ref", "name"),
      Switch(<<See({"BEFORE", "AFTER"}, <<Word({"<any>"}, "time")>>),
               At({"INSTEAD"}, <<Must("OF"), Put("time", <<"INSTEAD", "OF">>)>>)>>)>> \o triggerEvent \o
    <<Loop(<<At({"OR"}, triggerEvent)>>)>> \o triggerClauses \o <<routineBody>>

-----------------------------------------------------------------------------
(* ALTER and DROP. *)

parseAlterAdd ==
    <<Switch(<<
        See({"CONSTRAINT", "PRIMARY", "UNIQUE", "FOREIGN", "CHECK"},
            <<Node("ADD_CONSTRAINT", {}), Sub("constraint", "CONSTRAINT", parseTableConstraint)>>),
        Else(<<Node("ADD_COLUMN", {}), May({"COLUMN"}), Sub("column", "COLUMN", parseColumnDef)>>)>>)>>
Dropped(kind) == <<Node(kind, {}), Val("ident", "name")>>
parseAlterDrop ==
    <<Switch(<<
        At({"CONSTRAINT"}, Dropped("DROP_CONSTRAINT")),
        At({"COLUMN"}, Dropped("DROP_COLUMN") \o <<May({"CASCADE", "RESTRICT"})>>),
        At({"PRIMARY"}, <<Must("KEY"), Node("DROP_CONSTRAINT", {})>>),
        At({"FOREIGN"}, <<Must("KEY")>> \o Dropped("DROP_CONSTRAINT")),
        Else(parseNoopToStmtEnd)>>)>>
Nullable(x) == <<Node("MODIFY_COLUMN", {"name"}), Must("NULL"), Put("notNull", x)>>
parseAlterColumn ==
    <<Val("ident", "name"),
      Switch(<<
        AtPair({"SET"}, {"DEFAULT"}, <<Node("SET_DEFAULT", {"name"}), parseDefaultExpr("default")>>),
        AtPair({"SET"}, {"NOT"}, Nullable(Yes)),
        AtPair({"DROP"}, {"DEFAULT"}, <<Node("DROP_DEFAULT", {"name"})>>),
        AtPair({"DROP"}, {"NOT"}, Nullable(No)),
        Else(<<Node("NOOP", {"name"}), May({"SET", "DROP"}), Val("statement", "text")>>)>>)>>
Action(g) == <<Sub("actions", "ACTION", g), May({","})>>
parseAlterTable ==
    <<Node("ALTER TABLE", {}), Val("ref", "name"),
      Loop(<<
        Leave(See({"<end>"}, <<>>)),
        At({"ADD"}, Action(parseAlterAdd)), At({"DROP"}, Action(parseAlterDrop)),
        AtPair({"ALTER"}, {"COLUMN"}, Action(parseAlterColumn)), At({"ALTER"}, Action(parseAlterColumn)),
        AtPair({"RENAME"}, {"COLUMN"}, Action(<<Node("RENAME_COLUMN", {}), Val("ident", "oldName"), Must("TO"), Val("ident", "newName")>>)),
        AtPair({"RENAME"}, {"TO"}, Action(<<Node("RENAME_TABLE", {}), Val("ident", "newName")>>)),
        At({"RENAME"}, <<May({","})>>),
        Leave(Else(<<Sub("actions", "NOOP", <<Val("statement", "text")>>)>>))>>)>>
parseAlter == <<Switch(<<At({"TABLE"}, parseAlterTable), Else(parseNoopToStmtEnd)>>)>>

parseDropObject(w, kind) ==
    At({w}, <<Node(kind, {}), When({"IF"}, <<May({"EXISTS"}), Flag("ifExists")>>), Val("ref", "name"),
              Loop(<<Leave(See({"<end>"}, <<>>)), At({"CASCADE"}, <<Flag("cascade")>>),
                     At({"RESTRICT"}, <<Flag("restrict")>>), At({"<any>"}, <<>>)>>)>>)
parseDrop ==
    <<Switch(<<
        At({"TABLE"}, <<Node("DROP TABLE", {}), When({"IF"}, <<Must("EXISTS"), Flag("ifExists")>>),
                        List(<<Add(Val("ref", "names"))>>), ToEnd>>),
        parseDropObject("INDEX", "DROP INDEX"), parseDropObject("VIEW", "DROP VIEW"),
        parseDropObject("SEQUENCE", "DROP SEQUENCE"), parseDropObject("PROCEDURE", "DROP PROCEDURE"),
        parseDropObject("FUNCTION", "DROP FUNCTION"), parseDropObject("TRIGGER", "DROP TRIGGER"),
        parseDropObject("ALIAS", "DROP ALIAS"), parseDropObject("SYNONYM", "DROP SYNONYM"),
        parseDropObject("TYPE", "DROP TYPE"), Else(parseNoopToStmtEnd)>>)>>

-----------------------------------------------------------------------------
(* CREATE, and the statements. *)

parseCreateAlias == <<May({"<any>"})>> \o parseNoopToStmtEnd
NoCounterpart ==
    {"TYPE", "MODULE", "PACKAGE", "TABLESPACE", "BUFFERPOOL", "STOGROUP", "DATABASE", "SCHEMA", "ROLE", "USER", "AUXILIARY"}
parseCreate ==
    <<When({"OR"}, <<Must("REPLACE"), Flag("orReplace")>>),
      Loop(<<At({"UNIQUE"}, <<Flag("unique")>>), AtPair({"GLOBAL"}, {"TEMPORARY"}, <<Flag("temporary")>>),
             Leave(At({"GLOBAL"}, <<>>)), At({"CLUSTER", "LARGE", "REGULAR", "SYSTEM"}, <<>>)>>),
      Switch(<<
        At({"TABLE"}, parseCreateTable), At({"INDEX"}, parseCreateIndex), At({"VIEW"}, parseCreateView),
        At({"SEQUENCE"}, parseCreateSequence), At({"TRIGGER"}, parseCreateTrigger),
        At({"PROCEDURE"}, parseCreateProcedure), At({"FUNCTION"}, parseCreateFunction),
        See({"ALIAS", "SYNONYM"}, parseCreateAlias), See(NoCounterpart, parseNoopToStmtEnd), Else(<<Err, Nil>>)>>)>>

parseAnonymousBlock == <<Node("NOOP", {}), Val("block", "text")>>
parseStatement ==
    <<Switch(<<
        At({"CREATE"}, parseCreate), At({"ALTER"}, parseAlter), At({"DROP"}, parseDrop),
        See({"TRUNCATE", "RENAME", "COMMENT", "LABEL", "GRANT", "REVOKE", "SET", "CALL", "INSERT", "UPDATE", "DELETE",
             "MERGE", "SELECT", "WITH"}, parseNoopToStmtEnd),
        See({"BEGIN", "DECLARE"}, parseAnonymousBlock),
        Else(<<Err, Nil>>)>>)>>
=============================================================================
