------------------------------ MODULE TableDDL ------------------------------
(***************************************************************************)
(* From the tables of a source schema to the tables, keys, indexes and     *)
(* sequences of the target: translateTable, translateColumn,               *)
(* translateAlterTable, translateCreateIndex, harmonizeFKTypes and         *)
(* buildDDL of internal/translate/translator.go, followed by the two       *)
(* scripts they produce, which create_ddl executes before the data is      *)
(* copied and create_fk afterwards, each in one transaction.               *)
(*                                                                         *)
(* A table has a key column id and another column ref.  A foreign key      *)
(* leads from one of them to the key of a table.  Names of relations are   *)
(* sequences of words, which the translator glues together with "_".       *)
(***************************************************************************)
EXTENDS Integers, Sequences, FiniteSets, SequencesExt, TLC

CONSTANTS TdTables,   \* the tables of the dump, in its order
          TdShapes,   \* what a table may look like
          TdLoads     \* [max |-> greatest key, counter |-> AUTO_INCREMENT]

(* A shape: the type of each column, whether id is AUTO_INCREMENT, whether  *)
(* the table is partitioned, the foreign key (from = "" for none), and the  *)
(* names of its indexes.  late says that the primary key and the indexes    *)
(* follow in statements of their own, as DBMS_METADATA writes them.         *)
TdColumns == {"id", "ref"}
NoFK == [from |-> "", to |-> "", noValidate |-> FALSE, disabled |-> FALSE]
SourceTables == Range(TdTables)

ASSUME TdAssumption ==
    /\ TdTables \in Seq(STRING)
    /\ SourceTables \cap {"", "elsewhere"} = {}
    /\ \A s \in TdShapes :
          /\ s \in [type : [TdColumns -> STRING], auto : BOOLEAN, parts : BOOLEAN, late : BOOLEAN,
                    indexes : Seq(Seq(STRING)),
                    fk : [from : TdColumns \cup {""}, to : STRING, noValidate : BOOLEAN,
                          disabled : BOOLEAN]]
          /\ s.fk.from = "" <=> s.fk.to = ""
    /\ TdLoads \subseteq [max : Nat, counter : Nat]

VARIABLES tdShape,    \* table -> its source definition
          tdLoad,       \* table -> the keys the source has used
          tdTodo,       \* statements still to translate
          tdPlan,       \* SchemaPlan
          tdPrereqs,    \* foreign keys reported as prerequisites
          tdPhase,      \* what comes next
          pg            \* the target database

tdVars == <<tdShape, tdLoad, tdTodo, tdPlan, tdPrereqs, tdPhase, pg>>

\* the statements of one table, in the order of the dump
StmtsOf(t) ==
    <<[kind |-> "table", table |-> t]>> \o
    (IF ~tdShape[t].late THEN <<>>
     ELSE <<[kind |-> "alter", table |-> t]>> \o
          [i \in 1..Len(tdShape[t].indexes) |->
              [kind |-> "index", table |-> t, name |-> tdShape[t].indexes[i]]])

EmptyPlan == [tables |-> <<>>, indexes |-> <<>>, fks |-> <<>>, pre |-> <<>>, post |-> <<>>]

TdStart ==
    /\ tdTodo = FlattenSeq([i \in 1..Len(TdTables) |-> StmtsOf(TdTables[i])])
    /\ tdPlan = EmptyPlan
    /\ tdPrereqs = {}
    /\ tdPhase = "translate"
    /\ pg = [ok |-> TRUE, rels |-> {}, tables |-> <<>>, unique |-> {}, fks |-> {}, next |-> <<>>]

TdInit ==
    /\ tdShape \in [SourceTables -> TdShapes]
    /\ \A t \in SourceTables : tdShape[t].fk.to \in SourceTables \cup {"", "elsewhere"}
    /\ tdLoad \in [SourceTables -> TdLoads]
    /\ TdStart

-----------------------------------------------------------------------------
(* Statements into the plan. *)

\* AUTO_INCREMENT of a NUMERIC column: a sequence of its own
SeqName(t) == <<t, "id", "seq">>
OwnSequence(s) == s.auto /\ s.type["id"] = "numeric"

\* Mutant: an identity column without a restart.
BugNoRestart(t, s) ==
    IF s.auto /\ OwnSequence(s) THEN <<[do |-> "setval", table |-> t, floor |-> 0]>> ELSE <<>>

\* emitIdentityRestarts and the setval of translateColumn
IdentityRestart(t, s) ==
    IF ~s.auto THEN <<>>
    ELSE IF OwnSequence(s) THEN <<[do |-> "setval", table |-> t, floor |-> 0]>>
    ELSE <<[do |-> "restart", table |-> t, floor |-> tdLoad[t].counter]>>

IndexOf(t, name) == [table |-> t, name |-> name]

\* translateColumn for each column, and the key unless it follows later
TableOf(t, s) == [name |-> t, type |-> s.type, pk |-> ~s.late, parts |-> s.parts,
                  sequence |-> OwnSequence(s)]

\* the foreign keys of the table that are not disabled (dropDisabledConstraint)
TableFKs(t, s) ==
    IF s.fk.from = "" \/ s.fk.disabled THEN <<>>
    ELSE <<[table |-> t, from |-> s.fk.from, to |-> s.fk.to, noValidate |-> s.fk.noValidate]>>

\* its secondary indexes
TableIndexes(t, s) ==
    IF s.late THEN <<>> ELSE [i \in 1..Len(s.indexes) |-> IndexOf(t, s.indexes[i])]

\* translateTable
TranslateTable(t) ==
    LET s == tdShape[t]
    IN  tdPlan' = [tdPlan EXCEPT
            !.tables = Append(@, TableOf(t, s)),
            !.pre = IF OwnSequence(s) THEN Append(@, [do |-> "sequence", name |-> SeqName(t)]) ELSE @,
            !.indexes = @ \o TableIndexes(t, s),
            !.fks = @ \o TableFKs(t, s),
            !.post = @ \o IdentityRestart(t, s)]

\* translateAlterTable: ADD CONSTRAINT ... PRIMARY KEY is merged into the table
TranslateAlterTable(t) ==
    tdPlan' = [tdPlan EXCEPT !.tables =
        [i \in 1..Len(@) |-> IF @[i].name = t THEN [@[i] EXCEPT !.pk = TRUE] ELSE @[i]]]

\* translateCreateIndex
TranslateCreateIndex(t, name) ==
    tdPlan' = [tdPlan EXCEPT !.indexes = Append(@, IndexOf(t, name))]

TranslateStmt ==
    /\ tdPhase = "translate"
    /\ tdTodo # <<>>
    /\ LET st == Head(tdTodo)
       IN  \/ st.kind = "table" /\ TranslateTable(st.table)
           \/ st.kind = "alter" /\ TranslateAlterTable(st.table)
           \/ st.kind = "index" /\ TranslateCreateIndex(st.table, st.name)
    /\ tdTodo' = Tail(tdTodo)
    /\ UNCHANGED <<tdShape, tdLoad, tdPrereqs, tdPhase, pg>>

-----------------------------------------------------------------------------
(* The plan into scripts. *)

At(tables, t) == CHOOSE i \in 1..Len(tables) : tables[i].name = t
Known(tables, t) == \E i \in 1..Len(tables) : tables[i].name = t

\* Mutant: the referenced column takes the type of the foreign key.
BugTowardsChild(tables, fk) ==
    IF ~Known(tables, fk.to) THEN tables
    ELSE [tables EXCEPT ![At(tables, fk.to)].type["id"] = tables[At(tables, fk.table)].type[fk.from]]

\* harmonizeFKTypes, one foreign key: its column takes the referenced type
Harmonize(tables, fk) ==
    IF ~Known(tables, fk.to) THEN tables
    ELSE [tables EXCEPT ![At(tables, fk.table)].type[fk.from] = tables[At(tables, fk.to)].type["id"]]

harmonizeFKTypes(plan) ==
    LET after[i \in 0..Len(plan.fks)] ==
            IF i = 0 THEN plan.tables ELSE Harmonize(after[i - 1], plan.fks[i])
    IN  [plan EXCEPT !.tables = after[Len(plan.fks)]]

Candidates(idx) ==
    <<<<idx.table>> \o idx.name>> \o
    [n \in 1..Len(tdPlan.indexes) |-> (<<idx.table>> \o idx.name) \o <<ToString(n + 1)>>]

\* dedupeIndexNames, one index: the first name that no earlier index has
Dedupe(done, idx) ==
    LET seen == {done[i].name : i \in 1..Len(done)}
        c == Candidates(idx)
        free == {i \in 1..Len(c) : c[i] \notin seen}
    IN  Append(done, IF idx.name \notin seen THEN idx
                     ELSE [idx EXCEPT !.name = c[CHOOSE i \in free : \A j \in free : i <= j]])

dedupeIndexNames(indexes) == FoldLeft(Dedupe, <<>>, indexes)

AddFK(plan, fk) ==
    [do |-> "fk", fk |-> fk, notValid |-> ~plan.tables[At(plan.tables, fk.table)].parts]

\* Mutant: no foreign key is validated, as if each were ENABLE NOVALIDATE.
BugNeverValidate(plan, fk) == IF Known(plan.tables, fk.to) THEN <<AddFK(plan, fk)>> ELSE <<>>

\* A foreign key of buildDDL: nothing if it leads out of the schema, else NOT
\* VALID and then VALIDATE, but for a partitioned table in one statement.
FKStmts(plan, fk) ==
    LET add == AddFK(plan, fk)
    IN  IF ~Known(plan.tables, fk.to) THEN <<>>
        ELSE IF add.notValid /\ ~fk.noValidate THEN <<add, [do |-> "validate", fk |-> fk]>>
        ELSE <<add>>

\* buildDDL: what create_ddl and what create_fk executes
DDLScript(plan) ==
    plan.pre \o [i \in 1..Len(plan.tables) |-> [do |-> "table", table |-> plan.tables[i]]]

DDLPostCopy(plan) ==
    [i \in 1..Len(plan.indexes) |-> [do |-> "index", index |-> dedupeIndexNames(plan.indexes)[i]]]
    \o FlattenSeq([i \in 1..Len(plan.fks) |-> FKStmts(plan, plan.fks[i])])
    \o plan.post

\* the end of Translate
FinishTranslate ==
    /\ tdPhase = "translate"
    /\ tdTodo = <<>>
    /\ tdPlan' = harmonizeFKTypes(tdPlan)
    /\ tdPrereqs' = {fk \in Range(tdPlan.fks) : ~Known(tdPlan.tables, fk.to)}
    /\ tdPhase' = "create_ddl"
    /\ UNCHANGED <<tdShape, tdLoad, tdTodo, pg>>

-----------------------------------------------------------------------------
(* The scripts on PostgreSQL. *)

Failed(db) == [db EXCEPT !.ok = FALSE]

\* f with a value for k, unless it has one
Extend(f, k, v) == [x \in DOMAIN f \cup {k} |-> IF x \in DOMAIN f THEN f[x] ELSE v]

CreateTable(db, tab) ==
    IF \/ {<<tab.name>>, <<tab.name, "pkey">>} \cap db.rels # {}
       \/ tab.sequence /\ SeqName(tab.name) \notin db.rels
    THEN Failed(db)
    ELSE [db EXCEPT
            !.rels = @ \cup {<<tab.name>>} \cup (IF tab.pk THEN {<<tab.name, "pkey">>} ELSE {}),
            !.tables = Extend(@, tab.name, [type |-> tab.type, parts |-> tab.parts]),
            !.unique = IF tab.pk THEN @ \cup {tab.name} ELSE @,
            !.next = IF tab.sequence THEN @ ELSE Extend(@, <<tab.name, "identity">>, 1)]

AddForeignKey(db, fk, notValid) ==
    IF \/ {fk.table, fk.to} \ DOMAIN db.tables # {}
       \/ fk.to \notin db.unique
       \/ db.tables[fk.table].type[fk.from] # db.tables[fk.to].type["id"]
       \/ notValid /\ db.tables[fk.table].parts
    THEN Failed(db)
    ELSE [db EXCEPT !.fks = @ \cup {[table |-> fk.table, from |-> fk.from, to |-> fk.to,
                                     valid |-> ~notValid]}]

\* a statement: it fails for a name that is taken, a relation that is missing,
\* a foreign key that has no unique key to refer to or another type, and NOT
\* VALID on a partitioned table
Execute(db, st) ==
    IF ~db.ok THEN db
    ELSE CASE st.do = "sequence" ->
            IF st.name \in db.rels THEN db
            ELSE [db EXCEPT !.rels = @ \cup {st.name}, !.next = Extend(@, st.name, 1)]
      [] st.do = "table" -> CreateTable(db, st.table)
      [] st.do = "index" ->
            IF st.index.name \in db.rels \/ st.index.table \notin DOMAIN db.tables THEN Failed(db)
            ELSE [db EXCEPT !.rels = @ \cup {st.index.name}]
      [] st.do = "fk" -> AddForeignKey(db, st.fk, st.notValid)
      [] st.do = "validate" ->
            [db EXCEPT !.fks = {IF f.table = st.fk.table /\ f.from = st.fk.from
                                THEN [f EXCEPT !.valid = TRUE] ELSE f : f \in @}]
      [] st.do = "setval" ->     \* setval(seq, COALESCE(max(id), 1))
            [db EXCEPT !.next[SeqName(st.table)] =
                           (IF tdLoad[st.table].max = 0 THEN 1 ELSE tdLoad[st.table].max) + 1]
      [] st.do = "restart" ->    \* setval(seq, GREATEST(floor, max(id) + 1), false)
            [db EXCEPT !.next[<<st.table, "identity">>] =
                           IF st.floor > tdLoad[st.table].max + 1 THEN st.floor
                           ELSE tdLoad[st.table].max + 1]

\* the database after each statement of a script
Run(db, script) ==
    LET after[i \in 0..Len(script)] == IF i = 0 THEN db ELSE Execute(after[i - 1], script[i])
    IN  after[Len(script)]

RunScript(phase, script, then) ==
    /\ tdPhase = phase
    /\ pg' = Run(pg, script)
    /\ tdPhase' = then
    /\ UNCHANGED <<tdShape, tdLoad, tdTodo, tdPlan, tdPrereqs>>

\* hCreateDDL and hCreateFK; the copy in between adds the rows of tdLoad
CreateDDLStep == RunScript("create_ddl", DDLScript(tdPlan), "create_fk")
CreateFKStep == pg.ok /\ RunScript("create_fk", DDLPostCopy(tdPlan), "done")

TdNext == TranslateStmt \/ FinishTranslate \/ CreateDDLStep \/ CreateFKStep

TdSpec == TdInit /\ [][TdNext]_tdVars

-----------------------------------------------------------------------------
(* Properties. *)

\* Every statement of both scripts succeeds on an empty schema: relations have
\* the names no other has, and each is there before something refers to it
\* (buildDDL, dedupeIndexNames).  Chains of foreign keys are excluded:
\* harmonizeFKTypes may leave their ends with different types.
Chain == \E t \in SourceTables :
            /\ tdShape[t].fk.from = "id"
            /\ \E u \in SourceTables : u # t /\ tdShape[u].fk.to = t
ScriptsRun == ~Chain => pg.ok

\* In the end each foreign key of the source is enforced on the target for the
\* rows that were copied and for new ones, unless it was disabled or not
\* validated in the source, or is a prerequisite for the user (buildDDL).
ForeignKeysArrive ==
    tdPhase = "done" /\ pg.ok =>
        \A t \in SourceTables :
            LET fk == tdShape[t].fk
                arrived == {f \in pg.fks : f.table = t /\ f.from = fk.from}
            IN  IF fk.from = "" \/ fk.disabled \/ fk.to = "elsewhere"
                THEN /\ arrived = {}
                     /\ fk.to = "elsewhere" /\ ~fk.disabled => \E p \in tdPrereqs : p.table = t
                ELSE \E f \in arrived :
                        f.to = fk.to /\ (f.valid \/ fk.noValidate)

\* The key that the target generates first is none of those that were copied,
\* and for an identity column none that the source has generated before
\* (emitIdentityRestarts, translateColumn).
NextKeyIsFresh ==
    tdPhase = "done" /\ pg.ok =>
        \A t \in SourceTables :
            tdShape[t].auto =>
                IF OwnSequence(tdShape[t])
                THEN pg.next[SeqName(t)] > tdLoad[t].max
                ELSE pg.next[<<t, "identity">>] >= tdLoad[t].counter
============================================================================
