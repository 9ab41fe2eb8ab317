------------------------------ MODULE Triggers ------------------------------
(***************************************************************************)
(* How the translator (internal/translate/translator.go) carries the       *)
(* triggers of a source schema to PostgreSQL, and what the create_routine  *)
(* steps make of them.                                                     *)
(*                                                                         *)
(* The CREATE TRIGGER statements are translated one by one, after the      *)
(* tables and views; the ALTER TRIGGER statements that Oracle emits beside *)
(* them are buffered and drained afterwards.  Each resulting routine is    *)
(* then executed by its own create_routine step, in a transaction, in any  *)
(* order and, as the queue delivers at least once, possibly twice.         *)
(*                                                                         *)
(* Trigger names are sequences of letters, because PostgreSQL fires the    *)
(* triggers of one event in the order of their names, byte by byte, and    *)
(* the translator compares them in lower case and renames them by a        *)
(* prefix.  Of a body only the sections of a compound trigger matter.      *)
(***************************************************************************)
EXTENDS Integers, Sequences, FiniteSets, SequencesExt

CONSTANTS
    TrgNames,      \* trigger names: sequences of Letters
    MaxTriggers    \* bound: triggers with an order in one schema

\* Bytes: "A" is 65, "Z" 90, "_" 95, "a" 97, "z" 122.  Without "#", which
\* normalizeOracleIdent replaces: the ALTER of such a trigger does not find it.
Letters == 0..255 \ {35}

\* strings.ToLower
ToLower(s) == [i \in 1..Len(s) |-> IF s[i] \in 65..90 THEN s[i] + 32 ELSE s[i]]

zz == <<122, 122, 95>>
aa == <<97, 97, 95>>

ASSUME TrgNamesAssumption == TrgNames \subseteq Seq(Letters) /\ IsFiniteSet(TrgNames)

\* The translator finds triggers by their names in lower case: no two differ in
\* case alone, and none has the name that autoRenameForOrder gives another.
ASSUME CaseAssumption ==
    \A n, m \in TrgNames :
        ToLower(m) \in {ToLower(n), ToLower(zz \o n), ToLower(aa \o n)} => m = n

VARIABLES trgKind,      \* Options.SourceKind: "oracle" or "mysql"
          trgDump,      \* name -> the source trigger
          trgTodo,      \* CREATE TRIGGER statements still to translate
          trgAlters,    \* pendingAlterTriggers: names
          triggerTable, \* name -> table, Skipped or "" (translator.triggerTable)
          routines,     \* Plan.Routines: a set, the steps are not ordered
          reported,     \* triggers an explanation or a prerequisite names
          applied,      \* routines whose create_routine step has committed
          pgTriggers    \* pg_trigger on the target

trgVars == <<trgKind, trgDump, trgTodo, trgAlters, triggerTable, routines,
             reported, applied, pgTriggers>>

-----------------------------------------------------------------------------
(* Names. *)

\* strings compared as Go and PostgreSQL compare them
Before(s, t) ==
    \/ IsStrictPrefix(s, t)
    \/ \E i \in 1..Len(s) : /\ i <= Len(t) /\ s[i] < t[i]
                            /\ \A j \in 1..(i - 1) : s[j] = t[j]

\* Mutant: PRECEDES is taken for FOLLOWS.
BugFollowsOnly(name, ref, order) ==
    IF order # "" /\ ~Before(ToLower(ref), ToLower(name)) THEN zz \o name ELSE name

\* autoRenameForOrder: "zz_" or "aa_" in front of the name, if the names in
\* lower case are not in the order asked for.  The name keeps its case.
autoRenameForOrder(name, ref, order) ==
    CASE order = "FOLLOWS" /\ ~Before(ToLower(ref), ToLower(name))  -> zz \o name
      [] order = "PRECEDES" /\ ~Before(ToLower(name), ToLower(ref)) -> aa \o name
      [] OTHER -> name

-----------------------------------------------------------------------------
(* Compound triggers. *)

Sections == {"before_stmt", "before_row", "after_row", "after_stmt"}

\* A compound body is a sequence of tokens: the header and the end marker of
\* a section, the section's own statements, and a declaration shared by all.
Tokens == {<<"decl", "shared">>} \cup ({"is", "body", "end"} \X Sections)

FirstAt(toks, tok, from) ==
    LET at == {i \in from..Len(toks) : toks[i] = tok}
    IN  IF at = {} THEN 0 ELSE Min(at)

\* splitCompoundTriggerSections: the first header of each kind, its text up
\* to the first end marker of that kind; nothing if a marker is missing.
splitCompoundTriggerSections(toks) ==
    LET hits == {k \in Sections : FirstAt(toks, <<"is", k>>, 1) > 0}
        start(k) == FirstAt(toks, <<"is", k>>, 1)
        end(k) == FirstAt(toks, <<"end", k>>, start(k) + 1)
    IN  IF \E k \in hits : end(k) = 0 THEN {}
        ELSE {[section  |-> k,
               body     |-> SubSeq(toks, start(k) + 1, end(k) - 1),
               preamble |-> SubSeq(toks, 1, Min({start(h) : h \in hits}) - 1)] : k \in hits}

\* The body that has the sections ks, with or without their end markers.
Marks(closed) == IF closed THEN <<"is", "body", "end">> ELSE <<"is", "body">>
CompoundBody(shared, ks, closed) ==
    LET w == Len(Marks(closed))
    IN  (IF shared THEN <<<<"decl", "shared">>>> ELSE <<>>) \o
        [i \in 1..(w * Len(ks)) |->
            <<Marks(closed)[((i - 1) % w) + 1], ks[((i - 1) \div w) + 1]>>]

-----------------------------------------------------------------------------
(* Source triggers. *)

\* Where a trigger hangs: a table or a view of the plan, or neither.
Relations == {"table", "view", "absent"}

Plain(kind) ==
    [class : {"plain"}, table : Relations, timing : {"BEFORE", "AFTER"},
     event : {"INSERT", "DELETE"}, order : {""}, ref : {<<>>}, enabled : IF kind = "oracle" THEN BOOLEAN ELSE {TRUE},
     toks : {<<>>}]

OnTable(classes, orders, refs, bodies) ==
    [class : classes, table : {"table"}, timing : {"BEFORE"}, event : {"INSERT"},
     order : orders, ref : refs, enabled : BOOLEAN, toks : bodies]

SectionLists ==
    {ks \in UNION {[1..n -> Sections] : n \in 1..4} : IsInjective(ks)}

CompoundBodies ==
    {CompoundBody(b[1], b[2], b[3]) : b \in BOOLEAN \X SectionLists \X BOOLEAN}

\* The shapes of a trigger that is alone in its schema, and of one of several.
AloneShapes(kind) ==
    Plain(kind)
    \cup (IF kind = "mysql" THEN {}
          ELSE OnTable({"compound"}, {""}, {<<>>}, CompoundBodies)
               \cup OnTable({"system", "internal"}, {""}, {<<>>}, {<<>>}))

OrderedShapes(names) ==
    OnTable({"plain"}, {"FOLLOWS", "PRECEDES"}, names, {<<>>})
    \cup OnTable({"plain"}, {""}, {<<>>}, {<<>>})

\* FOLLOWS and PRECEDES name an existing trigger and lead to no cycle.
Precedes(dump) ==
    {p \in (DOMAIN dump) \X (DOMAIN dump) :
        \/ dump[p[2]].order = "FOLLOWS" /\ dump[p[2]].ref = p[1]
        \/ dump[p[1]].order = "PRECEDES" /\ dump[p[1]].ref = p[2]}

Orderable(dump) ==
    \E f \in [DOMAIN dump -> 1..Cardinality(DOMAIN dump)] :
        \A p \in Precedes(dump) : f[p[1]] < f[p[2]]

TrgDumps(kind) ==
    (UNION {[{n} -> AloneShapes(kind)] : n \in TrgNames})
    \cup (UNION {{d \in [ns -> OrderedShapes(ns)] : Orderable(d)} :
                    ns \in {q \in SUBSET TrgNames : Cardinality(q) \in 2..MaxTriggers}})

\* preCollectTriggerTables seeds the table of every trigger that has one.
TrgStart ==
    /\ trgTodo = DOMAIN trgDump
    /\ trgAlters = IF trgKind = "oracle" THEN DOMAIN trgDump ELSE {}
    /\ triggerTable = [n \in DOMAIN trgDump |->
                          IF trgDump[n].class = "system" THEN "" ELSE trgDump[n].table]
    /\ routines = {}
    /\ reported = {}
    /\ applied = {}
    /\ pgTriggers = {}

TrgInit ==
    /\ trgKind \in {"oracle", "mysql"}
    /\ trgDump \in TrgDumps(trgKind)
    /\ trgKind = "mysql" => \A n \in DOMAIN trgDump : trgDump[n].enabled
    /\ TrgStart

-----------------------------------------------------------------------------
(* Translation. *)

Routine(n, name, timing) ==
    [src |-> n, name |-> name, table |-> trgDump[n].table, timing |-> timing,
     event |-> trgDump[n].event, alter |-> ""]

InPlan(s) == s.table # "absent"

\* translateTrigger, first branch: a comment instead of a trigger
SkipSystemTrigger(n) ==
    /\ trgDump[n].class = "system"
    /\ reported' = reported \cup {n}
    /\ UNCHANGED <<routines, triggerTable>>

\* Mutant: the trigger is dropped without a word.
BugSilentSkip(n) ==
    /\ trgDump[n].class # "system"
    /\ ~InPlan(trgDump[n]) \/ trgDump[n].class = "internal"
    /\ triggerTable' = [triggerTable EXCEPT ![n] = "skipped"]
    /\ UNCHANGED <<routines, reported>>

\* second branch: no relation in the plan, or internal to Oracle
SkipTrigger(n) ==
    /\ trgDump[n].class # "system"
    /\ ~InPlan(trgDump[n]) \/ trgDump[n].class = "internal"
    /\ reported' = reported \cup {n}
    /\ triggerTable' = [triggerTable EXCEPT ![n] = "skipped"]
    /\ UNCHANGED routines

\* third branch: tryAutoSplitCompoundTrigger, or a prerequisite
TranslateCompound(n) ==
    LET s == trgDump[n]
        secs == splitCompoundTriggerSections(s.toks)
        timing(k) == IF k \in {"before_stmt", "before_row"} THEN "BEFORE" ELSE "AFTER"
        split == secs # {} /\ \A sec \in secs : sec.preamble = <<>>
    IN  /\ s.class = "compound"
        /\ routines' = IF split
                       THEN routines \cup {Routine(n, Append(n, sec.section), timing(sec.section))
                                           : sec \in secs}
                       ELSE routines
        /\ reported' = reported \cup {n}
        /\ triggerTable' = [triggerTable EXCEPT ![n] = "skipped"]

\* the rest: a function and a trigger, renamed if it is ordered
TranslatePlain(n) ==
    LET s == trgDump[n]
        name == autoRenameForOrder(n, s.ref, s.order)
    IN  /\ s.class = "plain"
        /\ InPlan(s)
        /\ routines' = routines \cup {Routine(n, name, s.timing)}
        /\ triggerTable' = [triggerTable EXCEPT ![n] = IF name = n THEN s.table ELSE "skipped"]
        /\ reported' = IF name = n THEN reported ELSE reported \cup {n}

TranslateTrigger(n) ==
    /\ n \in trgTodo
    /\ trgTodo' = trgTodo \ {n}
    /\ \/ SkipSystemTrigger(n)
       \/ SkipTrigger(n)
       \/ TranslateCompound(n)
       \/ TranslatePlain(n)
    /\ UNCHANGED <<trgKind, trgDump, trgAlters, applied, pgTriggers>>

\* Mutant: the ALTER is translated where it is met, before its trigger.
BugAlterFirst(n) ==
    /\ n \in trgAlters
    /\ trgAlters' = trgAlters \ {n}
    /\ UNCHANGED <<trgKind, trgDump, trgTodo, triggerTable, routines, reported, applied,
                   pgTriggers>>

\* translateAlterTrigger, for the ENABLE or DISABLE that comes with each
\* trigger of Oracle: dropped for a trigger that is skipped or on a view, else
\* appended to the DDL of the routine that has its name, whatever the case.
AlterTrigger(n) ==
    /\ trgTodo = {}
    /\ n \in trgAlters
    /\ trgAlters' = trgAlters \ {n}
    /\ routines' = IF triggerTable[n] = "table"
                   THEN {IF ToLower(r.name) = ToLower(n)
                         THEN [r EXCEPT !.alter = IF trgDump[n].enabled THEN "ENABLE" ELSE "DISABLE"]
                         ELSE r : r \in routines}
                   ELSE routines
    /\ UNCHANGED <<trgKind, trgDump, trgTodo, triggerTable, reported, applied, pgTriggers>>

-----------------------------------------------------------------------------
(* hCreateRoutine: DROP TRIGGER IF EXISTS, CREATE TRIGGER, and the ALTER, in *)
(* one transaction.                                                          *)

Created(r) ==
    [name |-> r.name, table |-> r.table, timing |-> r.timing, event |-> r.event,
     src |-> r.src, enabled |-> r.alter # "DISABLE"]

CreateRoutine(r) ==
    /\ trgTodo = {} /\ trgAlters = {}
    /\ applied' = applied \cup {r}
    /\ pgTriggers' = {t \in pgTriggers : <<t.table, t.name>> # <<r.table, r.name>>}
                     \cup {Created(r)}
    /\ UNCHANGED <<trgKind, trgDump, trgTodo, trgAlters, triggerTable, routines, reported>>

TrgNext ==
    \/ \E n \in DOMAIN trgDump : TranslateTrigger(n) \/ AlterTrigger(n)
    \/ \E r \in routines : CreateRoutine(r)

TrgSpec == TrgInit /\ [][TrgNext]_trgVars

-----------------------------------------------------------------------------
(* Properties. *)

TrgDone == trgTodo = {} /\ trgAlters = {} /\ applied = routines

\* A trigger that is disabled in the source does not fire on the target, as
\* long as it keeps its name (translateAlterTrigger): the ALTER is processed
\* after every CREATE and lands in the DDL that is executed with it.
DisabledStaysDisabled ==
    \A t \in pgTriggers :
        t.table = "table" /\ t.name = t.src => t.enabled = trgDump[t.src].enabled

\* Of two triggers of one event, t must fire before u, and u or t has no order
\* clause itself.
MustPrecede(t, u) ==
    /\ <<t.src, u.src>> \in Precedes(trgDump)
    /\ trgDump[t.src].order = "" \/ trgDump[u.src].order = ""

\* FOLLOWS and PRECEDES (autoRenameForOrder): the trigger that must fire first
\* has the smaller name on the target, if the two names sort in lower case as
\* they do as they are, and a name that got "aa_" in front does not refer to a
\* name with capitals, which all sort before "a".
FiringOrder ==
    \A t, u \in pgTriggers :
        /\ MustPrecede(t, u)
        /\ Before(t.src, u.src) <=> Before(ToLower(t.src), ToLower(u.src))
        /\ t.name # t.src => ToLower(u.src) = u.src
        => Before(t.name, u.name)

\* The comment on autoRenameForOrder: "Names are compared and emitted
\* lowercased", so that the firing order is the one that was asked for
\* whatever the case of the names.
OrderInEveryCase ==
    \A t, u \in pgTriggers : MustPrecede(t, u) => Before(t.name, u.name)

\* Every source trigger exists on the target, or a message to the user names
\* it, whatever the order of the create_routine steps and however often one is
\* executed: none replaces or removes the trigger of another.  The sections of
\* a compound trigger of Oracle become triggers with the statements of their
\* section and no others (splitCompoundTriggerSections).
NoTriggerLost ==
    /\ TrgDone =>
        /\ \A n \in DOMAIN trgDump : n \in reported \/ \E t \in pgTriggers : t.src = n
        /\ Cardinality(pgTriggers) = Cardinality(routines)
    /\ \A n \in DOMAIN trgDump :
        \A sec \in splitCompoundTriggerSections(trgDump[n].toks) :
            sec.body = <<<<"body", sec.section>>>>

============================================================================
