-------------------------- MODULE TranslateProofs --------------------------
(***************************************************************************)
(* The translator's triggers and tables, for every source schema.          *)
(*                                                                         *)
(*   - Triggers, for every set of names: the translation keeps what is     *)
(*     disabled and loses no trigger.  For names that sort on the right    *)
(*     side of the prefixes of autoRenameForOrder (OrdinaryNames) it keeps *)
(*     the firing order wherever the case of the names allows it.          *)
(*   - Tables, for every number of them, with any columns, keys, indexes   *)
(*     and foreign keys: after both scripts the target generates fresh     *)
(*     keys, and enforces the foreign keys of the source.                  *)
(*                                                                         *)
(* The recursive functions of TableDDL (harmonizeFKTypes, Run) and         *)
(* FlattenSeq are reasoned about by induction over a set of indices, UpTo. *)
(***************************************************************************)
EXTENDS Triggers, TableDDL, FiniteSetTheorems, SequenceTheorems, NaturalsInduction,
        WellFoundedInduction, TLAPS

-----------------------------------------------------------------------------
(* Triggers.                                                               *)

\* What the source lets one write: only ordered triggers have a reference, to
\* another trigger; a trigger of another class is alone in the dumps here.
DumpOK ==
    /\ trgKind \in {"oracle", "mysql"}
    /\ DOMAIN trgDump \subseteq TrgNames
    /\ trgKind = "mysql" => \A n \in DOMAIN trgDump : trgDump[n].enabled
    /\ \A n \in DOMAIN trgDump :
          /\ trgDump[n].class \in {"plain", "compound", "system", "internal"}
          /\ trgDump[n].order \in {"", "FOLLOWS", "PRECEDES"}
          /\ trgDump[n].order # "" => trgDump[n].ref \in DOMAIN trgDump \ {n}
          /\ trgDump[n].enabled \in BOOLEAN
          /\ trgDump[n].class # "plain" => DOMAIN trgDump = {n} /\ trgDump[n].order = ""
          /\ trgDump[n].toks \in {<<>>} \cup CompoundBodies

LEMMA DumpsOK ==
    ASSUME TrgInit
    PROVE  DumpOK
<1>1. trgKind \in {"oracle", "mysql"}
  BY DEF TrgInit
<1>2. trgKind = "mysql" => \A n \in DOMAIN trgDump : trgDump[n].enabled
  BY DEF TrgInit
<1>3. CASE \E m \in TrgNames : trgDump \in [{m} -> AloneShapes(trgKind)]
  <2>1. PICK m \in TrgNames : trgDump \in [{m} -> AloneShapes(trgKind)]
    BY <1>3
  <2>2. \A s \in AloneShapes(trgKind) :
          /\ s.class \in {"plain", "compound", "system", "internal"}
          /\ s.order = ""
          /\ s.enabled \in BOOLEAN
          /\ s.toks \in {<<>>} \cup CompoundBodies
    BY <1>1 DEF AloneShapes, Plain, OnTable
  <2> QED BY <1>1, <1>2, <2>1, <2>2 DEF DumpOK
<1>4. CASE \E ns \in SUBSET TrgNames : trgDump \in [ns -> OrderedShapes(ns)] /\ Orderable(trgDump)
  <2>1. PICK ns \in SUBSET TrgNames : trgDump \in [ns -> OrderedShapes(ns)] /\ Orderable(trgDump)
    BY <1>4
  <2>2. \A s \in OrderedShapes(ns) :
          /\ s.class = "plain"
          /\ s.order \in {"", "FOLLOWS", "PRECEDES"}
          /\ s.order # "" => s.ref \in ns
          /\ s.enabled \in BOOLEAN
          /\ s.toks = <<>>
    BY DEF OrderedShapes, OnTable
  <2>3. ASSUME NEW n \in ns, trgDump[n].order # "", trgDump[n].ref = n PROVE FALSE
    <3>1. trgDump[n].order \in {"FOLLOWS", "PRECEDES"} /\ DOMAIN trgDump = ns
      BY <2>1, <2>2, <2>3
    <3>2. <<n, n>> \in Precedes(trgDump)
      BY <2>3, <3>1 DEF Precedes
    <3>3. PICK f \in [DOMAIN trgDump -> 1..Cardinality(DOMAIN trgDump)] :
             \A p \in Precedes(trgDump) : f[p[1]] < f[p[2]]
      BY <2>1 DEF Orderable
    <3>4. f[n] < f[n] /\ f[n] \in Int
      BY <3>1, <3>2, <3>3
    <3> QED BY <3>4
  <2> QED BY <1>1, <1>2, <2>1, <2>2, <2>3 DEF DumpOK
<1>5. trgDump \in TrgDumps(trgKind)
  BY DEF TrgInit
<1>6. \/ \E m \in TrgNames : trgDump \in [{m} -> AloneShapes(trgKind)]
      \/ \E ns \in SUBSET TrgNames : trgDump \in {d \in [ns -> OrderedShapes(ns)] : Orderable(d)}
  BY <1>5 DEF TrgDumps
<1> QED BY <1>3, <1>4, <1>6

Wanted(n) == IF trgDump[n].enabled THEN "ENABLE" ELSE "DISABLE"

\* A routine comes from a trigger that has been translated, and is named after
\* it.
FromTrigger(r) ==
    /\ r = [src |-> r.src, name |-> r.name, table |-> r.table, timing |-> r.timing,
            event |-> r.event, alter |-> r.alter]
    /\ r.src \in DOMAIN trgDump \ trgTodo
    /\ r.table = trgDump[r.src].table
    /\ \/ /\ trgDump[r.src].class = "plain"
          /\ r.name = autoRenameForOrder(r.src, trgDump[r.src].ref, trgDump[r.src].order)
       \/ /\ trgDump[r.src].class = "compound"
          /\ \E k \in Sections : r.name = Append(r.src, k)

\* The ALTER of a trigger that keeps its name is still to come, or it is in the
\* DDL of the routine.
AlterArrives(r) ==
    r.name = r.src /\ r.table = "table" =>
        /\ triggerTable[r.src] = "table"
        /\ IF trgKind = "mysql" THEN r.alter = ""
           ELSE r.src \in trgAlters \/ r.alter = Wanted(r.src)

\* ALTERs are translated after all triggers, and routines executed after both.
Phases ==
    /\ trgTodo \subseteq DOMAIN trgDump /\ trgAlters \subseteq DOMAIN trgDump
    /\ trgKind = "mysql" => trgAlters = {}
    /\ trgKind = "oracle" /\ trgTodo # {} => trgAlters = DOMAIN trgDump
    /\ applied \subseteq routines
    /\ applied # {} => trgTodo = {} /\ trgAlters = {}

TrgInv ==
    /\ DumpOK /\ Phases
    /\ triggerTable = [n \in DOMAIN trgDump |-> triggerTable[n]]
    /\ \A r \in routines : FromTrigger(r) /\ AlterArrives(r)
    /\ \A n \in DOMAIN trgDump \ trgTodo : n \in reported \/ \E r \in routines : r.src = n
    /\ \A t \in pgTriggers : \E r \in applied : t = Created(r)

\* The name of a section's trigger is longer than the name it is made of.
LEMMA SectionNames ==
    ASSUME DumpOK, NEW n \in DOMAIN trgDump, NEW k
    PROVE  Append(n, k) # n
<1>1. n \in Seq(Letters)
  BY TrgNamesAssumption DEF DumpOK
<1>2. Len(Append(n, k)) = Len(n) + 1 /\ Len(n) \in Nat
  BY <1>1
<1> QED BY <1>2

\* Routines of one more trigger.
LEMMA MoreRoutines ==
    ASSUME TrgInv, NEW n \in trgTodo,
           trgTodo' = trgTodo \ {n}, routines \subseteq routines',
           UNCHANGED <<trgKind, trgDump, trgAlters, applied, pgTriggers>>,
           triggerTable' = [triggerTable EXCEPT ![n] = triggerTable'[n]],
           reported \subseteq reported',
           \A r \in routines' \ routines : FromTrigger(r)' /\ AlterArrives(r)',
           n \in reported' \/ \E r \in routines' : r.src = n
    PROVE  TrgInv'
<1> USE DEF TrgInv
<1>1. n \in DOMAIN trgDump
  BY DEF Phases
<1>2. DumpOK' /\ Phases'
  BY DEF DumpOK, Phases, CompoundBodies, CompoundBody
<1>3. triggerTable' = [m \in DOMAIN trgDump |-> triggerTable'[m]]
  OBVIOUS
<1>4. \A r \in routines : FromTrigger(r)'
  BY DEF FromTrigger
<1>5. ASSUME NEW r \in routines PROVE AlterArrives(r)'
  <2>1. r.src # n /\ r.src \in DOMAIN trgDump
    BY DEF FromTrigger
  <2>2. triggerTable'[r.src] = triggerTable[r.src]
    BY <2>1
  <2> QED BY <2>2 DEF AlterArrives, Wanted
<1>6. \A m \in DOMAIN trgDump \ trgTodo' : m \in reported' \/ \E r \in routines' : r.src = m
  OBVIOUS
<1>7. \A t \in pgTriggers' : \E r \in applied' : t = Created(r)
  OBVIOUS
<1> QED BY <1>2, <1>3, <1>4, <1>5, <1>6, <1>7

\* The sections a compound trigger is split into.
LEMMA SectionsOfSplit ==
    ASSUME NEW toks, NEW sec \in splitCompoundTriggerSections(toks)
    PROVE  sec.section \in Sections
<1> DEFINE hits == {k \in Sections : FirstAt(toks, <<"is", k>>, 1) > 0}
           start(k) == FirstAt(toks, <<"is", k>>, 1)
           end(k) == FirstAt(toks, <<"end", k>>, start(k) + 1)
           pre == SubSeq(toks, 1, Min({start(h) : h \in hits}) - 1)
           txt(k) == SubSeq(toks, start(k) + 1, end(k) - 1)
<1>1. \/ splitCompoundTriggerSections(toks) = {}
      \/ splitCompoundTriggerSections(toks) =
            {[section |-> k, body |-> txt(k), preamble |-> pre] : k \in hits}
  BY Zenon DEF splitCompoundTriggerSections
<1>2. hits \subseteq Sections
  OBVIOUS
<1> HIDE DEF hits, start, end, pre, txt
<1> QED BY <1>1, <1>2

\* translateTrigger keeps the invariant.
LEMMA TranslateTriggerKeeps ==
    ASSUME TrgInv, NEW n \in DOMAIN trgDump, TranslateTrigger(n)
    PROVE  TrgInv'
<1>1. /\ n \in trgTodo /\ trgTodo' = trgTodo \ {n}
      /\ UNCHANGED <<trgKind, trgDump, trgAlters, applied, pgTriggers>>
  BY DEF TranslateTrigger
<1>2. DumpOK /\ triggerTable = [m \in DOMAIN trgDump |-> triggerTable[m]]
  BY DEF TrgInv
<1>3. trgKind = "mysql" \/ n \in trgAlters'
  BY <1>1 DEF TrgInv, DumpOK, Phases
<1>4. CASE SkipSystemTrigger(n)
  <2>1. triggerTable' = [triggerTable EXCEPT ![n] = triggerTable'[n]]
    BY <1>2, <1>4 DEF SkipSystemTrigger
  <2>2. routines' = routines /\ reported' = reported \cup {n}
    BY <1>4 DEF SkipSystemTrigger
  <2>3. /\ routines \subseteq routines' /\ reported \subseteq reported' /\ n \in reported'
        /\ \A r \in routines' \ routines : FromTrigger(r)' /\ AlterArrives(r)'
    BY <2>2
  <2> QED BY <1>1, <2>1, <2>3, MoreRoutines
<1>5. CASE SkipTrigger(n)
  <2>1. triggerTable' = [triggerTable EXCEPT ![n] = triggerTable'[n]]
    BY <1>2, <1>5 DEF SkipTrigger
  <2>2. routines' = routines /\ reported' = reported \cup {n}
    BY <1>5 DEF SkipTrigger
  <2>3. /\ routines \subseteq routines' /\ reported \subseteq reported' /\ n \in reported'
        /\ \A r \in routines' \ routines : FromTrigger(r)' /\ AlterArrives(r)'
    BY <2>2
  <2> QED BY <1>1, <2>1, <2>3, MoreRoutines
<1>6. CASE TranslateCompound(n)
  <2>1. triggerTable' = [triggerTable EXCEPT ![n] = triggerTable'[n]]
    BY <1>2, <1>6 DEF TranslateCompound
  <2>2. trgDump[n].class = "compound" /\ reported' = reported \cup {n}
    BY <1>6 DEF TranslateCompound
  <2> DEFINE Tm(k) == IF k \in {"before_stmt", "before_row"} THEN "BEFORE" ELSE "AFTER"
             Rt(k) == Routine(n, Append(n, k), Tm(k))
  <2>3. \/ routines' = routines
        \/ routines' = routines \cup {Rt(sec.section) :
                                        sec \in splitCompoundTriggerSections(trgDump[n].toks)}
    BY <1>6 DEF TranslateCompound
  <2>4. ASSUME NEW k \in Sections, NEW r, r = Rt(k) PROVE FromTrigger(r)' /\ AlterArrives(r)'
    <3>1. r.src = n /\ r.name = Append(n, k)
      BY <2>4 DEF Routine
    <3>2. AlterArrives(r)'
      BY <1>1, <1>2, <3>1, SectionNames DEF AlterArrives
    <3>3. FromTrigger(r)'
      BY <1>1, <2>2, <2>4 DEF FromTrigger, Routine
    <3> QED BY <3>2, <3>3
  <2> HIDE DEF Rt
  <2>5. \A r \in routines' \ routines : \E k \in Sections : r = Rt(k)
    BY <2>3, SectionsOfSplit
  <2>6. routines \subseteq routines' /\ reported \subseteq reported' /\ n \in reported'
    BY <2>2, <2>3
  <2>7. \A r \in routines' \ routines : FromTrigger(r)' /\ AlterArrives(r)'
    BY <2>4, <2>5
  <2> QED BY <1>1, <2>1, <2>6, <2>7, MoreRoutines
<1>7. CASE TranslatePlain(n)
  <2> DEFINE s == trgDump[n]
             nm == autoRenameForOrder(n, s.ref, s.order)
             Rt == Routine(n, nm, s.timing)
  <2>1. /\ s.class = "plain"
        /\ routines' = routines \cup {Rt}
        /\ triggerTable' = [triggerTable EXCEPT ![n] = IF nm = n THEN s.table ELSE "skipped"]
        /\ reported' = IF nm = n THEN reported ELSE reported \cup {n}
    BY <1>7 DEF TranslatePlain
  <2>2. triggerTable' = [triggerTable EXCEPT ![n] = triggerTable'[n]]
    BY <1>2, <2>1
  <2>3. ASSUME NEW r, r = Rt PROVE FromTrigger(r)' /\ AlterArrives(r)' /\ r.src = n
    <3>1. r.src = n /\ r.name = nm /\ r.table = s.table /\ r.alter = ""
      BY <2>3 DEF Routine
    <3>2. nm = n => triggerTable'[n] = s.table
      BY <1>2, <2>1
    <3>3. trgKind \in {"mysql", "oracle"} /\ (trgKind = "mysql" \/ n \in trgAlters')
      BY <1>2, <1>3 DEF DumpOK
    <3>4. AlterArrives(r)'
      BY <1>1, <3>1, <3>2, <3>3 DEF AlterArrives
    <3>5. FromTrigger(r)'
      BY <1>1, <2>1, <2>3 DEF FromTrigger, Routine
    <3> QED BY <3>1, <3>4, <3>5
  <2> HIDE DEF Rt
  <2>4. /\ routines \subseteq routines' /\ reported \subseteq reported'
        /\ \E r \in routines' : r.src = n
        /\ \A r \in routines' \ routines : FromTrigger(r)' /\ AlterArrives(r)'
    BY <2>1, <2>3
  <2> QED BY <1>1, <2>2, <2>4, MoreRoutines
<1> QED BY <1>4, <1>5, <1>6, <1>7 DEF TranslateTrigger

\* translateAlterTrigger keeps the invariant.
LEMMA AlterTriggerKeeps ==
    ASSUME TrgInv, NEW n \in DOMAIN trgDump, AlterTrigger(n)
    PROVE  TrgInv'
<1>1. /\ trgTodo = {} /\ n \in trgAlters /\ trgAlters' = trgAlters \ {n}
      /\ UNCHANGED <<trgKind, trgDump, trgTodo, triggerTable, reported, applied, pgTriggers>>
  BY DEF AlterTrigger
<1> DEFINE Alt(r) == [r EXCEPT !.alter = Wanted(n)]
           Same(r) == ToLower(r.name) = ToLower(n)
<1>2. \/ triggerTable[n] # "table" /\ routines' = routines
      \/ triggerTable[n] = "table" /\ routines' = {IF Same(r) THEN Alt(r) ELSE r : r \in routines}
  BY DEF AlterTrigger, Wanted
<1>3. applied = {} /\ trgKind # "mysql"
  BY <1>1 DEF TrgInv, Phases
<1>4. ASSUME NEW r \in routines, NEW q, q = Alt(r)
      PROVE  /\ FromTrigger(q)' /\ FromTrigger(r)'
             /\ q.src = r.src /\ q.name = r.name /\ q.alter = Wanted(n)
             /\ q.table = r.table
  BY <1>1, <1>4 DEF TrgInv, FromTrigger
<1>5. ASSUME NEW r \in routines, NEW q, q = Alt(r), triggerTable[n] = "table", Same(r)
      PROVE  AlterArrives(q)'
  <2> SUFFICES ASSUME q.name = q.src, q.table = "table"
               PROVE  triggerTable[q.src] = "table" /\ q.alter = Wanted(q.src)'
    BY <1>1, <1>3 DEF AlterArrives
  <2>1. q.src = n /\ q.alter = Wanted(n)
    <3>1. q.src = r.src /\ q.name = r.name /\ q.alter = Wanted(n)
      BY <1>4, <1>5
    <3>2. r.src \in TrgNames /\ n \in TrgNames
      BY DEF TrgInv, FromTrigger, DumpOK
    <3>3. ToLower(r.src) = ToLower(n)
      BY <1>5, <3>1
    <3>4. n = r.src
      BY ONLY <3>2, <3>3, CaseAssumption
    <3> QED BY <3>1, <3>4
  <2> QED BY <1>1, <1>5, <2>1 DEF Wanted
<1>6. ASSUME NEW r \in routines, triggerTable[n] # "table" \/ ~Same(r) PROVE AlterArrives(r)'
  BY <1>1, <1>6 DEF TrgInv, AlterArrives, Wanted
<1> HIDE DEF Alt, Same
<1>7. ASSUME NEW q \in routines' PROVE FromTrigger(q)' /\ AlterArrives(q)'
  <2>1. PICK r \in routines :
           \/ q = r /\ (triggerTable[n] # "table" \/ ~Same(r))
           \/ q = Alt(r) /\ triggerTable[n] = "table" /\ Same(r)
    BY <1>2
  <2> QED BY <1>4, <1>5, <1>6, <2>1
<1>8. \A m \in DOMAIN trgDump : m \in reported \/ \E r \in routines' : r.src = m
  <2> TAKE m \in DOMAIN trgDump
  <2>1. m \in reported \/ \E r \in routines : r.src = m
    BY <1>1 DEF TrgInv
  <2>2. \A r \in routines : \E q \in routines' : q.src = r.src
    BY <1>2, <1>4
  <2> QED BY <2>1, <2>2
<1>9. DumpOK' /\ Phases'
  BY <1>1, <1>3 DEF TrgInv, DumpOK, Phases, CompoundBodies, CompoundBody
<1> QED BY <1>1, <1>3, <1>7, <1>8, <1>9 DEF TrgInv

\* The invariant of the translation of triggers.
LEMMA TrgInvariant == TrgSpec => []TrgInv
<1>1. TrgInit => TrgInv
  <2> SUFFICES ASSUME TrgInit PROVE TrgInv
    OBVIOUS
  <2>1. DumpOK
    BY DumpsOK
  <2>2. TrgStart
    BY DEF TrgInit
  <2> QED BY <2>1, <2>2 DEF TrgStart, TrgInv, Phases, DumpOK
<1>2. TrgInv /\ [TrgNext]_trgVars => TrgInv'
  <2> SUFFICES ASSUME TrgInv, [TrgNext]_trgVars PROVE TrgInv'
    OBVIOUS
  <2>1. ASSUME NEW r \in routines, CreateRoutine(r) PROVE TrgInv'
    <3>1. /\ trgTodo = {} /\ trgAlters = {}
          /\ applied' = applied \cup {r}
          /\ \A t \in pgTriggers' : t \in pgTriggers \/ t = Created(r)
          /\ UNCHANGED <<trgKind, trgDump, trgTodo, trgAlters, triggerTable, routines, reported>>
      BY <2>1 DEF CreateRoutine
    <3>2. DumpOK' /\ Phases'
      BY <3>1 DEF TrgInv, DumpOK, Phases, CompoundBodies, CompoundBody
    <3>3. \A q \in routines' : FromTrigger(q)' /\ AlterArrives(q)'
      BY <3>1 DEF TrgInv, FromTrigger, AlterArrives, Wanted
    <3>4. \A t \in pgTriggers' : \E q \in applied' : t = Created(q)
      BY <3>1 DEF TrgInv
    <3> QED BY <3>1, <3>2, <3>3, <3>4 DEF TrgInv
  <2>2. CASE UNCHANGED trgVars
    <3> USE <2>2 DEF trgVars
    <3>1. DumpOK' /\ Phases'
      BY DEF TrgInv, DumpOK, Phases, CompoundBodies, CompoundBody
    <3>2. \A q \in routines' : FromTrigger(q)' /\ AlterArrives(q)'
      BY DEF TrgInv, FromTrigger, AlterArrives, Wanted
    <3> QED BY <3>1, <3>2 DEF TrgInv
  <2> QED BY <2>1, <2>2, TranslateTriggerKeeps, AlterTriggerKeeps DEF TrgNext
<1> QED BY <1>1, <1>2, PTL DEF TrgSpec

\* A disabled trigger of the source does not fire on the target while it keeps
\* its name, in every schema: translateAlterTrigger finds each routine before
\* hCreateRoutine executes it.
THEOREM DisabledAreKept == TrgSpec => []DisabledStaysDisabled
<1>1. TrgInv => DisabledStaysDisabled
  <2> SUFFICES ASSUME TrgInv, NEW t \in pgTriggers, t.table = "table", t.name = t.src
               PROVE  t.enabled = trgDump[t.src].enabled
    BY DEF DisabledStaysDisabled
  <2>1. PICK r \in applied : t = Created(r)
    BY DEF TrgInv
  <2>2. /\ r \in routines /\ trgAlters = {} /\ FromTrigger(r) /\ AlterArrives(r)
        /\ t.enabled = (r.alter # "DISABLE") /\ t.src = r.src /\ t.name = r.name /\ t.table = r.table
    BY <2>1 DEF TrgInv, Phases, Created
  <2>3. /\ trgDump[r.src].enabled \in BOOLEAN
        /\ trgKind = "mysql" => trgDump[r.src].enabled
    BY <2>2 DEF TrgInv, DumpOK, FromTrigger
  <2>4. IF trgKind = "mysql" THEN r.alter = "" ELSE r.alter = Wanted(r.src)
    BY <2>2 DEF AlterArrives
  <2> QED BY <2>2, <2>3, <2>4 DEF Wanted
<1> QED BY <1>1, TrgInvariant, PTL

-----------------------------------------------------------------------------
(* Names of triggers.  The prefixes of autoRenameForOrder do what they are    *)
(* meant to only where no other name is in their way.                        *)

\* A name that sorts before every name that begins with zz_ and, unless it has
\* capitals, after every name that begins with aa_.
Ordinary(n) ==
    /\ Before(n, zz)
    /\ ToLower(n) = n => Before(aa, n) /\ ~IsPrefix(aa, n)
OrdinaryNames == \A n \in TrgNames : Ordinary(n)

LEMMA BeforeZZ ==
    ASSUME NEW n \in Seq(Letters), NEW m \in Seq(Letters), Before(n, zz)
    PROVE  Before(n, zz \o m) /\ n # zz \o m
<1>1. /\ Len(zz) = 3 /\ zz \in Seq(Letters)
      /\ Len(zz \o m) = 3 + Len(m) /\ Len(m) \in Nat /\ Len(n) \in Nat
      /\ \A j \in 1..3 : (zz \o m)[j] = zz[j]
  BY DEF zz, Letters
<1>2. CASE IsStrictPrefix(n, zz)
  <2>1. Len(n) < 3 /\ \A j \in 1..Len(n) : n[j] = zz[j]
    <3>1. Len(n) <= 3 /\ SubSeq(n, 1, Len(n)) = SubSeq(zz, 1, Len(n)) /\ n # zz
      BY <1>1, <1>2 DEF IsStrictPrefix, IsPrefix
    <3>2. \A j \in 1..Len(n) : SubSeq(n, 1, Len(n))[j] = n[j] /\ SubSeq(zz, 1, Len(n))[j] = zz[j]
      BY <1>1, <3>1
    <3>3. Len(n) = 3 => n = zz
      BY <1>1, <3>1, <3>2
    <3> QED BY <1>1, <3>1, <3>2, <3>3
  <2>2. SubSeq(n, 1, Len(n)) = SubSeq(zz \o m, 1, Len(n))
    BY <1>1, <2>1
  <2> QED BY <1>1, <2>1, <2>2 DEF Before, IsStrictPrefix, IsPrefix
<1>3. CASE ~IsStrictPrefix(n, zz)
  <2>1. PICK i \in 1..Len(n) : i <= 3 /\ n[i] < zz[i] /\ \A j \in 1..(i - 1) : n[j] = zz[j]
    BY <1>1, <1>3 DEF Before
  <2>2. i <= Len(zz \o m) /\ n[i] < (zz \o m)[i] /\ \A j \in 1..(i - 1) : n[j] = (zz \o m)[j]
    BY <1>1, <2>1
  <2>3. n[i] # (zz \o m)[i]
    <3>1. n[i] \in Letters /\ zz[i] \in Letters /\ (zz \o m)[i] = zz[i]
      BY <1>1, <2>1
    <3>2. \A x, y \in Letters : x < y => x # y
      BY DEF Letters
    <3> QED BY <2>1, <3>1, <3>2
  <2> QED BY <2>2, <2>3 DEF Before
<1> QED BY <1>2, <1>3

LEMMA BeforeAA ==
    ASSUME NEW n \in Seq(Letters), NEW m \in Seq(Letters), Before(aa, n), ~IsPrefix(aa, n)
    PROVE  Before(aa \o m, n) /\ n # aa \o m
<1>1. /\ Len(aa) = 3 /\ aa \in Seq(Letters)
      /\ Len(aa \o m) = 3 + Len(m) /\ Len(m) \in Nat /\ Len(n) \in Nat
      /\ \A j \in 1..3 : (aa \o m)[j] = aa[j]
  BY DEF aa, Letters
<1>2. PICK i \in 1..3 : i <= Len(n) /\ aa[i] < n[i] /\ \A j \in 1..(i - 1) : aa[j] = n[j]
  BY <1>1 DEF Before, IsStrictPrefix
<1>3. i \in 1..Len(aa \o m) /\ (aa \o m)[i] < n[i] /\ \A j \in 1..(i - 1) : (aa \o m)[j] = n[j]
  BY <1>1, <1>2
<1>4. n[i] # (aa \o m)[i]
  <2>1. n[i] \in Letters /\ aa[i] \in Letters /\ (aa \o m)[i] = aa[i]
    BY <1>1, <1>2
  <2>2. \A x, y \in Letters : x < y => x # y
    BY DEF Letters
  <2> QED BY <1>2, <2>1, <2>2
<1> QED BY <1>2, <1>3, <1>4 DEF Before

\* A prefix changes a name.
LEMMA OwnName ==
    ASSUME NEW n \in Seq(Letters)
    PROVE  zz \o n # n /\ aa \o n # n
<1>1. Len(zz \o n) = 3 + Len(n) /\ Len(aa \o n) = 3 + Len(n) /\ Len(n) \in Nat
  BY DEF zz, aa
<1> QED BY <1>1

\* FOLLOWS and PRECEDES are kept in every schema of ordinary names, with the two
\* exceptions that FiringOrder makes for capitals.
THEOREM OrderIsKept == OrdinaryNames => (TrgSpec => []FiringOrder)
<1> SUFFICES ASSUME OrdinaryNames PROVE TrgSpec => []FiringOrder
  OBVIOUS
<1>1. TrgInv => FiringOrder
  <2> SUFFICES ASSUME TrgInv, NEW t \in pgTriggers, NEW u \in pgTriggers,
                      <<t.src, u.src>> \in Precedes(trgDump),
                      trgDump[t.src].order = "" \/ trgDump[u.src].order = "",
                      Before(t.src, u.src) <=> Before(ToLower(t.src), ToLower(u.src)),
                      t.name # t.src => ToLower(u.src) = u.src
               PROVE  Before(t.name, u.name)
    BY DEF FiringOrder, MustPrecede
  <2> DEFINE d == trgDump
  <2>1. PICK r \in applied : t = Created(r)
    BY DEF TrgInv
  <2>2. PICK q \in applied : u = Created(q)
    BY DEF TrgInv
  <2>3. /\ t.src = r.src /\ t.name = r.name /\ u.src = q.src /\ u.name = q.name
        /\ FromTrigger(r) /\ FromTrigger(q) /\ DumpOK
    BY <2>1, <2>2 DEF TrgInv, Phases, Created
  <2>4. /\ t.src \in DOMAIN d /\ u.src \in DOMAIN d
        /\ \/ d[u.src].order = "FOLLOWS" /\ d[u.src].ref = t.src /\ d[t.src].order = ""
           \/ d[t.src].order = "PRECEDES" /\ d[t.src].ref = u.src /\ d[u.src].order = ""
    BY DEF Precedes
  <2>5. t.src # u.src
    BY <2>3, <2>4 DEF DumpOK
  <2>6. d[t.src].class = "plain" /\ d[u.src].class = "plain"
    <3>1. \A n \in DOMAIN d : d[n].class # "plain" => DOMAIN d = {n}
      BY <2>3 DEF DumpOK
    <3> QED BY <2>4, <2>5, <3>1
  <2>7. /\ t.name = autoRenameForOrder(t.src, d[t.src].ref, d[t.src].order)
        /\ u.name = autoRenameForOrder(u.src, d[u.src].ref, d[u.src].order)
    BY <2>3, <2>6 DEF FromTrigger
  <2>8. /\ t.src \in Seq(Letters) /\ u.src \in Seq(Letters)
        /\ Ordinary(t.src) /\ Ordinary(u.src)
    BY <2>3, <2>4, TrgNamesAssumption DEF DumpOK, OrdinaryNames
  <2>9. CASE d[u.src].order = "FOLLOWS" /\ d[u.src].ref = t.src /\ d[t.src].order = ""
    <3>1. t.name = t.src
      BY <2>7, <2>9 DEF autoRenameForOrder
    <3>2. u.name = IF Before(t.src, u.src) THEN u.src ELSE zz \o u.src
      BY <2>7, <2>9 DEF autoRenameForOrder
    <3> QED BY <2>8, <3>1, <3>2, BeforeZZ DEF Ordinary
  <2>10. CASE d[t.src].order = "PRECEDES" /\ d[t.src].ref = u.src /\ d[u.src].order = ""
    <3>1. u.name = u.src
      BY <2>7, <2>10 DEF autoRenameForOrder
    <3>2. t.name = IF Before(t.src, u.src) THEN t.src ELSE aa \o t.src
      BY <2>7, <2>10 DEF autoRenameForOrder
    <3>3. CASE t.name = t.src
      <4>1. Before(t.src, u.src) \/ aa \o t.src = t.src
        BY <3>2, <3>3
      <4>2. aa \o t.src # t.src
        BY <2>8, OwnName
      <4> QED BY <3>1, <3>3, <4>1, <4>2
    <3>4. CASE t.name # t.src
      <4>1. t.name = aa \o t.src /\ ToLower(u.src) = u.src
        BY <3>2, <3>4
      <4> QED BY <2>8, <3>1, <4>1, BeforeAA DEF Ordinary
    <3> QED BY <3>3, <3>4
  <2> QED BY <2>4, <2>9, <2>10
<1> QED BY <1>1, TrgInvariant, PTL

-----------------------------------------------------------------------------
(* One trigger on the target for each routine.                              *)

NamesOf(n) == {n, zz \o n, aa \o n}

\* Names behind one prefix.
LEMMA Prefixed ==
    ASSUME NEW p \in Seq(Letters), p # <<>>, NEW n \in Seq(Letters), NEW m \in Seq(Letters)
    PROVE  /\ p \o n = p \o m => n = m
           /\ (p \o n)[1] = p[1]
<1>1. Len(n) \in Nat /\ Len(m) \in Nat /\ Len(p) \in Nat
  OBVIOUS
<1>2. Len(p \o n) = Len(p) + Len(n) /\ Len(p \o m) = Len(p) + Len(m)
  OBVIOUS
<1>3. /\ \A j \in 1..Len(n) : n[j] = (p \o n)[j + Len(p)]
      /\ \A j \in 1..Len(m) : m[j] = (p \o m)[j + Len(p)]
  OBVIOUS
<1>4. ASSUME p \o n = p \o m PROVE n = m
  <2>1. Len(n) = Len(m)
    BY <1>1, <1>2, <1>4
  <2>2. \A j \in 1..Len(n) : n[j] = m[j]
    BY <1>3, <1>4, <2>1
  <2> QED BY <2>1, <2>2
<1>5. 1 \in 1..Len(p)
  OBVIOUS
<1>6. (p \o n)[1] = p[1]
  BY <1>5
<1> QED BY <1>4, <1>6

\* No name is made of another by a prefix, nor are two such names equal.
LEMMA DistinctNames ==
    ASSUME NEW n \in TrgNames, NEW m \in TrgNames,
           NEW x \in NamesOf(n), x \in NamesOf(m)
    PROVE  n = m
<1>1. n \in Seq(Letters) /\ m \in Seq(Letters)
  BY TrgNamesAssumption
<1>2. \A a, b \in {n, m} : a # zz \o b /\ a # aa \o b
  <2> SUFFICES ASSUME NEW a \in {n, m}, NEW b \in {n, m}, NEW p \in {zz, aa}, a = p \o b
               PROVE  FALSE
    OBVIOUS
  <2>1. ToLower(a) = ToLower(p \o b)
    OBVIOUS
  <2>2. a = b
    BY <2>1, CaseAssumption
  <2> QED BY <1>1, <2>2, OwnName
<1>3. zz \in Seq(Letters) /\ zz # <<>> /\ zz[1] = 122
  BY DEF zz, Letters
<1>4. aa \in Seq(Letters) /\ aa # <<>> /\ aa[1] = 97
  BY DEF aa, Letters
<1> DEFINE zn == zz \o n
           zm == zz \o m
           an == aa \o n
           am == aa \o m
<1>5. (zn = zm => n = m) /\ zn[1] = 122 /\ zm[1] = 122
  <2>1. (zz \o n = zz \o m => n = m) /\ (zz \o n)[1] = zz[1]
    BY <1>1, <1>3, Prefixed, Zenon
  <2>2. (zz \o m)[1] = zz[1]
    BY <1>1, <1>3, Prefixed, Zenon
  <2> QED BY <1>3, <2>1, <2>2, Zenon
<1>6. (an = am => n = m) /\ an[1] = 97 /\ am[1] = 97
  <2>1. (aa \o n = aa \o m => n = m) /\ (aa \o n)[1] = aa[1]
    BY <1>1, <1>4, Prefixed, Zenon
  <2>2. (aa \o m)[1] = aa[1]
    BY <1>1, <1>4, Prefixed, Zenon
  <2> QED BY <1>4, <2>1, <2>2, Zenon
<1>7. x \in {n, zn, an} /\ x \in {m, zm, am} /\ n \notin {zm, am} /\ m \notin {zn, an}
  BY <1>2, Zenon DEF NamesOf
<1> HIDE DEF zn, zm, an, am
<1>8. zn # am /\ an # zm
  BY <1>5, <1>6
<1> QED BY <1>5, <1>6, <1>7, <1>8, Zenon

\* The routines of different triggers have different names.
Named(d, r) ==
    /\ r.src \in DOMAIN d
    /\ d[r.src].class = "plain" => r.name = autoRenameForOrder(r.src, d[r.src].ref, d[r.src].order)

LEMMA DistinctRoutines ==
    ASSUME NEW d, DOMAIN d \subseteq TrgNames,
           \A n \in DOMAIN d : d[n].class # "plain" => DOMAIN d = {n},
           NEW r, NEW q, Named(d, r), Named(d, q), r.name = q.name
    PROVE  r.src = q.src
<1> SUFFICES ASSUME r.src # q.src PROVE FALSE
  OBVIOUS
<1>1. r.src \in TrgNames /\ q.src \in TrgNames
  BY DEF Named
<1>2. d[r.src].class = "plain" /\ d[q.src].class = "plain"
  BY DEF Named
<1>3. \A n, ref, o : autoRenameForOrder(n, ref, o) \in NamesOf(n)
  BY DEF autoRenameForOrder, NamesOf
<1>4. r.name \in NamesOf(r.src) /\ q.name \in NamesOf(q.src)
  BY <1>2, <1>3 DEF Named
<1> QED BY <1>1, <1>4, DistinctNames

\* The routines of one trigger: of different names, and finitely many.
LEMMA NewRoutines ==
    ASSUME TrgInv, NEW n \in DOMAIN trgDump, TranslateTrigger(n)
    PROVE  /\ routines \subseteq routines'
           /\ \A r \in routines' \ routines : r.src = n
           /\ \A r, q \in routines' \ routines : r.name = q.name => r = q
           /\ IsFiniteSet(routines' \ routines)
<1>1. CASE routines' = routines
  BY <1>1, FS_EmptySet
<1>2. CASE TranslatePlain(n)
  <2> DEFINE s == trgDump[n]
             Rt == Routine(n, autoRenameForOrder(n, s.ref, s.order), s.timing)
  <2>1. routines' = routines \cup {Rt} /\ Rt.src = n
    BY <1>2 DEF TranslatePlain, Routine
  <2> HIDE DEF Rt
  <2>2. PICK x : routines' = routines \cup {x} /\ x.src = n
    BY <2>1
  <2>3. IsFiniteSet({x})
    BY FS_Singleton
  <2>4. IsFiniteSet(routines' \ routines)
    BY <2>2, <2>3, FS_Subset
  <2> QED BY <2>2, <2>4
<1>3. CASE TranslateCompound(n)
  <2> DEFINE Tm(k) == IF k \in {"before_stmt", "before_row"} THEN "BEFORE" ELSE "AFTER"
             Rt(k) == Routine(n, Append(n, k), Tm(k))
             All == {Rt(k) : k \in Sections}
             f == [k \in Sections |-> Rt(k)]
  <2>1. \/ routines' = routines
        \/ routines' = routines \cup {Rt(sec.section) :
                                        sec \in splitCompoundTriggerSections(trgDump[n].toks)}
    BY <1>3 DEF TranslateCompound
  <2>2. \A k \in Sections : Rt(k).src = n /\ Rt(k).name = Append(n, k)
    BY DEF Routine
  <2> HIDE DEF Rt
  <2>3. routines' \ routines \subseteq All /\ routines \subseteq routines'
    BY <2>1, SectionsOfSplit
  <2>4. IsFiniteSet(Sections)
    <3>1. /\ IsFiniteSet({"before_stmt"})
          /\ Sections = {"before_stmt"} \cup {"before_row"} \cup {"after_row"} \cup {"after_stmt"}
      BY FS_Singleton DEF Sections
    <3>2. IsFiniteSet({"before_stmt"} \cup {"before_row"})
      BY <3>1, FS_AddElement
    <3>3. IsFiniteSet({"before_stmt"} \cup {"before_row"} \cup {"after_row"})
      BY <3>2, FS_AddElement
    <3> QED BY <3>1, <3>3, FS_AddElement
  <2>5. f \in Surjection(Sections, All)
    BY DEF Surjection
  <2>6. IsFiniteSet(All)
    BY <2>4, <2>5, FS_Surjection
  <2>7. ASSUME NEW k \in Sections, NEW l \in Sections, Append(n, k) = Append(n, l) PROVE k = l
    <3>1. n \in Seq(Letters)
      BY TrgNamesAssumption DEF TrgInv, DumpOK
    <3>2. /\ Len(n) + 1 \in 1..(Len(n) + 1)
          /\ Append(n, k)[Len(n) + 1] = k /\ Append(n, l)[Len(n) + 1] = l
      BY <3>1
    <3> QED BY <2>7, <3>2
  <2>8. \A r, q \in routines' \ routines : r.name = q.name => r = q
    BY <2>2, <2>3, <2>7
  <2>9. IsFiniteSet(routines' \ routines)
    BY <2>3, <2>6, FS_Subset
  <2> QED BY <2>2, <2>3, <2>8, <2>9
<1> QED BY <1>1, <1>2, <1>3 DEF TranslateTrigger, SkipSystemTrigger, SkipTrigger

\* No two routines have one name, and what is on the target is what the
\* executed ones have created.
OneEach ==
    /\ IsFiniteSet(routines)
    /\ \A r, q \in routines : r.name = q.name => r = q
    /\ pgTriggers = {Created(r) : r \in applied}

LEMMA OneEachStep ==
    ASSUME TrgInv, TrgInv', OneEach, [TrgNext]_trgVars
    PROVE  OneEach'
<1>1. ASSUME NEW n \in DOMAIN trgDump, TranslateTrigger(n) PROVE OneEach'
  <2>1. trgTodo' = trgTodo \ {n} /\ n \in trgTodo /\ UNCHANGED <<trgDump, applied, pgTriggers>>
    BY <1>1 DEF TranslateTrigger
  <2>2. /\ routines \subseteq routines'
        /\ \A r \in routines' \ routines : r.src = n
        /\ \A r, q \in routines' \ routines : r.name = q.name => r = q
        /\ IsFiniteSet(routines' \ routines)
    BY <1>1, NewRoutines
  <2>3. \A r \in routines : r.src # n
    BY <2>1 DEF TrgInv, FromTrigger
  <2>4. IsFiniteSet(routines')
    <3> DEFINE New == routines' \ routines
    <3>1. routines' = routines \cup New /\ IsFiniteSet(New) /\ IsFiniteSet(routines)
      BY <2>2 DEF OneEach
    <3> HIDE DEF New
    <3>2. IsFiniteSet(routines \cup New)
      BY <3>1, FS_Union
    <3> QED BY <3>1, <3>2
  <2>5. ASSUME NEW r \in routines', NEW q \in routines', r.name = q.name PROVE r = q
    <3>1. r.src = q.src
      <4>1. Named(trgDump, r) /\ Named(trgDump, q)
        BY <2>1 DEF TrgInv, FromTrigger, Named
      <4>2. /\ DOMAIN trgDump \subseteq TrgNames
            /\ \A m \in DOMAIN trgDump : trgDump[m].class # "plain" => DOMAIN trgDump = {m}
        BY DEF TrgInv, DumpOK
      <4> QED BY <2>5, <4>1, <4>2, DistinctRoutines
    <3> QED BY <2>2, <2>3, <2>5, <3>1 DEF OneEach
  <2> QED BY <2>1, <2>4, <2>5 DEF OneEach
<1>2. ASSUME NEW n \in DOMAIN trgDump, AlterTrigger(n) PROVE OneEach'
  <2> DEFINE Alt(r) == IF ToLower(r.name) = ToLower(n) THEN [r EXCEPT !.alter = Wanted(n)] ELSE r
             f == [r \in routines |-> Alt(r)]
  <2>1. /\ UNCHANGED <<trgDump, applied, pgTriggers>>
        /\ routines' = routines \/ routines' = {Alt(r) : r \in routines}
    BY <1>2 DEF AlterTrigger, Wanted
  <2>2. \A r \in routines : Alt(r).name = r.name
    BY DEF TrgInv, FromTrigger
  <2> HIDE DEF Alt
  <2>3. routines' = {Alt(r) : r \in routines} => f \in Surjection(routines, routines')
    BY DEF Surjection
  <2>4. IsFiniteSet(routines')
    BY <2>1, <2>3, FS_Surjection DEF OneEach
  <2>5. \A r, q \in routines' : r.name = q.name => r = q
    BY <2>1, <2>2 DEF OneEach
  <2>6. pgTriggers' = {Created(r) : r \in applied'}
    BY <2>1 DEF OneEach
  <2> QED BY <2>4, <2>5, <2>6 DEF OneEach
<1>3. ASSUME NEW r \in routines, CreateRoutine(r) PROVE OneEach'
  <2>1. /\ applied' = applied \cup {r} /\ routines' = routines
        /\ pgTriggers' = {t \in pgTriggers : <<t.table, t.name>> # <<r.table, r.name>>}
                         \cup {Created(r)}
    BY <1>3 DEF CreateRoutine
  <2>2. applied \subseteq routines
    BY DEF TrgInv, Phases
  <2>3. \A q \in routines : Created(q).name = q.name
    BY DEF Created
  <2>4. \A t \in pgTriggers : t.name = r.name => t = Created(r)
    BY <2>2, <2>3 DEF OneEach
  <2>5. pgTriggers' = {Created(q) : q \in applied'}
    BY <2>1, <2>4 DEF OneEach
  <2> QED BY <2>1, <2>5 DEF OneEach
<1>4. CASE UNCHANGED trgVars
  BY <1>4 DEF trgVars, OneEach
<1> QED BY <1>1, <1>2, <1>3, <1>4 DEF TrgNext

-----------------------------------------------------------------------------
(* The sections of a compound trigger.                                       *)

\* Where the tokens of a compound body are: behind c others, w for each section.
TokensAt(toks, ks, closed, c, w, N) ==
    /\ closed <=> w = 3
    /\ ks \in [1..N -> Sections] /\ IsInjective(ks)
    /\ toks \in Seq(Tokens) /\ Len(toks) = c + w * N
    /\ c = 1 => toks[1] = <<"decl", "shared">>
    /\ \A i \in 1..N : /\ toks[c + w * (i - 1) + 1] = <<"is", ks[i]>>
                       /\ toks[c + w * (i - 1) + 2] = <<"body", ks[i]>>
                       /\ w = 3 => toks[c + w * (i - 1) + 3] = <<"end", ks[i]>>

LEMMA TokensOfBody ==
    ASSUME NEW shared \in BOOLEAN, NEW ks \in SectionLists, NEW closed \in BOOLEAN
    PROVE  \E d \in {0, 1}, v \in {2, 3}, n \in 1..4 :
              TokensAt(CompoundBody(shared, ks, closed), ks, closed, d, v, n)
<1>1. PICK N \in 1..4 : ks \in [1..N -> Sections] /\ IsInjective(ks)
  BY DEF SectionLists
<1>2. Len(ks) = N
  BY <1>1
<1> DEFINE pre == IF shared THEN <<<<"decl", "shared">>>> ELSE <<>>
           w == Len(Marks(closed))
           tok(i) == <<Marks(closed)[((i - 1) % w) + 1], ks[((i - 1) \div w) + 1]>>
           rest == [i \in 1..(w * N) |-> tok(i)]
           c == IF shared THEN 1 ELSE 0
           toks == CompoundBody(shared, ks, closed)
<1>3. toks = pre \o rest
  BY <1>2 DEF CompoundBody
<1>4. w = (IF closed THEN 3 ELSE 2) /\ c \in {0, 1} /\ (c = 1 <=> shared)
  BY DEF Marks
<1>5. ASSUME NEW i \in 1..N, NEW a \in 1..w
      PROVE  /\ w * (i - 1) + a \in 1..(w * N)
             /\ tok(w * (i - 1) + a) = <<Marks(closed)[a], ks[i]>>
  <2>1. ASSUME NEW v \in {2, 3}, NEW b \in 1..v
        PROVE  /\ v * (i - 1) + b \in 1..(v * N)
               /\ ((v * (i - 1) + b - 1) % v) + 1 = b /\ ((v * (i - 1) + b - 1) \div v) + 1 = i
    <3>1. CASE v = 3
      BY <3>1
    <3>2. CASE v = 2
      BY <3>2
    <3> QED BY <3>1, <3>2
  <2>2. w \in {2, 3}
    BY <1>4
  <2> QED BY <2>1, <2>2
<1>6. ASSUME NEW p \in 1..(w * N) PROVE tok(p) \in Tokens
  <2>1. ((p - 1) % w) + 1 \in 1..w /\ ((p - 1) \div w) + 1 \in 1..N
    <3>1. CASE closed
      BY <1>1, <1>4, <3>1
    <3>2. CASE ~closed
      BY <1>1, <1>4, <3>2
    <3> QED BY <3>1, <3>2
  <2>2. \A a \in 1..w : Marks(closed)[a] \in {"is", "body", "end"}
    BY <1>4 DEF Marks
  <2>3. \A i \in 1..N : ks[i] \in Sections
    BY <1>1
  <2> QED BY <2>1, <2>2, <2>3 DEF Tokens
<1>7. w * N \in Nat
  BY <1>4
<1> HIDE DEF tok
<1>8. rest \in Seq(Tokens) /\ Len(rest) = w * N
  BY <1>6, <1>7
<1>9. pre \in Seq(Tokens) /\ Len(pre) = c
  BY DEF Tokens
<1>10. toks \in Seq(Tokens) /\ Len(toks) = c + w * N
  BY <1>3, <1>8, <1>9
<1>11. c = 1 => toks[1] = <<"decl", "shared">>
  BY <1>3, <1>8, <1>9
<1>12. \A p \in 1..(w * N) : toks[c + p] = tok(p)
  BY <1>3, <1>8, <1>9
<1>13. ASSUME NEW i \in 1..N
       PROVE  /\ toks[c + w * (i - 1) + 1] = <<"is", ks[i]>>
              /\ toks[c + w * (i - 1) + 2] = <<"body", ks[i]>>
              /\ w = 3 => toks[c + w * (i - 1) + 3] = <<"end", ks[i]>>
  <2>1. ASSUME NEW a \in 1..w PROVE toks[c + w * (i - 1) + a] = <<Marks(closed)[a], ks[i]>>
    <3>1. c + (w * (i - 1) + a) = c + w * (i - 1) + a
      BY <1>4
    <3> QED BY <1>5, <1>12, <3>1
  <2>2. /\ Marks(closed)[1] = "is" /\ Marks(closed)[2] = "body"
        /\ w = 3 => Marks(closed)[3] = "end"
    BY <1>4 DEF Marks
  <2> QED BY <1>4, <2>1, <2>2
<1>14. w \in {2, 3} /\ (closed <=> w = 3)
  BY <1>4
<1>15. TokensAt(toks, ks, closed, c, w, N)
  BY <1>1, <1>10, <1>11, <1>13, <1>14 DEF TokensAt
<1> HIDE DEF c, w
<1> QED BY <1>4, <1>14, <1>15

\* A section is cut out of its body at its own markers.
LEMMA SectionOfSplit ==
    ASSUME NEW toks, NEW sec \in splitCompoundTriggerSections(toks)
    PROVE  LET k == sec.section
               start == FirstAt(toks, <<"is", k>>, 1)
               end == FirstAt(toks, <<"end", k>>, start + 1)
           IN  /\ k \in Sections /\ start > 0 /\ end # 0
               /\ sec.body = SubSeq(toks, start + 1, end - 1)
<1> DEFINE hits == {k \in Sections : FirstAt(toks, <<"is", k>>, 1) > 0}
           start(k) == FirstAt(toks, <<"is", k>>, 1)
           end(k) == FirstAt(toks, <<"end", k>>, start(k) + 1)
           pre == SubSeq(toks, 1, Min({start(h) : h \in hits}) - 1)
           txt(k) == SubSeq(toks, start(k) + 1, end(k) - 1)
<1>1. IF \E k \in hits : end(k) = 0 THEN splitCompoundTriggerSections(toks) = {}
      ELSE splitCompoundTriggerSections(toks) =
            {[section |-> k, body |-> txt(k), preamble |-> pre] : k \in hits}
  BY Zenon DEF splitCompoundTriggerSections
<1>2. \A k \in hits : k \in Sections /\ start(k) > 0
  OBVIOUS
<1> HIDE DEF hits, start, end, pre, txt
<1>3. PICK k \in hits : sec = [section |-> k, body |-> txt(k), preamble |-> pre] /\ end(k) # 0
  BY <1>1
<1>4. /\ sec.section \in Sections /\ start(sec.section) > 0 /\ end(sec.section) # 0
      /\ sec.body = txt(sec.section)
  BY <1>2, <1>3
<1> QED BY <1>4 DEF start, end, txt

\* The least of some numbers.
LEMMA LeastNatural ==
    ASSUME NEW T \in SUBSET Nat, T # {}
    PROVE  \E n \in T : \A m \in T : n <= m
<1> DEFINE Less == OpToRel(<, Nat)
<1>1. IsWellFoundedOn(Less, Nat)
  BY NatLessThanWellFounded
<1>2. \A m, n \in Nat : m < n => <<m, n>> \in Less
  BY DEF OpToRel
<1> HIDE DEF Less
<1>3. \E n \in T : \A m \in T : ~(<<m, n>> \in Less)
  BY <1>1, WFMin
<1>4. PICK n \in T : \A m \in T : ~(<<m, n>> \in Less)
  BY <1>3
<1>5. \A m \in T : ~(m < n)
  BY <1>2, <1>4
<1>6. \A m \in T : n <= m
  BY <1>5
<1> QED BY <1>6

\* The place of a token that occurs once.
LEMMA FirstOfOne ==
    ASSUME NEW toks \in Seq(Tokens), NEW tok, NEW from \in Nat, NEW at \in Nat,
           \A i \in from..Len(toks) : toks[i] = tok => i = at
    PROVE  FirstAt(toks, tok, from) \in {0, at}
<1> DEFINE S == {i \in from..Len(toks) : toks[i] = tok}
<1>1. S = {} \/ S = {at}
  OBVIOUS
<1>2. S = {} => FirstAt(toks, tok, from) = 0
  BY DEF FirstAt
<1>3. S = {at} => FirstAt(toks, tok, from) = Min({at})
  BY DEF FirstAt
<1>4. Min({at}) = at
  BY DEF Min
<1> QED BY <1>1, <1>2, <1>3, <1>4

LEMMA Single ==
    ASSUME NEW S, NEW q \in Seq(S), Len(q) = 1
    PROVE  q = <<q[1]>>
OBVIOUS

LEMMA OneElement ==
    ASSUME NEW S, NEW q \in Seq(S), NEW j \in 1..Len(q)
    PROVE  SubSeq(q, j, j) = <<q[j]>>
<1>1. SubSeq(q, j, j) \in Seq(S) /\ Len(SubSeq(q, j, j)) = 1
  OBVIOUS
<1>2. SubSeq(q, j, j)[1] = q[j]
  OBVIOUS
<1>3. SubSeq(q, j, j) = <<SubSeq(q, j, j)[1]>>
  BY <1>1, Single, Zenon
<1> QED BY <1>2, <1>3, Zenon

\* A section that is split off holds its own statements and nothing else.
LEMMA SectionsAreOwn ==
    ASSUME NEW toks \in CompoundBodies, NEW sec \in splitCompoundTriggerSections(toks)
    PROVE  sec.body = <<<<"body", sec.section>>>>
<1>1. PICK b \in BOOLEAN \X SectionLists \X BOOLEAN : toks = CompoundBody(b[1], b[2], b[3])
  BY DEF CompoundBodies
<1> DEFINE ks == b[2]
           k == sec.section
           start == FirstAt(toks, <<"is", k>>, 1)
           end == FirstAt(toks, <<"end", k>>, start + 1)
<1>2. PICK c \in {0, 1}, w \in {2, 3}, N \in 1..4 : TokensAt(toks, ks, b[3], c, w, N)
  BY <1>1, TokensOfBody
<1>3. /\ k \in Sections /\ start > 0 /\ end # 0
      /\ sec.body = SubSeq(toks, start + 1, end - 1)
  BY SectionOfSplit
<1>4. ASSUME NEW p \in 1..Len(toks)
      PROVE  \/ toks[p] = <<"decl", "shared">>
             \/ \E i \in 1..N : \/ p = c + w * (i - 1) + 1 /\ toks[p] = <<"is", ks[i]>>
                                \/ p = c + w * (i - 1) + 2 /\ toks[p] = <<"body", ks[i]>>
                                \/ w = 3 /\ p = c + w * (i - 1) + 3 /\ toks[p] = <<"end", ks[i]>>
  <2> DEFINE i == ((p - c - 1) \div w) + 1
  <2>1. \/ p = 1 /\ c = 1
        \/ /\ i \in 1..N
           /\ \/ p = c + w * (i - 1) + 1
              \/ p = c + w * (i - 1) + 2
              \/ w = 3 /\ p = c + w * (i - 1) + 3
    <3>1. p \in 1..(c + w * N)
      BY <1>2 DEF TokensAt
    <3>2. CASE w = 3
      BY <3>1, <3>2
    <3>3. CASE w = 2
      BY <3>1, <3>3
    <3> QED BY <3>2, <3>3
  <2> HIDE DEF i
  <2> QED BY <1>2, <2>1 DEF TokensAt
<1>5. /\ start = FirstAt(toks, <<"is", k>>, 1) /\ end = FirstAt(toks, <<"end", k>>, start + 1)
      /\ toks \in Seq(Tokens) /\ Len(toks) = c + w * N /\ Len(toks) \in Nat
      /\ \A i, j \in 1..N : ks[i] = ks[j] => i = j
  BY <1>2 DEF TokensAt, IsInjective
<1>6. \A i \in 1..N : toks[c + w * (i - 1) + 2] = <<"body", ks[i]>>
  BY <1>2 DEF TokensAt
<1> HIDE DEF ks, k, start, end
<1>7. ASSUME NEW i \in 1..N, ks[i] = k, w = 3 PROVE sec.body = <<<<"body", k>>>>
  <2>1. PICK s \in Nat : s = c + w * (i - 1) + 1
    BY <1>7
  <2>2. s + 1 = c + w * (i - 1) + 2 /\ s + 2 = c + w * (i - 1) + 3 /\ s + 1 \in 1..Len(toks)
        /\ s >= 1
    BY <1>5, <1>7, <2>1
  <2>3. ASSUME NEW p \in 1..Len(toks), toks[p] = <<"is", k>> PROVE p = s
    <3>1. PICK j \in 1..N : p = c + w * (j - 1) + 1 /\ toks[p] = <<"is", ks[j]>>
      <4>1. \A x : /\ <<"is", k>> # <<"end", x>> /\ <<"is", k>> # <<"body", x>>
                   /\ <<"is", k>> # <<"decl", "shared">>
        OBVIOUS
      <4> QED BY <1>4, <2>3, <4>1, Zenon
    <3>2. ks[j] = ks[i]
      BY <1>7, <2>3, <3>1
    <3> QED BY <1>5, <2>1, <3>1, <3>2
  <2>4. ASSUME NEW p \in 1..Len(toks), toks[p] = <<"end", k>> PROVE p = s + 2
    <3>1. PICK j \in 1..N : p = c + w * (j - 1) + 3 /\ toks[p] = <<"end", ks[j]>>
      <4>1. \A x : /\ <<"end", k>> # <<"is", x>> /\ <<"end", k>> # <<"body", x>>
                   /\ <<"end", k>> # <<"decl", "shared">>
        OBVIOUS
      <4> QED BY <1>4, <2>4, <4>1, Zenon
    <3>2. ks[j] = ks[i]
      BY <1>7, <2>4, <3>1
    <3> QED BY <1>5, <2>2, <3>1, <3>2
  <2>5. start = s
    <3>1. \A p \in 1..Len(toks) : toks[p] = <<"is", k>> => p = s
      BY <2>3
    <3>2. start \in {0, s}
      BY <1>5, <3>1, FirstOfOne
    <3> QED BY <1>3, <3>2
  <2>6. end = s + 2
    <3>1. s + 1 \in Nat /\ s + 2 \in Nat
      OBVIOUS
    <3>2. \A p \in (s + 1)..Len(toks) : toks[p] = <<"end", k>> => p = s + 2
      BY <1>5, <2>2, <2>4
    <3>3. end = FirstAt(toks, <<"end", k>>, s + 1)
      BY <1>5, <2>5
    <3>4. end = 0 \/ end = s + 2
      <4>1. toks \in Seq(Tokens)
        BY <1>5
      <4>2. \/ FirstAt(toks, <<"end", k>>, s + 1) = 0
            \/ FirstAt(toks, <<"end", k>>, s + 1) = s + 2
        <5>1. PICK f \in Nat, e \in Nat : f = s + 1 /\ e = s + 2
          BY <3>1
        <5> DEFINE tok == <<"end", k>>
        <5>2. \A p \in f..Len(toks) : toks[p] = tok => p = e
          BY <3>2, <5>1
        <5> HIDE DEF tok
        <5>3. FirstAt(toks, tok, f) \in {0, e}
          BY ONLY <4>1, <5>2, f \in Nat, e \in Nat, FirstOfOne
        <5> QED BY <5>1, <5>3 DEF tok
      <4> QED BY <3>3, <4>2, Zenon
    <3> QED BY <1>3, <3>4
  <2>7. toks[s + 1] = <<"body", k>>
    BY <1>6, <1>7, <2>2
  <2>8. sec.body = SubSeq(toks, s + 1, s + 1)
    <3>1. (s + 2) - 1 = s + 1
      OBVIOUS
    <3> QED BY <1>3, <2>5, <2>6, <3>1
  <2>9. SubSeq(toks, s + 1, s + 1) = <<toks[s + 1]>>
    <3>1. PICK j \in 1..Len(toks) : j = s + 1
      BY <2>2
    <3>2. SubSeq(toks, j, j) = <<toks[j]>>
      BY <1>5, OneElement
    <3> QED BY <3>1, <3>2
  <2> QED BY <2>7, <2>8, <2>9
<1>8. PICK p \in 1..Len(toks) : toks[p] = <<"end", k>>
  <2>1. start \in Nat
    <3>1. \A S \in SUBSET Nat : S # {} => Min(S) \in Nat
      BY LeastNatural DEF Min
    <3> DEFINE at == {p \in 1..Len(toks) : toks[p] = <<"is", k>>}
    <3>2. at \in SUBSET Nat /\ start = IF at = {} THEN 0 ELSE Min(at)
      BY <1>5 DEF FirstAt
    <3> QED BY <3>1, <3>2
  <2> SUFFICES ASSUME \A p \in 1..Len(toks) : toks[p] # <<"end", k>> PROVE end = 0
    BY <1>3
  <2>2. {p \in (start + 1)..Len(toks) : toks[p] = <<"end", k>>} = {}
    BY <1>5, <2>1
  <2> QED BY <1>5, <2>2 DEF FirstAt
<1>9. PICK i \in 1..N : w = 3 /\ toks[p] = <<"end", ks[i]>>
  BY <1>4, <1>8
<1>10. ks[i] = k
  BY <1>8, <1>9
<1>11. sec.body = <<<<"body", k>>>>
  BY <1>7, <1>9, <1>10
<1> QED BY <1>11 DEF k

\* In every schema each source trigger is on the target in the end, or the user
\* is told of it, no routine replaces the trigger of another (hCreateRoutine) in
\* whatever order and however often they are executed, and a section of a
\* compound trigger has its own statements.
THEOREM TriggersAreKept == TrgSpec => []NoTriggerLost
<1>1. TrgInit => OneEach
  BY FS_EmptySet DEF TrgInit, TrgStart, OneEach
<1>2. TrgInv /\ TrgInv' /\ OneEach /\ [TrgNext]_trgVars => OneEach'
  BY OneEachStep
<1>3. TrgInv /\ OneEach => NoTriggerLost
  <2> SUFFICES ASSUME TrgInv, OneEach PROVE NoTriggerLost
    OBVIOUS
  <2>1. ASSUME TrgDone, NEW n \in DOMAIN trgDump
        PROVE  n \in reported \/ \E t \in pgTriggers : t.src = n
    <3>1. n \in reported \/ \E r \in routines : r.src = n
      BY <2>1 DEF TrgInv, TrgDone
    <3>2. \A r \in routines : Created(r) \in pgTriggers /\ Created(r).src = r.src
      BY <2>1 DEF OneEach, TrgDone, Created
    <3> QED BY <3>1, <3>2
  <2>2. ASSUME TrgDone PROVE Cardinality(pgTriggers) = Cardinality(routines)
    <3> DEFINE f == [r \in routines |-> Created(r)]
    <3>1. pgTriggers = {Created(r) : r \in routines} /\ IsFiniteSet(routines)
      BY <2>2 DEF OneEach, TrgDone
    <3>2. f \in Surjection(routines, pgTriggers)
      BY <3>1 DEF Surjection
    <3>3. \A r, q \in routines : Created(r) = Created(q) => r.name = q.name
      BY DEF Created
    <3>4. f \in Injection(routines, pgTriggers)
      BY <3>1, <3>3 DEF OneEach, Injection, IsInjective
    <3> QED BY <3>1, <3>2, <3>4, FS_Surjection
  <2>3. ASSUME NEW n \in DOMAIN trgDump, NEW sec \in splitCompoundTriggerSections(trgDump[n].toks)
        PROVE  sec.body = <<<<"body", sec.section>>>>
    <3>1. trgDump[n].toks = <<>> \/ trgDump[n].toks \in CompoundBodies
      BY DEF TrgInv, DumpOK
    <3>2. trgDump[n].toks # <<>>
      <4>1. FirstAt(trgDump[n].toks, <<"is", sec.section>>, 1) > 0
        BY SectionOfSplit
      <4>2. \A tok : FirstAt(<<>>, tok, 1) = 0
        BY DEF FirstAt
      <4> QED BY <4>1, <4>2
    <3> QED BY <3>1, <3>2, SectionsAreOwn
  <2> QED BY <2>1, <2>2, <2>3 DEF NoTriggerLost
<1> QED BY <1>1, <1>2, <1>3, TrgInvariant, PTL DEF TrgSpec

-----------------------------------------------------------------------------
(* Induction over the statements of a script.                                *)

\* What holds at 0 and, with a number, at the next one, holds at all up to n.
LEMMA UpTo ==
    ASSUME NEW n \in Nat, NEW G, 0 \in G, \A i \in 0..(n - 1) : i \in G => i + 1 \in G
    PROVE  \A i \in 0..n : i \in G
<1> SUFFICES ASSUME NEW k \in 0..n, k \notin G PROVE FALSE
  OBVIOUS
<1> DEFINE T == {i \in 0..n : i \notin G}
<1>1. T \in SUBSET Nat /\ T # {}
  OBVIOUS
<1>2. PICK m \in T : \A i \in T : m <= i
  BY <1>1, LeastNatural
<1>3. m \in 0..n /\ m \notin G /\ m # 0
  BY <1>2
<1>4. m - 1 \in 0..(n - 1) /\ m - 1 \notin T /\ (m - 1) + 1 = m
  BY <1>2, <1>3
<1>5. m - 1 \in G
  BY <1>4
<1> QED BY <1>3, <1>4, <1>5

\* The databases between the statements of a script.
LEMMA RunExists ==
    ASSUME NEW db, NEW script, NEW n \in Nat
    PROVE  \E f : f = [i \in 0..n |-> IF i = 0 THEN db ELSE Execute(f[i - 1], script[i])]
<1> DEFINE Is(f, k) == f = [i \in 0..k |-> IF i = 0 THEN db ELSE Execute(f[i - 1], script[i])]
           G == {k \in 0..n : \E f : Is(f, k)}
<1>1. 0 \in G
  <2> DEFINE g == [i \in 0..0 |-> db]
  <2>1. \A i \in 0..0 : i = 0 /\ g[i] = db
    OBVIOUS
  <2>2. g = [i \in 0..0 |-> g[i]]
    OBVIOUS
  <2> HIDE DEF g
  <2>3. Is(g, 0)
    BY <2>1, <2>2
  <2> QED BY <2>3
<1>2. ASSUME NEW k \in 0..(n - 1), k \in G PROVE k + 1 \in G
  <2>1. PICK f : Is(f, k)
    BY <1>2
  <2> DEFINE g == [i \in 0..(k + 1) |-> IF i <= k THEN f[i] ELSE Execute(f[k], script[k + 1])]
  <2>2. ASSUME NEW i \in 0..(k + 1)
        PROVE  g[i] = IF i = 0 THEN db ELSE Execute(g[i - 1], script[i])
    <3>1. CASE i = 0
      BY <2>1, <3>1
    <3>2. CASE i \in 1..k
      <4>1. g[i] = f[i] /\ g[i - 1] = f[i - 1]
        BY <3>2
      <4>2. f[i] = Execute(f[i - 1], script[i])
        BY <2>1, <3>2
      <4> QED BY <3>2, <4>1, <4>2
    <3>3. CASE i = k + 1
      <4>1. g[i] = Execute(f[k], script[k + 1]) /\ g[i - 1] = f[k]
        BY <3>3
      <4> QED BY <3>3, <4>1
    <3> QED BY <3>1, <3>2, <3>3
  <2>3. g = [i \in 0..(k + 1) |-> g[i]]
    OBVIOUS
  <2> HIDE DEF g
  <2>4. Is(g, k + 1)
    BY <2>2, <2>3
  <2> QED BY <2>4
<1> HIDE DEF G
<1>3. \A k \in 0..n : k \in G
  BY <1>1, <1>2, UpTo
<1>4. n \in G
  BY <1>3
<1> QED BY <1>4 DEF G

LEMMA RunSteps ==
    ASSUME NEW db, NEW script, Len(script) \in Nat
    PROVE  \E f : /\ f[0] = db /\ f[Len(script)] = Run(db, script)
                  /\ \A i \in 1..Len(script) : f[i] = Execute(f[i - 1], script[i])
<1> DEFINE n == Len(script)
           Is(f) == f = [i \in 0..n |-> IF i = 0 THEN db ELSE Execute(f[i - 1], script[i])]
           after == CHOOSE f : Is(f)
<1>1. Is(after)
  BY RunExists
<1>2. Run(db, script) = after[n]
  BY DEF Run
<1> HIDE DEF after
<1>3. /\ after[0] = db
      /\ \A i \in 1..n : after[i] = Execute(after[i - 1], script[i])
  BY <1>1
<1> QED BY <1>2, <1>3

\* The tables between the foreign keys of harmonizeFKTypes.
LEMMA HarmonizeExists ==
    ASSUME NEW tables, NEW fks, NEW n \in Nat
    PROVE  \E f : f = [i \in 0..n |-> IF i = 0 THEN tables ELSE Harmonize(f[i - 1], fks[i])]
<1> DEFINE Is(f, k) == f = [i \in 0..k |-> IF i = 0 THEN tables ELSE Harmonize(f[i - 1], fks[i])]
           G == {k \in 0..n : \E f : Is(f, k)}
<1>1. 0 \in G
  <2> DEFINE g == [i \in 0..0 |-> tables]
  <2>1. \A i \in 0..0 : i = 0 /\ g[i] = tables
    OBVIOUS
  <2>2. g = [i \in 0..0 |-> g[i]]
    OBVIOUS
  <2> HIDE DEF g
  <2>3. Is(g, 0)
    BY <2>1, <2>2
  <2> QED BY <2>3
<1>2. ASSUME NEW k \in 0..(n - 1), k \in G PROVE k + 1 \in G
  <2>1. PICK f : Is(f, k)
    BY <1>2
  <2> DEFINE g == [i \in 0..(k + 1) |-> IF i <= k THEN f[i] ELSE Harmonize(f[k], fks[k + 1])]
  <2>2. ASSUME NEW i \in 0..(k + 1)
        PROVE  g[i] = IF i = 0 THEN tables ELSE Harmonize(g[i - 1], fks[i])
    <3>1. CASE i = 0
      BY <2>1, <3>1
    <3>2. CASE i \in 1..k
      <4>1. g[i] = f[i] /\ g[i - 1] = f[i - 1]
        BY <3>2
      <4>2. f[i] = Harmonize(f[i - 1], fks[i])
        BY <2>1, <3>2
      <4> QED BY <3>2, <4>1, <4>2
    <3>3. CASE i = k + 1
      <4>1. g[i] = Harmonize(f[k], fks[k + 1]) /\ g[i - 1] = f[k]
        BY <3>3
      <4> QED BY <3>3, <4>1
    <3> QED BY <3>1, <3>2, <3>3
  <2>3. g = [i \in 0..(k + 1) |-> g[i]]
    OBVIOUS
  <2> HIDE DEF g
  <2>4. Is(g, k + 1)
    BY <2>2, <2>3
  <2> QED BY <2>4
<1> HIDE DEF G
<1>3. \A k \in 0..n : k \in G
  BY <1>1, <1>2, UpTo
<1>4. n \in G
  BY <1>3
<1> QED BY <1>4 DEF G

LEMMA HarmonizeSteps ==
    ASSUME NEW plan, Len(plan.fks) \in Nat
    PROVE  \E f : /\ f[0] = plan.tables
                  /\ harmonizeFKTypes(plan) = [plan EXCEPT !.tables = f[Len(plan.fks)]]
                  /\ \A i \in 1..Len(plan.fks) : f[i] = Harmonize(f[i - 1], plan.fks[i])
<1> DEFINE n == Len(plan.fks)
           Is(f) == f = [i \in 0..n |-> IF i = 0 THEN plan.tables ELSE Harmonize(f[i - 1], plan.fks[i])]
           after == CHOOSE f : Is(f)
<1>1. Is(after)
  BY HarmonizeExists
<1>2. harmonizeFKTypes(plan) = [plan EXCEPT !.tables = after[n]]
  BY DEF harmonizeFKTypes
<1> HIDE DEF after
<1>3. \A i \in 0..n : after[i] = IF i = 0 THEN plan.tables ELSE Harmonize(after[i - 1], plan.fks[i])
  BY <1>1, Zenon
<1>4. /\ after[0] = plan.tables
      /\ \A i \in 1..n : after[i] = Harmonize(after[i - 1], plan.fks[i])
  BY <1>3
<1> QED BY <1>2, <1>4

\* Sequences one after the other: FlattenSeq.
LEMMA FlattenExists ==
    ASSUME NEW seqs, NEW n \in Nat
    PROVE  \E f : f = [i \in 1..n |-> IF i = 1 THEN seqs[i] ELSE f[i - 1] \o seqs[i]]
<1> DEFINE Cat(s, t) == s \o t
           Is(f, k) == f = [i \in 1..k |-> IF i = 1 THEN seqs[i] ELSE Cat(f[i - 1], seqs[i])]
           G == {k \in 0..n : \E f : Is(f, k)}
<1> HIDE DEF Cat
<1>1. 0 \in G
  <2> DEFINE g == [i \in 1..0 |-> seqs[i]]
  <2>1. \A i \in 1..0 : FALSE
    OBVIOUS
  <2>2. g = [i \in 1..0 |-> g[i]]
    OBVIOUS
  <2> HIDE DEF g
  <2>3. Is(g, 0)
    BY <2>1, <2>2
  <2> HIDE DEF Is
  <2> QED BY <2>3
<1>2. ASSUME NEW k \in 0..(n - 1), k \in G PROVE k + 1 \in G
  <2>1. PICK f : Is(f, k)
    BY <1>2
  <2> DEFINE g == [i \in 1..(k + 1) |->
                      IF i <= k THEN f[i]
                      ELSE IF k = 0 THEN seqs[1] ELSE Cat(f[k], seqs[k + 1])]
  <2>2. ASSUME NEW i \in 1..(k + 1)
        PROVE  g[i] = IF i = 1 THEN seqs[i] ELSE Cat(g[i - 1], seqs[i])
    <3>1. CASE i <= k
      <4>1. g[i] = f[i] /\ f[i] = IF i = 1 THEN seqs[i] ELSE Cat(f[i - 1], seqs[i])
        BY <2>1, <3>1
      <4>2. i # 1 => g[i - 1] = f[i - 1]
        BY <3>1
      <4> QED BY <4>1, <4>2
    <3>2. CASE i = k + 1
      <4>1. g[i] = IF k = 0 THEN seqs[1] ELSE Cat(f[k], seqs[k + 1])
        BY <3>2
      <4>2. k # 0 => g[i - 1] = f[k]
        BY <3>2
      <4>3. i = 1 <=> k = 0
        BY <3>2
      <4> QED BY <3>2, <4>1, <4>2, <4>3
    <3> QED BY <3>1, <3>2
  <2>3. g = [i \in 1..(k + 1) |-> g[i]]
    OBVIOUS
  <2> HIDE DEF g
  <2>4. Is(g, k + 1)
    BY <2>2, <2>3
  <2> QED BY <2>4
<1> HIDE DEF G
<1>3. \A k \in 0..n : k \in G
  BY <1>1, <1>2, UpTo
<1>4. n \in G
  BY <1>3
<1>5. PICK f : Is(f, n)
  BY <1>4 DEF G
<1> QED BY <1>5 DEF Cat

\* What a sequence holds stays in it when another is put before or after it.
Holds(s, part) ==
    \E p \in Nat : /\ p + Len(part) <= Len(s)
                   /\ \A q \in 1..Len(part) : s[p + q] = part[q]

LEMMA HoldsInCat ==
    ASSUME NEW S, NEW s \in Seq(S), NEW t \in Seq(S), NEW part \in Seq(S),
           Holds(s, part) \/ Holds(t, part)
    PROVE  Holds(s \o t, part)
<1>1. /\ Len(s) \in Nat /\ Len(t) \in Nat /\ Len(part) \in Nat
      /\ Len(s \o t) = Len(s) + Len(t)
  OBVIOUS
<1>2. /\ \A i \in 1..Len(s) : (s \o t)[i] = s[i]
      /\ \A i \in 1..Len(t) : (s \o t)[i + Len(s)] = t[i]
  OBVIOUS
<1> DEFINE c == s \o t
<1>3. /\ Len(c) = Len(s) + Len(t)
      /\ \A i \in 1..Len(s) : c[i] = s[i]
      /\ \A i \in 1..Len(t) : c[i + Len(s)] = t[i]
  BY <1>1, <1>2
<1> HIDE DEF c
<1>4. CASE Holds(s, part)
  <2>1. PICK p \in Nat : p + Len(part) <= Len(s) /\ \A q \in 1..Len(part) : s[p + q] = part[q]
    BY <1>4 DEF Holds
  <2>2. p + Len(part) <= Len(c)
    BY <1>1, <1>3, <2>1
  <2>3. ASSUME NEW q \in 1..Len(part) PROVE c[p + q] = part[q]
    <3>1. p + q \in 1..Len(s)
      BY <1>1, <2>1
    <3> QED BY <1>3, <2>1, <3>1
  <2>4. Holds(c, part)
    BY <2>2, <2>3 DEF Holds
  <2> QED BY <2>4 DEF c
<1>5. CASE Holds(t, part)
  <2>1. PICK p \in Nat : p + Len(part) <= Len(t) /\ \A q \in 1..Len(part) : t[p + q] = part[q]
    BY <1>5 DEF Holds
  <2>2. PICK r \in Nat : r = p + Len(s)
    BY <1>1
  <2>3. r + Len(part) <= Len(c)
    BY <1>1, <1>3, <2>1, <2>2
  <2>4. ASSUME NEW q \in 1..Len(part) PROVE c[r + q] = part[q]
    <3>1. p + q \in 1..Len(t) /\ (p + q) + Len(s) = r + q
      BY <1>1, <2>1, <2>2
    <3> QED BY <1>3, <2>1, <3>1
  <2>5. Holds(c, part)
    BY <2>3, <2>4 DEF Holds
  <2> QED BY <2>5 DEF c
<1> QED BY <1>4, <1>5

LEMMA HoldsItself ==
    ASSUME NEW S, NEW s \in Seq(S)
    PROVE  Holds(s, s)
<1>1. 0 \in Nat /\ 0 + Len(s) <= Len(s) /\ \A q \in 1..Len(s) : s[0 + q] = s[q]
  OBVIOUS
<1> QED BY <1>1 DEF Holds

LEMMA FlattenHolds ==
    ASSUME NEW S, NEW seqs \in Seq(Seq(S))
    PROVE  /\ FlattenSeq(seqs) \in Seq(S)
           /\ \A i \in 1..Len(seqs) : Holds(FlattenSeq(seqs), seqs[i])
<1> DEFINE n == Len(seqs)
           Is(f) == f = [i \in 1..n |-> IF i = 1 THEN seqs[i] ELSE f[i - 1] \o seqs[i]]
           flatten == CHOOSE f : Is(f)
<1>1. n \in Nat /\ \A i \in 1..n : seqs[i] \in Seq(S)
  OBVIOUS
<1>2. Is(flatten)
  BY <1>1, FlattenExists
<1>3. FlattenSeq(seqs) = IF n = 0 THEN seqs ELSE flatten[n]
  BY DEF FlattenSeq
<1> HIDE DEF flatten
<1> DEFINE Cat(s, t) == s \o t
           Good(i) == /\ flatten[i] \in Seq(S)
                      /\ \A j \in 1..i : Holds(flatten[i], seqs[j])
           G == {i \in 0..n : i = 0 \/ Good(i)}
<1>4. \A i \in 1..n : flatten[i] = IF i = 1 THEN seqs[i] ELSE Cat(flatten[i - 1], seqs[i])
  BY <1>2
<1>5. \A s, t \in Seq(S) : Cat(s, t) \in Seq(S)
  OBVIOUS
<1>6. \A s, t, part \in Seq(S) : Holds(s, part) \/ Holds(t, part) => Holds(Cat(s, t), part)
  BY HoldsInCat
<1> HIDE DEF Cat, n
<1>7. ASSUME NEW i \in 0..(n - 1), i \in G PROVE i + 1 \in G
  <2>1. i + 1 \in 1..n /\ (i + 1) - 1 = i
    BY <1>1
  <2>2. CASE i = 0
    <3>1. flatten[1] = seqs[1] /\ seqs[1] \in Seq(S)
      BY <1>1, <1>4, <2>1, <2>2
    <3>2. Holds(seqs[1], seqs[1])
      BY <3>1, HoldsItself
    <3> QED BY <2>1, <2>2, <3>1, <3>2
  <2>3. CASE i # 0
    <3>1. flatten[i + 1] = Cat(flatten[i], seqs[i + 1]) /\ Good(i)
      BY <1>4, <1>7, <2>1, <2>3
    <3>2. flatten[i + 1] \in Seq(S)
      BY <1>1, <1>5, <2>1, <3>1
    <3>3. Holds(seqs[i + 1], seqs[i + 1])
      BY <1>1, <2>1, HoldsItself
    <3>4. ASSUME NEW j \in 1..(i + 1) PROVE Holds(flatten[i + 1], seqs[j])
      <4>1. j \in 1..i \/ j = i + 1
        BY <1>7
      <4>2. seqs[j] \in Seq(S) /\ seqs[i + 1] \in Seq(S) /\ flatten[i] \in Seq(S)
        BY <1>1, <2>1, <3>1
      <4> QED BY <1>6, <3>1, <3>3, <4>1, <4>2
    <3> QED BY <2>1, <3>2, <3>4
  <2> QED BY <2>2, <2>3
<1>8. 0 \in G
  BY <1>1
<1> HIDE DEF G
<1>9. \A i \in 0..n : i \in G
  BY <1>1, <1>7, <1>8, UpTo
<1>10. n # 0 => Good(n)
  BY <1>1, <1>9 DEF G
<1>11. CASE n = 0
  <2>1. seqs = <<>>
    BY <1>11 DEF n
  <2>2. FlattenSeq(seqs) \in Seq(S)
    BY <1>3, <1>11, <2>1
  <2> QED BY <1>11, <2>2 DEF n
<1>12. CASE n # 0
  BY <1>3, <1>10, <1>12 DEF n
<1> QED BY <1>11, <1>12

-----------------------------------------------------------------------------
(* Statements on the target.                                                 *)

DbOK(db) ==
    /\ db = [ok |-> db.ok, rels |-> db.rels, tables |-> db.tables, unique |-> db.unique,
             fks |-> db.fks, next |-> db.next]
    /\ db.ok \in BOOLEAN
    /\ db.next = [k \in DOMAIN db.next |-> db.next[k]]
    /\ \A f \in db.fks : f = [table |-> f.table, from |-> f.from, to |-> f.to, valid |-> f.valid]

\* a sequence that exists has a next value
SeqsInNext(db) ==
    \A t \in SourceTables : SeqName(t) \in db.rels => SeqName(t) \in DOMAIN db.next

TableRecs == [name : SourceTables, type : [TdColumns -> STRING], pk : BOOLEAN, parts : BOOLEAN,
              sequence : BOOLEAN]
SeqStmts == [do : {"sequence"}, name : {SeqName(t) : t \in SourceTables}]
TableStmts == [do : {"table"}, table : TableRecs]

LEMMA FailedOK ==
    ASSUME NEW db, DbOK(db)
    PROVE  DbOK(Failed(db)) /\ ~Failed(db).ok /\ Failed(db).fks = db.fks
           /\ Failed(db).next = db.next /\ Failed(db).rels = db.rels
<1>1. PICK e : e = Failed(db)
  OBVIOUS
<1>2. db = [ok |-> db.ok, rels |-> db.rels, tables |-> db.tables, unique |-> db.unique,
            fks |-> db.fks, next |-> db.next]
  BY DEF DbOK
<1>3. /\ ~e.ok /\ e.rels = db.rels /\ e.fks = db.fks /\ e.next = db.next
      /\ e = [ok |-> e.ok, rels |-> e.rels, tables |-> e.tables, unique |-> e.unique,
              fks |-> e.fks, next |-> e.next]
  BY <1>1, <1>2 DEF Failed
<1>4. e.ok \in BOOLEAN
  BY <1>1, <1>2 DEF Failed
<1>5. DbOK(e)
  BY <1>3, <1>4 DEF DbOK
<1> QED BY <1>1, <1>3, <1>5

LEMMA ExecuteSequence ==
    ASSUME NEW db, DbOK(db), SeqsInNext(db), NEW st \in SeqStmts
    PROVE  LET e == Execute(db, st)
           IN  /\ DbOK(e) /\ (e.ok => db.ok) /\ e.fks = db.fks /\ SeqsInNext(e)
               /\ DOMAIN db.next \subseteq DOMAIN e.next
               /\ e.ok => st.name \in DOMAIN e.next
<1>1. CASE ~db.ok \/ st.name \in db.rels
  <2>1. Execute(db, st) = db
    BY <1>1 DEF Execute, SeqStmts
  <2> QED BY <1>1, <2>1 DEF SeqsInNext, SeqStmts
<1>2. CASE db.ok /\ st.name \notin db.rels
  <2> DEFINE e == Execute(db, st)
  <2>1. e = [ok |-> db.ok, rels |-> db.rels \cup {st.name}, tables |-> db.tables,
             unique |-> db.unique, fks |-> db.fks, next |-> Extend(db.next, st.name, 1)]
    BY <1>2 DEF Execute, SeqStmts, DbOK
  <2> HIDE DEF e
  <2>2. DOMAIN e.next = DOMAIN db.next \cup {st.name} /\ e.next = [k \in DOMAIN e.next |-> e.next[k]]
    BY <2>1 DEF Extend
  <2>3. /\ e.ok = db.ok /\ e.fks = db.fks /\ e.rels = db.rels \cup {st.name}
        /\ e = [ok |-> e.ok, rels |-> e.rels, tables |-> e.tables, unique |-> e.unique,
                fks |-> e.fks, next |-> e.next]
    BY <2>1
  <2>4. DbOK(e)
    BY <2>2, <2>3 DEF DbOK
  <2>5. SeqsInNext(e)
    BY <2>2, <2>3 DEF SeqsInNext
  <2> QED BY <2>2, <2>3, <2>4, <2>5 DEF e
<1> QED BY <1>1, <1>2

LEMMA ExecuteTable ==
    ASSUME NEW db, DbOK(db), SeqsInNext(db), NEW st \in TableStmts
    PROVE  LET e == Execute(db, st)
           IN  /\ DbOK(e) /\ (e.ok => db.ok) /\ e.fks = db.fks /\ SeqsInNext(e)
               /\ DOMAIN db.next \subseteq DOMAIN e.next
               /\ e.ok /\ ~st.table.sequence => <<st.table.name, "identity">> \in DOMAIN e.next
<1> DEFINE e == Execute(db, st)
           tab == st.table
<1>1. \/ e = db /\ ~db.ok
      \/ e = Failed(db)
      \/ e = [ok |-> db.ok,
              rels |-> db.rels \cup {<<tab.name>>} \cup (IF tab.pk THEN {<<tab.name, "pkey">>} ELSE {}),
              tables |-> Extend(db.tables, tab.name, [type |-> tab.type, parts |-> tab.parts]),
              unique |-> IF tab.pk THEN db.unique \cup {tab.name} ELSE db.unique,
              fks |-> db.fks,
              next |-> IF tab.sequence THEN db.next ELSE Extend(db.next, <<tab.name, "identity">>, 1)]
  BY DEF Execute, TableStmts, CreateTable, DbOK
<1> HIDE DEF e
<1>2. CASE e = db /\ ~db.ok
  BY <1>2 DEF e
<1>3. CASE e = Failed(db)
  <2>1. DbOK(e) /\ ~e.ok /\ e.fks = db.fks /\ e.next = db.next /\ e.rels = db.rels
    BY <1>3, FailedOK
  <2>2. SeqsInNext(e)
    BY <2>1 DEF SeqsInNext
  <2> QED BY <2>1, <2>2 DEF e
<1>4. CASE ~(e = db /\ ~db.ok) /\ e # Failed(db)
  <2>1. /\ e.ok = db.ok /\ e.fks = db.fks
        /\ e.rels = db.rels \cup {<<tab.name>>} \cup (IF tab.pk THEN {<<tab.name, "pkey">>} ELSE {})
        /\ e.next = IF tab.sequence THEN db.next ELSE Extend(db.next, <<tab.name, "identity">>, 1)
        /\ e = [ok |-> e.ok, rels |-> e.rels, tables |-> e.tables, unique |-> e.unique,
                fks |-> e.fks, next |-> e.next]
    BY <1>1, <1>4
  <2>2. /\ e.next = [k \in DOMAIN e.next |-> e.next[k]]
        /\ DOMAIN db.next \subseteq DOMAIN e.next
        /\ ~tab.sequence => <<tab.name, "identity">> \in DOMAIN e.next
    <3>1. CASE tab.sequence
      <4>1. e.next = db.next
        BY <2>1, <3>1
      <4>2. db.next = [k \in DOMAIN db.next |-> db.next[k]]
        BY DEF DbOK
      <4> QED BY <3>1, <4>1, <4>2
    <3>2. CASE ~tab.sequence
      <4>1. PICK key, f : key = <<tab.name, "identity">> /\ f = e.next
        OBVIOUS
      <4>2. f = Extend(db.next, key, 1)
        BY <2>1, <3>2, <4>1
      <4>3. f = [k \in DOMAIN f |-> f[k]] /\ DOMAIN f = DOMAIN db.next \cup {key}
        BY ONLY <4>2 DEF Extend
      <4> QED BY <3>2, <4>1, <4>3
    <3> QED BY <3>1, <3>2
  <2>3. DbOK(e)
    BY <2>1, <2>2 DEF DbOK
  <2>4. \A t \in SourceTables : SeqName(t) # <<tab.name>> /\ SeqName(t) # <<tab.name, "pkey">>
    BY DEF SeqName
  <2>5. SeqsInNext(e)
    BY <2>1, <2>2, <2>4 DEF SeqsInNext
  <2> QED BY <2>1, <2>2, <2>3, <2>5 DEF e
<1> QED BY <1>2, <1>3, <1>4

\* What the statements after the copy leave alone.
PostKinds == {"index", "fk", "validate", "setval", "restart"}

SetvalTo(t) == (IF tdLoad[t].max = 0 THEN 1 ELSE tdLoad[t].max) + 1
RestartAt(st) ==
    IF st.floor > tdLoad[st.table].max + 1 THEN st.floor ELSE tdLoad[st.table].max + 1

\* where a statement sets the next value of a key, and to what
Sets(st, k, v) ==
    \/ st.do = "setval" /\ k = SeqName(st.table) /\ v = SetvalTo(st.table)
    \/ st.do = "restart" /\ k = <<st.table, "identity">> /\ v = RestartAt(st)

Same(f, g) == f.table = g.table /\ f.from = g.from /\ f.to = g.to

\* The effect of a statement after the copy that is reached and does not fail.
LEMMA ExecutePost ==
    ASSUME NEW db, DbOK(db), NEW st, st.do \in PostKinds, NEW e, e = Execute(db, st), e.ok
    PROVE  /\ db.ok /\ DbOK(e) /\ DOMAIN e.next = DOMAIN db.next
           /\ \A k \in DOMAIN db.next : e.next[k] = db.next[k] \/ Sets(st, k, e.next[k])
           /\ \A k \in DOMAIN db.next : \A v : Sets(st, k, v) => e.next[k] = v
           /\ \A f \in db.fks : \E g \in e.fks : Same(f, g) /\ (f.valid => g.valid)
           /\ \A g \in e.fks :
                 \/ \E f \in db.fks : Same(f, g)
                 \/ st.do = "fk" /\ Same(g, st.fk)
           /\ st.do = "fk" => \E g \in e.fks : Same(g, st.fk) /\ (g.valid <=> ~st.notValid)
           /\ st.do = "validate" =>
                 \A f \in db.fks : f.table = st.fk.table /\ f.from = st.fk.from =>
                     \E g \in e.fks : Same(f, g) /\ g.valid
<1>0. db.ok
  <2>1. ~db.ok => e = db
    BY DEF Execute
  <2> QED BY <2>1
<1> USE <1>0
<1>1. db = [ok |-> db.ok, rels |-> db.rels, tables |-> db.tables, unique |-> db.unique,
            fks |-> db.fks, next |-> db.next]
  BY DEF DbOK
<1>2. e # Failed(db)
  BY FailedOK
<1>3. CASE st.do = "index"
  <2>1. e = [db EXCEPT !.rels = @ \cup {st.index.name}]
    BY <1>2, <1>3 DEF Execute
  <2>2. /\ e.next = db.next /\ e.fks = db.fks
        /\ e = [ok |-> e.ok, rels |-> e.rels, tables |-> e.tables, unique |-> e.unique,
                fks |-> e.fks, next |-> e.next]
    BY <1>1, <2>1
  <2>3. DbOK(e)
    BY <2>2 DEF DbOK
  <2> QED BY <1>3, <2>2, <2>3 DEF Sets, Same
<1>4. CASE st.do = "fk"
  <2> DEFINE new == [table |-> st.fk.table, from |-> st.fk.from, to |-> st.fk.to,
                     valid |-> ~st.notValid]
  <2>1. e = [db EXCEPT !.fks = @ \cup {new}]
    BY <1>2, <1>4 DEF Execute, AddForeignKey
  <2>2. /\ Same(new, st.fk) /\ (new.valid <=> ~st.notValid)
        /\ new = [table |-> new.table, from |-> new.from, to |-> new.to, valid |-> new.valid]
    BY DEF Same
  <2> HIDE DEF new
  <2>3. /\ e.next = db.next /\ e.fks = db.fks \cup {new}
        /\ e = [ok |-> e.ok, rels |-> e.rels, tables |-> e.tables, unique |-> e.unique,
                fks |-> e.fks, next |-> e.next]
    BY <1>1, <2>1
  <2>4. DbOK(e)
    BY <2>2, <2>3 DEF DbOK
  <2>5. \A f \in db.fks : f \in e.fks /\ Same(f, f)
    BY <2>3 DEF Same
  <2>6. \A g \in e.fks : g \in db.fks \/ g = new
    BY <2>3
  <2>7. new \in e.fks
    BY <2>3
  <2> QED BY <1>4, <2>2, <2>3, <2>4, <2>5, <2>6, <2>7 DEF Sets
<1>5. CASE st.do = "validate"
  <2> DEFINE Hit(f) == f.table = st.fk.table /\ f.from = st.fk.from
             Val(f) == IF Hit(f) THEN [f EXCEPT !.valid = TRUE] ELSE f
  <2>1. e = [db EXCEPT !.fks = {Val(f) : f \in @}]
    BY <1>5 DEF Execute
  <2>2. ASSUME NEW f \in db.fks
        PROVE  /\ Same(f, Val(f)) /\ (f.valid => Val(f).valid) /\ (Hit(f) => Val(f).valid)
               /\ Val(f) = [table |-> Val(f).table, from |-> Val(f).from, to |-> Val(f).to,
                            valid |-> Val(f).valid]
    <3>1. f = [table |-> f.table, from |-> f.from, to |-> f.to, valid |-> f.valid]
      BY DEF DbOK
    <3>2. PICK g : g = [f EXCEPT !.valid = TRUE]
      OBVIOUS
    <3>3. /\ g.table = f.table /\ g.from = f.from /\ g.to = f.to /\ g.valid
          /\ g = [table |-> g.table, from |-> g.from, to |-> g.to, valid |-> g.valid]
      BY <3>1, <3>2
    <3>4. Val(f) = IF Hit(f) THEN g ELSE f
      BY <3>2
    <3> HIDE DEF Val
    <3> QED BY <3>1, <3>3, <3>4 DEF Same
  <2> HIDE DEF Val
  <2>3. /\ e.next = db.next /\ e.fks = {Val(f) : f \in db.fks}
        /\ e = [ok |-> e.ok, rels |-> e.rels, tables |-> e.tables, unique |-> e.unique,
                fks |-> e.fks, next |-> e.next]
    BY <1>1, <2>1
  <2>4. \A g \in e.fks : \E f \in db.fks : g = Val(f)
    BY <2>3
  <2>5. \A g \in e.fks : g = [table |-> g.table, from |-> g.from, to |-> g.to, valid |-> g.valid]
    BY <2>2, <2>4
  <2>6. DbOK(e)
    BY <2>3, <2>5 DEF DbOK
  <2>7. \A f \in db.fks : Val(f) \in e.fks
    BY <2>3
  <2> QED BY <1>5, <2>2, <2>3, <2>4, <2>6, <2>7 DEF Sets
<1>6. ASSUME NEW key, NEW val, e = [db EXCEPT !.next[key] = val], st.do \in {"setval", "restart"},
             \A k, v : Sets(st, k, v) <=> k = key /\ v = val
      PROVE  /\ DbOK(e) /\ DOMAIN e.next = DOMAIN db.next /\ e.fks = db.fks
             /\ \A k \in DOMAIN db.next : e.next[k] = db.next[k] \/ Sets(st, k, e.next[k])
             /\ \A k \in DOMAIN db.next : \A v : Sets(st, k, v) => e.next[k] = v
  <2>1. /\ e.next = [db.next EXCEPT ![key] = val] /\ e.fks = db.fks /\ e.ok = db.ok
        /\ e = [ok |-> e.ok, rels |-> e.rels, tables |-> e.tables, unique |-> e.unique,
                fks |-> e.fks, next |-> e.next]
    BY <1>1, <1>6
  <2>2. /\ DOMAIN e.next = DOMAIN db.next
        /\ e.next = [k \in DOMAIN e.next |-> e.next[k]]
        /\ \A k \in DOMAIN db.next : e.next[k] = IF k = key THEN val ELSE db.next[k]
    BY <2>1 DEF DbOK
  <2>3. DbOK(e)
    BY <2>1, <2>2 DEF DbOK
  <2> QED BY <1>6, <2>1, <2>2, <2>3
<1>7. CASE st.do = "setval"
  <2>1. e = [db EXCEPT !.next[SeqName(st.table)] = SetvalTo(st.table)]
    BY <1>7 DEF Execute, SetvalTo
  <2>2. \A k, v : Sets(st, k, v) <=> k = SeqName(st.table) /\ v = SetvalTo(st.table)
    BY <1>7 DEF Sets
  <2> QED BY <1>6, <1>7, <2>1, <2>2 DEF Same
<1>8. CASE st.do = "restart"
  <2>1. e = [db EXCEPT !.next[<<st.table, "identity">>] = RestartAt(st)]
    BY <1>8 DEF Execute, RestartAt
  <2>2. \A k, v : Sets(st, k, v) <=> k = <<st.table, "identity">> /\ v = RestartAt(st)
    BY <1>8 DEF Sets
  <2> QED BY <1>6, <1>8, <2>1, <2>2 DEF Same
<1> QED BY <1>3, <1>4, <1>5, <1>7, <1>8 DEF PostKinds

-----------------------------------------------------------------------------
(* The plan.                                                                 *)

LEMMA CatFacts ==
    ASSUME NEW S, NEW s \in Seq(S), NEW t \in Seq(S)
    PROVE  /\ Len(s) \in Nat /\ Len(t) \in Nat /\ s \o t \in Seq(S)
           /\ Len(s \o t) = Len(s) + Len(t)
           /\ \A i \in 1..Len(s) : (s \o t)[i] = s[i]
           /\ \A i \in 1..Len(t) : (s \o t)[i + Len(s)] = t[i]
<1>1. Len(s) \in Nat /\ Len(t) \in Nat /\ s \o t \in Seq(S) /\ Len(s \o t) = Len(s) + Len(t)
  OBVIOUS
<1>2. /\ \A i \in 1..Len(s) : (s \o t)[i] = s[i]
      /\ \A i \in 1..Len(t) : (s \o t)[i + Len(s)] = t[i]
  OBVIOUS
<1> QED BY <1>1, <1>2

LEMMA RangeOfCat ==
    ASSUME NEW S, NEW s \in Seq(S), NEW t \in Seq(S)
    PROVE  s \o t \in Seq(S) /\ Range(s \o t) = Range(s) \cup Range(t)
<1>1. /\ Len(s) \in Nat /\ Len(t) \in Nat /\ s \o t \in Seq(S)
      /\ DOMAIN s = 1..Len(s) /\ DOMAIN t = 1..Len(t)
      /\ DOMAIN (s \o t) = 1..(Len(s) + Len(t))
  OBVIOUS
<1>2. /\ \A i \in 1..Len(s) : (s \o t)[i] = s[i]
      /\ \A i \in 1..Len(t) : (s \o t)[i + Len(s)] = t[i]
  OBVIOUS
<1>3. \A i \in 1..(Len(s) + Len(t)) :
         i \in 1..Len(s) \/ (i - Len(s) \in 1..Len(t) /\ (i - Len(s)) + Len(s) = i)
  BY <1>1
<1>4. \A i \in 1..Len(s) : i \in 1..(Len(s) + Len(t))
  BY <1>1
<1>5. \A i \in 1..Len(t) : i + Len(s) \in 1..(Len(s) + Len(t))
  BY <1>1
<1> DEFINE c == s \o t
           n == Len(s)
           m == Len(t)
<1>6. /\ DOMAIN c = 1..(n + m) /\ DOMAIN s = 1..n /\ DOMAIN t = 1..m
      /\ \A i \in 1..n : c[i] = s[i]
      /\ \A i \in 1..m : c[i + n] = t[i]
  BY <1>1, <1>2
<1> HIDE DEF c
<1>7. Range(c) \subseteq Range(s) \cup Range(t)
  <2> SUFFICES ASSUME NEW i \in 1..(n + m) PROVE c[i] \in Range(s) \cup Range(t)
    BY <1>6 DEF Range
  <2>1. CASE i \in 1..n
    BY <1>6, <2>1 DEF Range
  <2>2. CASE i - n \in 1..m /\ (i - n) + n = i
    <3>1. c[i] = t[i - n]
      BY <1>6, <2>2
    <3> QED BY <1>6, <2>2, <3>1 DEF Range
  <2> QED BY <1>3, <2>1, <2>2
<1>8. ASSUME NEW i \in 1..n PROVE s[i] \in Range(c)
  BY <1>4, <1>6 DEF Range
<1>9. ASSUME NEW i \in 1..m PROVE t[i] \in Range(c)
  <2>1. i + n \in DOMAIN c /\ c[i + n] = t[i]
    BY <1>5, <1>6
  <2> QED BY <2>1 DEF Range
<1>10. Range(s) \cup Range(t) \subseteq Range(c)
  BY <1>6, <1>8, <1>9 DEF Range
<1>11. Range(c) = Range(s) \cup Range(t)
  BY <1>7, <1>10
<1> QED BY <1>1, <1>11 DEF c

LEMMA RangeByIndex ==
    ASSUME NEW S, NEW s \in Seq(S)
    PROVE  Range(s) = {s[i] : i \in 1..Len(s)}
<1>1. DOMAIN s = 1..Len(s)
  OBVIOUS
<1> QED BY <1>1, Zenon DEF Range

LEMMA RangeOfNone == Range(<<>>) = {}
<1>1. DOMAIN <<>> = {}
  OBVIOUS
<1> QED BY <1>1 DEF Range

LEMMA RangeOfOne ==
    ASSUME NEW x
    PROVE  Range(<<x>>) = {x}
<1>1. PICK s : s = <<x>>
  OBVIOUS
<1>2. DOMAIN s = {1} /\ s[1] = x
  BY <1>1
<1>3. Range(s) = {x}
  BY ONLY <1>2 DEF Range
<1> QED BY <1>1, <1>3, Zenon

LEMMA RangeOfAppend ==
    ASSUME NEW S, NEW s \in Seq(S), NEW x \in S
    PROVE  Append(s, x) \in Seq(S) /\ Range(Append(s, x)) = Range(s) \cup {x}
<1>1. /\ Len(s) \in Nat /\ Append(s, x) \in Seq(S) /\ DOMAIN s = 1..Len(s)
      /\ DOMAIN Append(s, x) = 1..(Len(s) + 1)
  OBVIOUS
<1>2. /\ \A i \in 1..Len(s) : Append(s, x)[i] = s[i]
      /\ Append(s, x)[Len(s) + 1] = x
  OBVIOUS
<1>3. /\ \A i \in 1..(Len(s) + 1) : i \in 1..Len(s) \/ i = Len(s) + 1
      /\ \A i \in 1..Len(s) : i \in 1..(Len(s) + 1)
      /\ Len(s) + 1 \in 1..(Len(s) + 1)
  BY <1>1
<1> DEFINE c == Append(s, x)
           n == Len(s)
<1>4. /\ DOMAIN c = 1..(n + 1) /\ DOMAIN s = 1..n
      /\ \A i \in 1..n : c[i] = s[i]
      /\ c[n + 1] = x
  BY <1>1, <1>2
<1> HIDE DEF c
<1>5. Range(c) = Range(s) \cup {x}
  BY <1>3, <1>4 DEF Range
<1> QED BY <1>1, <1>5 DEF c

FKRecs == [table : SourceTables, from : TdColumns, to : STRING, noValidate : BOOLEAN]
IndexRecs == [table : SourceTables, name : Seq(STRING)]
RestartStmts == [do : {"setval", "restart"}, table : SourceTables, floor : Nat]
Plans == [tables : Seq(TableRecs), indexes : Seq(IndexRecs), fks : Seq(FKRecs),
          pre : Seq(SeqStmts), post : Seq(RestartStmts)]
TdStmts == [kind : {"table", "alter"}, table : SourceTables]
           \cup [kind : {"index"}, table : SourceTables, name : Seq(STRING)]

TdTypes ==
    /\ tdShape \in [SourceTables -> TdShapes]
    /\ \A t \in SourceTables : tdShape[t].fk.to \in SourceTables \cup {"", "elsewhere"}
    /\ tdLoad \in [SourceTables -> TdLoads]
    /\ tdTodo \in Seq(TdStmts)
    /\ tdPlan \in Plans
    /\ tdPhase \in {"translate", "create_ddl", "create_fk", "done"}

\* What is in the plan comes from the source.
FromSource(plan) ==
    /\ \A x \in Range(plan.tables) : x.sequence = OwnSequence(tdShape[x.name])
    /\ \A x \in Range(plan.fks) :
          LET fk == tdShape[x.table].fk
          IN  x.from = fk.from /\ x.to = fk.to /\ x.noValidate = fk.noValidate /\ ~fk.disabled
    /\ \A x \in Range(plan.post) : x.do = "restart" => x.floor = tdLoad[x.table].counter

\* What is in the source is in the plan.
Translated(plan, t) ==
    /\ \E x \in Range(plan.tables) : x.name = t
    /\ OwnSequence(tdShape[t]) => \E x \in Range(plan.pre) : x.name = SeqName(t)
    /\ tdShape[t].auto =>
          \E x \in Range(plan.post) :
              x.table = t /\ x.do = IF OwnSequence(tdShape[t]) THEN "setval" ELSE "restart"
    /\ tdShape[t].fk.from # "" /\ ~tdShape[t].fk.disabled => \E x \in Range(plan.fks) : x.table = t

TableStmt(t) == [kind |-> "table", table |-> t]

PlanInv ==
    /\ TdTypes
    /\ FromSource(tdPlan)
    /\ \A t \in SourceTables : TableStmt(t) \in Range(tdTodo) \/ Translated(tdPlan, t)
    /\ tdPhase # "translate" => tdTodo = <<>>

\* the statements of the dump
LEMMA StmtsOfTable ==
    ASSUME tdShape \in [SourceTables -> TdShapes], NEW t \in SourceTables
    PROVE  StmtsOf(t) \in Seq(TdStmts) /\ Len(StmtsOf(t)) >= 1 /\ StmtsOf(t)[1] = TableStmt(t)
<1> DEFINE ix == tdShape[t].indexes
           alter == [kind |-> "alter", table |-> t]
           stmt(i) == [kind |-> "index", table |-> t, name |-> ix[i]]
           stmts == [i \in 1..Len(ix) |-> stmt(i)]
           rest == IF ~tdShape[t].late THEN <<>> ELSE <<alter>> \o stmts
<1>1. StmtsOf(t) = <<TableStmt(t)>> \o rest
  BY DEF StmtsOf, TableStmt
<1>2. ix \in Seq(Seq(STRING))
  <2>1. tdShape[t] \in TdShapes
    OBVIOUS
  <2> QED BY <2>1, TdAssumption
<1>3. TableStmt(t) \in TdStmts /\ alter \in TdStmts /\ \A i \in 1..Len(ix) : stmt(i) \in TdStmts
  BY <1>2 DEF TdStmts, TableStmt
<1>4. Len(ix) \in Nat
  BY <1>2
<1> HIDE DEF ix, alter, stmt
<1>5. stmts \in Seq(TdStmts)
  BY <1>3, <1>4
<1>6. <<alter>> \in Seq(TdStmts) /\ <<TableStmt(t)>> \in Seq(TdStmts)
      /\ Len(<<TableStmt(t)>>) = 1 /\ <<TableStmt(t)>>[1] = TableStmt(t)
  BY <1>3
<1> HIDE DEF stmts
<1>7. <<alter>> \o stmts \in Seq(TdStmts)
  BY <1>5, <1>6
<1>8. rest \in Seq(TdStmts)
  BY <1>7
<1> DEFINE hd == <<TableStmt(t)>>
<1> HIDE DEF rest, hd
<1>9. hd \in Seq(TdStmts) /\ Len(hd) = 1 /\ hd[1] = TableStmt(t)
  BY <1>6 DEF hd
<1> DEFINE c == hd \o rest
<1>10. /\ Len(rest) \in Nat /\ c \in Seq(TdStmts) /\ Len(c) = Len(hd) + Len(rest)
       /\ \A i \in 1..Len(hd) : c[i] = hd[i]
  BY <1>8, <1>9, CatFacts, Zenon
<1> HIDE DEF c
<1>11. c \in Seq(TdStmts) /\ Len(c) >= 1 /\ c[1] = TableStmt(t)
  BY <1>9, <1>10
<1> QED BY <1>1, <1>11 DEF hd, c

LEMMA PlanInitially ==
    ASSUME TdInit
    PROVE  PlanInv
<1>1. /\ tdShape \in [SourceTables -> TdShapes]
      /\ \A t \in SourceTables : tdShape[t].fk.to \in SourceTables \cup {"", "elsewhere"}
      /\ tdLoad \in [SourceTables -> TdLoads]
      /\ tdPlan = EmptyPlan /\ tdPhase = "translate"
  BY DEF TdInit, TdStart
<1> DEFINE n == Len(TdTables)
           seqs == [i \in 1..n |-> StmtsOf(TdTables[i])]
<1>2. tdTodo = FlattenSeq(seqs)
  BY DEF TdInit, TdStart
<1>3. TdTables \in Seq(STRING)
  BY ONLY TdAssumption, Zenon
<1>13. n \in Nat
  BY <1>3
<1>4. /\ \A t \in SourceTables : \E i \in 1..n : TdTables[i] = t
      /\ \A i \in 1..n : TdTables[i] \in SourceTables
  <2>1. SourceTables = {TdTables[i] : i \in 1..n}
    BY <1>3, RangeByIndex DEF SourceTables
  <2> QED BY <2>1
<1>5. \A i \in 1..n : StmtsOf(TdTables[i]) \in Seq(TdStmts)
  BY <1>1, <1>4, StmtsOfTable
<1>6. seqs \in Seq(Seq(TdStmts)) /\ Len(seqs) = n
      /\ \A i \in 1..n : seqs[i] = StmtsOf(TdTables[i])
  BY <1>13, <1>5
<1> HIDE DEF seqs
<1>7. /\ tdTodo \in Seq(TdStmts)
      /\ \A i \in 1..n : Holds(tdTodo, seqs[i])
  BY <1>2, <1>6, FlattenHolds
<1>8. ASSUME NEW t \in SourceTables PROVE TableStmt(t) \in Range(tdTodo)
  <2>1. PICK i \in 1..n : TdTables[i] = t
    BY <1>4
  <2> DEFINE part == StmtsOf(t)
  <2>2. part \in Seq(TdStmts) /\ Len(part) >= 1 /\ part[1] = TableStmt(t)
    BY <1>1, StmtsOfTable
  <2>3. Holds(tdTodo, part)
    BY <1>6, <1>7, <2>1
  <2> HIDE DEF part
  <2>4. PICK p \in Nat : /\ p + Len(part) <= Len(tdTodo)
                         /\ \A q \in 1..Len(part) : tdTodo[p + q] = part[q]
    BY <2>3 DEF Holds
  <2>5. 1 \in 1..Len(part) /\ p + 1 \in 1..Len(tdTodo)
    BY <1>7, <2>2, <2>4
  <2>6. tdTodo[p + 1] = TableStmt(t)
    BY <2>2, <2>4, <2>5
  <2>7. Range(tdTodo) = {tdTodo[j] : j \in 1..Len(tdTodo)}
    BY <1>7, RangeByIndex
  <2> QED BY <2>5, <2>6, <2>7
<1>9. EmptyPlan \in Plans
  BY DEF EmptyPlan, Plans
<1>10. Range(<<>>) = {}
  BY RangeOfNone
<1>11. FromSource(EmptyPlan)
  BY <1>10 DEF FromSource, EmptyPlan
<1>12. TdTypes
  BY <1>1, <1>7, <1>9 DEF TdTypes
<1> QED BY <1>1, <1>8, <1>11, <1>12 DEF PlanInv

FKOf(x, t, s) ==
    /\ x.table = t /\ x.from = s.fk.from /\ x.to = s.fk.to
    /\ x.noValidate = s.fk.noValidate /\ ~s.fk.disabled
RestartOf(x, t) == x.table = t /\ (x.do = "restart" => x.floor = tdLoad[t].counter)
HasFK(fks, t, s) == s.fk.from # "" /\ ~s.fk.disabled => \E x \in Range(fks) : x.table = t
HasRestart(post, t, s) ==
    s.auto => \E x \in Range(post) :
                  x.table = t /\ x.do = IF OwnSequence(s) THEN "setval" ELSE "restart"

\* what one table adds to the plan
LEMMA TableParts ==
    ASSUME TdTypes, NEW t \in SourceTables, NEW s, s = tdShape[t]
    PROVE  /\ TableOf(t, s) \in TableRecs
           /\ TableOf(t, s).name = t /\ TableOf(t, s).sequence = OwnSequence(s)
           /\ TableFKs(t, s) \in Seq(FKRecs)
           /\ \A x \in Range(TableFKs(t, s)) : FKOf(x, t, s)
           /\ HasFK(TableFKs(t, s), t, s)
           /\ TableIndexes(t, s) \in Seq(IndexRecs)
           /\ IdentityRestart(t, s) \in Seq(RestartStmts)
           /\ \A x \in Range(IdentityRestart(t, s)) : RestartOf(x, t)
           /\ HasRestart(IdentityRestart(t, s), t, s)
           /\ OwnSequence(s) \in BOOLEAN
           /\ [do |-> "sequence", name |-> SeqName(t)] \in SeqStmts
<1>1. /\ s \in [type : [TdColumns -> STRING], auto : BOOLEAN, parts : BOOLEAN, late : BOOLEAN,
                indexes : Seq(Seq(STRING)),
                fk : [from : TdColumns \cup {""}, to : STRING, noValidate : BOOLEAN,
                      disabled : BOOLEAN]]
  <2>1. s \in TdShapes
    BY DEF TdTypes
  <2> QED BY <2>1, TdAssumption
<1>2. tdLoad[t].counter \in Nat
  <2>1. tdLoad[t] \in TdLoads
    BY DEF TdTypes
  <2>2. TdLoads \subseteq [max : Nat, counter : Nat]
    BY TdAssumption, Zenon
  <2> QED BY <2>1, <2>2
<1>3. OwnSequence(s) \in BOOLEAN /\ (OwnSequence(s) => s.auto)
  BY <1>1 DEF OwnSequence
<1>4. /\ TableOf(t, s) \in TableRecs
      /\ TableOf(t, s).name = t /\ TableOf(t, s).sequence = OwnSequence(s)
  BY <1>1, <1>3 DEF TableOf, TableRecs
<1>6. Range(<<>>) = {}
  BY RangeOfNone
<1>7. /\ TableFKs(t, s) \in Seq(FKRecs)
      /\ \A x \in Range(TableFKs(t, s)) :
            /\ x.table = t /\ x.from = s.fk.from /\ x.to = s.fk.to
            /\ x.noValidate = s.fk.noValidate /\ ~s.fk.disabled
      /\ s.fk.from # "" /\ ~s.fk.disabled => \E x \in Range(TableFKs(t, s)) : x.table = t
  <2> DEFINE fk == [table |-> t, from |-> s.fk.from, to |-> s.fk.to, noValidate |-> s.fk.noValidate]
             none == s.fk.from = "" \/ s.fk.disabled
  <2>1. PICK fks : fks = TableFKs(t, s)
    OBVIOUS
  <2>2. fks = IF none THEN <<>> ELSE <<fk>>
    BY <2>1 DEF TableFKs
  <2>3. /\ ~none => fk \in FKRecs
        /\ fk.table = t /\ fk.from = s.fk.from /\ fk.to = s.fk.to /\ fk.noValidate = s.fk.noValidate
    BY <1>1 DEF FKRecs
  <2>4. Range(<<fk>>) = {fk}
    BY RangeOfOne
  <2>5. none <=> s.fk.from = "" \/ s.fk.disabled
    BY <1>1
  <2>9. s.fk.disabled \in BOOLEAN
    BY <1>1
  <2> HIDE DEF fk, none
  <2>6. fks \in Seq(FKRecs)
    BY <2>2, <2>3
  <2>7. Range(fks) = IF none THEN {} ELSE {fk}
    BY <1>6, <2>2, <2>4, Zenon
  <2>8. /\ \A x \in Range(fks) :
             /\ x.table = t /\ x.from = s.fk.from /\ x.to = s.fk.to
             /\ x.noValidate = s.fk.noValidate /\ ~s.fk.disabled
        /\ s.fk.from # "" /\ ~s.fk.disabled => \E x \in Range(fks) : x.table = t
    BY <2>3, <2>5, <2>7, <2>9, Zenon
  <2> QED BY <2>1, <2>6, <2>8, Zenon
<1>8. TableIndexes(t, s) \in Seq(IndexRecs)
  <2> DEFINE ix == s.indexes
  <2>1. ix \in Seq(Seq(STRING))
    BY <1>1
  <2>4. Len(ix) \in Nat /\ \A i \in 1..Len(ix) : ix[i] \in Seq(STRING)
    BY <2>1
  <2>2. \A i \in 1..Len(ix) : IndexOf(t, ix[i]) \in IndexRecs
    BY <2>4 DEF IndexOf, IndexRecs
  <2>3. TableIndexes(t, s) = IF s.late THEN <<>> ELSE [i \in 1..Len(ix) |-> IndexOf(t, ix[i])]
    BY DEF TableIndexes
  <2> HIDE DEF ix
  <2> QED BY <2>4, <2>2, <2>3
<1>9. /\ IdentityRestart(t, s) \in Seq(RestartStmts)
      /\ \A x \in Range(IdentityRestart(t, s)) :
            x.table = t /\ (x.do = "restart" => x.floor = tdLoad[t].counter)
      /\ s.auto => \E x \in Range(IdentityRestart(t, s)) :
                       x.table = t /\ x.do = IF OwnSequence(s) THEN "setval" ELSE "restart"
  <2> DEFINE st == IF OwnSequence(s) THEN [do |-> "setval", table |-> t, floor |-> 0]
                   ELSE [do |-> "restart", table |-> t, floor |-> tdLoad[t].counter]
  <2>1. /\ st \in RestartStmts /\ st.table = t
        /\ st.do = IF OwnSequence(s) THEN "setval" ELSE "restart"
        /\ st.do = "restart" => st.floor = tdLoad[t].counter
    BY <1>2, <1>3 DEF RestartStmts
  <2>2. IdentityRestart(t, s) = IF s.auto THEN <<st>> ELSE <<>>
    BY <1>3 DEF IdentityRestart
  <2> HIDE DEF st
  <2>3. CASE s.auto
    <3>1. Range(IdentityRestart(t, s)) = {st}
      BY RangeOfOne, <2>2, <2>3, Zenon
    <3> QED BY <2>1, <2>2, <2>3, <3>1
  <2>4. CASE ~s.auto
    BY <1>6, <2>2, <2>4
  <2> QED BY <1>1, <2>3, <2>4
<1>10. [do |-> "sequence", name |-> SeqName(t)] \in SeqStmts
  BY DEF SeqStmts
<1> QED BY <1>3, <1>4, <1>7, <1>8, <1>9, <1>10 DEF FKOf, RestartOf, HasFK, HasRestart

\* tables with the same names and the same sequences
Alike(a, b) ==
    /\ a \in Seq(TableRecs) /\ b \in Seq(TableRecs) /\ Len(a) = Len(b)
    /\ \A i \in 1..Len(a) : b[i].name = a[i].name /\ b[i].sequence = a[i].sequence

LEMMA AlikeRange ==
    ASSUME NEW a, NEW b, Alike(a, b)
    PROVE  /\ \A y \in Range(b) : \E x \in Range(a) : x.name = y.name /\ x.sequence = y.sequence
           /\ \A x \in Range(a) : \E y \in Range(b) : x.name = y.name /\ x.sequence = y.sequence
<1>1. a \in Seq(TableRecs) /\ b \in Seq(TableRecs)
  BY DEF Alike
<1>2. PICK n : n = Len(a) /\ n = Len(b)
  BY DEF Alike
<1>3. Range(a) = {a[i] : i \in 1..n} /\ Range(b) = {b[i] : i \in 1..n}
  BY <1>1, <1>2, RangeByIndex
<1>4. \A i \in 1..n : b[i].name = a[i].name /\ b[i].sequence = a[i].sequence
  BY <1>2 DEF Alike
<1> QED BY <1>3, <1>4

\* a plan that has all that another has
Grows(p, q) ==
    /\ \A x \in Range(p.tables) : \E y \in Range(q.tables) : y.name = x.name
    /\ Range(p.pre) \subseteq Range(q.pre)
    /\ Range(p.post) \subseteq Range(q.post)
    /\ Range(p.fks) \subseteq Range(q.fks)

LEMMA GrowsKeeps ==
    ASSUME NEW p, NEW q, Grows(p, q), NEW t, Translated(p, t)
    PROVE  Translated(q, t)
<1>1. \E x \in Range(q.tables) : x.name = t
  BY DEF Grows, Translated
<1>2. OwnSequence(tdShape[t]) => \E x \in Range(q.pre) : x.name = SeqName(t)
  BY DEF Grows, Translated
<1>3. tdShape[t].auto =>
          \E x \in Range(q.post) :
              x.table = t /\ x.do = IF OwnSequence(tdShape[t]) THEN "setval" ELSE "restart"
  BY DEF Grows, Translated
<1>4. tdShape[t].fk.from # "" /\ ~tdShape[t].fk.disabled => \E x \in Range(q.fks) : x.table = t
  BY DEF Grows, Translated
<1> QED BY <1>1, <1>2, <1>3, <1>4 DEF Translated

LEMMA TranslateTableKeeps ==
    ASSUME TdTypes, FromSource(tdPlan), NEW t \in SourceTables, TranslateTable(t),
           NEW q, q = tdPlan'
    PROVE  q \in Plans /\ FromSource(q) /\ Translated(q, t) /\ Grows(tdPlan, q)
<1>1. PICK s : s = tdShape[t]
  OBVIOUS
<1> DEFINE new == TableOf(t, s)
           sq == [do |-> "sequence", name |-> SeqName(t)]
           ix == TableIndexes(t, s)
           fk == TableFKs(t, s)
           rs == IdentityRestart(t, s)
<1>2. /\ new \in TableRecs /\ new.name = t /\ new.sequence = OwnSequence(s)
      /\ fk \in Seq(FKRecs) /\ ix \in Seq(IndexRecs) /\ rs \in Seq(RestartStmts)
      /\ sq \in SeqStmts /\ sq.name = SeqName(t)
  BY <1>1, TableParts
<1>3. (\A x \in Range(fk) : FKOf(x, t, s)) /\ HasFK(fk, t, s)
  BY <1>1, TableParts
<1>4. (\A x \in Range(rs) : RestartOf(x, t)) /\ HasRestart(rs, t, s)
  BY <1>1, TableParts
<1>5. q = [tdPlan EXCEPT !.tables = Append(@, new),
                         !.pre = IF OwnSequence(s) THEN Append(@, sq) ELSE @,
                         !.indexes = @ \o ix, !.fks = @ \o fk, !.post = @ \o rs]
  BY <1>1, Zenon DEF TranslateTable
<1> HIDE DEF new, sq, ix, fk, rs
<1>6. /\ tdPlan \in Plans
      /\ tdPlan.tables \in Seq(TableRecs) /\ tdPlan.indexes \in Seq(IndexRecs)
      /\ tdPlan.fks \in Seq(FKRecs) /\ tdPlan.pre \in Seq(SeqStmts)
      /\ tdPlan.post \in Seq(RestartStmts)
  BY DEF TdTypes, Plans
<1>7. /\ Append(tdPlan.tables, new) \in Seq(TableRecs)
      /\ Range(Append(tdPlan.tables, new)) = Range(tdPlan.tables) \cup {new}
  BY <1>2, <1>6, RangeOfAppend
<1>8. /\ Append(tdPlan.pre, sq) \in Seq(SeqStmts)
      /\ Range(Append(tdPlan.pre, sq)) = Range(tdPlan.pre) \cup {sq}
  BY <1>2, <1>6, RangeOfAppend
<1>9. /\ tdPlan.indexes \o ix \in Seq(IndexRecs)
      /\ tdPlan.fks \o fk \in Seq(FKRecs)
      /\ Range(tdPlan.fks \o fk) = Range(tdPlan.fks) \cup Range(fk)
  BY <1>2, <1>6, RangeOfCat
<1>10. /\ tdPlan.post \o rs \in Seq(RestartStmts)
       /\ Range(tdPlan.post \o rs) = Range(tdPlan.post) \cup Range(rs)
  BY <1>2, <1>6, RangeOfCat
<1> DEFINE tables2 == Append(tdPlan.tables, new)
           pre2 == Append(tdPlan.pre, sq)
           ix2 == tdPlan.indexes \o ix
           fks2 == tdPlan.fks \o fk
           post2 == tdPlan.post \o rs
<1>11. q = [tdPlan EXCEPT !.tables = tables2, !.pre = IF OwnSequence(s) THEN pre2 ELSE tdPlan.pre,
                          !.indexes = ix2, !.fks = fks2, !.post = post2]
  BY <1>5, Zenon
<1>12. /\ tables2 \in Seq(TableRecs) /\ Range(tables2) = Range(tdPlan.tables) \cup {new}
       /\ pre2 \in Seq(SeqStmts) /\ Range(pre2) = Range(tdPlan.pre) \cup {sq}
       /\ ix2 \in Seq(IndexRecs)
       /\ fks2 \in Seq(FKRecs) /\ Range(fks2) = Range(tdPlan.fks) \cup Range(fk)
       /\ post2 \in Seq(RestartStmts) /\ Range(post2) = Range(tdPlan.post) \cup Range(rs)
  BY <1>7, <1>8, <1>9, <1>10, Zenon
<1> HIDE DEF tables2, pre2, ix2, fks2, post2
<1>13. /\ q \in Plans
       /\ q.tables = tables2 /\ q.fks = fks2 /\ q.post = post2
       /\ q.pre = IF OwnSequence(s) THEN pre2 ELSE tdPlan.pre
  BY <1>6, <1>11, <1>12 DEF Plans
<1>14. Grows(tdPlan, q)
  BY <1>12, <1>13 DEF Grows
<1>15. /\ \A x \in Range(q.tables) : x.sequence = OwnSequence(tdShape[x.name])
  BY <1>1, <1>2, <1>12, <1>13 DEF FromSource
<1>16. \A x \in Range(q.fks) :
          LET f == tdShape[x.table].fk
          IN  x.from = f.from /\ x.to = f.to /\ x.noValidate = f.noValidate /\ ~f.disabled
  BY <1>1, <1>3, <1>12, <1>13 DEF FromSource, FKOf
<1>17. \A x \in Range(q.post) : x.do = "restart" => x.floor = tdLoad[x.table].counter
  BY <1>4, <1>12, <1>13 DEF FromSource, RestartOf
<1>18. FromSource(q)
  BY <1>15, <1>16, <1>17 DEF FromSource
<1>19. Translated(q, t)
  <2>1. \E x \in Range(q.tables) : x.name = t
    BY <1>2, <1>12, <1>13
  <2>2. OwnSequence(tdShape[t]) => \E x \in Range(q.pre) : x.name = SeqName(t)
    BY <1>1, <1>2, <1>12, <1>13
  <2>3. tdShape[t].auto =>
          \E x \in Range(q.post) :
              x.table = t /\ x.do = IF OwnSequence(tdShape[t]) THEN "setval" ELSE "restart"
    BY <1>1, <1>4, <1>12, <1>13 DEF HasRestart
  <2>4. tdShape[t].fk.from # "" /\ ~tdShape[t].fk.disabled => \E x \in Range(q.fks) : x.table = t
    BY <1>1, <1>3, <1>12, <1>13 DEF HasFK
  <2> QED BY <2>1, <2>2, <2>3, <2>4 DEF Translated
<1> QED BY <1>13, <1>14, <1>18, <1>19

\* other tables in a plan
LEMMA AlikeKeeps ==
    ASSUME TdTypes, NEW p \in Plans, FromSource(p), NEW b, Alike(p.tables, b), NEW q,
           q = [p EXCEPT !.tables = b]
    PROVE  q \in Plans /\ FromSource(q) /\ Grows(p, q)
<1>1. b \in Seq(TableRecs)
  BY DEF Alike
<1>2. /\ q \in Plans /\ q.tables = b /\ q.pre = p.pre /\ q.fks = p.fks /\ q.post = p.post
  BY <1>1 DEF Plans
<1>3. /\ \A y \in Range(b) : \E x \in Range(p.tables) : x.name = y.name /\ x.sequence = y.sequence
      /\ \A x \in Range(p.tables) : \E y \in Range(b) : x.name = y.name /\ x.sequence = y.sequence
  BY AlikeRange
<1>4. Grows(p, q)
  BY <1>2, <1>3 DEF Grows
<1>5. \A x \in Range(q.tables) : x.sequence = OwnSequence(tdShape[x.name])
  BY <1>2, <1>3 DEF FromSource
<1>6. FromSource(q)
  BY <1>2, <1>5 DEF FromSource
<1> QED BY <1>2, <1>4, <1>6

LEMMA TranslateAlterKeeps ==
    ASSUME TdTypes, FromSource(tdPlan), NEW t, TranslateAlterTable(t), NEW q, q = tdPlan'
    PROVE  q \in Plans /\ FromSource(q) /\ Grows(tdPlan, q)
<1> DEFINE a == tdPlan.tables
           el(i) == IF a[i].name = t THEN [a[i] EXCEPT !.pk = TRUE] ELSE a[i]
           b == [i \in 1..Len(a) |-> el(i)]
<1>1. tdPlan \in Plans /\ a \in Seq(TableRecs)
  BY DEF TdTypes, Plans
<1>2. q = [tdPlan EXCEPT !.tables = b]
  BY DEF TranslateAlterTable
<1>3. Len(a) \in Nat /\ \A i \in 1..Len(a) : a[i] \in TableRecs
  BY <1>1
<1>4. ASSUME NEW i \in 1..Len(a)
      PROVE  el(i) \in TableRecs /\ el(i).name = a[i].name /\ el(i).sequence = a[i].sequence
  <2>1. PICK x : x = a[i]
    OBVIOUS
  <2>2. x \in TableRecs
    BY <1>3, <2>1
  <2>3. PICK y : y = [x EXCEPT !.pk = TRUE]
    OBVIOUS
  <2>4. y \in TableRecs /\ y.name = x.name /\ y.sequence = x.sequence
    BY <2>2, <2>3 DEF TableRecs
  <2>5. el(i) = IF x.name = t THEN y ELSE x
    BY <2>1, <2>3
  <2> HIDE DEF el, a
  <2> QED BY <2>1, <2>2, <2>4, <2>5
<1> HIDE DEF el
<1>5. b \in Seq(TableRecs) /\ Len(b) = Len(a) /\ \A i \in 1..Len(a) : b[i] = el(i)
  BY <1>3, <1>4
<1> HIDE DEF b
<1>6. Alike(a, b)
  BY <1>1, <1>4, <1>5 DEF Alike
<1> QED BY <1>1, <1>2, <1>6, AlikeKeeps

LEMMA TranslateIndexKeeps ==
    ASSUME TdTypes, FromSource(tdPlan), NEW t \in SourceTables, NEW name \in Seq(STRING),
           TranslateCreateIndex(t, name), NEW q, q = tdPlan'
    PROVE  q \in Plans /\ FromSource(q) /\ Grows(tdPlan, q)
<1>1. IndexOf(t, name) \in IndexRecs
  BY DEF IndexOf, IndexRecs
<1>2. tdPlan \in Plans /\ tdPlan.indexes \in Seq(IndexRecs)
  BY DEF TdTypes, Plans
<1> DEFINE ix == Append(tdPlan.indexes, IndexOf(t, name))
<1>3. ix \in Seq(IndexRecs)
  BY <1>1, <1>2
<1>4. q = [tdPlan EXCEPT !.indexes = ix]
  BY DEF TranslateCreateIndex
<1> HIDE DEF ix
<1>5. /\ q \in Plans /\ q.tables = tdPlan.tables /\ q.pre = tdPlan.pre /\ q.fks = tdPlan.fks
      /\ q.post = tdPlan.post
  BY <1>2, <1>3, <1>4 DEF Plans
<1>6. FromSource(q)
  BY <1>5 DEF FromSource
<1>7. Grows(tdPlan, q)
  BY <1>5 DEF Grows
<1> QED BY <1>5, <1>6, <1>7

LEMMA RangeOfTail ==
    ASSUME NEW S, NEW s \in Seq(S), s # <<>>
    PROVE  Head(s) \in S /\ Tail(s) \in Seq(S) /\ Range(s) \subseteq {Head(s)} \cup Range(Tail(s))
<1>1. /\ Len(s) \in Nat /\ Len(s) >= 1 /\ Head(s) \in S /\ Tail(s) \in Seq(S)
      /\ Head(s) = s[1] /\ Len(Tail(s)) = Len(s) - 1
  OBVIOUS
<1>2. \A i \in 1..(Len(s) - 1) : Tail(s)[i] = s[i + 1]
  OBVIOUS
<1>3. Range(s) = {s[i] : i \in 1..Len(s)}
  BY RangeByIndex
<1>4. Range(Tail(s)) = {Tail(s)[i] : i \in 1..Len(Tail(s))}
  BY <1>1, RangeByIndex
<1> DEFINE n == Len(s)
           u == Tail(s)
<1>5. Range(u) = {u[i] : i \in 1..(n - 1)} /\ \A i \in 1..(n - 1) : u[i] = s[i + 1]
  BY <1>1, <1>2, <1>4
<1>6. n \in Nat /\ Range(s) = {s[i] : i \in 1..n} /\ Head(s) = s[1]
  BY <1>1, <1>3
<1> HIDE DEF n, u
<1>7. ASSUME NEW i \in 1..n PROVE s[i] \in {s[1]} \cup Range(u)
  <2>1. CASE i = 1
    BY <2>1
  <2>2. CASE i # 1
    <3>1. i - 1 \in 1..(n - 1) /\ (i - 1) + 1 = i
      BY <1>6, <2>2
    <3>2. u[i - 1] = s[i] /\ u[i - 1] \in Range(u)
      BY <1>5, <3>1
    <3> QED BY <3>2
  <2> QED BY <2>1, <2>2
<1>8. Range(s) \subseteq {Head(s)} \cup Range(u)
  BY <1>6, <1>7
<1> QED BY <1>1, <1>8 DEF u

LEMMA TranslateStmtKeeps ==
    ASSUME PlanInv, TranslateStmt
    PROVE  PlanInv'
<1>1. /\ TdTypes /\ FromSource(tdPlan) /\ tdTodo \in Seq(TdStmts) /\ tdTodo # <<>>
      /\ tdTodo' = Tail(tdTodo)
      /\ tdShape' = tdShape /\ tdLoad' = tdLoad /\ tdPhase' = tdPhase /\ tdPhase = "translate"
  BY DEF PlanInv, TdTypes, TranslateStmt
<1>2. PICK st : st = Head(tdTodo)
  OBVIOUS
<1>3. /\ st \in TdStmts /\ Tail(tdTodo) \in Seq(TdStmts)
      /\ Range(tdTodo) \subseteq {st} \cup Range(Tail(tdTodo))
  BY <1>1, <1>2, RangeOfTail
<1>4. PICK q : q = tdPlan'
  OBVIOUS
<1>5. /\ q \in Plans /\ FromSource(q) /\ Grows(tdPlan, q)
      /\ st.kind = "table" => Translated(q, st.table)
  <2>1. \/ st.kind = "table" /\ TranslateTable(st.table)
        \/ st.kind = "alter" /\ TranslateAlterTable(st.table)
        \/ st.kind = "index" /\ TranslateCreateIndex(st.table, st.name)
    BY <1>2 DEF TranslateStmt
  <2>2. st.table \in SourceTables /\ (st.kind = "index" => st.name \in Seq(STRING))
    BY <1>3 DEF TdStmts
  <2>3. CASE st.kind = "table" /\ TranslateTable(st.table)
    BY <1>1, <1>4, <2>2, <2>3, TranslateTableKeeps
  <2>4. CASE st.kind = "alter" /\ TranslateAlterTable(st.table)
    BY <1>1, <1>4, <2>4, TranslateAlterKeeps
  <2>5. CASE st.kind = "index" /\ TranslateCreateIndex(st.table, st.name)
    BY <1>1, <1>4, <2>2, <2>5, TranslateIndexKeeps
  <2> QED BY <2>1, <2>3, <2>4, <2>5
<1>6. ASSUME NEW t \in SourceTables
      PROVE  TableStmt(t) \in Range(Tail(tdTodo)) \/ Translated(q, t)
  <2>1. CASE Translated(tdPlan, t)
    BY <1>5, <2>1, GrowsKeeps
  <2>2. CASE TableStmt(t) \in Range(tdTodo)
    <3>1. TableStmt(t) = st \/ TableStmt(t) \in Range(Tail(tdTodo))
      BY <1>3, <2>2
    <3>2. TableStmt(t).kind = "table" /\ TableStmt(t).table = t
      BY DEF TableStmt
    <3> QED BY <1>5, <3>1, <3>2
  <2> QED BY <2>1, <2>2 DEF PlanInv
<1>7. TdTypes'
  BY <1>1, <1>3, <1>4, <1>5 DEF TdTypes
<1>8. FromSource(tdPlan)'
  BY <1>1, <1>4, <1>5 DEF FromSource
<1>9. ASSUME NEW t \in SourceTables PROVE (TableStmt(t) \in Range(tdTodo) \/ Translated(tdPlan, t))'
  <2>1. Translated(q, t) => Translated(tdPlan, t)'
    BY <1>1, <1>4 DEF Translated
  <2> QED BY <1>1, <1>6, <2>1 DEF TableStmt
<1> QED BY <1>1, <1>7, <1>8, <1>9 DEF PlanInv

LEMMA HarmonizeAlike ==
    ASSUME NEW a \in Seq(TableRecs), NEW fk \in FKRecs
    PROVE  Alike(a, Harmonize(a, fk))
<1>1. PICK b : b = Harmonize(a, fk)
  OBVIOUS
<1>2. Len(a) \in Nat /\ \A i \in 1..Len(a) : a[i] \in TableRecs
  OBVIOUS
<1>3. CASE ~Known(a, fk.to)
  <2>1. b = a
    BY <1>1, <1>3 DEF Harmonize
  <2> QED BY <1>1, <2>1 DEF Alike
<1>4. CASE Known(a, fk.to)
  <2>1. PICK k, j : k = At(a, fk.table) /\ j = At(a, fk.to)
    OBVIOUS
  <2>2. j \in 1..Len(a)
    BY <1>4, <2>1 DEF Known, At
  <2>3. PICK v : v = a[j].type["id"]
    OBVIOUS
  <2>4. v \in STRING
    <3>1. a[j] \in TableRecs
      BY <1>2, <2>2
    <3> QED BY <2>3, <3>1 DEF TableRecs, TdColumns
  <2>5. b = [a EXCEPT ![k].type[fk.from] = v]
    BY <1>1, <1>4, <2>1, <2>3 DEF Harmonize
  <2> DEFINE el(i) == [a[i] EXCEPT !.type[fk.from] = v]
  <2>6. ASSUME NEW i \in 1..Len(a)
        PROVE  el(i) \in TableRecs /\ el(i).name = a[i].name /\ el(i).sequence = a[i].sequence
    <3>1. PICK x : x = a[i]
      OBVIOUS
    <3>2. x \in TableRecs
      BY <1>2, <3>1
    <3>3. PICK y : y = [x EXCEPT !.type[fk.from] = v]
      OBVIOUS
    <3>4. PICK ty : ty = [x.type EXCEPT ![fk.from] = v]
      OBVIOUS
    <3>5. ty \in [TdColumns -> STRING]
      BY <2>4, <3>2, <3>4 DEF TableRecs
    <3>6. y = [x EXCEPT !.type = ty]
      BY <3>3, <3>4
    <3>7. y \in TableRecs /\ y.name = x.name /\ y.sequence = x.sequence
      BY <3>2, <3>5, <3>6 DEF TableRecs
    <3> QED BY <3>1, <3>3, <3>7
  <2>7. PICK w : w = el(k)
    OBVIOUS
  <2>12. b = [a EXCEPT ![k] = w]
    BY <2>5, <2>7
  <2> HIDE DEF el
  <2>14. DOMAIN a = 1..Len(a)
    OBVIOUS
  <2>15. b = [i \in DOMAIN a |-> IF i = k THEN w ELSE a[i]]
    BY ONLY <2>12
  <2>8. b = [i \in 1..Len(a) |-> IF i = k THEN w ELSE a[i]]
    BY ONLY <2>14, <2>15, Zenon
  <2>9. \A i \in 1..Len(a) : b[i] = IF i = k THEN w ELSE a[i]
    BY <2>8
  <2>13. \A i \in 1..Len(a) : b[i] \in TableRecs
    BY <1>2, <2>6, <2>7, <2>9
  <2>10. b \in Seq(TableRecs) /\ Len(b) = Len(a)
    BY <1>2, <2>8, <2>13
  <2>11. Alike(a, b)
    BY <2>6, <2>7, <2>9, <2>10 DEF Alike
  <2> QED BY <1>1, <2>11
<1> QED BY <1>3, <1>4

LEMMA HarmonizeKeeps ==
    ASSUME TdTypes, NEW p \in Plans, FromSource(p), NEW q, q = harmonizeFKTypes(p)
    PROVE  q \in Plans /\ FromSource(q) /\ Grows(p, q)
<1>1. p.tables \in Seq(TableRecs) /\ p.fks \in Seq(FKRecs)
  BY DEF Plans
<1>2. PICK n : n = Len(p.fks)
  OBVIOUS
<1>3. n \in Nat /\ \A i \in 1..n : p.fks[i] \in FKRecs
  BY <1>1, <1>2
<1>4. PICK f : /\ f[0] = p.tables
               /\ harmonizeFKTypes(p) = [p EXCEPT !.tables = f[Len(p.fks)]]
               /\ \A i \in 1..Len(p.fks) : f[i] = Harmonize(f[i - 1], p.fks[i])
  BY <1>2, <1>3, HarmonizeSteps
<1> DEFINE G == {i \in 0..n : Alike(p.tables, f[i])}
<1>5. 0 \in G
  BY <1>1, <1>3, <1>4 DEF Alike
<1>6. ASSUME NEW i \in 0..(n - 1), i \in G PROVE i + 1 \in G
  <2>1. i + 1 \in 1..n /\ i + 1 \in 0..n /\ (i + 1) - 1 = i
    BY <1>3
  <2>2. PICK c : c = f[i + 1]
    OBVIOUS
  <2>3. PICK b : b = f[i]
    OBVIOUS
  <2>4. c = Harmonize(b, p.fks[i + 1])
    BY <1>2, <1>4, <2>1, <2>2, <2>3
  <2>5. Alike(p.tables, b) /\ b \in Seq(TableRecs)
    BY <1>6, <2>3 DEF Alike
  <2>6. Alike(b, c)
    BY <1>3, <2>1, <2>4, <2>5, HarmonizeAlike
  <2>7. Alike(p.tables, c)
    BY <2>5, <2>6 DEF Alike
  <2> QED BY <2>1, <2>2, <2>7
<1> HIDE DEF G
<1>7. \A i \in 0..n : i \in G
  BY <1>3, <1>5, <1>6, UpTo
<1>8. n \in G
  BY <1>3, <1>7
<1>9. Alike(p.tables, f[n])
  BY <1>8 DEF G
<1> QED BY <1>2, <1>4, <1>9, AlikeKeeps

LEMMA FinishTranslateKeeps ==
    ASSUME PlanInv, FinishTranslate
    PROVE  PlanInv'
<1>1. /\ TdTypes /\ FromSource(tdPlan) /\ tdPlan \in Plans /\ tdTodo = <<>>
      /\ tdTodo' = tdTodo
      /\ tdShape' = tdShape /\ tdLoad' = tdLoad /\ tdPhase' = "create_ddl"
  BY DEF PlanInv, TdTypes, FinishTranslate
<1>2. PICK q : q = tdPlan'
  OBVIOUS
<1>3. q = harmonizeFKTypes(tdPlan)
  BY <1>2 DEF FinishTranslate
<1>4. q \in Plans /\ FromSource(q) /\ Grows(tdPlan, q)
  BY <1>1, <1>3, HarmonizeKeeps
<1>5. ASSUME NEW t \in SourceTables PROVE Translated(q, t)
  <2>1. Range(tdTodo) = {}
    BY <1>1, RangeOfNone
  <2>2. Translated(tdPlan, t)
    BY <2>1 DEF PlanInv
  <2> QED BY <1>4, <2>2, GrowsKeeps
<1>6. TdTypes'
  BY <1>1, <1>2, <1>4 DEF TdTypes
<1>7. FromSource(tdPlan)'
  BY <1>1, <1>2, <1>4 DEF FromSource
<1>8. ASSUME NEW t \in SourceTables PROVE (TableStmt(t) \in Range(tdTodo) \/ Translated(tdPlan, t))'
  <2>1. Translated(q, t) => Translated(tdPlan, t)'
    BY <1>1, <1>2 DEF Translated
  <2> QED BY <1>5, <2>1
<1> QED BY <1>1, <1>6, <1>7, <1>8 DEF PlanInv

\* Foreign keys that lead out of the schema are reported once the plan is
\* finished; no statement was executed before that.
PrereqInv ==
    /\ tdPhase # "translate" =>
          \A x \in Range(tdPlan.fks) : ~Known(tdPlan.tables, x.to) => x \in tdPrereqs
    /\ tdPhase \in {"translate", "create_ddl"} =>
          pg = [ok |-> TRUE, rels |-> {}, tables |-> <<>>, unique |-> {}, fks |-> {}, next |-> <<>>]

LEMMA KnownTables ==
    ASSUME NEW p \in Plans, NEW t
    PROVE  Known(p.tables, t) <=> \E x \in Range(p.tables) : x.name = t
<1>1. p.tables \in Seq(TableRecs)
  BY DEF Plans
<1>2. Range(p.tables) = {p.tables[i] : i \in 1..Len(p.tables)}
  BY <1>1, RangeByIndex
<1> QED BY <1>2 DEF Known

LEMMA FinishTranslatePrereqs ==
    ASSUME PlanInv, PrereqInv, FinishTranslate
    PROVE  PrereqInv'
<1>1. /\ tdPlan \in Plans /\ TdTypes /\ FromSource(tdPlan)
      /\ tdPrereqs' = {fk \in Range(tdPlan.fks) : ~Known(tdPlan.tables, fk.to)}
      /\ pg' = pg /\ tdPhase = "translate" /\ tdPhase' = "create_ddl"
  BY DEF PlanInv, TdTypes, FinishTranslate
<1>2. PICK q : q = tdPlan'
  OBVIOUS
<1>3. q = harmonizeFKTypes(tdPlan)
  BY <1>2 DEF FinishTranslate
<1>4. q \in Plans /\ Grows(tdPlan, q)
  BY <1>1, <1>3, HarmonizeKeeps
<1>5. q.fks = tdPlan.fks
  <2>1. tdPlan.fks \in Seq(FKRecs)
    BY <1>1 DEF Plans
  <2>2. PICK f : q = [tdPlan EXCEPT !.tables = f]
    BY <1>3 DEF harmonizeFKTypes
  <2> QED BY <1>1, <2>2 DEF Plans
<1>6. ASSUME NEW x \in Range(q.fks), ~Known(q.tables, x.to) PROVE x \in tdPrereqs'
  <2>1. ~ \E y \in Range(q.tables) : y.name = x.to
    BY <1>4, <1>6, KnownTables
  <2>2. ~ \E y \in Range(tdPlan.tables) : y.name = x.to
    BY <1>4, <2>1 DEF Grows
  <2>3. ~Known(tdPlan.tables, x.to)
    BY <1>1, <2>2, KnownTables
  <2> QED BY <1>1, <1>5, <1>6, <2>3
<1>7. (\A x \in Range(tdPlan.fks) : ~Known(tdPlan.tables, x.to) => x \in tdPrereqs)'
  BY <1>2, <1>6 DEF Known
<1> QED BY <1>1, <1>7 DEF PrereqInv

-----------------------------------------------------------------------------
(* create_ddl.                                                               *)

DDLStmts == SeqStmts \cup TableStmts

\* what a statement before the copy leaves behind
Leaves(st, db) ==
    /\ st.do = "sequence" => st.name \in DOMAIN db.next
    /\ st.do = "table" /\ ~st.table.sequence => <<st.table.name, "identity">> \in DOMAIN db.next

LEMMA ExecuteDDL ==
    ASSUME NEW db, DbOK(db), SeqsInNext(db), NEW st \in DDLStmts, NEW e, e = Execute(db, st)
    PROVE  /\ DbOK(e) /\ (e.ok => db.ok) /\ e.fks = db.fks /\ SeqsInNext(e)
           /\ DOMAIN db.next \subseteq DOMAIN e.next
           /\ e.ok => Leaves(st, e)
<1>1. CASE st \in SeqStmts
  <2>1. st.do = "sequence"
    BY <1>1 DEF SeqStmts
  <2> QED BY <1>1, <2>1, ExecuteSequence DEF Leaves
<1>2. CASE st \in TableStmts
  <2>1. st.do = "table"
    BY <1>2 DEF TableStmts
  <2> QED BY <1>2, <2>1, ExecuteTable DEF Leaves
<1> QED BY <1>1, <1>2 DEF DDLStmts

LEMMA DDLScriptParts ==
    ASSUME NEW p \in Plans, NEW script, script = DDLScript(p)
    PROVE  /\ script \in Seq(DDLStmts)
           /\ Range(p.pre) \subseteq Range(script)
           /\ \A x \in Range(p.tables) : [do |-> "table", table |-> x] \in Range(script)
<1>1. p.pre \in Seq(SeqStmts) /\ p.tables \in Seq(TableRecs)
  BY DEF Plans
<1>2. p.pre \in Seq(DDLStmts)
  BY <1>1 DEF DDLStmts
<1> DEFINE stmt(x) == [do |-> "table", table |-> x]
           n == Len(p.tables)
           ts == [i \in 1..n |-> stmt(p.tables[i])]
<1>3. n \in Nat /\ \A i \in 1..n : p.tables[i] \in TableRecs
  BY <1>1
<1>4. \A x \in TableRecs : stmt(x) \in DDLStmts
  BY DEF DDLStmts, TableStmts
<1>5. script = p.pre \o ts
  BY DEF DDLScript
<1>6. Range(p.tables) = {p.tables[i] : i \in 1..n}
  BY <1>1, RangeByIndex
<1> HIDE DEF stmt, n
<1>7. ts \in Seq(DDLStmts) /\ Len(ts) = n /\ \A i \in 1..n : ts[i] = stmt(p.tables[i])
  BY <1>3, <1>4
<1> HIDE DEF ts
<1>8. Range(ts) = {ts[i] : i \in 1..n}
  BY <1>7, RangeByIndex
<1>9. script \in Seq(DDLStmts) /\ Range(script) = Range(p.pre) \cup Range(ts)
  BY <1>2, <1>5, <1>7, RangeOfCat
<1>10. \A x \in Range(p.tables) : stmt(x) \in Range(ts)
  BY <1>6, <1>7, <1>8
<1> QED BY <1>9, <1>10 DEF stmt

LEMMA DDLRuns ==
    ASSUME NEW db, DbOK(db), SeqsInNext(db), NEW script \in Seq(DDLStmts), NEW e, e = Run(db, script)
    PROVE  /\ DbOK(e) /\ e.fks = db.fks
           /\ e.ok => \A st \in Range(script) : Leaves(st, e)
<1>1. PICK n : n = Len(script)
  OBVIOUS
<1>2. n \in Nat /\ \A i \in 1..n : script[i] \in DDLStmts
  BY <1>1
<1>3. PICK f : /\ f[0] = db /\ f[Len(script)] = Run(db, script)
               /\ \A i \in 1..Len(script) : f[i] = Execute(f[i - 1], script[i])
  BY <1>1, <1>2, RunSteps
<1> DEFINE Good(i, d) == /\ DbOK(d) /\ SeqsInNext(d) /\ d.fks = db.fks
                         /\ d.ok => \A j \in 1..i : Leaves(script[j], d)
           G == {i \in 0..n : Good(i, f[i])}
<1>4. 0 \in G
  BY <1>2, <1>3
<1>5. ASSUME NEW i \in 0..(n - 1), i \in G PROVE i + 1 \in G
  <2>1. i + 1 \in 1..n /\ i + 1 \in 0..n /\ (i + 1) - 1 = i
    BY <1>2
  <2>2. PICK d : d = f[i]
    OBVIOUS
  <2>3. PICK g : g = f[i + 1]
    OBVIOUS
  <2>4. PICK st : st = script[i + 1]
    OBVIOUS
  <2>5. g = Execute(d, st) /\ st \in DDLStmts
    BY <1>1, <1>2, <1>3, <2>1, <2>2, <2>3, <2>4
  <2>6. Good(i, d)
    BY <1>5, <2>2
  <2> HIDE DEF G
  <2>7. /\ DbOK(g) /\ (g.ok => d.ok) /\ g.fks = d.fks /\ SeqsInNext(g)
        /\ DOMAIN d.next \subseteq DOMAIN g.next
        /\ g.ok => Leaves(st, g)
    BY <2>5, <2>6, ExecuteDDL
  <2>8. ASSUME g.ok, NEW j \in 1..(i + 1) PROVE Leaves(script[j], g)
    <3>1. j \in 1..i \/ j = i + 1
      BY <2>1
    <3>2. CASE j \in 1..i
      <4>1. Leaves(script[j], d)
        BY <2>6, <2>7, <2>8, <3>2
      <4> QED BY <2>7, <4>1 DEF Leaves
    <3>3. CASE j = i + 1
      BY <2>4, <2>7, <2>8, <3>3
    <3> QED BY <3>1, <3>2, <3>3
  <2>9. Good(i + 1, g)
    BY <2>6, <2>7, <2>8
  <2> QED BY <2>1, <2>3, <2>9 DEF G
<1> HIDE DEF G
<1>6. \A i \in 0..n : i \in G
  BY <1>2, <1>4, <1>5, UpTo
<1>7. n \in G
  BY <1>2, <1>6
<1>8. Good(n, e)
  BY <1>1, <1>3, <1>7 DEF G
<1>9. Range(script) = {script[i] : i \in 1..n}
  BY <1>1, RangeByIndex
<1> QED BY <1>8, <1>9

\* where the keys of a table come from
KeyOf(t) == IF OwnSequence(tdShape[t]) THEN SeqName(t) ELSE <<t, "identity">>

\* Between the two scripts.
BetweenInv ==
    tdPhase = "create_fk" =>
        /\ DbOK(pg) /\ pg.fks = {}
        /\ pg.ok => \A t \in SourceTables : KeyOf(t) \in DOMAIN pg.next

LEMMA CreateDDLKeeps ==
    ASSUME PlanInv, PrereqInv, CreateDDLStep
    PROVE  BetweenInv'
<1>1. /\ tdPhase = "create_ddl" /\ pg' = Run(pg, DDLScript(tdPlan)) /\ tdPhase' = "create_fk"
      /\ tdShape' = tdShape /\ tdPlan' = tdPlan
  BY DEF CreateDDLStep, RunScript
<1>2. tdPlan \in Plans /\ FromSource(tdPlan) /\ tdTodo = <<>>
  BY <1>1 DEF PlanInv, TdTypes
<1>3. PICK db : db = pg
  OBVIOUS
<1>4. db = [ok |-> TRUE, rels |-> {}, tables |-> <<>>, unique |-> {}, fks |-> {}, next |-> <<>>]
  BY <1>1, <1>3 DEF PrereqInv
<1>5. DbOK(db) /\ SeqsInNext(db) /\ db.fks = {}
  <2>1. /\ db.ok /\ db.rels = {} /\ db.fks = {} /\ db.next = <<>>
        /\ db = [ok |-> db.ok, rels |-> db.rels, tables |-> db.tables, unique |-> db.unique,
                 fks |-> db.fks, next |-> db.next]
        /\ db.ok \in BOOLEAN
    BY <1>4
  <2>2. <<>> = [k \in DOMAIN <<>> |-> <<>>[k]]
    OBVIOUS
  <2>3. db.next = [k \in DOMAIN db.next |-> db.next[k]]
    BY <2>1, <2>2, Zenon
  <2> QED BY <2>1, <2>3 DEF DbOK, SeqsInNext
<1>6. PICK script : script = DDLScript(tdPlan)
  OBVIOUS
<1>7. /\ script \in Seq(DDLStmts)
      /\ Range(tdPlan.pre) \subseteq Range(script)
      /\ \A x \in Range(tdPlan.tables) : [do |-> "table", table |-> x] \in Range(script)
  BY <1>2, <1>6, DDLScriptParts
<1>8. PICK e : e = pg'
  OBVIOUS
<1>9. /\ DbOK(e) /\ e.fks = {}
      /\ e.ok => \A st \in Range(script) : Leaves(st, e)
  BY <1>1, <1>3, <1>5, <1>6, <1>7, <1>8, DDLRuns
<1>10. ASSUME e.ok, NEW t \in SourceTables PROVE KeyOf(t) \in DOMAIN e.next
  <2>1. Translated(tdPlan, t)
    <3>1. Range(tdTodo) = {}
      BY <1>2, RangeOfNone
    <3> QED BY <3>1 DEF PlanInv
  <2>2. CASE OwnSequence(tdShape[t])
    <3>1. PICK x \in Range(tdPlan.pre) : x.name = SeqName(t)
      BY <2>1, <2>2 DEF Translated
    <3>2. x.do = "sequence"
      <4>1. tdPlan.pre \in Seq(SeqStmts)
        BY <1>2 DEF Plans
      <4>2. Range(tdPlan.pre) = {tdPlan.pre[i] : i \in 1..Len(tdPlan.pre)}
        BY <4>1, RangeByIndex
      <4>3. x \in SeqStmts
        BY <4>1, <4>2
      <4> QED BY <4>3 DEF SeqStmts
    <3>3. Leaves(x, e)
      BY <1>7, <1>9, <1>10
    <3> QED BY <2>2, <3>1, <3>2, <3>3 DEF Leaves, KeyOf
  <2>3. CASE ~OwnSequence(tdShape[t])
    <3>1. PICK x \in Range(tdPlan.tables) : x.name = t
      BY <2>1 DEF Translated
    <3>2. ~x.sequence
      BY <1>2, <2>3, <3>1 DEF FromSource
    <3>3. PICK st : st = [do |-> "table", table |-> x]
      OBVIOUS
    <3>4. Leaves(st, e)
      BY <1>7, <1>9, <1>10, <3>3
    <3>5. st.do = "table" /\ st.table = x
      BY <3>3
    <3> QED BY <2>3, <3>1, <3>2, <3>4, <3>5 DEF Leaves, KeyOf
  <2> QED BY <2>2, <2>3
<1>11. (\A t \in SourceTables : KeyOf(t) \in DOMAIN pg.next)' <=>
       (\A t \in SourceTables : KeyOf(t) \in DOMAIN e.next)
  BY <1>1, <1>8 DEF KeyOf
<1> QED BY <1>8, <1>9, <1>10, <1>11 DEF BetweenInv

-----------------------------------------------------------------------------
(* create_fk.                                                                *)

\* where the statements after the copy come from
PostOK(p, st) ==
    /\ st.do \in PostKinds
    /\ st.do = "fk" => st.fk \in Range(p.fks) /\ Known(p.tables, st.fk.to)
    /\ st.do \in {"setval", "restart"} => st \in Range(p.post)

\* Of the first i statements: the keys they set, the foreign keys they add, and
\* those they validate at once.
KeysSet(p, db, script, i) ==
    \A j \in 1..i, k \in DOMAIN db.next :
        (\E v : Sets(script[j], k, v)) => \E st \in Range(p.post) : Sets(st, k, db.next[k])
FKsKnown(p, db) ==
    \A g \in db.fks : \E x \in Range(p.fks) : Known(p.tables, x.to) /\ Same(g, x)
FKsAdded(db, script, i) ==
    \A j \in 1..i : script[j].do = "fk" =>
        \E g \in db.fks : Same(g, script[j].fk) /\ (~script[j].notValid => g.valid)
FKsValid(db, script, i) ==
    \A j \in 2..i :
        script[j - 1].do = "fk" /\ script[j].do = "validate" /\ script[j].fk = script[j - 1].fk =>
            \E g \in db.fks : Same(g, script[j].fk) /\ g.valid

LEMMA PostStep ==
    ASSUME NEW p, NEW db, DbOK(db), NEW script, NEW i \in Nat, NEW st, st = script[i + 1],
           PostOK(p, st), KeysSet(p, db, script, i), FKsKnown(p, db), FKsAdded(db, script, i),
           FKsValid(db, script, i), NEW e, e = Execute(db, st), e.ok
    PROVE  /\ DbOK(e) /\ DOMAIN e.next = DOMAIN db.next
           /\ KeysSet(p, e, script, i + 1) /\ FKsKnown(p, e) /\ FKsAdded(e, script, i + 1)
           /\ FKsValid(e, script, i + 1)
<1>0. st.do \in PostKinds
  BY DEF PostOK
<1>1. DbOK(e) /\ DOMAIN e.next = DOMAIN db.next
  BY <1>0, ExecutePost
<1>2. /\ \A k \in DOMAIN db.next : e.next[k] = db.next[k] \/ Sets(st, k, e.next[k])
      /\ \A k \in DOMAIN db.next : \A v : Sets(st, k, v) => e.next[k] = v
  BY <1>0, ExecutePost
<1>3. \A f \in db.fks : \E g \in e.fks : Same(f, g) /\ (f.valid => g.valid)
  BY <1>0, ExecutePost
<1>4. \A g \in e.fks :
         \/ \E f \in db.fks : Same(f, g)
         \/ st.do = "fk" /\ Same(g, st.fk)
  BY <1>0, ExecutePost
<1>5. /\ st.do = "fk" => \E g \in e.fks : Same(g, st.fk) /\ (g.valid <=> ~st.notValid)
      /\ st.do = "validate" =>
            \A f \in db.fks : f.table = st.fk.table /\ f.from = st.fk.from =>
                \E g \in e.fks : Same(f, g) /\ g.valid
  BY <1>0, ExecutePost
<1>6. \A a, b, c : (Same(a, b) => Same(b, a)) /\ (Same(a, b) /\ Same(b, c) => Same(a, c))
  BY DEF Same
<1>7. \A j \in 1..(i + 1) : j \in 1..i \/ j = i + 1
  OBVIOUS
<1>8. KeysSet(p, e, script, i + 1)
  <2> SUFFICES ASSUME NEW j \in 1..(i + 1), NEW k \in DOMAIN e.next, NEW v, Sets(script[j], k, v)
               PROVE  \E s \in Range(p.post) : Sets(s, k, e.next[k])
    BY DEF KeysSet
  <2>1. CASE Sets(st, k, e.next[k])
    <3>1. st \in Range(p.post)
      BY <2>1 DEF Sets, PostOK
    <3> QED BY <2>1, <3>1
  <2>2. CASE ~Sets(st, k, e.next[k])
    <3>1. e.next[k] = db.next[k] /\ j # i + 1 /\ k \in DOMAIN db.next
      BY <1>1, <1>2, <2>2
    <3>2. \E s \in Range(p.post) : Sets(s, k, db.next[k])
      BY <1>7, <3>1 DEF KeysSet
    <3> QED BY <3>1, <3>2
  <2> QED BY <2>1, <2>2
<1>9. FKsKnown(p, e)
  <2> SUFFICES ASSUME NEW g \in e.fks PROVE \E x \in Range(p.fks) : Known(p.tables, x.to) /\ Same(g, x)
    BY DEF FKsKnown
  <2>1. CASE \E f \in db.fks : Same(f, g)
    <3>1. PICK f \in db.fks : Same(f, g)
      BY <2>1
    <3>2. PICK x \in Range(p.fks) : Known(p.tables, x.to) /\ Same(f, x)
      BY DEF FKsKnown
    <3> QED BY <1>6, <3>1, <3>2
  <2>2. CASE st.do = "fk" /\ Same(g, st.fk)
    BY <2>2 DEF PostOK
  <2> QED BY <1>4, <2>1, <2>2
<1>10. FKsAdded(e, script, i + 1)
  <2> SUFFICES ASSUME NEW j \in 1..(i + 1), script[j].do = "fk"
               PROVE  \E g \in e.fks : Same(g, script[j].fk) /\ (~script[j].notValid => g.valid)
    BY DEF FKsAdded
  <2>1. CASE j = i + 1
    BY <1>5, <2>1
  <2>2. CASE j \in 1..i
    <3>1. PICK f \in db.fks : Same(f, script[j].fk) /\ (~script[j].notValid => f.valid)
      BY <2>2 DEF FKsAdded
    <3>2. PICK g \in e.fks : Same(f, g) /\ (f.valid => g.valid)
      BY <1>3
    <3> QED BY <1>6, <3>1, <3>2
  <2> QED BY <1>7, <2>1, <2>2
<1>11. FKsValid(e, script, i + 1)
  <2> SUFFICES ASSUME NEW j \in 2..(i + 1), script[j - 1].do = "fk", script[j].do = "validate",
                      script[j].fk = script[j - 1].fk
               PROVE  \E g \in e.fks : Same(g, script[j].fk) /\ g.valid
    BY DEF FKsValid
  <2>1. CASE j = i + 1
    <3>1. j - 1 \in 1..i /\ st = script[j]
      BY <2>1
    <3>2. PICK f \in db.fks : Same(f, script[j - 1].fk)
      BY <3>1 DEF FKsAdded
    <3>3. f.table = st.fk.table /\ f.from = st.fk.from
      BY <3>1, <3>2 DEF Same
    <3>4. PICK g \in e.fks : Same(f, g) /\ g.valid
      BY <1>5, <3>1, <3>3
    <3> QED BY <1>6, <3>2, <3>4
  <2>2. CASE j \in 2..i
    <3>1. PICK f \in db.fks : Same(f, script[j].fk) /\ f.valid
      BY <2>2 DEF FKsValid
    <3>2. PICK g \in e.fks : Same(f, g) /\ (f.valid => g.valid)
      BY <1>3
    <3> QED BY <1>6, <3>1, <3>2
  <2> QED BY <2>1, <2>2
<1> QED BY <1>1, <1>8, <1>9, <1>10, <1>11

LEMMA PostRuns ==
    ASSUME NEW p, NEW db, DbOK(db), db.fks = {}, NEW script, NEW n \in Nat, n = Len(script),
           \A i \in 1..n : PostOK(p, script[i]), NEW e, e = Run(db, script), e.ok
    PROVE  /\ DOMAIN e.next = DOMAIN db.next
           /\ KeysSet(p, e, script, n) /\ FKsKnown(p, e)
           /\ FKsAdded(e, script, n) /\ FKsValid(e, script, n)
<1>3. PICK f : /\ f[0] = db /\ f[Len(script)] = Run(db, script)
               /\ \A i \in 1..Len(script) : f[i] = Execute(f[i - 1], script[i])
  BY RunSteps
<1> DEFINE Good(i, d) == /\ DbOK(d) /\ DOMAIN d.next = DOMAIN db.next
                         /\ KeysSet(p, d, script, i) /\ FKsKnown(p, d)
                         /\ FKsAdded(d, script, i) /\ FKsValid(d, script, i)
           G == {i \in 0..n : ~f[i].ok \/ Good(i, f[i])}
<1>4. 0 \in G
  <2>1. Good(0, db)
    BY DEF KeysSet, FKsKnown, FKsAdded, FKsValid
  <2> QED BY <1>3, <2>1
<1>5. ASSUME NEW i \in 0..(n - 1), i \in G PROVE i + 1 \in G
  <2>1. i + 1 \in 1..n /\ i + 1 \in 0..n /\ (i + 1) - 1 = i /\ i \in Nat
    OBVIOUS
  <2>2. PICK d : d = f[i]
    OBVIOUS
  <2>3. PICK g : g = f[i + 1]
    OBVIOUS
  <2>4. PICK st : st = script[i + 1]
    OBVIOUS
  <2>5. g = Execute(d, st) /\ PostOK(p, st)
    BY <1>3, <2>1, <2>2, <2>3, <2>4
  <2>6. ~d.ok \/ Good(i, d)
    BY <1>5, <2>2
  <2>7. CASE ~g.ok
    BY <2>1, <2>3, <2>7
  <2>8. CASE g.ok
    <3>1. d.ok
      BY <2>5, <2>8 DEF Execute
    <3>2. Good(i + 1, g)
      BY <2>1, <2>4, <2>5, <2>6, <2>8, <3>1, PostStep
    <3> HIDE DEF Good
    <3> QED BY <2>1, <2>3, <3>2
  <2> QED BY <2>7, <2>8
<1> HIDE DEF G
<1>6. \A i \in 0..n : i \in G
  BY <1>4, <1>5, UpTo
<1>7. n \in G
  BY <1>6
<1>8. Good(n, e)
  BY <1>3, <1>7 DEF G
<1> QED BY <1>8

\* the statements of one foreign key
LEMMA FKStmtsIn ==
    ASSUME NEW p, NEW x, NEW S, Known(p.tables, x.to) => AddFK(p, x) \in S,
           [do |-> "validate", fk |-> x] \in S
    PROVE  FKStmts(p, x) \in Seq(S)
<1>1. PICK add, val : add = AddFK(p, x) /\ val = [do |-> "validate", fk |-> x]
  OBVIOUS
<1>2. FKStmts(p, x) = IF ~Known(p.tables, x.to) THEN <<>>
                      ELSE IF add.notValid /\ ~x.noValidate THEN <<add, val>> ELSE <<add>>
  <2>1. add = AddFK(p, x)
    BY <1>1
  <2>2. val = [do |-> "validate", fk |-> x]
    BY <1>1
  <2> QED BY <2>1, <2>2, Zenon DEF FKStmts
<1>3. (Known(p.tables, x.to) => add \in S) /\ val \in S
  BY <1>1, Zenon
<1>4. <<>> \in Seq(S)
  OBVIOUS
<1>5. Known(p.tables, x.to) => <<add, val>> \in Seq(S) /\ <<add>> \in Seq(S)
  BY ONLY <1>3
<1> QED BY <1>2, <1>4, <1>5, Zenon

LEMMA PostScriptParts ==
    ASSUME NEW p \in Plans, NEW script, script = DDLPostCopy(p)
    PROVE  \E S : /\ script \in Seq(S) /\ \A st \in S : PostOK(p, st)
                  /\ Range(p.post) \subseteq Range(script)
                  /\ \A x \in Range(p.fks) : Holds(script, FKStmts(p, x))
                  /\ \A x \in Range(p.fks) : FKStmts(p, x) \in Seq(S)
<1>1. p.fks \in Seq(FKRecs) /\ p.post \in Seq(RestartStmts) /\ p.indexes \in Seq(IndexRecs)
  BY DEF Plans
<1> DEFINE n == Len(p.indexes)
           m == Len(p.fks)
           dd == dedupeIndexNames(p.indexes)
           idx(i) == [do |-> "index", index |-> dd[i]]
           val(x) == [do |-> "validate", fk |-> x]
           Leads(x) == Known(p.tables, x.to)
           A == {idx(i) : i \in 1..n}
           B == {AddFK(p, x) : x \in {y \in Range(p.fks) : Leads(y)}}
           C == {val(x) : x \in Range(p.fks)}
           S == A \cup B \cup C \cup Range(p.post)
           one == [i \in 1..n |-> idx(i)]
           seqs == [i \in 1..m |-> FKStmts(p, p.fks[i])]
<1>2. script = (one \o FlattenSeq(seqs)) \o p.post
  BY DEF DDLPostCopy
<1>3. n \in Nat /\ m \in Nat
  BY <1>1
<1>4. Range(p.fks) = {p.fks[i] : i \in 1..m}
  BY <1>1, RangeByIndex
<1>5. ASSUME NEW st \in S PROVE PostOK(p, st)
  <2>1. CASE st \in A
    <3>1. st.do = "index"
      BY <2>1
    <3> QED BY <3>1 DEF PostOK, PostKinds
  <2>2. CASE st \in B
    <3>1. PICK x \in Range(p.fks) : Leads(x) /\ st = AddFK(p, x)
      BY <2>2
    <3>2. st.do = "fk" /\ st.fk = x
      BY <3>1 DEF AddFK
    <3> QED BY <3>1, <3>2 DEF PostOK, PostKinds
  <2>3. CASE st \in C
    <3>1. st.do = "validate"
      BY <2>3
    <3> QED BY <3>1 DEF PostOK, PostKinds
  <2>4. CASE st \in Range(p.post)
    <3>1. Range(p.post) = {p.post[i] : i \in 1..Len(p.post)}
      BY <1>1, RangeByIndex
    <3>2. st \in RestartStmts
      BY <1>1, <2>4, <3>1
    <3>3. st.do \in {"setval", "restart"}
      BY <3>2 DEF RestartStmts
    <3> QED BY <2>4, <3>3 DEF PostOK, PostKinds
  <2> QED BY <2>1, <2>2, <2>3, <2>4
<1>6. \A i \in 1..n : idx(i) \in S
  OBVIOUS
<1>7. ASSUME NEW x \in Range(p.fks) PROVE (Leads(x) => AddFK(p, x) \in S) /\ val(x) \in S
  OBVIOUS
<1>8. p.post \in Seq(Range(p.post))
  BY <1>1, SeqOfRange
<1>9. Range(p.post) \subseteq S
  OBVIOUS
<1> HIDE DEF A, B, C, S, idx, n, m
<1>10. p.post \in Seq(S)
  BY <1>8, <1>9
<1>11. one \in Seq(S)
  BY <1>3, <1>6
<1>12. \A x \in Range(p.fks) : FKStmts(p, x) \in Seq(S)
  <2> SUFFICES ASSUME NEW x \in Range(p.fks) PROVE FKStmts(p, x) \in Seq(S)
    OBVIOUS
  <2> QED BY <1>7, FKStmtsIn
<1> HIDE DEF one
<1>13. \A i \in 1..m : FKStmts(p, p.fks[i]) \in Seq(S)
  BY <1>4, <1>12
<1>14. seqs \in Seq(Seq(S)) /\ Len(seqs) = m /\ \A i \in 1..m : seqs[i] = FKStmts(p, p.fks[i])
  BY <1>3, <1>13
<1> DEFINE flat == FlattenSeq(seqs)
           front == one \o flat
<1> HIDE DEF seqs
<1>15. flat \in Seq(S) /\ \A i \in 1..m : Holds(flat, FKStmts(p, p.fks[i]))
  BY <1>14, FlattenHolds
<1> HIDE DEF flat
<1>16. front \in Seq(S)
  BY <1>11, <1>15, RangeOfCat
<1>17. \A i \in 1..m : Holds(front, FKStmts(p, p.fks[i]))
  BY <1>11, <1>13, <1>15, HoldsInCat
<1>18. script = front \o p.post
  BY <1>2 DEF flat
<1> HIDE DEF front
<1>19. script \in Seq(S) /\ Range(script) = Range(front) \cup Range(p.post)
  BY <1>10, <1>16, <1>18, RangeOfCat
<1>20. \A i \in 1..m : Holds(script, FKStmts(p, p.fks[i]))
  BY <1>10, <1>13, <1>16, <1>17, <1>18, HoldsInCat
<1>21. \A x \in Range(p.fks) : Holds(script, FKStmts(p, x))
  BY <1>4, <1>20
<1> QED BY <1>5, <1>12, <1>19, <1>21

\* After both scripts.
DoneInv ==
    tdPhase = "done" /\ pg.ok =>
        /\ \A t \in SourceTables : tdShape[t].auto =>
              \E st \in Range(tdPlan.post) : Sets(st, KeyOf(t), pg.next[KeyOf(t)])
        /\ FKsKnown(tdPlan, pg)
        /\ \A x \in Range(tdPlan.fks) : Known(tdPlan.tables, x.to) =>
              \E g \in pg.fks : Same(g, x) /\ (g.valid \/ x.noValidate)

LEMMA CreateFKKeeps ==
    ASSUME PlanInv, BetweenInv, CreateFKStep
    PROVE  DoneInv'
<1>1. /\ tdPhase = "create_fk" /\ pg' = Run(pg, DDLPostCopy(tdPlan)) /\ tdPhase' = "done" /\ pg.ok
      /\ tdShape' = tdShape /\ tdPlan' = tdPlan /\ tdLoad' = tdLoad
  BY DEF CreateFKStep, RunScript
<1>2. PICK p : p = tdPlan
  OBVIOUS
<1>3. p \in Plans /\ FromSource(p) /\ tdTodo = <<>>
  BY <1>1, <1>2 DEF PlanInv, TdTypes
<1>4. PICK db : db = pg
  OBVIOUS
<1>5. DbOK(db) /\ db.fks = {} /\ \A t \in SourceTables : KeyOf(t) \in DOMAIN db.next
  BY <1>1, <1>4 DEF BetweenInv
<1>6. PICK script : script = DDLPostCopy(p)
  OBVIOUS
<1>7. PICK S : /\ script \in Seq(S) /\ \A st \in S : PostOK(p, st)
               /\ Range(p.post) \subseteq Range(script)
               /\ \A x \in Range(p.fks) : Holds(script, FKStmts(p, x))
               /\ \A x \in Range(p.fks) : FKStmts(p, x) \in Seq(S)
  BY <1>3, <1>6, PostScriptParts
<1>8. PICK e : e = pg'
  OBVIOUS
<1>9. SUFFICES ASSUME e.ok PROVE DoneInv'
  BY <1>8 DEF DoneInv
<1>10. e = Run(db, script)
  BY <1>1, <1>2, <1>4, <1>6, <1>8
<1>11. PICK n : n = Len(script)
  OBVIOUS
<1>12. n \in Nat /\ Range(script) = {script[i] : i \in 1..n}
  BY <1>7, <1>11, RangeByIndex
<1>13. /\ DOMAIN e.next = DOMAIN db.next
       /\ KeysSet(p, e, script, n) /\ FKsKnown(p, e)
       /\ FKsAdded(e, script, n) /\ FKsValid(e, script, n)
  <2>1. \A i \in 1..n : PostOK(p, script[i])
    <3>1. \A i \in 1..n : script[i] \in S
      BY <1>7, <1>11
    <3> QED BY <1>7, <3>1
  <2>2. DbOK(db) /\ db.fks = {} /\ n \in Nat
    BY <1>5, <1>12
  <2>3. DOMAIN e.next = DOMAIN db.next /\ KeysSet(p, e, script, n)
    BY ONLY <1>9, <1>10, <1>11, <2>1, <2>2, PostRuns
  <2>4. FKsKnown(p, e)
    BY ONLY <1>9, <1>10, <1>11, <2>1, <2>2, PostRuns
  <2>5. FKsAdded(e, script, n) /\ FKsValid(e, script, n)
    BY ONLY <1>9, <1>10, <1>11, <2>1, <2>2, PostRuns
  <2> QED BY <2>3, <2>4, <2>5
<1>14. ASSUME NEW t \in SourceTables, tdShape[t].auto
       PROVE  \E st \in Range(p.post) : Sets(st, KeyOf(t), e.next[KeyOf(t)])
  <2>1. Translated(p, t)
    <3>1. Range(tdTodo) = {}
      BY <1>3, RangeOfNone
    <3> QED BY <1>2, <3>1 DEF PlanInv
  <2>2. PICK x \in Range(p.post) :
            x.table = t /\ x.do = IF OwnSequence(tdShape[t]) THEN "setval" ELSE "restart"
    BY <1>14, <2>1 DEF Translated
  <2>3. \E v : Sets(x, KeyOf(t), v)
    BY <2>2 DEF Sets, KeyOf
  <2>4. PICK j \in 1..n : script[j] = x
    BY <1>7, <1>12
  <2>5. KeyOf(t) \in DOMAIN e.next
    BY <1>5, <1>13
  <2> QED BY <1>13, <2>3, <2>4, <2>5 DEF KeysSet
<1>15. ASSUME NEW x \in Range(p.fks), Known(p.tables, x.to)
       PROVE  \E g \in e.fks : Same(g, x) /\ (g.valid \/ x.noValidate)
  <2>1. PICK add, val : add = AddFK(p, x) /\ val = [do |-> "validate", fk |-> x]
    OBVIOUS
  <2>2. PICK part : part = FKStmts(p, x)
    OBVIOUS
  <2>3. /\ add.do = "fk" /\ add.fk = x /\ val.do = "validate" /\ val.fk = x
        /\ part = IF add.notValid /\ ~x.noValidate THEN <<add, val>> ELSE <<add>>
    <3>1. add = AddFK(p, x)
      BY <2>1
    <3>2. val = [do |-> "validate", fk |-> x]
      BY <2>1
    <3>3. add.do = "fk" /\ add.fk = x /\ val.do = "validate" /\ val.fk = x
      BY <3>1, <3>2 DEF AddFK
    <3>4. part = IF add.notValid /\ ~x.noValidate THEN <<add, val>> ELSE <<add>>
      BY <1>15, <2>2, <3>1, <3>2, Zenon DEF FKStmts
    <3> QED BY <3>3, <3>4, Zenon
  <2>4. PICK k \in Nat : /\ k + Len(part) <= Len(script)
                         /\ \A q \in 1..Len(part) : script[k + q] = part[q]
    BY <1>7, <2>2 DEF Holds
  <2>5. CASE ~(add.notValid /\ ~x.noValidate)
    <3>1. Len(part) = 1 /\ part[1] = add
      BY <2>3, <2>5
    <3>2. k + 1 \in 1..n /\ script[k + 1] = add
      BY <1>11, <1>12, <2>4, <3>1
    <3>3. PICK g \in e.fks : Same(g, x) /\ (~add.notValid => g.valid)
      BY <1>13, <2>3, <3>2 DEF FKsAdded
    <3> QED BY <2>5, <3>3
  <2>6. CASE add.notValid /\ ~x.noValidate
    <3>1. Len(part) = 2 /\ part[1] = add /\ part[2] = val
      BY <2>3, <2>6
    <3>2. PICK j \in 2..n : j = k + 2
      BY <1>11, <1>12, <2>4, <3>1
    <3>3. script[j - 1] = add /\ script[j] = val
      BY <2>4, <3>1, <3>2
    <3>4. PICK g \in e.fks : Same(g, val.fk) /\ g.valid
      BY <1>13, <2>3, <3>3 DEF FKsValid
    <3> QED BY <2>3, <3>4
  <2> QED BY <2>5, <2>6
<1>16. (\A t \in SourceTables : tdShape[t].auto =>
           \E st \in Range(tdPlan.post) : Sets(st, KeyOf(t), pg.next[KeyOf(t)]))'
  <2>1. \A t : KeyOf(t)' = KeyOf(t)
    BY <1>1 DEF KeyOf
  <2>2. \A st, k, v : Sets(st, k, v)' <=> Sets(st, k, v)
    BY <1>1 DEF Sets, SetvalTo, RestartAt
  <2> QED BY <1>1, <1>2, <1>8, <1>14, <2>1, <2>2
<1>17. FKsKnown(tdPlan, pg)'
  BY <1>1, <1>2, <1>8, <1>13 DEF FKsKnown
<1>18. (\A x \in Range(tdPlan.fks) : Known(tdPlan.tables, x.to) =>
           \E g \in pg.fks : Same(g, x) /\ (g.valid \/ x.noValidate))'
  BY <1>1, <1>2, <1>8, <1>15 DEF Known, Same
<1> QED BY <1>16, <1>17, <1>18 DEF DoneInv

TdInv == PlanInv /\ PrereqInv /\ BetweenInv /\ DoneInv

LEMMA TdInvariant == TdSpec => []TdInv
<1>1. TdInit => TdInv
  <2> SUFFICES ASSUME TdInit PROVE TdInv
    OBVIOUS
  <2>1. PlanInv
    BY PlanInitially
  <2>2. /\ tdPhase = "translate"
        /\ pg = [ok |-> TRUE, rels |-> {}, tables |-> <<>>, unique |-> {}, fks |-> {}, next |-> <<>>]
    BY DEF TdInit, TdStart
  <2>3. PrereqInv
    BY <2>2 DEF PrereqInv
  <2>4. BetweenInv /\ DoneInv
    BY <2>2 DEF BetweenInv, DoneInv
  <2> QED BY <2>1, <2>3, <2>4 DEF TdInv
<1>2. TdInv /\ [TdNext]_tdVars => TdInv'
  <2> SUFFICES ASSUME TdInv, [TdNext]_tdVars PROVE TdInv'
    OBVIOUS
  <2>1. PlanInv /\ PrereqInv /\ BetweenInv /\ DoneInv
    BY DEF TdInv
  <2>2. CASE TranslateStmt
    <3>1. PlanInv'
      BY <2>1, <2>2, TranslateStmtKeeps
    <3>2. tdPhase' = tdPhase /\ pg' = pg /\ tdPhase = "translate"
      BY <2>2 DEF TranslateStmt
    <3>3. PrereqInv' /\ BetweenInv' /\ DoneInv'
      BY <2>1, <3>2 DEF PrereqInv, BetweenInv, DoneInv
    <3> QED BY <3>1, <3>3 DEF TdInv
  <2>3. CASE FinishTranslate
    <3>1. PlanInv' /\ PrereqInv'
      BY <2>1, <2>3, FinishTranslateKeeps, FinishTranslatePrereqs
    <3>2. tdPhase' = "create_ddl"
      BY <2>3 DEF FinishTranslate
    <3>3. BetweenInv' /\ DoneInv'
      BY <3>2 DEF BetweenInv, DoneInv
    <3> QED BY <3>1, <3>3 DEF TdInv
  <2>4. ASSUME UNCHANGED <<tdShape, tdLoad, tdTodo, tdPlan, tdPrereqs>>,
               tdPhase' = tdPhase \/ (tdPhase # "translate" /\ tdPhase' \in {"create_fk", "done"})
        PROVE  PlanInv' /\ (tdPhase' # tdPhase => PrereqInv')
    <3>1. TdTypes'
      BY <2>1, <2>4 DEF PlanInv, TdTypes
    <3>2. FromSource(tdPlan)'
      BY <2>1, <2>4 DEF PlanInv, FromSource
    <3>3. ASSUME NEW t \in SourceTables
          PROVE  (TableStmt(t) \in Range(tdTodo) \/ Translated(tdPlan, t))'
      <4>1. Translated(tdPlan, t)' <=> Translated(tdPlan, t)
        BY <2>4 DEF Translated
      <4> QED BY <2>1, <2>4, <4>1 DEF PlanInv, TableStmt
    <3>4. (tdPhase # "translate" => tdTodo = <<>>)'
      BY <2>1, <2>4 DEF PlanInv
    <3>5. PlanInv'
      BY <3>1, <3>2, <3>3, <3>4 DEF PlanInv
    <3>6. tdPhase' # tdPhase => PrereqInv'
      BY <2>1, <2>4 DEF PrereqInv, Known
    <3> QED BY <3>5, <3>6
  <2>5. CASE CreateDDLStep
    <3>1. /\ UNCHANGED <<tdShape, tdLoad, tdTodo, tdPlan, tdPrereqs>>
          /\ tdPhase = "create_ddl" /\ tdPhase' = "create_fk"
      BY <2>5 DEF CreateDDLStep, RunScript
    <3>2. BetweenInv'
      BY <2>1, <2>5, CreateDDLKeeps
    <3>3. DoneInv'
      BY <3>1 DEF DoneInv
    <3>4. PlanInv' /\ PrereqInv'
      BY <2>4, <3>1
    <3> QED BY <3>2, <3>3, <3>4 DEF TdInv
  <2>6. CASE CreateFKStep
    <3>1. /\ UNCHANGED <<tdShape, tdLoad, tdTodo, tdPlan, tdPrereqs>>
          /\ tdPhase = "create_fk" /\ tdPhase' = "done"
      BY <2>6 DEF CreateFKStep, RunScript
    <3>2. DoneInv'
      BY <2>1, <2>6, CreateFKKeeps
    <3>3. BetweenInv'
      BY <3>1 DEF BetweenInv
    <3>4. PlanInv' /\ PrereqInv'
      BY <2>4, <3>1
    <3> QED BY <3>2, <3>3, <3>4 DEF TdInv
  <2>7. CASE UNCHANGED tdVars
    <3>1. /\ tdShape' = tdShape /\ tdLoad' = tdLoad /\ tdTodo' = tdTodo /\ tdPlan' = tdPlan
          /\ tdPrereqs' = tdPrereqs /\ tdPhase' = tdPhase /\ pg' = pg
      BY <2>7 DEF tdVars
    <3>2. PlanInv'
      BY <2>4, <3>1
    <3>3. PrereqInv' /\ BetweenInv'
      BY <2>1, <3>1 DEF PrereqInv, Known, BetweenInv, DbOK, KeyOf
    <3>4. DoneInv'
      BY <2>1, <3>1 DEF DoneInv, Sets, SetvalTo, RestartAt, KeyOf, FKsKnown, Known, Same
    <3> QED BY <3>2, <3>3, <3>4 DEF TdInv
  <2> QED BY <2>2, <2>3, <2>5, <2>6, <2>7 DEF TdNext
<1> QED BY <1>1, <1>2, PTL DEF TdSpec

\* For all tables, the key that the target generates first is none of those that
\* were copied, and for an identity column none that the source has generated
\* before (emitIdentityRestarts, translateColumn).
THEOREM KeysAreFresh == TdSpec => []NextKeyIsFresh
<1>1. TdInv => NextKeyIsFresh
  <2> SUFFICES ASSUME TdInv, tdPhase = "done", pg.ok, NEW t \in SourceTables, tdShape[t].auto
               PROVE  IF OwnSequence(tdShape[t])
                      THEN pg.next[SeqName(t)] > tdLoad[t].max
                      ELSE pg.next[<<t, "identity">>] >= tdLoad[t].counter
    BY DEF NextKeyIsFresh
  <2>1. PICK st \in Range(tdPlan.post) : Sets(st, KeyOf(t), pg.next[KeyOf(t)])
    BY DEF TdInv, DoneInv
  <2>2. tdLoad[t].max \in Nat /\ tdLoad[t].counter \in Nat
    <3>1. tdLoad[t] \in TdLoads
      BY DEF TdInv, PlanInv, TdTypes
    <3>2. TdLoads \subseteq [max : Nat, counter : Nat]
      BY TdAssumption, Zenon
    <3> QED BY <3>1, <3>2
  <2>3. CASE OwnSequence(tdShape[t])
    <3>1. KeyOf(t) = SeqName(t)
      BY <2>3 DEF KeyOf
    <3>2. st.do = "setval" /\ st.table = t
      BY <2>1, <3>1 DEF Sets, SeqName
    <3>3. pg.next[SeqName(t)] = SetvalTo(t)
      BY <2>1, <3>1, <3>2 DEF Sets
    <3> QED BY <2>2, <2>3, <3>3 DEF SetvalTo
  <2>4. CASE ~OwnSequence(tdShape[t])
    <3>1. KeyOf(t) = <<t, "identity">>
      BY <2>4 DEF KeyOf
    <3>2. st.do = "restart" /\ st.table = t
      BY <2>1, <3>1 DEF Sets, SeqName
    <3>3. pg.next[<<t, "identity">>] = RestartAt(st)
      BY <2>1, <3>1, <3>2 DEF Sets
    <3>4. st.floor = tdLoad[t].counter
      BY <3>2 DEF TdInv, PlanInv, FromSource
    <3> QED BY <2>2, <2>4, <3>2, <3>3, <3>4 DEF RestartAt
  <2> QED BY <2>3, <2>4
<1> QED BY <1>1, TdInvariant, PTL

\* For all tables, a foreign key of the source is enforced on the target once both
\* scripts have run, and what was disabled or leads out of the schema is not, but
\* in the second case is reported (buildDDL, dropDisabledConstraint).
THEOREM ForeignKeysAreKept == TdSpec => []ForeignKeysArrive
<1>1. TdInv => ForeignKeysArrive
  <2> SUFFICES ASSUME TdInv, tdPhase = "done", pg.ok, NEW t \in SourceTables,
                      NEW fk, fk = tdShape[t].fk,
                      NEW arrived, arrived = {f \in pg.fks : f.table = t /\ f.from = fk.from}
               PROVE  IF fk.from = "" \/ fk.disabled \/ fk.to = "elsewhere"
                      THEN /\ arrived = {}
                           /\ fk.to = "elsewhere" /\ ~fk.disabled => \E p \in tdPrereqs : p.table = t
                      ELSE \E f \in arrived : f.to = fk.to /\ (f.valid \/ fk.noValidate)
    BY Zenon DEF ForeignKeysArrive
  <2>1. /\ PlanInv /\ PrereqInv /\ tdPlan \in Plans /\ FromSource(tdPlan) /\ FKsKnown(tdPlan, pg)
        /\ tdTodo = <<>>
    BY DEF TdInv, PlanInv, TdTypes, DoneInv
  <2>2. \A x \in Range(tdPlan.fks) : Known(tdPlan.tables, x.to) =>
              \E g \in pg.fks : Same(g, x) /\ (g.valid \/ x.noValidate)
    BY DEF TdInv, DoneInv
  <2>3. \A u \in SourceTables : Translated(tdPlan, u)
    <3>1. Range(tdTodo) = {}
      BY <2>1, RangeOfNone
    <3> QED BY <2>1, <3>1 DEF PlanInv
  <2>4. ASSUME NEW x \in Range(tdPlan.fks)
        PROVE  x.table \in SourceTables /\ x.from # ""
    <3>1. tdPlan.fks \in Seq(FKRecs)
      BY <2>1 DEF Plans
    <3>2. Range(tdPlan.fks) = {tdPlan.fks[i] : i \in 1..Len(tdPlan.fks)}
      BY <3>1, RangeByIndex
    <3>3. x \in FKRecs
      BY <3>1, <3>2
    <3> QED BY <3>3 DEF FKRecs, TdColumns
  <2>5. ASSUME NEW x \in Range(tdPlan.fks), x.table = t
        PROVE  x.from = fk.from /\ x.to = fk.to /\ x.noValidate = fk.noValidate /\ ~fk.disabled
    BY <2>1, <2>5 DEF FromSource
  <2>6. \A u \in SourceTables : Known(tdPlan.tables, u)
    BY <2>1, <2>3, KnownTables DEF Translated
  <2>7. ~Known(tdPlan.tables, "elsewhere")
    <3>1. tdPlan.tables \in Seq(TableRecs)
      BY <2>1 DEF Plans
    <3>2. \A i \in 1..Len(tdPlan.tables) : tdPlan.tables[i].name \in SourceTables
      <4>1. \A i \in 1..Len(tdPlan.tables) : tdPlan.tables[i] \in TableRecs
        BY <3>1
      <4> QED BY <4>1 DEF TableRecs
    <3>3. "elsewhere" \notin SourceTables
      BY TdAssumption
    <3> QED BY <3>2, <3>3 DEF Known
  <2>8. fk.disabled \in BOOLEAN /\ fk.to \in SourceTables \cup {"", "elsewhere"}
        /\ (fk.from = "" <=> fk.to = "")
    <3>1. tdShape[t] \in TdShapes /\ fk.to \in SourceTables \cup {"", "elsewhere"}
      BY <2>1 DEF PlanInv, TdTypes
    <3> QED BY <3>1, TdAssumption
  <2>9. CASE fk.from = "" \/ fk.disabled \/ fk.to = "elsewhere"
    <3>1. ASSUME NEW f \in arrived PROVE FALSE
      <4>1. f \in pg.fks /\ f.table = t /\ f.from = fk.from
        BY <3>1
      <4>2. PICK x \in Range(tdPlan.fks) : Known(tdPlan.tables, x.to) /\ Same(f, x)
        BY <2>1, <4>1 DEF FKsKnown
      <4>3. x.table = t
        BY <4>1, <4>2 DEF Same
      <4>4. x.from = fk.from /\ x.to = fk.to /\ ~fk.disabled /\ x.from # ""
        BY <2>4, <2>5, <4>3
      <4> QED BY <2>7, <2>9, <4>2, <4>4
    <3>2. ASSUME fk.to = "elsewhere", ~fk.disabled PROVE \E p \in tdPrereqs : p.table = t
      <4>1. fk.from # ""
        BY <2>8, <3>2
      <4>2. PICK x \in Range(tdPlan.fks) : x.table = t
        BY <2>3, <3>2, <4>1 DEF Translated
      <4>3. x.to = "elsewhere"
        BY <2>5, <3>2, <4>2
      <4>4. x \in tdPrereqs
        BY <2>1, <2>7, <4>3 DEF PrereqInv
      <4> QED BY <4>2, <4>4
    <3> QED BY <2>9, <3>1, <3>2
  <2>10. CASE ~(fk.from = "" \/ fk.disabled \/ fk.to = "elsewhere")
    <3>1. fk.to \in SourceTables
      BY <2>8, <2>10
    <3>2. PICK x \in Range(tdPlan.fks) : x.table = t
      BY <2>3, <2>10 DEF Translated
    <3>3. x.from = fk.from /\ x.to = fk.to /\ x.noValidate = fk.noValidate
      BY <2>5, <3>2
    <3>4. PICK g \in pg.fks : Same(g, x) /\ (g.valid \/ x.noValidate)
      BY <2>2, <2>6, <3>1, <3>3
    <3>5. g \in arrived /\ g.to = fk.to
      BY <3>2, <3>3, <3>4 DEF Same
    <3> QED BY <2>10, <3>3, <3>4, <3>5
  <2> QED BY <2>9, <2>10
<1> QED BY <1>1, TdInvariant, PTL
====
