---------------------------- MODULE CatalogProofs ----------------------------
(***************************************************************************)
(* For any number of schemas, prerequisites, clients and requests: no run  *)
(* executes a plan its user has not consented to, and planning anew or     *)
(* discovering again undoes nothing the user has stored.                   *)
(***************************************************************************)
EXTENDS Catalog, TLAPS

-----------------------------------------------------------------------------
(* Rows and requests.                                                      *)

Names == [db : Schemas \cup {"host"}, schema : Schemas \cup {"public"}]
Lists == Overrides \cup {NoOverrides}
Plans == [names : Names, createDb : BOOLEAN, overrides : Lists, blocking : SUBSET Prereqs]
Rows == [names : Names, plan : Plans \cup {NoPlan}, acked : SUBSET Prereqs, overrides : Lists]

PlanRequests == [inst : Nat, schema : Schemas, row : Rows, strategy : Strategies]
OverrideRequests == [inst : Nat, schema : Schemas, list : Lists]
StartRequests == [inst : Nat, schema : Schemas, plan : Plans]
DraftRequests == [inst : Nat, strategy : Strategies, todo : SUBSET Schemas]

CatTypeOK ==
    /\ inst \in [id : Nat, strategy : Strategies]
    /\ migration \in [Schemas -> Rows \cup {NoRow}]
    /\ drafting \in DraftRequests \cup {NoRequest}
    /\ planning \in PlanRequests \cup {NoRequest}
    /\ overriding \in OverrideRequests \cup {NoRequest}
    /\ starting \in [Starters -> StartRequests \cup {NoRequest}]
    /\ active \in [Schemas -> Seq(Plans)]
    /\ edits \in Nat
    /\ ackedOnce \in [Schemas -> SUBSET Prereqs]

\* A request was made for an instance, and ids are not given twice: while the
\* ids agree it is the same one.
Known(r) == r.inst \in 1..edits

IdsAreFresh ==
    /\ inst # NoInst => inst.id \in 1..edits
    /\ ~Idle(drafting) => Known(drafting)
    /\ ~Idle(planning) => Known(planning)
    /\ ~Idle(overriding) => Known(overriding)
    /\ \A c \in Starters : ~Idle(starting[c]) => Known(starting[c])

Current(r) == ~Idle(r) /\ r.inst = inst.id

\* Rows live as long as their instance, so a request that is still current
\* finds the row it read.
RowsStay ==
    /\ \A s \in Schemas : HasRow(s) => inst # NoInst
    /\ Current(planning) => HasRow(planning.schema)
    /\ Current(overriding) => HasRow(overriding.schema)

\* What is acknowledged now was acknowledged once; so was what the plan of a
\* run, or of a start that is under way, is blocked by.
Consented ==
    /\ \A s \in Schemas : HasRow(s) => migration[s].acked \subseteq ackedOnce[s]
    /\ \A c \in Starters : Current(starting[c]) =>
          starting[c].plan.blocking \subseteq ackedOnce[starting[c].schema]
    /\ \A s \in Schemas : \A k \in 1..Len(active[s]) : active[s][k].blocking \subseteq ackedOnce[s]

CatInv == CatTypeOK /\ IdsAreFresh /\ RowsStay /\ Consented

\* A row, a plan or a request is none of the values that stand for its absence.
LEMMA Distinct ==
    /\ NoRow \notin Rows /\ NoPlan \notin Plans /\ NoRequest \notin DraftRequests
    /\ NoRequest \notin PlanRequests /\ NoRequest \notin OverrideRequests
    /\ NoRequest \notin StartRequests
  BY DEF NoRow, Rows, NoPlan, Plans, NoRequest, DraftRequests, PlanRequests, OverrideRequests,
         StartRequests

\* mapTarget gives a database and a schema, whatever the strategy.
LEMMA TargetNames == ASSUME NEW strategy, NEW s \in Schemas PROVE MapTarget(strategy, s) \in Names
  BY DEF MapTarget, Names

-----------------------------------------------------------------------------
(* The invariant.                                                          *)

\* An application database without an instance has no row and no request.
LEMMA CatInitially == CatInit => CatInv
<1> SUFFICES ASSUME CatInit PROVE CatInv
  OBVIOUS
<1>1. CatTypeOK
  <2>1. active \in [Schemas -> Seq(Plans)] /\ \A s \in Schemas : active[s] = <<>>
    BY DEF CatInit
  <2> QED
    BY <2>1 DEF CatInit, CatTypeOK, NoInst, Strategies
<1>2. IdsAreFresh /\ RowsStay
  BY DEF CatInit, IdsAreFresh, RowsStay, Idle, Current, HasRow
<1>3. Consented
  <2>1. \A s \in Schemas : Len(active[s]) = 0
    BY DEF CatInit
  <2>2. \A s \in Schemas : 1..Len(active[s]) = {}
    BY <2>1
  <2> QED
    BY <2>2 DEF CatInit, Consented, Idle, Current, HasRow
<1> QED
  BY <1>1, <1>2, <1>3 DEF CatInv

\* The instance, its edits and the discovery.
LEMMA InstanceKeepsInv ==
    ASSUME CatInv,
           \/ \E t \in Strategies, found \in SUBSET Schemas : CreateInstance(t, found)
           \/ \E t \in Strategies : UpdateInstance(t)
           \/ \E found \in SUBSET Schemas : Rediscover(found)
           \/ DraftDone
    PROVE  CatInv'
<1> USE DEF CatInv
<1>1. ASSUME NEW t \in Strategies, NEW found \in SUBSET Schemas, CreateInstance(t, found) PROVE CatInv'
  <2> USE <1>1 DEF CreateInstance
  <2>1. inst'.id = edits + 1 /\ inst' # NoInst /\ inst' \in [id : Nat, strategy : Strategies]
    BY DEF NoInst, CatTypeOK
  <2>2. drafting' = [inst |-> edits + 1, strategy |-> t, todo |-> found]
    BY DEF Discover
  <2>3. CatTypeOK'
    BY <2>1, <2>2 DEF CatTypeOK, DraftRequests
  <2>4. IdsAreFresh'
    BY <2>1, <2>2 DEF IdsAreFresh, CatTypeOK, Idle, Known
  <2>5. ~Current(planning)' /\ ~Current(overriding)' /\ \A c \in Starters : ~Current(starting[c])'
    BY <2>1 DEF Current, IdsAreFresh, Known, CatTypeOK, Idle
  <2>6. RowsStay'
    BY <2>1, <2>5 DEF RowsStay, HasRow
  <2>7. Consented'
    BY <2>5 DEF Consented, HasRow
  <2> QED
    BY <2>3, <2>4, <2>6, <2>7
<1>2. ASSUME NEW t \in Strategies, UpdateInstance(t) PROVE CatInv'
  <2> USE <1>2 DEF UpdateInstance
  <2>1. inst' \in [id : Nat, strategy : Strategies] /\ inst'.id = inst.id
    BY DEF CatTypeOK
  <2>2. inst' # NoInst
    BY <2>1 DEF NoInst, IdsAreFresh, CatTypeOK
  <2>3. CatTypeOK'
    BY <2>1 DEF CatTypeOK
  <2>4. IdsAreFresh'
    BY <2>1 DEF IdsAreFresh, CatTypeOK, Idle, Known
  <2>5. RowsStay' /\ Consented'
    BY <2>1, <2>2 DEF RowsStay, Consented, HasRow, Current
  <2> QED
    BY <2>3, <2>4, <2>5
<1>3. ASSUME NEW found \in SUBSET Schemas, Rediscover(found) PROVE CatInv'
  <2> USE <1>3 DEF Rediscover
  <2>1. drafting' = [inst |-> inst.id, strategy |-> inst.strategy, todo |-> found]
    BY DEF Discover
  <2>2. CatTypeOK'
    BY <2>1 DEF CatTypeOK, DraftRequests
  <2>3. IdsAreFresh'
    BY <2>1 DEF IdsAreFresh, Idle, Known
  <2>4. RowsStay' /\ Consented'
    BY DEF RowsStay, Consented, HasRow, Current
  <2> QED
    BY <2>2, <2>3, <2>4
<1>4. CASE DraftDone
  <2> USE <1>4 DEF DraftDone
  <2>1. CatTypeOK' /\ IdsAreFresh'
    BY DEF CatTypeOK, IdsAreFresh, Idle, Known
  <2>2. RowsStay' /\ Consented'
    BY DEF RowsStay, Consented, HasRow, Current
  <2> QED
    BY <2>1, <2>2
<1> QED
  BY <1>1, <1>2, <1>3, <1>4

\* The cascade of a deleted instance: no request is current afterwards, since
\* all were made for an instance.
LEMMA DeleteKeepsInv == ASSUME CatInv, DeleteInstance PROVE CatInv'
<1> USE DEF CatInv, DeleteInstance
<1>1. CatTypeOK'
  <2>1. active' \in [Schemas -> Seq(Plans)]
    OBVIOUS
  <2> QED
    BY <2>1 DEF CatTypeOK, NoInst, Strategies
<1>2. IdsAreFresh'
  BY DEF IdsAreFresh, Idle, Known
<1>3. ~Current(planning)' /\ ~Current(overriding)' /\ \A c \in Starters : ~Current(starting[c])'
  BY DEF Current, IdsAreFresh, Known, Idle, NoInst, CatTypeOK
<1>4. RowsStay'
  BY <1>3 DEF RowsStay, HasRow
<1>5. \A s \in Schemas : 1..Len(active'[s]) = {}
  <2>1. \A s \in Schemas : Len(active'[s]) = 0
    OBVIOUS
  <2> QED
    BY <2>1
<1>6. Consented'
  BY <1>3, <1>5 DEF Consented, HasRow
<1> QED
  BY <1>1, <1>2, <1>4, <1>6

\* A row that is written keeps an acknowledged set its user has given.
LEMMA RowWriteKeepsInv ==
    ASSUME CatInv, NEW s \in Schemas, NEW row \in Rows,
           inst # NoInst,
           migration' = [migration EXCEPT ![s] = row],
           ackedOnce' \in [Schemas -> SUBSET Prereqs],
           \A q \in Schemas : ackedOnce[q] \subseteq ackedOnce'[q],
           row.acked \subseteq ackedOnce'[s],
           drafting' = drafting \/ (drafting' \in DraftRequests /\ Known(drafting')),
           planning' = planning \/ planning' = NoRequest,
           overriding' = overriding \/ overriding' = NoRequest,
           UNCHANGED <<inst, starting, active, edits>>
    PROVE  CatInv'
<1> USE DEF CatInv
<1>1. \A q \in Schemas : migration'[q] # NoRow <=> q = s \/ migration[q] # NoRow
  BY Distinct DEF CatTypeOK
<1>2. CatTypeOK'
  BY DEF CatTypeOK
<1>3. IdsAreFresh'
  BY DEF IdsAreFresh, Idle, Known
<1>4. RowsStay'
  BY <1>1 DEF RowsStay, HasRow, Current, Idle, CatTypeOK, PlanRequests, OverrideRequests
<1>5. Consented'
  <2>1. \A q \in Schemas : migration'[q] # NoRow => migration'[q].acked \subseteq ackedOnce'[q]
    BY <1>1 DEF Consented, HasRow, CatTypeOK
  <2>2. ASSUME NEW c \in Starters, Current(starting[c])'
        PROVE  starting'[c].plan.blocking \subseteq ackedOnce'[starting'[c].schema]
    <3>1. Current(starting[c]) /\ starting[c].schema \in Schemas
      BY <2>2 DEF Current, Idle, CatTypeOK, StartRequests
    <3> QED
      BY <3>1 DEF Consented
  <2>3. ASSUME NEW q \in Schemas, NEW k \in 1..Len(active'[q])
        PROVE  active'[q][k].blocking \subseteq ackedOnce'[q]
    BY DEF Consented
  <2> QED
    BY <2>1, <2>2, <2>3 DEF Consented, HasRow
<1> QED
  BY <1>2, <1>3, <1>4, <1>5

\* A step that writes no row.
LEMMA NoRowWriteKeepsInv ==
    ASSUME CatInv,
           drafting' = drafting \/ (drafting' \in DraftRequests /\ Known(drafting')),
           planning' = planning \/ planning' = NoRequest,
           overriding' = overriding \/ overriding' = NoRequest,
           UNCHANGED <<inst, migration, starting, active, edits, ackedOnce>>
    PROVE  CatInv'
<1> USE DEF CatInv
<1>1. CatTypeOK'
  BY DEF CatTypeOK
<1>2. IdsAreFresh'
  BY DEF IdsAreFresh, Idle, Known
<1>3. RowsStay' /\ Consented'
  BY DEF RowsStay, Consented, HasRow, Current, Idle
<1> QED
  BY <1>1, <1>2, <1>3

\* The steps that write a row: a draft, a plan, an acknowledgement and a list
\* of overrides.
LEMMA DraftKeepsInv == ASSUME CatInv, NEW s \in Schemas, DraftOne(s) PROVE CatInv'
<1> USE DEF CatInv, DraftOne
<1>1. drafting \in DraftRequests /\ Known(drafting)
  BY DEF CatTypeOK, Idle, IdsAreFresh
<1>2. drafting' \in DraftRequests /\ Known(drafting')
  BY <1>1 DEF DraftRequests, Known
<1>3. CASE drafting.inst # inst.id
  BY <1>2, <1>3, NoRowWriteKeepsInv
<1>4. CASE drafting.inst = inst.id
  <2>1. inst # NoInst
    BY <1>1, <1>4 DEF NoInst, Known, CatTypeOK
  <2> DEFINE names == MapTarget(drafting.strategy, s)
             row == IF HasRow(s) THEN [migration[s] EXCEPT !.names = names]
                    ELSE [names |-> names, plan |-> NoPlan, acked |-> {}, overrides |-> NoOverrides]
  <2>2. names \in Names
    BY TargetNames
  <2>3. migration' = [migration EXCEPT ![s] = row]
    BY <1>4 DEF CatTypeOK
  <2> HIDE DEF names
  <2>4. CASE HasRow(s)
    <3>1. migration[s] \in Rows
      BY <2>4 DEF HasRow, CatTypeOK
    <3>2. Prereqs \in SUBSET Prereqs /\ NoOverrides \in Lists
      BY DEF Lists
    <3>3. row \in Rows /\ row.acked = migration[s].acked
      BY <2>2, <2>4, <3>1 DEF Rows
    <3>4. row.acked \subseteq ackedOnce[s]
      BY <3>3, <2>4 DEF Consented
    <3> HIDE DEF row
    <3>5. ackedOnce' \in [Schemas -> SUBSET Prereqs] /\ UNCHANGED ackedOnce
      BY DEF CatTypeOK
    <3> QED
      BY <1>2, <2>1, <2>3, <3>3, <3>4, <3>5, RowWriteKeepsInv
  <2>5. CASE ~HasRow(s)
    <3>1. row \in Rows /\ row.acked = {}
      BY <2>2, <2>5 DEF Rows, Lists
    <3> HIDE DEF row
    <3>2. ackedOnce' \in [Schemas -> SUBSET Prereqs] /\ UNCHANGED ackedOnce
      BY DEF CatTypeOK
    <3> QED
      BY <1>2, <2>1, <2>3, <3>1, <3>2, RowWriteKeepsInv
  <2> QED
    BY <2>4, <2>5
<1> QED
  BY <1>3, <1>4

\* A plan that is written finds the row it was made for, and leaves what the
\* user acknowledged.
LEMMA PlanEndKeepsInv == ASSUME CatInv, NEW blocking \in SUBSET Prereqs, PlanEnd(blocking) PROVE CatInv'
<1> USE DEF CatInv
<1> DEFINE plan == [names |-> planning.row.names, createDb |-> planning.strategy = "dedicated_db",
                    overrides |-> planning.row.overrides, blocking |-> blocking]
           row == PlannedRow(plan)
<1>1. /\ ~Idle(planning) /\ planning' = NoRequest
      /\ UNCHANGED <<inst, drafting, overriding, starting, active, edits, plans, acks, ackedOnce>>
      /\ \/ planning.inst = inst.id /\ migration' = [migration EXCEPT ![planning.schema] = row]
         \/ UNCHANGED migration
  BY DEF PlanEnd
<1>2. planning \in PlanRequests /\ Known(planning)
  BY <1>1 DEF CatTypeOK, Idle, IdsAreFresh
<1>3. CASE UNCHANGED migration
  <2> HIDE DEF CatInv
  <2> QED
    BY <1>1, <1>3, NoRowWriteKeepsInv
<1>4. CASE planning.inst = inst.id /\ migration' = [migration EXCEPT ![planning.schema] = row]
  <2>1. inst # NoInst
    BY <1>2, <1>4 DEF NoInst, Known, CatTypeOK
  <2>2. planning.schema \in Schemas /\ HasRow(planning.schema) /\ planning.row \in Rows
    BY <1>1, <1>2, <1>4 DEF PlanRequests, RowsStay, Current
  <2>3. migration[planning.schema] \in Rows
    BY <2>2 DEF HasRow, CatTypeOK
  <2>4. plan \in Plans
    BY <2>2 DEF Plans, Rows
  <2>5. row \in Rows /\ row.acked = migration[planning.schema].acked
    BY <2>2, <2>3, <2>4 DEF PlannedRow, Rows
  <2>6. row.acked \subseteq ackedOnce[planning.schema]
    BY <2>2, <2>5 DEF Consented
  <2> HIDE DEF row
  <2>7. ackedOnce' \in [Schemas -> SUBSET Prereqs] /\ UNCHANGED ackedOnce
    BY <1>1 DEF CatTypeOK
  <2> HIDE DEF CatInv
  <2> QED
    BY <1>1, <1>4, <2>1, <2>2, <2>5, <2>6, <2>7, RowWriteKeepsInv
<1> QED
  BY <1>1, <1>3, <1>4

\* What ackPrerequisites stores is, from then on, acknowledged once.
LEMMA AckKeepsInv ==
    ASSUME CatInv, NEW s \in Schemas, NEW ids \in SUBSET Prereqs, AckPrerequisites(s, ids) PROVE CatInv'
<1> USE DEF CatInv, AckPrerequisites
<1> DEFINE row == [migration[s] EXCEPT !.acked = ids]
<1>1. migration[s] \in Rows /\ inst # NoInst
  BY DEF HasRow, CatTypeOK, RowsStay
<1>2. row \in Rows /\ row.acked = ids /\ migration' = [migration EXCEPT ![s] = row]
  BY <1>1 DEF Rows, CatTypeOK
<1>3. /\ ackedOnce' \in [Schemas -> SUBSET Prereqs]
      /\ ids \subseteq ackedOnce'[s]
      /\ \A q \in Schemas : ackedOnce[q] \subseteq ackedOnce'[q]
  BY DEF CatTypeOK
<1> HIDE DEF row, CatInv
<1> QED
  BY <1>1, <1>2, <1>3, RowWriteKeepsInv

\* A stored list of overrides leaves what the user acknowledged.
LEMMA OverridesEndKeepsInv == ASSUME CatInv, OverridesEnd PROVE CatInv'
<1> USE DEF CatInv, OverridesEnd
<1> DEFINE s == overriding.schema
           row == [migration[s] EXCEPT !.overrides = overriding.list]
<1>1. overriding \in OverrideRequests /\ Known(overriding)
  BY DEF CatTypeOK, Idle, IdsAreFresh
<1>2. CASE UNCHANGED migration
  <2> HIDE DEF CatInv
  <2> QED
    BY <1>2, NoRowWriteKeepsInv
<1>3. CASE /\ overriding.inst = inst.id
           /\ migration' = [migration EXCEPT ![overriding.schema].overrides = overriding.list]
  <2>1. inst # NoInst
    BY <1>1, <1>3 DEF NoInst, Known, CatTypeOK
  <2>2. s \in Schemas /\ HasRow(s) /\ overriding.list \in Lists
    BY <1>1, <1>3 DEF OverrideRequests, RowsStay, Current
  <2>3. migration[s] \in Rows
    BY <2>2 DEF HasRow, CatTypeOK
  <2>4. row \in Rows /\ row.acked = migration[s].acked /\ migration' = [migration EXCEPT ![s] = row]
    BY <1>3, <2>2, <2>3 DEF Rows, CatTypeOK
  <2>5. row.acked \subseteq ackedOnce[s]
    BY <2>2, <2>4 DEF Consented
  <2> HIDE DEF row
  <2>6. ackedOnce' \in [Schemas -> SUBSET Prereqs] /\ UNCHANGED ackedOnce
    BY DEF CatTypeOK
  <2> HIDE DEF CatInv
  <2> QED
    BY <2>1, <2>2, <2>4, <2>5, <2>6, RowWriteKeepsInv
<1> QED
  BY <1>2, <1>3

\* The requests that read.
LEMMA ReadsKeepInv ==
    ASSUME CatInv, NEW s \in Schemas,
           PlanBegin(s) \/ \E list \in Overrides : OverridesBegin(s, list)
    PROVE  CatInv'
<1> USE DEF CatInv
<1>1. HasRow(s) /\ migration[s] \in Rows /\ inst # NoInst
  BY DEF PlanBegin, OverridesBegin, HasRow, CatTypeOK, RowsStay
<1>2. inst.id \in 1..edits /\ inst.id \in Nat /\ inst.strategy \in Strategies
  BY <1>1 DEF IdsAreFresh, CatTypeOK
<1>3. CASE PlanBegin(s)
  <2> USE <1>3 DEF PlanBegin
  <2>1. planning' \in PlanRequests /\ planning'.inst = inst.id /\ planning'.schema = s
    BY <1>1, <1>2 DEF PlanRequests
  <2>2. CatTypeOK'
    BY <2>1 DEF CatTypeOK
  <2>3. IdsAreFresh'
    BY <2>1, <1>2 DEF IdsAreFresh, Idle, Known
  <2>4. RowsStay' /\ Consented'
    BY <2>1, <1>1 DEF RowsStay, Consented, HasRow, Current, Idle
  <2> QED
    BY <2>2, <2>3, <2>4
<1>4. ASSUME NEW list \in Overrides, OverridesBegin(s, list) PROVE CatInv'
  <2> USE <1>4 DEF OverridesBegin
  <2>1. overriding' \in OverrideRequests /\ overriding'.inst = inst.id /\ overriding'.schema = s
    BY <1>2 DEF OverrideRequests, Lists
  <2>2. CatTypeOK'
    BY <2>1 DEF CatTypeOK
  <2>3. IdsAreFresh'
    BY <2>1, <1>2 DEF IdsAreFresh, Idle, Known
  <2>4. RowsStay' /\ Consented'
    BY <2>1, <1>1 DEF RowsStay, Consented, HasRow, Current, Idle
  <2> QED
    BY <2>2, <2>3, <2>4
<1> QED
  BY <1>3, <1>4

\* startRun reads a row whose plan is blocked by nothing its user has not
\* acknowledged, and keeps that plan.
LEMMA StartBeginKeepsInv ==
    ASSUME CatInv, NEW c \in Starters, NEW s \in Schemas, StartBegin(c, s) PROVE CatInv'
<1> USE DEF CatInv, StartBegin
<1>1. migration[s] \in Rows /\ inst # NoInst
  BY DEF HasRow, CatTypeOK, RowsStay
<1>2. inst.id \in 1..edits /\ inst.id \in Nat
  BY <1>1 DEF IdsAreFresh, CatTypeOK
<1>3. migration[s].plan \in Plans /\ migration[s].plan.blocking \subseteq ackedOnce[s]
  BY <1>1 DEF MayLaunch, Rows, Consented
<1>4. /\ starting'[c] \in StartRequests
      /\ starting'[c].inst = inst.id /\ starting'[c].schema = s
      /\ starting'[c].plan.blocking \subseteq ackedOnce[s]
      /\ \A d \in Starters \ {c} : starting'[d] = starting[d]
  BY <1>2, <1>3 DEF StartRequests, CatTypeOK
<1>5. CatTypeOK'
  BY <1>4 DEF CatTypeOK
<1>6. IdsAreFresh'
  BY <1>2, <1>4 DEF IdsAreFresh, Idle, Known
<1>7. RowsStay'
  BY DEF RowsStay, HasRow, Current, Idle
<1>8. Consented'
  BY <1>4 DEF Consented, HasRow, Current, Idle
<1> QED
  BY <1>5, <1>6, <1>7, <1>8

\* The sequence of a schema's active runs changes and nothing else does, but
\* for a start request that ends.
LEMMA RunsKeepInv ==
    ASSUME CatInv, NEW s \in Schemas, NEW q \in Seq(Plans),
           active' = [active EXCEPT ![s] = q],
           \A k \in 1..Len(q) : q[k].blocking \subseteq ackedOnce[s],
           starting' \in [Starters -> StartRequests \cup {NoRequest}],
           \A c \in Starters : starting'[c] = starting[c] \/ starting'[c] = NoRequest,
           UNCHANGED <<inst, migration, drafting, planning, overriding, edits, ackedOnce>>
    PROVE  CatInv'
<1> USE DEF CatInv
<1>1. CatTypeOK'
  BY DEF CatTypeOK
<1>2. IdsAreFresh'
  BY DEF IdsAreFresh, Idle, Known
<1>3. RowsStay'
  BY DEF RowsStay, HasRow, Current, Idle
<1>4. active'[s] = q /\ \A r \in Schemas \ {s} : active'[r] = active[r]
  BY DEF CatTypeOK
<1>5. \A r \in Schemas : \A k \in 1..Len(active'[r]) : active'[r][k].blocking \subseteq ackedOnce[r]
  BY <1>4 DEF Consented
<1>6. \A c \in Starters : Current(starting[c])' => Current(starting[c]) /\ starting'[c] = starting[c]
  BY DEF Current, Idle
<1>7. Consented'
  BY <1>5, <1>6 DEF Consented, HasRow
<1> QED
  BY <1>1, <1>2, <1>3, <1>7

\* The transaction of startRun inserts the plan that passed the gates, for the
\* instance it was read from or not at all.
LEMMA StartEndKeepsInv == ASSUME CatInv, NEW c \in Starters, StartEnd(c) PROVE CatInv'
<1> DEFINE r == starting[c]
<1>1. r \in StartRequests /\ ~Idle(r)
  BY DEF StartEnd, CatInv, CatTypeOK, Idle
<1>2. r.schema \in Schemas /\ r.plan \in Plans /\ active[r.schema] \in Seq(Plans)
  BY <1>1 DEF StartRequests, CatInv, CatTypeOK
<1>3. /\ starting' \in [Starters -> StartRequests \cup {NoRequest}]
      /\ \A d \in Starters : starting'[d] = starting[d] \/ starting'[d] = NoRequest
      /\ UNCHANGED <<inst, migration, drafting, planning, overriding, edits, ackedOnce>>
  BY DEF StartEnd, CatInv, CatTypeOK
<1>4. CASE r.inst = inst.id /\ MayInsertRun(r.schema)
  <2>1. active' = [active EXCEPT ![r.schema] = Append(active[r.schema], r.plan)]
    BY <1>4, <1>2 DEF StartEnd, CatInv, CatTypeOK
  <2>2. r.plan.blocking \subseteq ackedOnce[r.schema]
    BY <1>1, <1>4 DEF CatInv, Consented, Current
  <2>3. active[r.schema] = <<>>
    BY <1>4 DEF MayInsertRun
  <2>4. PICK q : q = Append(active[r.schema], r.plan)
    OBVIOUS
  <2>5. q \in Seq(Plans) /\ Len(q) = 1 /\ q[1] = r.plan
    BY <1>2, <2>3, <2>4
  <2>6. \A k \in 1..Len(q) : q[k].blocking \subseteq ackedOnce[r.schema]
    BY ONLY <2>2, <2>5
  <2> HIDE DEF r
  <2> QED
    BY <1>2, <1>3, <2>1, <2>4, <2>5, <2>6, RunsKeepInv
<1>5. CASE ~(r.inst = inst.id /\ MayInsertRun(r.schema))
  <2>1. active' = [active EXCEPT ![r.schema] = active[r.schema]]
    BY <1>5, <1>2 DEF StartEnd, CatInv, CatTypeOK
  <2>2. \A k \in 1..Len(active[r.schema]) : active[r.schema][k].blocking \subseteq ackedOnce[r.schema]
    BY <1>2 DEF CatInv, Consented
  <2> HIDE DEF r
  <2> QED
    BY <1>2, <1>3, <2>1, <2>2, RunsKeepInv
<1> QED
  BY <1>4, <1>5

\* A run that ends leaves the others as they are.
LEMMA RunEndsKeepsInv == ASSUME CatInv, NEW s \in Schemas, RunEnds(s) PROVE CatInv'
<1>1. active[s] \in Seq(Plans) /\ active[s] # <<>> /\ active' = [active EXCEPT ![s] = Tail(active[s])]
  BY DEF RunEnds, CatInv, CatTypeOK
<1>2. \A k \in 1..Len(active[s]) : active[s][k].blocking \subseteq ackedOnce[s]
  BY DEF CatInv, Consented
<1>3. PICK q : q = Tail(active[s])
  OBVIOUS
<1>4. q \in Seq(Plans) /\ Len(q) = Len(active[s]) - 1 /\ \A k \in 1..Len(q) : q[k] = active[s][k + 1]
  BY <1>1, <1>3
<1>5. \A k \in 1..Len(q) : k + 1 \in 1..Len(active[s])
  BY <1>1, <1>4
<1>6. \A k \in 1..Len(q) : q[k].blocking \subseteq ackedOnce[s]
  BY ONLY <1>2, <1>4, <1>5
<1>7. /\ starting' \in [Starters -> StartRequests \cup {NoRequest}]
      /\ UNCHANGED <<inst, migration, drafting, planning, overriding, edits, ackedOnce, starting>>
  BY DEF RunEnds, CatInv, CatTypeOK
<1> QED
  BY <1>1, <1>3, <1>4, <1>6, <1>7, RunsKeepInv

\* Every handler, at every statement, keeps the invariant.
LEMMA CatInvStep == CatInv /\ [CatNext]_catVars => CatInv'
<1> SUFFICES ASSUME CatInv, [CatNext]_catVars PROVE CatInv'
  OBVIOUS
<1>1. CASE UNCHANGED catVars
  BY <1>1, NoRowWriteKeepsInv DEF catVars
<1> QED
  BY <1>1, InstanceKeepsInv, DeleteKeepsInv, DraftKeepsInv, PlanEndKeepsInv, AckKeepsInv,
     OverridesEndKeepsInv, ReadsKeepInv, StartBeginKeepsInv, StartEndKeepsInv, RunEndsKeepsInv
  DEF CatNext

\* The invariant holds in every reachable state.
LEMMA CatAlways == CatSpec => []CatInv
<1> QED
  BY CatInitially, CatInvStep, PTL DEF CatSpec

\* An acknowledgement or a list of overrides is told by the count of them.
AcksCount == acks \in Nat

\* Each acknowledgement or list of overrides is counted.
LEMMA AcksCounted == CatSpec => []AcksCount
<1>1. CatInit => AcksCount
  BY DEF CatInit, AcksCount
<1>2. ASSUME AcksCount, [CatNext]_catVars PROVE AcksCount'
  <2>1. \/ UNCHANGED acks
        \/ \E s \in Schemas, ids \in SUBSET Prereqs : AckPrerequisites(s, ids)
        \/ \E s \in Schemas, list \in Overrides : OverridesBegin(s, list)
    BY <1>2 DEF CatNext, catVars, CreateInstance, UpdateInstance, DeleteInstance, Rediscover, DraftOne,
                DraftDone, PlanBegin, PlanEnd, OverridesEnd, StartBegin, StartEnd, RunEnds
  <2>2. acks' = acks \/ acks' = acks + 1
    BY <2>1 DEF AckPrerequisites, OverridesBegin
  <2> QED
    BY <2>2, <1>2 DEF AcksCount
<1> QED
  BY <1>1, <1>2, PTL DEF CatSpec

-----------------------------------------------------------------------------
(* Results.                                                                *)

\* runs.go startRun and the partial unique index: whatever was planned anew,
\* deleted, rediscovered or started by others in between, a run executes a
\* plan whose blocking prerequisites its user has acknowledged.
THEOREM ConsentHolds == CatSpec => []LaunchedWithConsent
<1>1. CatInv => LaunchedWithConsent
  <2> SUFFICES ASSUME CatInv, NEW s \in Schemas, NEW k \in DOMAIN active[s]
               PROVE  active[s][k].blocking \subseteq ackedOnce[s]
    BY DEF LaunchedWithConsent
  <2>1. active[s] \in Seq(Plans)
    BY DEF CatInv, CatTypeOK
  <2>2. k \in 1..Len(active[s])
    BY <2>1
  <2> QED
    BY <2>2 DEF CatInv, Consented
<1> QED
  BY <1>1, CatAlways, PTL

\* UpsertPlannedMigration and CreateDraftMigration: the step that ends a plan
\* request, or drafts a schema again, changes neither what the user has
\* acknowledged nor the overrides the user has stored.
THEOREM UserStateKept == CatSpec => UserStateSurvives
<1> DEFINE A == \A s \in Schemas :
                  (HasRow(s) /\ migration'[s] # NoRow /\ acks' = acks /\ overriding' = overriding) =>
                     /\ migration'[s].acked = migration[s].acked
                     /\ migration'[s].overrides = migration[s].overrides
<1>1. ASSUME CatInv, AcksCount, [CatNext]_catVars PROVE A \/ UNCHANGED catVars
  <2> SUFFICES ASSUME CatNext, NEW s \in Schemas, HasRow(s), migration'[s] # NoRow,
                      acks' = acks, overriding' = overriding
               PROVE  /\ migration'[s].acked = migration[s].acked
                      /\ migration'[s].overrides = migration[s].overrides
    BY <1>1
  <2>1. migration[s] \in Rows
    BY <1>1 DEF HasRow, CatInv, CatTypeOK
  <2>2. ASSUME UNCHANGED migration
        PROVE  /\ migration'[s].acked = migration[s].acked
               /\ migration'[s].overrides = migration[s].overrides
    BY <2>2
  <2>3. ASSUME NEW q \in Schemas, DraftOne(q)
        PROVE  /\ migration'[s].acked = migration[s].acked
               /\ migration'[s].overrides = migration[s].overrides
    <3>1. MapTarget(drafting.strategy, q) \in Names
      BY TargetNames
    <3>2. PICK names : names = MapTarget(drafting.strategy, q)
      OBVIOUS
    <3>3. migration'[s] = migration[s] \/ migration'[s] = [migration[s] EXCEPT !.names = names]
      BY <2>3, <3>2, <1>1 DEF DraftOne, CatInv, CatTypeOK
    <3> QED
      BY <2>1, <3>1, <3>2, <3>3 DEF Rows
  <2>4. ASSUME NEW blocking \in SUBSET Prereqs, PlanEnd(blocking)
        PROVE  /\ migration'[s].acked = migration[s].acked
               /\ migration'[s].overrides = migration[s].overrides
    <3> DEFINE plan == [names |-> planning.row.names, createDb |-> planning.strategy = "dedicated_db",
                        overrides |-> planning.row.overrides, blocking |-> blocking]
    <3>1. \/ UNCHANGED migration
          \/ migration' = [migration EXCEPT ![planning.schema] = PlannedRow(plan)]
      BY <2>4 DEF PlanEnd
    <3> HIDE DEF plan
    <3>2. \/ migration'[s] = migration[s]
          \/ migration'[s] = [migration[s] EXCEPT !.names = planning.row.names, !.plan = plan]
      BY <3>1, <1>1 DEF PlannedRow, CatInv, CatTypeOK
    <3> QED
      BY <2>1, <3>2 DEF Rows
  <2>5. ~DeleteInstance /\ ~OverridesEnd
    BY DEF DeleteInstance, OverridesEnd, Idle
  <2>6. \A q \in Schemas : /\ \A ids : ~AckPrerequisites(q, ids)
                           /\ \A list : ~OverridesBegin(q, list)
    BY <1>1 DEF AckPrerequisites, OverridesBegin, AcksCount
  <2>7. UNCHANGED migration \/ (\E q \in Schemas : DraftOne(q)) \/ \E b \in SUBSET Prereqs : PlanEnd(b)
    BY <2>5, <2>6 DEF CatNext, CreateInstance, UpdateInstance, Rediscover, PlanBegin, RunEnds, DraftDone,
                      StartBegin, StartEnd
  <2> QED
    BY <2>2, <2>3, <2>4, <2>7
<1> QED
  BY <1>1, CatAlways, AcksCounted, PTL DEF CatSpec, UserStateSurvives
=============================================================================
