------------------------------ MODULE Catalog ------------------------------
(***************************************************************************)
(* An instance and its migrations, as the handlers of internal/httpapi     *)
(* (instances.go, migration_actions.go, prereqs.go, generated_overrides.go *)
(* and startRun of runs.go) change them through internal/project.          *)
(*                                                                         *)
(* Every handler reads rows, works for seconds (it connects to the source, *)
(* inspects, translates, probes the target) and writes in a later          *)
(* statement, without a transaction around the two.  What it read is in    *)
(* planning, drafting, overriding or starting until it writes.             *)
(*                                                                         *)
(* A plan is what properties tell apart of it: the target names it was     *)
(* made for, the overrides it was made with and its blocking               *)
(* prerequisites, which depend on the source and are an arbitrary choice.  *)
(***************************************************************************)
EXTENDS Naturals, FiniteSets, Sequences

CONSTANTS
    Schemas,       \* the schemas of the source
    Prereqs,       \* ids of prerequisites
    Overrides,     \* lists of generation expressions a user may store
    NoOverrides,   \* the empty list
    Starters,       \* HTTP clients that start runs
    MaxEdits,      \* bound: edits of the instance and new instances
    MaxPlans,      \* bound: plan requests
    MaxAcks        \* bound: acknowledgements and override lists

VARIABLES
    inst,          \* the instance row: [id, strategy], id 0 when there is none
    migration,     \* the migration row of each schema, NoRow when there is none
    drafting,      \* the discovery under way: [inst, strategy, todo]
    planning,      \* the plan request under way: [inst, schema, row, strategy]
    overriding,    \* the override request under way: [inst, schema, list]
    starting,      \* per client, the start request under way
    active,        \* the runs of each schema that are pending or running
    edits, plans, acks,
    ackedOnce      \* history: prerequisites a user has ever acknowledged

catVars == <<inst, migration, drafting, planning, overriding, starting, active,
             edits, plans, acks, ackedOnce>>

Strategies == {"dedicated_db", "dedicated_schema"}
NoInst == [id |-> 0, strategy |-> "dedicated_db"]
NoPlan == [none |-> TRUE]
NoRow == [none |-> TRUE]
NoRequest == [none |-> TRUE]
Idle(request) == request = NoRequest
HasRow(s) == migration[s] # NoRow

CatInit ==
    /\ inst = NoInst
    /\ migration = [s \in Schemas |-> NoRow]
    /\ drafting = NoRequest
    /\ planning = NoRequest
    /\ overriding = NoRequest
    /\ starting = [c \in Starters |-> NoRequest]
    /\ active = [s \in Schemas |-> <<>>]
    /\ edits = 0 /\ plans = 0 /\ acks = 0
    /\ ackedOnce = [s \in Schemas |-> {}]

\* mapTarget: where a source schema goes under each strategy.
MapTarget(strategy, s) ==
    IF strategy = "dedicated_schema" THEN [db |-> "host", schema |-> s]
                                     ELSE [db |-> s, schema |-> "public"]

Discover(i, found) == drafting' = [inst |-> i.id, strategy |-> i.strategy, todo |-> found]

\* createInstance: the row, and the discovery of the source's schemas.
CreateInstance(strategy, found) ==
    /\ inst = NoInst
    /\ edits < MaxEdits
    /\ Idle(drafting)
    /\ edits' = edits + 1
    /\ inst' = [id |-> edits + 1, strategy |-> strategy]
    /\ Discover(inst', found)
    /\ UNCHANGED <<migration, planning, overriding, starting, active, plans, acks, ackedOnce>>

\* updateInstance: the whole row, no discovery.
UpdateInstance(strategy) ==
    /\ inst # NoInst
    /\ edits < MaxEdits
    /\ edits' = edits + 1
    /\ inst' = [inst EXCEPT !.strategy = strategy]
    /\ UNCHANGED <<migration, drafting, planning, overriding, starting, active, plans, acks, ackedOnce>>

\* deleteInstance or deleteProject: ON DELETE CASCADE down to runs.
DeleteInstance ==
    /\ inst # NoInst
    /\ inst' = NoInst
    /\ migration' = [s \in Schemas |-> NoRow]
    /\ active' = [s \in Schemas |-> <<>>]
    /\ ackedOnce' = [s \in Schemas |-> {}]
    /\ UNCHANGED <<drafting, planning, overriding, starting, edits, plans, acks>>

\* rediscoverInstance reads the instance and the source's schemas.
Rediscover(found) ==
    /\ inst # NoInst
    /\ Idle(drafting)
    /\ Discover(inst, found)
    /\ UNCHANGED <<inst, migration, planning, overriding, starting, active, edits, plans, acks, ackedOnce>>

\* CreateDraftMigration for one schema: a new draft, or new target names for
\* the row that is there.  Without its instance the insert fails, which
\* discoverAndDraft logs and passes over.
DraftOne(s) ==
    /\ ~Idle(drafting)
    /\ s \in drafting.todo
    /\ drafting' = [drafting EXCEPT !.todo = @ \ {s}]
    /\ LET names == MapTarget(drafting.strategy, s) IN
       migration' =
          IF drafting.inst # inst.id THEN migration
          ELSE [migration EXCEPT ![s] =
                  IF HasRow(s) THEN [@ EXCEPT !.names = names]
                  ELSE [names |-> names, plan |-> NoPlan, acked |-> {}, overrides |-> NoOverrides]]
    /\ UNCHANGED <<inst, planning, overriding, starting, active, edits, plans, acks, ackedOnce>>

DraftDone ==
    /\ ~Idle(drafting)
    /\ drafting.todo = {}
    /\ drafting' = NoRequest
    /\ UNCHANGED <<inst, migration, planning, overriding, starting, active, edits, plans, acks, ackedOnce>>

\* planMigration: loadMigrationWithInstance.
PlanBegin(s) ==
    /\ Idle(planning)
    /\ plans < MaxPlans
    /\ HasRow(s)
    /\ plans' = plans + 1
    /\ planning' = [inst |-> inst.id, schema |-> s, row |-> migration[s], strategy |-> inst.strategy]
    /\ UNCHANGED <<inst, migration, drafting, overriding, starting, active, edits, acks, ackedOnce>>

BugUpsertWholeRow(plan) == [planning.row EXCEPT !.plan = plan]

\* UpsertPlannedMigration, on conflict: the plan and the names it was made
\* for; acked_prereqs and generated_overrides are not among the columns.
PlannedRow(plan) == [migration[planning.schema] EXCEPT !.names = planning.row.names, !.plan = plan]

\* planMigration: the result is written; the source, the translation or the
\* insert (no instance any more) may fail before that.
PlanEnd(blocking) ==
    /\ ~Idle(planning)
    /\ planning' = NoRequest
    /\ LET plan == [names |-> planning.row.names, createDb |-> planning.strategy = "dedicated_db",
                    overrides |-> planning.row.overrides, blocking |-> blocking]
       IN  \/ /\ planning.inst = inst.id
              /\ migration' = [migration EXCEPT ![planning.schema] = PlannedRow(plan)]
           \/ UNCHANGED migration
    /\ UNCHANGED <<inst, drafting, overriding, starting, active, edits, plans, acks, ackedOnce>>

\* ackPrerequisites replaces the acknowledged set.
AckPrerequisites(s, ids) ==
    /\ HasRow(s)
    /\ acks < MaxAcks
    /\ acks' = acks + 1
    /\ migration' = [migration EXCEPT ![s].acked = ids]
    /\ ackedOnce' = [ackedOnce EXCEPT ![s] = @ \cup ids]
    /\ UNCHANGED <<inst, drafting, planning, overriding, starting, active, edits, plans>>

\* setGeneratedOverrides: the migration must be planned; the list is checked
\* against the plan that was read and probed on the target ...
OverridesBegin(s, list) ==
    /\ Idle(overriding)
    /\ acks < MaxAcks
    /\ HasRow(s)
    /\ migration[s].plan # NoPlan
    /\ acks' = acks + 1
    /\ overriding' = [inst |-> inst.id, schema |-> s, list |-> list]
    /\ UNCHANGED <<inst, migration, drafting, planning, starting, active, edits, plans, ackedOnce>>

\* ... and stored, unless the probe refused it or the row is gone.
OverridesEnd ==
    /\ ~Idle(overriding)
    /\ overriding' = NoRequest
    /\ \/ /\ overriding.inst = inst.id
          /\ migration' = [migration EXCEPT ![overriding.schema].overrides = overriding.list]
       \/ UNCHANGED migration
    /\ UNCHANGED <<inst, drafting, planning, starting, active, edits, plans, acks, ackedOnce>>

BugGateStatusOnly(row) == row.plan # NoPlan

\* startRun's gates on the row it read: a plan with steps, and every blocking
\* prerequisite acknowledged.
MayLaunch(row) == row.plan # NoPlan /\ row.plan.blocking \subseteq row.acked

\* startRun up to the check for an active run.
StartBegin(c, s) ==
    /\ Idle(starting[c])
    /\ HasRow(s)
    /\ MayLaunch(migration[s])
    /\ active[s] = <<>>
    /\ starting' = [starting EXCEPT ![c] = [inst |-> inst.id, schema |-> s, plan |-> migration[s].plan]]
    /\ UNCHANGED <<inst, migration, drafting, planning, overriding, active, edits, plans, acks, ackedOnce>>

\* The partial unique index uq_runs_one_active_per_migration.
MayInsertRun(s) == active[s] = <<>>

\* The transaction that inserts the run and its steps, made from the plan as
\* it was read; it fails without its migration and when another run is active.
StartEnd(c) ==
    LET r == starting[c] IN
    /\ ~Idle(r)
    /\ starting' = [starting EXCEPT ![c] = NoRequest]
    /\ active' = IF r.inst = inst.id /\ MayInsertRun(r.schema)
                   THEN [active EXCEPT ![r.schema] = Append(@, r.plan)] ELSE active
    /\ UNCHANGED <<inst, migration, drafting, planning, overriding, edits, plans, acks, ackedOnce>>

\* The watcher or cancelRun ends the run.
RunEnds(s) ==
    /\ active[s] # <<>>
    /\ active' = [active EXCEPT ![s] = Tail(@)]
    /\ UNCHANGED <<inst, migration, drafting, planning, overriding, starting, edits, plans, acks, ackedOnce>>

CatNext ==
    \/ \E t \in Strategies, found \in SUBSET Schemas : CreateInstance(t, found)
    \/ \E t \in Strategies : UpdateInstance(t)
    \/ DeleteInstance
    \/ \E found \in SUBSET Schemas : Rediscover(found)
    \/ \E s \in Schemas : DraftOne(s) \/ PlanBegin(s) \/ RunEnds(s)
    \/ DraftDone
    \/ \E blocking \in SUBSET Prereqs : PlanEnd(blocking)
    \/ \E s \in Schemas, ids \in SUBSET Prereqs : AckPrerequisites(s, ids)
    \/ \E s \in Schemas, list \in Overrides : OverridesBegin(s, list)
    \/ OverridesEnd
    \/ \E c \in Starters : (\E s \in Schemas : StartBegin(c, s)) \/ StartEnd(c)

CatSpec == CatInit /\ [][CatNext]_catVars

-----------------------------------------------------------------------------
\* project.go:352 "Acked prerequisites are preserved on update" and 355
\* "overrides are user input too and are never written here": what the user
\* acknowledged or stored while a plan or a discovery was under way is not
\* undone when that ends.
UserStateSurvives ==
    [][\A s \in Schemas :
          (HasRow(s) /\ migration'[s] # NoRow /\ acks' = acks /\ overriding' = overriding) =>
             /\ migration'[s].acked = migration[s].acked
             /\ migration'[s].overrides = migration[s].overrides]_catVars

\* runs.go:118 "all blocking prerequisites must be acknowledged": a run never
\* executes a plan with a blocking prerequisite its user has not acknowledged,
\* whatever was planned anew while the start was under way.
LaunchedWithConsent ==
    \A s \in Schemas : \A k \in DOMAIN active[s] : active[s][k].blocking \subseteq ackedOnce[s]

=============================================================================
