------------------------------ MODULE Planner ------------------------------
(***************************************************************************)
(* The migration plan: planner.Build turns an inspected schema and its     *)
(* translation into a DAG of steps, assignLevels gives each step its       *)
(* level, and startRun may take the data steps out (filterSkipDataSteps).  *)
(*                                                                         *)
(* The plan is a function of the schema; the only action is the execution  *)
(* of a step whose dependencies have succeeded, which is what RunEngine    *)
(* promises (DependencyOrder).  Which step depends on which is compared    *)
(* with what the handlers need on the target when they run (Needs).        *)
(*                                                                         *)
(* refs is what referencesName and referencesIdent find: the views whose   *)
(* names occur in the definition of a view or of a routine.  It contains   *)
(* what the object really uses.                                            *)
(*                                                                         *)
(* Operators named Bug... are wrong forms of the definition after them;    *)
(* see JobQueue.                                                           *)
(***************************************************************************)
EXTENDS Integers, FiniteSets, FiniteSetsExt

CONSTANTS
    Tables,        \* base tables a source may have
    History,       \* PG history tables of emulated system-versioned tables
    Views,         \* views a source may have
    Routines,      \* triggers, procedures and functions
    Skips,         \* "off", "build": BuildOptions.SkipData, "filter": skip_data
    MinTables,     \* the fewest tables a source has
    NoTarget       \* the target of the steps that are alone of their kind

ASSUME SkipsAssumption == Skips \subseteq {"off", "build", "filter"}
ASSUME MinTablesAssumption == MinTables \in Nat
ASSUME FiniteAssumption ==
    IsFiniteSet(Tables) /\ IsFiniteSet(History) /\ IsFiniteSet(Views) /\ IsFiniteSet(Routines)

VARIABLES
    schema,        \* the inspected and translated schema, and the options
    level,         \* Step.Level, fixed by Build
    done           \* the steps that have been executed

vars == <<schema, level, done>>

\* Views refer to each other without a cycle: every set of views has one
\* that refers to none of the others.
Acyclic(s) ==
    \A V \in SUBSET s.views : V # {} => \E v \in V : (s.refs[v] \ {v}) \cap V = {}

Schemas ==
    [createDB : BOOLEAN, tables : SUBSET Tables, history : SUBSET History,
     views : SUBSET Views, routines : SUBSET Routines,
     refs : [Views \cup Routines -> SUBSET Views], skip : Skips]

-----------------------------------------------------------------------------
(* planner.Build.                                                          *)

Step(kind, target) == [kind |-> kind, target |-> target]
StepsFor(kind, targets) == {Step(kind, t) : t \in targets}

CreateTargetDB == Step("create_target_db", NoTarget)
Inspect == Step("inspect", NoTarget)
CreateDDL == Step("create_ddl", NoTarget)
CreateFK == Step("create_fk", NoTarget)
Validate == Step("validate", NoTarget)

\* The keys of copyIDs.
Copied(s) == IF s.skip = "build" THEN {} ELSE s.tables \cup s.history

BugForgetIndexes(s) ==
    (IF s.createDB THEN {CreateTargetDB} ELSE {})
        \cup {Inspect, CreateDDL, CreateFK, Validate}
        \cup StepsFor("copy_table", Copied(s))
        \cup StepsFor("create_routine", s.views \cup s.routines)

Build(s) ==
    (IF s.createDB THEN {CreateTargetDB} ELSE {})
        \cup {Inspect, CreateDDL, CreateFK, Validate}
        \cup StepsFor("copy_table", Copied(s))
        \cup StepsFor("create_index", Copied(s))
        \cup StepsFor("create_routine", s.views \cup s.routines)

BugFKAfterDDL(s) == {CreateDDL}

\* create_fk waits for the indexes, and through them for the data.
FKDeps(s) ==
    IF s.skip = "build" THEN {CreateDDL} ELSE StepsFor("create_index", Copied(s))

\* A view or a routine waits for create_fk and for the views it mentions; a
\* view's own name in its own text does not count.
RoutineDeps(s, r) ==
    {CreateFK} \cup StepsFor("create_routine", (s.refs[r] \cap s.views) \ {r})

\* Step.DependsOn, as Build wires it; validate waits for everything.
BuildDeps(s, step) ==
    CASE step.kind = "create_target_db" -> {}
      [] step.kind = "inspect" -> IF s.createDB THEN {CreateTargetDB} ELSE {}
      [] step.kind = "create_ddl" -> {Inspect}
      [] step.kind = "copy_table" -> {CreateDDL}
      [] step.kind = "create_index" -> {Step("copy_table", step.target)}
      [] step.kind = "create_fk" -> FKDeps(s)
      [] step.kind = "create_routine" -> RoutineDeps(s, step.target)
      [] step.kind = "validate" -> Build(s) \ {Validate}

BugLowestLevel(s) ==
    LET resolve[step \in Build(s)] ==
            LET deps == BuildDeps(s, step)
            IN  IF deps = {} THEN 0 ELSE 1 + Min({resolve[d] : d \in deps \cap Build(s)})
    IN  resolve

\* assignLevels: 0 without dependencies, else one more than the highest of
\* those that are steps of the plan.
Levels(s) ==
    LET resolve[step \in Build(s)] ==
            LET deps == BuildDeps(s, step)
            IN  IF deps = {} THEN 0
                ELSE 1 + Max({-1} \cup {resolve[d] : d \in deps \cap Build(s)})
    IN  resolve

-----------------------------------------------------------------------------
(* startRun with skip_data: filterSkipDataSteps.                           *)

Dropped(s) ==
    IF s.skip = "filter"
      THEN {step \in Build(s) : step.kind \in {"copy_table", "validate"}}
      ELSE {}

\* The first surviving step.
Root(s) == IF s.createDB THEN CreateTargetDB ELSE Inspect

\* The steps of the run.
Plan(s) == Build(s) \ Dropped(s)

\* depends_on of the run's steps: dependencies on dropped steps become one on
\* the root.  Levels stay as Build computed them.
Deps(s, step) ==
    LET deps == BuildDeps(s, step)
    IN  (deps \ Dropped(s))
            \cup (IF deps \cap Dropped(s) # {} THEN {Root(s)} \ {step} ELSE {})

-----------------------------------------------------------------------------
Init ==
    /\ schema \in Schemas
    /\ Cardinality(schema.tables) >= MinTables
    /\ Acyclic(schema)
    /\ level = Levels(schema)
    /\ done = {}

\* The step's dependencies have succeeded, and its handler runs.
Execute(step) ==
    /\ step \in Plan(schema) \ done
    /\ Deps(schema, step) \subseteq done
    /\ done' = done \cup {step}
    /\ UNCHANGED <<schema, level>>

Next == \E step \in Plan(schema) : Execute(step)

Spec == Init /\ [][Next]_vars

\* A step whose dependencies have succeeded is executed (RunEngine).
FairSpec == Spec /\ WF_vars(Next)

-----------------------------------------------------------------------------
(* Properties.                                                             *)

\* Steps whose handlers work in the target database.  hCreateIndex does nothing:
\* create_fk executes the indexes with the rest of the post-copy script.
OnTarget(step) == step.kind \notin {"create_target_db", "inspect", "create_index"}

\* The database exists before any statement on the target.
DatabaseFirst ==
    \A step \in done : OnTarget(step) /\ schema.createDB => CreateTargetDB \in done

\* The tables exist before rows, indexes, constraints, views and routines.
TablesFirst ==
    \A step \in done : OnTarget(step) => CreateDDL \in done

\* Constraints, views and triggers come after the last row: a foreign key or
\* a trigger would otherwise see a half copied database.  validate too.
DataBeforeConstraints ==
    \A step \in done :
        step.kind \in {"create_fk", "create_routine", "validate"} =>
            StepsFor("copy_table", Copied(schema)) \ Dropped(schema) \subseteq done

\* A view exists before the views and the routines that mention it.
ViewsBeforeUsers ==
    \A step \in done : step.kind = "create_routine" =>
        \A v \in (schema.refs[step.target] \cap schema.views) \ {step.target} :
            Step("create_routine", v) \in done

\* What the handler of a step finds on the target: by the time a step is
\* executed, whatever it stands on is there, along every order in which the
\* dependencies let the steps be executed.
NeedsMet ==
    DatabaseFirst /\ TablesFirst /\ DataBeforeConstraints /\ ViewsBeforeUsers

\* replayLevel(l) deletes the work of the steps of level l and higher and
\* leaves the rest: no step it leaves depends on one it takes back.
\* RunEngine assumes so of every plan.
LevelsFollowDeps ==
    \A step \in Plan(schema) : \A d \in Deps(schema, step) \cap Plan(schema) :
        level[d] < level[step]

\* The plan has no cycle and no dependency on a step that is not there: a run
\* without failures executes every step.
PlanCompletes == <>(done = Plan(schema))

=============================================================================
