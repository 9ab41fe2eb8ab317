--------------------------- MODULE PlannerProofs ---------------------------
(***************************************************************************)
(* For every schema that has a table, whatever its views and routines      *)
(* refer to, the plan of planner.Build executes each step on what it       *)
(* needs (NeedsMet), and assignLevels puts each step above those it        *)
(* depends on (LevelsFollowDeps), so that the dispatcher always finds a    *)
(* step to execute (NeverStuck).                                           *)
(*                                                                         *)
(* The dependencies name immediate predecessors only.  That the executed   *)
(* steps are closed under them (Closed) is inductive; what a step needs is *)
(* reached along a chain, create_routine - create_fk - create_index -      *)
(* copy_table - create_ddl - inspect - create_target_db, which a schema    *)
(* without tables breaks at create_fk.                                     *)
(*                                                                         *)
(* The level of a step is a recursive function of its dependencies.  That  *)
(* it exists is shown on the largest set of steps that can be given        *)
(* levels: the dependencies have no cycle, so it is the whole plan.        *)
(***************************************************************************)
EXTENDS Planner, FiniteSetTheorems, TLAPS

\* The executed steps are steps of the plan, and closed under dependencies.
Closed ==
    /\ schema \in Schemas
    /\ Cardinality(schema.tables) >= MinTables
    /\ done \subseteq Plan(schema)
    /\ \A step \in done : Deps(schema, step) \subseteq done

\* Execute keeps the executed steps closed under dependencies (Closed).
LEMMA ClosedInvariant == Spec => []Closed
<1>1. Init => Closed
  BY DEF Init, Closed
<1>2. Closed /\ [Next]_vars => Closed'
  <2> SUFFICES ASSUME Closed, [Next]_vars PROVE Closed'
    OBVIOUS
  <2>1. ASSUME NEW step \in Plan(schema), Execute(step) PROVE Closed'
    BY <2>1 DEF Closed, Execute
  <2>2. CASE UNCHANGED vars
    BY <2>2 DEF Closed, vars
  <2> QED BY <2>1, <2>2 DEF Next
<1> QED BY <1>1, <1>2, PTL DEF Spec

\* Without skip_data the run's steps are Build's, with Build's dependencies.
LEMMA NothingDropped ==
    ASSUME schema.skip # "filter", NEW step
    PROVE  Dropped(schema) = {} /\ Deps(schema, step) = BuildDeps(schema, step)
BY DEF Dropped, Deps

\* The chain from create_fk down: a plan without skip_data whose schema has a
\* table has everything below create_fk executed when create_fk is.
LEMMA Chain ==
    ASSUME Closed, schema.skip # "filter", schema.tables # {}
    PROVE  /\ CreateDDL \in done => Inspect \in done
           /\ Inspect \in done /\ schema.createDB => CreateTargetDB \in done
           /\ \A t : Step("copy_table", t) \in done => CreateDDL \in done
           /\ CreateFK \in done => CreateDDL \in done
           /\ CreateFK \in done => StepsFor("copy_table", Copied(schema)) \subseteq done
<1> USE DEF Closed
<1>0. \A step \in done : BuildDeps(schema, step) \subseteq done
  BY NothingDropped
<1>1. CreateDDL \in done => Inspect \in done
  <2>1. BuildDeps(schema, CreateDDL) = {Inspect}
    BY DEF BuildDeps, CreateDDL, Step
  <2> QED BY <1>0, <2>1
<1>2. Inspect \in done /\ schema.createDB => CreateTargetDB \in done
  <2>1. schema.createDB => BuildDeps(schema, Inspect) = {CreateTargetDB}
    BY DEF BuildDeps, Inspect, Step
  <2> QED BY <1>0, <2>1
<1>3. \A t : Step("copy_table", t) \in done => CreateDDL \in done
  <2> TAKE t
  <2>1. BuildDeps(schema, Step("copy_table", t)) = {CreateDDL}
    BY DEF BuildDeps, Step
  <2> QED BY <1>0, <2>1
<1>4. BuildDeps(schema, CreateFK) = FKDeps(schema)
  BY DEF BuildDeps, CreateFK, Step
<1>5. CASE schema.skip = "build"
  <2>1. Copied(schema) = {} /\ FKDeps(schema) = {CreateDDL}
    BY <1>5 DEF Copied, FKDeps
  <2> QED BY <1>0, <1>1, <1>2, <1>3, <1>4, <2>1 DEF StepsFor
<1>6. CASE schema.skip # "build"
  <2>1. /\ Copied(schema) = schema.tables \cup schema.history
        /\ FKDeps(schema) = StepsFor("create_index", Copied(schema))
    BY <1>6 DEF Copied, FKDeps
  <2>2. \A t : Step("create_index", t) \in done => Step("copy_table", t) \in done
    <3> TAKE t
    <3>1. BuildDeps(schema, Step("create_index", t)) = {Step("copy_table", t)}
      BY DEF BuildDeps, Step
    <3> QED BY <1>0, <3>1
  <2>3. ASSUME CreateFK \in done, NEW t \in Copied(schema)
        PROVE  Step("copy_table", t) \in done
    <3>1. Step("create_index", t) \in FKDeps(schema)
      BY <2>1 DEF StepsFor
    <3> QED BY <1>0, <1>4, <2>2, <2>3, <3>1
  <2>4. PICK t : t \in Copied(schema)
    BY <2>1
  <2> QED BY <1>1, <1>2, <1>3, <2>3, <2>4 DEF StepsFor
<1> QED BY <1>5, <1>6

\* A routine, a view and validate are executed after create_fk and after the
\* views they mention.
LEMMA RoutineAfter ==
    ASSUME Closed, schema.skip # "filter", NEW step \in done
    PROVE  /\ step.kind = "create_routine" =>
                /\ CreateFK \in done
                /\ \A v \in (schema.refs[step.target] \cap schema.views) \ {step.target} :
                      Step("create_routine", v) \in done
           /\ step.kind = "validate" => {CreateDDL, CreateFK} \subseteq done
<1>0. BuildDeps(schema, step) \subseteq done
  BY NothingDropped DEF Closed
<1>1. CASE step.kind = "create_routine"
  <2>1. BuildDeps(schema, step) = RoutineDeps(schema, step.target)
    BY <1>1 DEF BuildDeps
  <2> QED BY <1>0, <1>1, <2>1 DEF RoutineDeps, StepsFor
<1>2. CASE step.kind = "validate"
  <2>1. BuildDeps(schema, step) = Build(schema) \ {Validate}
    BY <1>2 DEF BuildDeps
  <2>2. {CreateDDL, CreateFK} \subseteq Build(schema) \ {Validate}
    BY DEF Build, CreateDDL, CreateFK, Validate, Step
  <2> QED BY <1>0, <1>2, <2>1, <2>2
<1> QED BY <1>1, <1>2

\* Every step of the plan is of one of seven kinds; the steps that are alone
\* of their kind have a name.
LEMMA Kinds ==
    ASSUME Closed, NEW step \in done
    PROVE  \/ step.kind \in {"create_target_db", "inspect", "create_index",
                             "create_routine", "validate"}
           \/ step = CreateDDL \/ step = CreateFK
           \/ \E t \in Copied(schema) : step = Step("copy_table", t)
<1>1. step \in Build(schema)
  BY DEF Closed, Plan
<1> QED BY <1>1 DEF Build, StepsFor, Step, CreateTargetDB, Inspect, Validate

\* What the handler of a step needs on the target (the database, the tables,
\* all the rows before constraints and triggers, the views it mentions) is
\* there when the step is executed, for every schema with at least one table
\* and every plan of Build, with or without BuildOptions.SkipData.
THEOREM PlanOrder ==
    ASSUME MinTables > 0, "filter" \notin Skips
    PROVE  Spec => []NeedsMet
<1>1. Closed => schema.skip # "filter" /\ schema.tables # {}
  <2> SUFFICES ASSUME Closed PROVE schema.skip # "filter" /\ schema.tables # {}
    OBVIOUS
  <2>1. schema.skip \in Skips
    BY DEF Closed, Schemas
  <2>2. schema.tables # {}
    BY FS_EmptySet, MinTablesAssumption DEF Closed
  <2> QED BY <2>1, <2>2
<1>2. Closed => NeedsMet
  <2> SUFFICES ASSUME Closed PROVE NeedsMet
    OBVIOUS
  <2>0. Dropped(schema) = {}
    BY <1>1, NothingDropped
  <2>1. ASSUME NEW step \in done, OnTarget(step) PROVE CreateDDL \in done
    <3>1. step.kind \in {"create_routine", "validate"} => CreateDDL \in done
      BY <1>1, Chain, RoutineAfter
    <3>2. step = CreateFK => CreateDDL \in done
      BY <1>1, Chain
    <3>3. (\E t \in Copied(schema) : step = Step("copy_table", t)) => CreateDDL \in done
      BY <1>1, Chain
    <3> QED BY <2>1, <3>1, <3>2, <3>3, Kinds DEF OnTarget
  <2>2. DatabaseFirst
    BY <1>1, <2>1, Chain DEF DatabaseFirst
  <2>3. TablesFirst
    BY <2>1 DEF TablesFirst
  <2>4. ASSUME NEW step \in done,
               step.kind \in {"create_fk", "create_routine", "validate"}
        PROVE  CreateFK \in done
    <3>1. CASE step.kind = "create_fk"
      <4>1. step = CreateFK
        BY <3>1, Kinds DEF CreateDDL, Step
      <4> QED BY <4>1
    <3>2. CASE step.kind \in {"create_routine", "validate"}
      BY <1>1, <3>2, RoutineAfter
    <3> QED BY <2>4, <3>1, <3>2
  <2>5. DataBeforeConstraints
    BY <1>1, <2>0, <2>4, Chain DEF DataBeforeConstraints
  <2>6. ViewsBeforeUsers
    BY <1>1, RoutineAfter DEF ViewsBeforeUsers
  <2> QED BY <2>2, <2>3, <2>5, <2>6 DEF NeedsMet
<1> QED BY <1>2, ClosedInvariant, PTL

-----------------------------------------------------------------------------
(* Levels.  The library's induction principles take a predicate as a       *)
(* parameter; a least counterexample does without.                         *)

\* Every set of natural numbers has a least one.
LEMMA LeastNatural ==
    ASSUME NEW T \in SUBSET Nat, T # {}
    PROVE  \E n \in T : \A m \in T : n <= m
<1> DEFINE Less == OpToRel(<, Nat)
<1>1. IsWellFoundedOn(Less, Nat)
  BY NatLessThanWellFounded
<1>2. \A m, n \in Nat : m < n => <<m, n>> \in Less
  BY DEF OpToRel
<1> HIDE DEF Less
<1>3. \E n \in T : \A m \in T : ~(<<m, n>> \in Less)
  BY <1>1, WFMin
<1>4. PICK n \in T : \A m \in T : ~(<<m, n>> \in Less)
  BY <1>3
<1>5. \A m \in T : ~(m < n)
  BY <1>2, <1>4
<1>6. \A m \in T : n <= m
  BY <1>5
<1> QED BY <1>6

\* A bounded set of integers that has a member from -1 on has a maximum, and
\* Max is it.
LEMMA MaxOfBounded ==
    ASSUME NEW S, S # {}, NEW n \in Nat, \A x \in S : x \in Int /\ -1 <= x /\ x <= n
    PROVE  Max(S) \in S /\ \A x \in S : x <= Max(S)
<1> DEFINE T == {k \in Nat : n - k \in S}
<1>1. T # {}
  <2>1. PICK x \in S : TRUE
    OBVIOUS
  <2>2. n - x \in Nat /\ n - (n - x) = x
    OBVIOUS
  <2> QED BY <2>1, <2>2
<1>2. PICK k \in T : \A m \in T : k <= m
  BY <1>1, LeastNatural
<1>3. n - k \in S /\ \A x \in S : n - k >= x
  <2>1. ASSUME NEW x \in S PROVE n - k >= x
    <3>1. n - x \in Nat /\ n - (n - x) = x
      OBVIOUS
    <3>2. n - x \in T
      BY <3>1
    <3>3. k <= n - x
      BY <1>2, <3>2
    <3> QED BY <3>1, <3>3
  <2> QED BY <2>1
<1>4. \E x \in S : \A y \in S : x >= y
  BY <1>3
<1>5. Max(S) \in S /\ \A y \in S : Max(S) >= y
  BY <1>4 DEF Max
<1> QED BY <1>5

\* The steps of Build, each with its dependencies.
LEMMA StepsOfBuild ==
    ASSUME NEW s, NEW x \in Build(s)
    PROVE  \/ x = CreateTargetDB /\ s.createDB /\ BuildDeps(s, x) = {}
           \/ x = Inspect /\ BuildDeps(s, x) = IF s.createDB THEN {CreateTargetDB} ELSE {}
           \/ x = CreateDDL /\ BuildDeps(s, x) = {Inspect}
           \/ \E t \in Copied(s) : x = Step("copy_table", t) /\ BuildDeps(s, x) = {CreateDDL}
           \/ \E t \in Copied(s) :
                 x = Step("create_index", t) /\ BuildDeps(s, x) = {Step("copy_table", t)}
           \/ x = CreateFK /\ BuildDeps(s, x) = FKDeps(s)
           \/ \E r \in s.views \cup s.routines :
                 x = Step("create_routine", r) /\ BuildDeps(s, x) = RoutineDeps(s, r)
           \/ x = Validate /\ BuildDeps(s, x) = Build(s) \ {Validate}
<1>1. \/ x = CreateTargetDB /\ s.createDB
      \/ x \in {Inspect, CreateDDL, CreateFK, Validate}
      \/ \E t \in Copied(s) : x = Step("copy_table", t)
      \/ \E t \in Copied(s) : x = Step("create_index", t)
      \/ \E r \in s.views \cup s.routines : x = Step("create_routine", r)
  BY DEF Build, StepsFor
<1>2. x = CreateTargetDB => BuildDeps(s, x) = {}
  BY DEF BuildDeps, CreateTargetDB, Step
<1>3. x = Inspect => BuildDeps(s, x) = IF s.createDB THEN {CreateTargetDB} ELSE {}
  BY DEF BuildDeps, Inspect, Step
<1>4. x = CreateDDL => BuildDeps(s, x) = {Inspect}
  BY DEF BuildDeps, CreateDDL, Step
<1>5. \A t : x = Step("copy_table", t) => BuildDeps(s, x) = {CreateDDL}
  BY DEF BuildDeps, Step
<1>6. \A t : x = Step("create_index", t) => BuildDeps(s, x) = {Step("copy_table", t)}
  BY DEF BuildDeps, Step
<1>7. x = CreateFK => BuildDeps(s, x) = FKDeps(s)
  BY DEF BuildDeps, CreateFK, Step
<1>8. \A r : x = Step("create_routine", r) => BuildDeps(s, x) = RoutineDeps(s, r)
  BY DEF BuildDeps, Step
<1>9. x = Validate => BuildDeps(s, x) = Build(s) \ {Validate}
  BY DEF BuildDeps, Validate, Step
<1> QED BY <1>1, <1>2, <1>3, <1>4, <1>5, <1>6, <1>7, <1>8, <1>9

\* Dependencies are steps of Build.
LEMMA DepsInBuild ==
    ASSUME NEW s, NEW x \in Build(s)
    PROVE  BuildDeps(s, x) \subseteq Build(s)
<1>1. /\ {Inspect, CreateDDL, CreateFK, Validate} \subseteq Build(s)
      /\ s.createDB => CreateTargetDB \in Build(s)
      /\ \A t \in Copied(s) : {Step("copy_table", t), Step("create_index", t)} \subseteq Build(s)
      /\ \A r \in s.views \cup s.routines : Step("create_routine", r) \in Build(s)
  BY DEF Build, StepsFor
<1>2. FKDeps(s) \subseteq Build(s)
  BY <1>1 DEF FKDeps, StepsFor
<1>3. \A r : RoutineDeps(s, r) \subseteq Build(s)
  BY <1>1 DEF RoutineDeps, StepsFor
<1> QED BY <1>1, <1>2, <1>3, StepsOfBuild

\* Among the steps of any set one waits for none of the others: the kinds of
\* steps follow each other, and views do not refer to each other in a cycle.
LEMMA NoCycle ==
    ASSUME NEW s \in Schemas, Acyclic(s), NEW B \in SUBSET Build(s), B # {}
    PROVE  \E x \in B : BuildDeps(s, x) \cap B = {}
<1> SUFFICES ASSUME \A x \in B : BuildDeps(s, x) \cap B # {} PROVE FALSE
  OBVIOUS
<1>1. CreateTargetDB \notin B
  BY DEF BuildDeps, CreateTargetDB, Step
<1>2. Inspect \notin B
  <2>1. BuildDeps(s, Inspect) \subseteq {CreateTargetDB}
    BY DEF BuildDeps, Inspect, Step
  <2> QED BY <1>1, <2>1
<1>3. CreateDDL \notin B
  <2>1. BuildDeps(s, CreateDDL) = {Inspect}
    BY DEF BuildDeps, CreateDDL, Step
  <2> QED BY <1>2, <2>1
<1>4. \A t : Step("copy_table", t) \notin B
  <2> TAKE t
  <2>1. BuildDeps(s, Step("copy_table", t)) = {CreateDDL}
    BY DEF BuildDeps, Step
  <2> QED BY <1>3, <2>1
<1>5. \A t : Step("create_index", t) \notin B
  <2> TAKE t
  <2>1. BuildDeps(s, Step("create_index", t)) = {Step("copy_table", t)}
    BY DEF BuildDeps, Step
  <2> QED BY <1>4, <2>1
<1>6. CreateFK \notin B
  <2>1. BuildDeps(s, CreateFK) = FKDeps(s)
    BY DEF BuildDeps, CreateFK, Step
  <2>2. FKDeps(s) \cap B = {}
    BY <1>3, <1>5 DEF FKDeps, StepsFor
  <2> QED BY <2>1, <2>2
<1>7. \A r : BuildDeps(s, Step("create_routine", r)) = RoutineDeps(s, r)
  BY DEF BuildDeps, Step
<1>8. ASSUME NEW r, Step("create_routine", r) \in B
      PROVE  \E v \in (s.refs[r] \cap s.views) \ {r} : Step("create_routine", v) \in B
  <2>1. RoutineDeps(s, r) \cap B # {}
    BY <1>7, <1>8
  <2> QED BY <1>6, <2>1 DEF RoutineDeps, StepsFor
<1>9. \A r : Step("create_routine", r) \notin B
  <2> SUFFICES ASSUME NEW r, Step("create_routine", r) \in B PROVE FALSE
    OBVIOUS
  <2> DEFINE V == {v \in s.views : Step("create_routine", v) \in B}
  <2>1. V # {}
    BY <1>8
  <2>2. PICK v \in V : (s.refs[v] \ {v}) \cap V = {}
    BY <2>1 DEF Acyclic
  <2>3. PICK u \in (s.refs[v] \cap s.views) \ {v} : Step("create_routine", u) \in B
    BY <1>8
  <2> QED BY <2>2, <2>3
<1>10. B \subseteq {Validate}
  BY <1>1, <1>2, <1>3, <1>4, <1>5, <1>6, <1>9, StepsOfBuild
<1>11. BuildDeps(s, Validate) = Build(s) \ {Validate}
  BY DEF BuildDeps, Validate, Step
<1> QED BY <1>10, <1>11

\* A schema is finite, and so is its plan.
LEMMA BuildIsFinite ==
    ASSUME NEW s \in Schemas
    PROVE  IsFiniteSet(Build(s))
<1>1. \A T, kind : IsFiniteSet(T) => IsFiniteSet(StepsFor(kind, T))
  <2> SUFFICES ASSUME NEW T, NEW kind, IsFiniteSet(T) PROVE IsFiniteSet(StepsFor(kind, T))
    OBVIOUS
  <2> DEFINE f == [t \in T |-> Step(kind, t)]
  <2>1. f \in Surjection(T, StepsFor(kind, T))
    BY DEF Surjection, StepsFor
  <2> QED BY <2>1, FS_Surjection
<1>2. IsFiniteSet(Copied(s))
  <2>1. s.tables \in SUBSET Tables /\ s.history \in SUBSET History
    BY DEF Schemas
  <2>2. IsFiniteSet(s.tables) /\ IsFiniteSet(s.history)
    BY <2>1, FiniteAssumption, FS_Subset
  <2> QED BY <2>2, FS_Union, FS_EmptySet DEF Copied
<1>3. IsFiniteSet(s.views \cup s.routines)
  <2>1. s.views \in SUBSET Views /\ s.routines \in SUBSET Routines
    BY DEF Schemas
  <2>2. IsFiniteSet(s.views) /\ IsFiniteSet(s.routines)
    BY <2>1, FiniteAssumption, FS_Subset
  <2> QED BY <2>2, FS_Union
<1>4. IsFiniteSet(IF s.createDB THEN {CreateTargetDB} ELSE {})
  BY FS_EmptySet, FS_Singleton
<1>5. IsFiniteSet({Inspect, CreateDDL, CreateFK, Validate})
  <2>1. {Inspect, CreateDDL, CreateFK, Validate} = (({Inspect} \cup {CreateDDL}) \cup {CreateFK}) \cup {Validate}
    OBVIOUS
  <2>2. IsFiniteSet({Inspect})
    BY FS_Singleton
  <2>3. IsFiniteSet({Inspect} \cup {CreateDDL})
    BY <2>2, FS_AddElement
  <2>4. IsFiniteSet(({Inspect} \cup {CreateDDL}) \cup {CreateFK})
    BY <2>3, FS_AddElement
  <2> QED BY <2>1, <2>4, FS_AddElement
<1>6. /\ IsFiniteSet(StepsFor("copy_table", Copied(s)))
      /\ IsFiniteSet(StepsFor("create_index", Copied(s)))
      /\ IsFiniteSet(StepsFor("create_routine", s.views \cup s.routines))
  BY <1>1, <1>2, <1>3
<1> DEFINE A1 == (IF s.createDB THEN {CreateTargetDB} ELSE {}) \cup {Inspect, CreateDDL, CreateFK, Validate}
           A2 == A1 \cup StepsFor("copy_table", Copied(s))
           A3 == A2 \cup StepsFor("create_index", Copied(s))
<1>7. IsFiniteSet(A1)
  BY <1>4, <1>5, FS_Union
<1>8. IsFiniteSet(A2)
  <2> HIDE DEF A1
  <2> QED BY <1>6, <1>7, FS_Union
<1>9. IsFiniteSet(A3)
  <2> HIDE DEF A2
  <2> QED BY <1>6, <1>8, FS_Union
<1>10. Build(s) = A3 \cup StepsFor("create_routine", s.views \cup s.routines)
  BY DEF Build
<1> HIDE DEF A3
<1> QED BY <1>6, <1>9, <1>10, FS_Union

\* One more than the highest level of the dependencies, as assignLevels has it.
LevelIn(s, f, x) ==
    IF BuildDeps(s, x) = {} THEN 0
    ELSE 1 + Max({-1} \cup {f[d] : d \in BuildDeps(s, x) \cap Build(s)})

\* f gives the steps of D, with which come their dependencies, their levels.
Assigns(s, D, f, n) ==
    /\ D \subseteq Build(s) /\ n \in Nat
    /\ \A x \in D : BuildDeps(s, x) \subseteq D
    /\ f \in [D -> 0..n]
    /\ \A x \in D : f[x] = LevelIn(s, f, x)

\* The level of a step is above those of its dependencies and, if it has any,
\* above 0.
LEMMA LevelInAbove ==
    ASSUME NEW s, NEW x \in Build(s), NEW n \in Nat, NEW f,
           \A d \in BuildDeps(s, x) : f[d] \in 0..n
    PROVE  /\ LevelIn(s, f, x) \in 0..(n + 1)
           /\ \A d \in BuildDeps(s, x) : f[d] < LevelIn(s, f, x)
<1> DEFINE L == {-1} \cup {f[d] : d \in BuildDeps(s, x) \cap Build(s)}
<1>1. /\ \A y \in L : y \in Int /\ -1 <= y /\ y <= n
      /\ \A d \in BuildDeps(s, x) : f[d] \in L
      /\ -1 \in L
  BY DepsInBuild
<1>2. LevelIn(s, f, x) = IF BuildDeps(s, x) = {} THEN 0 ELSE 1 + Max(L)
  BY DEF LevelIn
<1> HIDE DEF L
<1>3. Max(L) \in L /\ \A y \in L : y <= Max(L)
  BY <1>1, MaxOfBounded
<1>4. Max(L) \in Int /\ -1 <= Max(L) /\ Max(L) <= n
  BY <1>1, <1>3
<1>5. CASE BuildDeps(s, x) = {}
  BY <1>2, <1>5
<1>6. CASE BuildDeps(s, x) # {}
  <2>1. \A d \in BuildDeps(s, x) : f[d] <= Max(L) /\ f[d] \in 0..n
    BY <1>1, <1>3
  <2> QED BY <1>2, <1>4, <1>6, <2>1
<1> QED BY <1>5, <1>6

\* The level depends on the levels of the dependencies only.
LEMMA LevelInLocal ==
    ASSUME NEW s, NEW x \in Build(s), NEW f, NEW g,
           \A d \in BuildDeps(s, x) : f[d] = g[d]
    PROVE  LevelIn(s, f, x) = LevelIn(s, g, x)
<1>1. {f[d] : d \in BuildDeps(s, x) \cap Build(s)} = {g[d] : d \in BuildDeps(s, x) \cap Build(s)}
  OBVIOUS
<1> QED BY <1>1 DEF LevelIn

\* One more step gets its level.
LEMMA AssignOneMore ==
    ASSUME NEW s, NEW D, NEW f, NEW n, Assigns(s, D, f, n),
           NEW x \in Build(s) \ D, BuildDeps(s, x) \subseteq D
    PROVE  \E g : Assigns(s, D \cup {x}, g, n + 1)
<1> DEFINE g == [y \in D \cup {x} |-> IF y \in D THEN f[y] ELSE LevelIn(s, f, x)]
<1>1. /\ D \subseteq Build(s) /\ n \in Nat
      /\ \A y \in D : BuildDeps(s, y) \subseteq D
      /\ \A y \in D : f[y] \in 0..n
      /\ \A y \in D : f[y] = LevelIn(s, f, y)
  BY DEF Assigns
<1>2. LevelIn(s, f, x) \in 0..(n + 1)
  BY <1>1, LevelInAbove
<1>3. g \in [D \cup {x} -> 0..(n + 1)]
  <2>1. \A y \in D : f[y] \in 0..(n + 1)
    BY <1>1
  <2> QED BY <1>2, <2>1
<1>4. \A y \in D : g[y] = f[y]
  OBVIOUS
<1>5. g[x] = LevelIn(s, f, x)
  OBVIOUS
<1> HIDE DEF g
<1>6. \A y \in D \cup {x} : LevelIn(s, g, y) = LevelIn(s, f, y)
  <2> TAKE y \in D \cup {x}
  <2>1. y \in Build(s) /\ \A d \in BuildDeps(s, y) : g[d] = f[d]
    BY <1>1, <1>4
  <2> QED BY <2>1, LevelInLocal
<1>7. \A y \in D \cup {x} : g[y] = LevelIn(s, g, y)
  BY <1>1, <1>4, <1>5, <1>6
<1>8. Assigns(s, D \cup {x}, g, n + 1)
  BY <1>1, <1>3, <1>7 DEF Assigns
<1> QED BY <1>8

\* assignLevels comes to an end: every step has a level.
LEMMA LevelsExist ==
    ASSUME NEW s \in Schemas, Acyclic(s)
    PROVE  \E f, n : Assigns(s, Build(s), f, n)
<1> DEFINE T == {k \in Nat : \E D \in SUBSET Build(s) : \E f, n :
                               Assigns(s, D, f, n) /\ Cardinality(Build(s) \ D) = k}
<1>1. \A D \in SUBSET Build(s) :
          IsFiniteSet(Build(s) \ D) /\ Cardinality(Build(s) \ D) \in Nat
  <2> TAKE D \in SUBSET Build(s)
  <2>1. IsFiniteSet(Build(s) \ D)
    BY BuildIsFinite, FS_Subset
  <2> QED BY <2>1, FS_CardinalityType
<1>2. T # {}
  <2> DEFINE f == [x \in {} |-> 0]
  <2>1. f \in [{} -> 0..0]
    OBVIOUS
  <2>2. Assigns(s, {}, f, 0)
    BY <2>1 DEF Assigns
  <2> QED BY <1>1, <2>2
<1>3. PICK k \in T : \A m \in T : k <= m
  <2> HIDE DEF T
  <2>1. T \in SUBSET Nat
    BY DEF T
  <2> QED BY <1>2, <2>1, LeastNatural
<1>4. PICK D \in SUBSET Build(s) : \E f, n :
               Assigns(s, D, f, n) /\ Cardinality(Build(s) \ D) = k
  BY <1>3
<1>5. PICK f, n : Assigns(s, D, f, n) /\ Cardinality(Build(s) \ D) = k
  BY <1>4
<1>6. Build(s) \ D = {}
  <2> SUFFICES ASSUME Build(s) \ D # {} PROVE FALSE
    OBVIOUS
  <2>1. PICK x \in Build(s) \ D : BuildDeps(s, x) \cap (Build(s) \ D) = {}
    BY NoCycle
  <2>2. BuildDeps(s, x) \subseteq D
    BY <2>1, DepsInBuild
  <2>3. PICK g : Assigns(s, D \cup {x}, g, n + 1)
    BY <1>5, <2>2, AssignOneMore
  <2>4. Build(s) \ (D \cup {x}) = (Build(s) \ D) \ {x}
    OBVIOUS
  <2>5. Cardinality(Build(s) \ (D \cup {x})) = k - 1
    <3>1. IsFiniteSet(Build(s) \ D)
      BY <1>1
    <3>2. Cardinality((Build(s) \ D) \ {x}) = Cardinality(Build(s) \ D) - 1
      BY <3>1, FS_RemoveElement
    <3> QED BY <1>5, <2>4, <3>2
  <2>6. D \cup {x} \in SUBSET Build(s)
    OBVIOUS
  <2>7. Cardinality(Build(s) \ (D \cup {x})) \in Nat
    BY <1>1, <2>6
  <2>8. k - 1 \in T
    BY <2>3, <2>5, <2>6, <2>7
  <2>9. k \in Nat
    BY <1>3
  <2> HIDE DEF T
  <2>10. k <= k - 1
    BY <1>3, <2>8
  <2> QED BY <2>9, <2>10
<1>7. D = Build(s)
  BY <1>6
<1> QED BY <1>5, <1>7

\* assignLevels has one result.
LEMMA LevelsUnique ==
    ASSUME NEW s \in Schemas, Acyclic(s), NEW f, NEW g,
           f = [x \in Build(s) |-> LevelIn(s, f, x)],
           g = [x \in Build(s) |-> LevelIn(s, g, x)]
    PROVE  f = g
<1> DEFINE B == {x \in Build(s) : f[x] # g[x]}
<1>1. ASSUME B # {} PROVE FALSE
  <2>1. PICK x \in B : BuildDeps(s, x) \cap B = {}
    BY <1>1, NoCycle
  <2>2. \A d \in BuildDeps(s, x) : f[d] = g[d]
    BY <2>1, DepsInBuild
  <2>3. LevelIn(s, f, x) = LevelIn(s, g, x)
    BY <2>2, LevelInLocal
  <2>4. f[x] = LevelIn(s, f, x) /\ g[x] = LevelIn(s, g, x)
    OBVIOUS
  <2> QED BY <2>1, <2>3, <2>4
<1>2. \A x \in Build(s) : f[x] = g[x]
  BY <1>1
<1>3. /\ f = [x \in Build(s) |-> f[x]]
      /\ g = [x \in Build(s) |-> g[x]]
  OBVIOUS
<1> QED BY <1>2, <1>3

\* What assignLevels computes.
LEMMA LevelsAssigned ==
    ASSUME NEW s \in Schemas, Acyclic(s)
    PROVE  \E n : Assigns(s, Build(s), Levels(s), n)
<1> DEFINE Is(f) == f = [x \in Build(s) |-> LevelIn(s, f, x)]
<1>1. PICK f, n : Assigns(s, Build(s), f, n)
  BY LevelsExist
<1>2. Is(f)
  <2>1. f \in [Build(s) -> 0..n] /\ \A x \in Build(s) : f[x] = LevelIn(s, f, x)
    BY <1>1 DEF Assigns
  <2> QED BY <2>1
<1>3. Levels(s) = CHOOSE h : Is(h)
  BY DEF Levels, LevelIn
<1>4. Is(Levels(s))
  <2> HIDE DEF Is
  <2> QED BY <1>2, <1>3
<1>5. Levels(s) = f
  BY <1>2, <1>4, LevelsUnique
<1> QED BY <1>1, <1>5

\* The schema and the levels stay as Build left them.
Planned ==
    /\ schema \in Schemas /\ Acyclic(schema)
    /\ level = Levels(schema)

LEMMA PlannedInvariant == Spec => []Planned
<1>1. Init => Planned
  BY DEF Init, Planned
<1>2. Planned /\ [Next]_vars => Planned'
  BY DEF Planned, Next, Execute, vars
<1> QED BY <1>1, <1>2, PTL DEF Spec

\* assignLevels puts every step above the steps it depends on, with skip_data
\* too, when filterSkipDataSteps has changed the dependencies and left the
\* levels: whatever replayLevel leaves alone depends on nothing that it takes
\* back, in every plan.  RunEngine assumes so (StepAssumption).
THEOREM LevelsAreSound == Spec => []LevelsFollowDeps
<1>1. Planned => LevelsFollowDeps
  <2> SUFFICES ASSUME Planned, NEW x \in Plan(schema), NEW d \in Deps(schema, x) \cap Plan(schema)
               PROVE  level[d] < level[x]
    BY DEF LevelsFollowDeps
  <2>1. PICK n : Assigns(schema, Build(schema), level, n)
    BY LevelsAssigned DEF Planned
  <2>2. /\ n \in Nat /\ \A y \in Build(schema) : level[y] \in 0..n
        /\ \A y \in Build(schema) : level[y] = LevelIn(schema, level, y)
    BY <2>1 DEF Assigns
  <2>3. x \in Build(schema) /\ d \in Build(schema)
    BY DEF Plan
  <2>4. \A b \in BuildDeps(schema, x) : level[b] < level[x]
    <3>1. \A b \in BuildDeps(schema, x) : level[b] \in 0..n
      BY <2>2, <2>3, DepsInBuild
    <3> QED BY <2>2, <2>3, <3>1, LevelInAbove
  <2>5. CASE d \in BuildDeps(schema, x)
    BY <2>4, <2>5
  <2>6. CASE d \notin BuildDeps(schema, x)
    <3>1. d = Root(schema) /\ BuildDeps(schema, x) \cap Dropped(schema) # {}
      BY <2>6 DEF Deps
    <3>2. BuildDeps(schema, d) = {}
      BY <3>1 DEF Root, BuildDeps, CreateTargetDB, Inspect, Step
    <3>3. level[d] = 0
      BY <2>2, <2>3, <3>2 DEF LevelIn
    <3>4. PICK b \in BuildDeps(schema, x) : TRUE
      BY <3>1
    <3>5. level[b] \in 0..n /\ level[x] \in 0..n
      BY <2>2, <2>3, <3>4, DepsInBuild
    <3> QED BY <2>4, <3>3, <3>4, <3>5
  <2> QED BY <2>5, <2>6
<1> QED BY <1>1, PlannedInvariant, PTL

\* Some step can be executed: the state of Planner never blocks before the end.
NeverStuck ==
    done # Plan(schema) =>
        \E step \in Plan(schema) \ done : Deps(schema, step) \subseteq done

\* In every plan, and in what skip_data leaves of it, the dispatcher finds a step
\* to dispatch as long as there is one left, if no step fails: dependencies
\* have no cycle, and none is on a step that is not there.
THEOREM PlanNeverStuck == Spec => []NeverStuck
<1>1. Planned /\ Closed => NeverStuck
  <2> SUFFICES ASSUME Planned, Closed, done # Plan(schema)
               PROVE  \E x \in Plan(schema) \ done : Deps(schema, x) \subseteq done
    BY DEF NeverStuck
  <2> DEFINE Left == Plan(schema) \ done
  <2>1. Left # {} /\ Left \subseteq Build(schema)
    BY DEF Closed, Plan
  <2>2. \A x \in Left : Deps(schema, x) \subseteq Plan(schema)
    <3>1. Root(schema) \in Plan(schema)
      BY DEF Root, Plan, Build, Dropped, CreateTargetDB, Inspect, Step
    <3>2. \A x \in Left : BuildDeps(schema, x) \subseteq Build(schema)
      BY <2>1, DepsInBuild
    <3> QED BY <3>1, <3>2 DEF Deps, Plan
  <2>3. CASE Root(schema) \in Left
    <3>1. BuildDeps(schema, Root(schema)) = {}
      BY DEF Root, BuildDeps, CreateTargetDB, Inspect, Step
    <3>2. Deps(schema, Root(schema)) = {}
      BY <3>1 DEF Deps
    <3> QED BY <2>3, <3>2
  <2>4. CASE Root(schema) \notin Left
    <3>1. PICK x \in Left : BuildDeps(schema, x) \cap Left = {}
      BY <2>1, NoCycle DEF Planned
    <3>2. Deps(schema, x) \cap Left = {}
      BY <2>4, <3>1 DEF Deps
    <3> QED BY <2>2, <3>1, <3>2
  <2> QED BY <2>3, <2>4
<1> QED BY <1>1, PlannedInvariant, ClosedInvariant, PTL
============================================================================
