---------------------------- MODULE MCRunEngine ----------------------------
(***************************************************************************)
(* RunEngine on the smallest plans that have every kind of step:           *)
(* create_ddl, then copy_table, which expands into two batches, then       *)
(* create_fk; and the same without create_ddl.                             *)
(***************************************************************************)
EXTENDS RunEngine, TLC

CONSTANTS r1, w1, w2, ddl, copy, fk

MCRuns == {r1}
MCWorkers == {w1, w2}
Symmetry == Permutations(MCWorkers)
ThreeSteps == {ddl, copy, fk}
TwoSteps == {copy, fk}
MCRunOf == [s \in Steps |-> r1]
MCDeps == [s \in Steps |->
              CASE s = ddl -> {} [] s = copy -> {ddl} \cap Steps [] s = fk -> {copy}]
MCLevel == [s \in Steps |-> CASE s = ddl -> 0 [] s = copy -> 1 [] s = fk -> 2]
MCNBatches == [s \in Steps |-> IF s = copy THEN 2 ELSE 0]

\* The plan's own jobs: one per step and one per batch.
FourJobs == 1..4
FiveJobs == 1..5

\* The same, and those a replay inserts again.
EightJobs == 1..8
============================================================================
