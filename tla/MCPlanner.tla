----------------------------- MODULE MCPlanner -----------------------------
(***************************************************************************)
(* Planner with two tables, a history table, two views and a routine.      *)
(***************************************************************************)
EXTENDS Planner

CONSTANTS t1, t2, h1, v1, v2, r1

MCTables == {t1, t2}
MCHistory == {h1}
MCViews == {v1, v2}
MCRoutines == {r1}
============================================================================
