---------------------------- MODULE MCJobQueue ----------------------------
(***************************************************************************)
(* JobQueue with two jobs and two workers.                                 *)
(***************************************************************************)
EXTENDS JobQueue, TLC

CONSTANTS j1, j2, w1, w2

MCJobs == {j1, j2}
MCWorkers == {w1, w2}
Symmetry == Permutations(MCJobs) \cup Permutations(MCWorkers)
===========================================================================
