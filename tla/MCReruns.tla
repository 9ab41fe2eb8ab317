------------------------------ MODULE MCReruns ------------------------------
(***************************************************************************)
(* RunEngine under the two operations that run levels and steps again, on  *)
(* one of two runs: r1, whose handlers may fail, with two calls of play;   *)
(* and r2, whose handlers do not, with one call of play or replay.         *)
(***************************************************************************)
EXTENDS MCRunEngine

CONSTANTS r2, copy2, fk2

EitherRun == {r1, r2}
StepsOfEither == {copy, fk, copy2, fk2}
RunOfEither == [s \in Steps |-> IF s \in {copy, fk} THEN r1 ELSE r2]
DepsOfEither == [s \in Steps |-> IF s = fk THEN {copy} ELSE IF s = fk2 THEN {copy2} ELSE {}]
LevelOfEither == [s \in Steps |-> IF s \in {copy, copy2} THEN 1 ELSE 2]
BatchesOfEither == [s \in Steps |-> IF s \in {copy, copy2} THEN 2 ELSE 0]

Started(r) == runStatus'[r] # "none"

\* The run with failing handlers is not replayed, and the other one is called
\* once.
Reruns ==
    /\ ~(Started(r1) /\ Started(r2))
    /\ Started(r1) => /\ \A s \in {copy, fk} : ~ReplayStep(s)
                      /\ \A l \in 1..2 : ~ReplayLevel(r1, l)
    /\ Started(r2) => callsMade' <= 1
============================================================================
