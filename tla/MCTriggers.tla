----------------------------- MODULE MCTriggers -----------------------------
(***************************************************************************)
(* Triggers with names in capitals, as an Oracle schema has them: M and Z. *)
(***************************************************************************)
EXTENDS Triggers

MCCapitals == {<<77>>, <<90>>}
============================================================================
