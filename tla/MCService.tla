----------------------------- MODULE MCService -----------------------------
(***************************************************************************)
(* The parts of the service around the runs: the migrations of its own     *)
(* schema, its event bus, its connection cache and its catalog of          *)
(* instances and migrations.  They share no state, so a behaviour of the   *)
(* whole is an interleaving of one behaviour of each, and it is enough to  *)
(* follow one of them at a time: focus says which.                         *)
(***************************************************************************)
EXTENDS SchemaMigrate, EventBus, ConnCache, Catalog, TLC

CONSTANTS m1, m2, p1, p2, v1, v2, w1, w2, g1, g2, i1, s1, q1, o1, o2, c1, c2,
          old1, old2, new1, new2, new3

VARIABLE focus

\* Two releases: the second renames the scripts of the first and adds one.
MCFileVersion == old1 :> 1 @@ old2 :> 2 @@ new1 :> 1 @@ new2 :> 2 @@ new3 :> 3
MCEmbedded == m1 :> {old1, old2} @@ m2 :> {new1, new2, new3}
MCInstanceOf == g1 :> i1 @@ g2 :> i1

Init ==
    /\ MigInit /\ BusInit /\ ConnInit /\ CatInit
    /\ focus \in {"migrate", "bus", "conn", "catalog"}
    /\ focus # "migrate" => ledger = {}

Next ==
    /\ UNCHANGED focus
    /\ \/ focus = "migrate" /\ MigNext  /\ UNCHANGED <<busVars, connVars, catVars>>
       \/ focus = "bus"     /\ BusNext  /\ UNCHANGED <<migVars, connVars, catVars>>
       \/ focus = "conn"    /\ ConnNext /\ UNCHANGED <<migVars, busVars, catVars>>
       \/ focus = "catalog" /\ CatNext  /\ UNCHANGED <<migVars, busVars, connVars>>

vars == <<focus, migVars, busVars, connVars, catVars>>

Spec == Init /\ [][Next]_vars /\ MigFairness
============================================================================
