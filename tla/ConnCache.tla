------------------------------ MODULE ConnCache ------------------------------
(***************************************************************************)
(* The connection cache of cmd/squishy/main.go: every job resolves its run *)
(* to the pools of its migration (forRun) and then to the target pool      *)
(* (migConns.target), while other workers do the same.                     *)
(*                                                                         *)
(* connCache.mu is held for one look-up or one store at a time and never   *)
(* while a pool is opened, so each of these is a step.  Pools are numbers: *)
(* the order in which they were opened.  A worker executes jobs of kind    *)
(* "create" (create_target_db) or "other".                                 *)
(***************************************************************************)
EXTENDS Naturals, FiniteSets, Sequences

CONSTANTS
    Workers,       \* goroutines of the worker pool
    Migs,          \* migrations with a run
    InstanceOf,    \* the instance of each migration
    MaxJobs        \* bound: jobs executed

ASSUME WorkersAssumption == IsFiniteSet(Workers)

VARIABLES
    at,            \* where each worker is in the handler
    job,           \* the migration and kind of its job
    mine,          \* the pools it has opened or found: [src, admin, mc]
    byMig,         \* connCache.byMig: the migConns of a migration, 0 if none
    byProject,     \* connCache.byProject, keyed by instance: the admin pool
    conns,         \* every migConns made: [mig, src, admin, tgt]
    openPools,     \* pools that are open
    opened,        \* number of pools opened so far
    targetExists,  \* migrations whose target database exists
    jobs           \* jobs started so far

connVars == <<at, job, mine, byMig, byProject, conns, openPools, opened, targetExists, jobs>>

NoPool == 0
Instances == {InstanceOf[g] : g \in Migs}
Nothing == [src |-> NoPool, admin |-> NoPool, mc |-> 0]

ConnInit ==
    /\ at = [w \in Workers |-> "free"]
    /\ job = [w \in Workers |-> [mig |-> CHOOSE g \in Migs : TRUE, kind |-> "other"]]
    /\ mine = [w \in Workers |-> Nothing]
    /\ byMig = [g \in Migs |-> 0]
    /\ byProject = [i \in Instances |-> NoPool]
    /\ conns = <<>>
    /\ openPools = {}
    /\ opened = 0
    /\ targetExists = {}
    /\ jobs = 0

Goto(w, l) == at' = [at EXCEPT ![w] = l]
Mig(w) == job[w].mig
Inst(w) == InstanceOf[job[w].mig]

\* What the error path of a handler leaves: the job is reported as failed.
GiveUp(w) ==
    /\ Goto(w, "free")
    /\ mine' = [mine EXCEPT ![w] = Nothing]

TakeJob(w, g, k) ==
    /\ at[w] = "free"
    /\ jobs < MaxJobs
    /\ jobs' = jobs + 1
    /\ job' = [job EXCEPT ![w] = [mig |-> g, kind |-> k]]
    /\ Goto(w, "lookup")
    /\ UNCHANGED <<mine, byMig, byProject, conns, openPools, opened, targetExists>>

\* forRun: the row of the run, then the cache under mu.
LookupMig(w) ==
    /\ at[w] = "lookup"
    /\ IF byMig[Mig(w)] # 0
         THEN /\ mine' = [mine EXCEPT ![w].mc = byMig[Mig(w)]]
              /\ Goto(w, "target")
         ELSE Goto(w, "openSource") /\ UNCHANGED mine
    /\ UNCHANGED <<job, byMig, byProject, conns, openPools, opened, targetExists, jobs>>

\* OpenMySQL, OpenOracle or OpenDB2, which may fail.
OpenSource(w) ==
    /\ at[w] = "openSource"
    /\ \/ /\ opened' = opened + 1
          /\ openPools' = openPools \cup {opened + 1}
          /\ mine' = [mine EXCEPT ![w].src = opened + 1]
          /\ Goto(w, "lookupAdmin")
       \/ GiveUp(w) /\ UNCHANGED <<opened, openPools>>
    /\ UNCHANGED <<job, byMig, byProject, conns, targetExists, jobs>>

LookupAdmin(w) ==
    /\ at[w] = "lookupAdmin"
    /\ IF byProject[Inst(w)] # NoPool
         THEN /\ mine' = [mine EXCEPT ![w].admin = byProject[Inst(w)]]
              /\ Goto(w, "storeMig")
         ELSE Goto(w, "openAdmin") /\ UNCHANGED mine
    /\ UNCHANGED <<job, byMig, byProject, conns, openPools, opened, targetExists, jobs>>

\* OpenPostgres; on failure the source is closed again.
OpenAdmin(w) ==
    /\ at[w] = "openAdmin"
    /\ \/ /\ opened' = opened + 1
          /\ openPools' = openPools \cup {opened + 1}
          /\ mine' = [mine EXCEPT ![w].admin = opened + 1]
          /\ Goto(w, "storeAdmin")
       \/ /\ openPools' = openPools \ {mine[w].src}
          /\ GiveUp(w)
          /\ UNCHANGED opened
    /\ UNCHANGED <<job, byMig, byProject, conns, targetExists, jobs>>

BugCloseCached(w) ==
    /\ at[w] = "storeAdmin"
    /\ byProject' = [byProject EXCEPT ![Inst(w)] = mine[w].admin]
    /\ openPools' = openPools \ {byProject[Inst(w)]}
    /\ Goto(w, "storeMig")
    /\ UNCHANGED <<job, mine, byMig, conns, opened, targetExists, jobs>>

\* The second look under mu: the pool of whoever was first is kept.
StoreAdmin(w) ==
    /\ at[w] = "storeAdmin"
    /\ IF byProject[Inst(w)] # NoPool
         THEN /\ openPools' = openPools \ {mine[w].admin}
              /\ mine' = [mine EXCEPT ![w].admin = byProject[Inst(w)]]
              /\ UNCHANGED byProject
         ELSE /\ byProject' = [byProject EXCEPT ![Inst(w)] = mine[w].admin]
              /\ UNCHANGED <<openPools, mine>>
    /\ Goto(w, "storeMig")
    /\ UNCHANGED <<job, byMig, conns, opened, targetExists, jobs>>

\* byMig has no second look: the entry of whoever was first is replaced.
StoreMig(w) ==
    /\ at[w] = "storeMig"
    /\ conns' = Append(conns, [mig |-> Mig(w), src |-> mine[w].src,
                               admin |-> mine[w].admin, tgt |-> NoPool])
    /\ byMig' = [byMig EXCEPT ![Mig(w)] = Len(conns) + 1]
    /\ mine' = [mine EXCEPT ![w].mc = Len(conns) + 1]
    /\ Goto(w, "target")
    /\ UNCHANGED <<job, byProject, openPools, opened, targetExists, jobs>>

\* migConns.target, under tgtMu from the test to the assignment.  A failure
\* is not remembered: the next job tries again.
OpenTarget(w) ==
    LET mc == mine[w].mc IN
    /\ at[w] = "target"
    /\ job[w].kind # "create"
    /\ \/ /\ conns[mc].tgt # NoPool
          /\ Goto(w, "execute")
          /\ UNCHANGED <<mine, conns, openPools, opened>>
       \/ /\ conns[mc].tgt = NoPool
          /\ Mig(w) \in targetExists
          /\ opened' = opened + 1
          /\ openPools' = openPools \cup {opened + 1}
          /\ conns' = [conns EXCEPT ![mc].tgt = opened + 1]
          /\ Goto(w, "execute")
          /\ UNCHANGED mine
       \/ /\ conns[mc].tgt = NoPool
          /\ GiveUp(w)
          /\ UNCHANGED <<conns, openPools, opened>>
    /\ UNCHANGED <<job, byMig, byProject, targetExists, jobs>>

\* create_target_db is not given the target, which need not exist yet.
SkipTarget(w) ==
    /\ at[w] = "target"
    /\ job[w].kind = "create"
    /\ Goto(w, "execute")
    /\ UNCHANGED <<job, mine, byMig, byProject, conns, openPools, opened, targetExists, jobs>>

\* The handler itself; hCreateTargetDB creates the database or finds it.
Execute(w) ==
    /\ at[w] = "execute"
    /\ GiveUp(w)
    /\ \/ targetExists' = targetExists \cup (IF job[w].kind = "create" THEN {Mig(w)} ELSE {})
       \/ UNCHANGED targetExists
    /\ UNCHANGED <<job, byMig, byProject, conns, openPools, opened, jobs>>

ConnNext ==
    \E w \in Workers :
        \/ \E g \in Migs, k \in {"create", "other"} : TakeJob(w, g, k)
        \/ LookupMig(w) \/ OpenSource(w) \/ LookupAdmin(w) \/ OpenAdmin(w)
        \/ StoreAdmin(w) \/ StoreMig(w) \/ OpenTarget(w) \/ SkipTarget(w) \/ Execute(w)

ConnSpec == ConnInit /\ [][ConnNext]_connVars

-----------------------------------------------------------------------------
\* No handler is given a closed pool: whichever worker lost the race for the
\* admin pool, what it and the cache go on using is open, and it is the one
\* admin pool of the instance.  Workers that miss together each open a source,
\* and all but the last one's is lost to the cache and never closed; that loss
\* is bounded by one set of connections per worker, however many jobs follow.
PoolsUsable ==
    /\ \A c \in DOMAIN conns :
        /\ conns[c].admin = byProject[InstanceOf[conns[c].mig]]
        /\ {conns[c].src, conns[c].admin} \subseteq openPools
        /\ conns[c].tgt \in openPools \cup {NoPool}
    /\ \A g \in Migs :
        Cardinality({c \in DOMAIN conns : conns[c].mig = g}) <= Cardinality(Workers)
=============================================================================
