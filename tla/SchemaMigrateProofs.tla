------------------------ MODULE SchemaMigrateProofs ------------------------
(***************************************************************************)
(* For every number of migrators and releases, every set of scripts and    *)
(* every way a migrator may fail: the ledger tells what the schema is, and *)
(* scripts are executed in the order of their versions.                    *)
(***************************************************************************)
EXTENDS SchemaMigrate, FiniteSetTheorems, TLAPS

Working(m) == phase[m] \in {"running", "inTx"}

\* The session lock: nobody is past it without holding it.
LockHeld == \A m \in Migrators : phase[m] = "locked" \/ Working(m) => lock = m

\* What the lock protects: the ledger as its holder read it, changed only by
\* its holder.  Upwards, the scripts still to execute are exactly those of the
\* binary whose version is not in the ledger.
UpIsPending(m) ==
    command[m] \in {"boot", "up"} =>
        \A f \in Embedded[m] : f \in todo[m] <=> FileVersion[f] \notin VersionsOf(ledger)

\* Downwards, they are in the ledger, under a name that was read, and no later
\* version of the binary is, unless it is still to be rolled back.
DownIsApplied(m) ==
    command[m] = "down" =>
        /\ ledger \subseteq recorded[m]
        /\ \A f \in todo[m] :
              /\ FileVersion[f] \in VersionsOf(ledger)
              /\ \A g \in Embedded[m] :
                    FileVersion[g] > FileVersion[f] /\ FileVersion[g] \in VersionsOf(ledger) =>
                        g \in todo[m]

LoopInv(m) ==
    Working(m) =>
        /\ todo[m] \subseteq Embedded[m]
        /\ UpIsPending(m) /\ DownIsApplied(m)
        /\ command[m] = "status" => todo[m] = {}

MigInv == MigTypeOK /\ LedgerTellsSchema /\ LockHeld /\ \A m \in Migrators : LoopInv(m)

-----------------------------------------------------------------------------
\* An empty ledger and an empty schema.
LEMMA MigInitInv == MigInit => MigInv
<1> SUFFICES ASSUME MigInit PROVE MigInv
  OBVIOUS
<1>1. MigTypeOK
  BY FileVersionAssumption, EmbeddedAssumption
     DEF MigInit, MigTypeOK, Versions, VersionsOf, Phases, Commands
<1>2. \A f, g \in ledger : FileVersion[f] = FileVersion[g] => f = g
  BY LoadableAssumption DEF MigInit
<1>3. LedgerTellsSchema
  BY <1>2 DEF MigInit, LedgerTellsSchema
<1>4. LockHeld /\ \A m \in Migrators : LoopInv(m)
  BY DEF MigInit, LockHeld, LoopInv, Working
<1> QED
  BY <1>1, <1>3, <1>4 DEF MigInv

\* A migrator that touches neither ledger nor schema, and enters no loop.
LEMMA OutsideStep ==
    ASSUME MigInv, MigTypeOK', NEW m \in Migrators, UNCHANGED <<ledger, schema>>,
           \A n \in Migrators \ {m} :
              /\ phase'[n] = phase[n] /\ command'[n] = command[n]
              /\ todo'[n] = todo[n] /\ recorded'[n] = recorded[n],
           ~Working(m)' \/ LoopInv(m)',
           phase'[m] = "locked" \/ Working(m)' => lock' = m,
           \/ lock' = lock
           \/ lock = Nobody
           \/ lock = m
    PROVE  MigInv'
<1>1. LedgerTellsSchema'
  BY DEF MigInv, LedgerTellsSchema, VersionsOf
<1>2. LockHeld'
  BY NobodyAssumption DEF MigInv, LockHeld, Working
<1>3. ASSUME NEW n \in Migrators PROVE LoopInv(n)'
  BY DEF MigInv, LoopInv, Working, UpIsPending, DownIsApplied, VersionsOf
<1> QED
  BY <1>1, <1>2, <1>3 DEF MigInv

\* The n latest versions that binary and ledger share: a version later than one
\* of them is one of them.
LEMMA RollbackIsUpward ==
    ASSUME NEW m \in Migrators, NEW n \in Nat, NEW f \in Rollback(m, n), NEW g \in Embedded[m],
           FileVersion[g] > FileVersion[f], FileVersion[g] \in VersionsOf(ledger)
    PROVE  g \in Rollback(m, n)
<1> DEFINE known == {h \in Embedded[m] : FileVersion[h] \in VersionsOf(ledger)}
           later(h) == {k \in known : FileVersion[k] > FileVersion[h]}
<1>1. f \in known /\ g \in known /\ Cardinality(later(f)) < n
  BY DEF Rollback
<1>2. \A h \in known : FileVersion[h] \in Nat
  BY FileVersionAssumption, EmbeddedAssumption
<1>3. later(g) \subseteq later(f)
  BY <1>1, <1>2
<1>4. IsFiniteSet(known) /\ later(f) \subseteq known
  BY EmbeddedAssumption, FS_Subset
<1>5. IsFiniteSet(later(f))
  BY <1>4, FS_Subset
<1>6. IsFiniteSet(later(g)) /\ Cardinality(later(g)) <= Cardinality(later(f))
  BY <1>3, <1>5, FS_Subset
<1>7. Cardinality(later(g)) < n
  <2> HIDE DEF later
  <2> QED
    BY <1>1, <1>5, <1>6, FS_CardinalityType
<1> QED
  BY <1>1, <1>7 DEF Rollback

\* readLedger, under the lock.
LEMMA ReadKeeps ==
    ASSUME MigInv, MigTypeOK', NEW m \in Migrators, ReadLedger(m)
    PROVE  MigInv'
<1>1. /\ phase[m] = "locked" /\ UNCHANGED <<ledger, schema, lock, command>>
      /\ phase'[m] = "running" /\ recorded'[m] = ledger
      /\ todo'[m] = CASE command[m] \in {"boot", "up"} -> Pending(m)
                      [] command[m] = "down" -> Rollback(m, steps[m])
                      [] OTHER -> {}
      /\ \A n \in Migrators \ {m} :
            phase'[n] = phase[n] /\ todo'[n] = todo[n] /\ recorded'[n] = recorded[n]
  BY DEF MigInv, MigTypeOK, ReadLedger
<1>2. VersionsOf(ledger)' = VersionsOf(ledger)
  BY <1>1 DEF VersionsOf
<1>3. todo'[m] \subseteq Embedded[m] /\ (command[m] = "status" => todo'[m] = {})
  BY <1>1 DEF Pending, Rollback
<1>4. UpIsPending(m)'
  BY <1>1, <1>2 DEF UpIsPending, Pending
<1>5. DownIsApplied(m)'
  <2> SUFFICES ASSUME command[m] = "down" PROVE DownIsApplied(m)'
    BY <1>1 DEF DownIsApplied
  <2>1. todo'[m] = Rollback(m, steps[m]) /\ steps[m] \in Nat
    BY <1>1 DEF MigInv, MigTypeOK
  <2>2. \A f \in Rollback(m, steps[m]) : FileVersion[f] \in VersionsOf(ledger)
    BY DEF Rollback
  <2> QED
    BY <1>1, <1>2, <2>1, <2>2, RollbackIsUpward DEF DownIsApplied
<1>6. LoopInv(m)'
  BY <1>1, <1>3, <1>4, <1>5 DEF LoopInv
<1>7. lock = m
  BY <1>1 DEF MigInv, LockHeld
<1> QED
  BY <1>1, <1>6, <1>7, OutsideStep

\* What the transaction of one script changes.
LEMMA CommitEffect ==
    ASSUME MigInv, NEW m \in Migrators, NEW f \in Files, Commit(m, f)
    PROVE  /\ lock = m /\ f \in Embedded[m] /\ FileVersion[f] \in Versions
           /\ \A n \in Migrators \ {m} : phase[n] \in {"idle", "waiting"}
           /\ \A v \in Versions \ {FileVersion[f]} :
                 /\ schema'[v] = schema[v]
                 /\ v \in VersionsOf(ledger)' <=> v \in VersionsOf(ledger)
           /\ command[m] = "down" =>
                 /\ schema[FileVersion[f]] = 1 /\ schema'[FileVersion[f]] = 0
                 /\ FileVersion[f] \notin VersionsOf(ledger)'
                 /\ ledger' \subseteq ledger
           /\ command[m] # "down" =>
                 /\ command[m] \in {"boot", "up"}
                 /\ schema[FileVersion[f]] = 0 /\ schema'[FileVersion[f]] = 1
                 /\ FileVersion[f] \in VersionsOf(ledger)'
                 /\ FileVersion[f] \notin VersionsOf(ledger)
                 /\ ledger' = ledger \cup {f}
           /\ schema' \in [Versions -> Nat]
<1>1. /\ phase[m] = "inTx" /\ f \in todo[m] /\ Working(m)
  BY DEF Commit, NextScript, Working
<1>2. /\ lock = m /\ LoopInv(m) /\ f \in Embedded[m] /\ command[m] \in Commands
      /\ command[m] # "status" /\ UpIsPending(m) /\ DownIsApplied(m)
  BY <1>1 DEF MigInv, LockHeld, LoopInv, MigTypeOK
<1>3. \A n \in Migrators \ {m} : phase[n] \in {"idle", "waiting"}
  BY <1>2 DEF MigInv, LockHeld, MigTypeOK, Working, Phases
<1>4. /\ FileVersion[f] \in Versions /\ schema \in [Versions -> Nat]
      /\ \A v \in Versions : schema[v] = IF v \in VersionsOf(ledger) THEN 1 ELSE 0
  BY DEF Versions, MigInv, MigTypeOK, LedgerTellsSchema
<1>5. CASE command[m] = "down"
  <2>1. /\ schema' = [schema EXCEPT ![FileVersion[f]] = @ - 1]
        /\ ledger' = ledger \ {g \in recorded[m] : FileVersion[g] = FileVersion[f]}
    BY <1>5 DEF Commit, LedgerFile
  <2>2. ledger \subseteq recorded[m] /\ FileVersion[f] \in VersionsOf(ledger)
    BY <1>1, <1>2, <1>5 DEF DownIsApplied
  <2>3. \A g \in Files : g \in ledger' <=> g \in ledger /\ FileVersion[g] # FileVersion[f]
    BY <2>1, <2>2
  <2>4. \A v : v \in VersionsOf(ledger)' <=> v \in VersionsOf(ledger) /\ v # FileVersion[f]
    BY <2>1, <2>2 DEF VersionsOf
  <2>5. schema[FileVersion[f]] = 1 /\ schema'[FileVersion[f]] = 0 /\ schema' \in [Versions -> Nat]
    BY <1>4, <2>1, <2>2
  <2>6. \A v \in Versions \ {FileVersion[f]} : schema'[v] = schema[v]
    BY <1>4, <2>1
  <2> QED
    BY <1>2, <1>3, <1>4, <1>5, <2>1, <2>4, <2>5, <2>6
<1>6. CASE command[m] # "down"
  <2>1. /\ schema' = [schema EXCEPT ![FileVersion[f]] = @ + 1]
        /\ ledger' = ledger \cup {f}
    BY <1>6 DEF Commit
  <2>2. command[m] \in {"boot", "up"} /\ FileVersion[f] \notin VersionsOf(ledger)
    BY <1>1, <1>2, <1>6 DEF UpIsPending, Commands
  <2>3. \A v : v \in VersionsOf(ledger)' <=> v \in VersionsOf(ledger) \/ v = FileVersion[f]
    BY <2>1 DEF VersionsOf
  <2>4. schema[FileVersion[f]] = 0 /\ schema'[FileVersion[f]] = 1 /\ schema' \in [Versions -> Nat]
    BY <1>4, <2>1, <2>2
  <2>5. \A v \in Versions \ {FileVersion[f]} : schema'[v] = schema[v]
    BY <1>4, <2>1
  <2> QED
    BY <1>2, <1>3, <1>4, <1>6, <2>1, <2>2, <2>3, <2>4, <2>5
<1> QED
  BY <1>5, <1>6

\* The transaction that executes a script writes its ledger row too.
LEMMA CommitKeeps ==
    ASSUME MigInv, MigTypeOK', NEW m \in Migrators, NEW f \in Files, Commit(m, f)
    PROVE  MigInv'
<1> DEFINE vf == FileVersion[f]
<1>1. /\ UNCHANGED <<lock, command, recorded>>
      /\ todo'[m] = todo[m] \ {f} /\ f \in todo[m] /\ phase[m] = "inTx" /\ phase'[m] = "running"
      /\ \A n \in Migrators \ {m} : phase'[n] = phase[n]
  BY DEF MigInv, MigTypeOK, Commit, NextScript
<1>2. \A g \in Files : FileVersion[g] \in Versions
  BY DEF Versions
<1>3. LedgerTellsSchema'
  <2>1. \A v \in Versions : schema'[v] = IF v \in VersionsOf(ledger)' THEN 1 ELSE 0
    BY CommitEffect DEF MigInv, LedgerTellsSchema
  <2>2. \A g, h \in ledger' : FileVersion[g] = FileVersion[h] => g = h
    <3>1. \A g, h \in ledger : FileVersion[g] = FileVersion[h] => g = h
      BY DEF MigInv, LedgerTellsSchema
    <3>2. CASE command[m] = "down"
      BY <3>1, <3>2, CommitEffect
    <3>3. CASE command[m] # "down"
      BY <3>1, <3>3, CommitEffect DEF VersionsOf
    <3> QED
      BY <3>2, <3>3
  <2>3. schema' = [v \in Versions |-> schema'[v]]
    BY CommitEffect
  <2> QED
    BY <2>1, <2>2, <2>3 DEF LedgerTellsSchema
<1>4. LockHeld'
  BY <1>1, CommitEffect DEF MigInv, LockHeld, Working
<1>5. ASSUME NEW n \in Migrators, n # m PROVE LoopInv(n)'
  BY <1>1, <1>5, CommitEffect DEF LoopInv, Working
<1>6. LoopInv(m)'
  <2>1. LoopInv(m) /\ Working(m)
    BY <1>1 DEF MigInv, Working
  <2>2. /\ todo[m] \subseteq Embedded[m] /\ Embedded[m] \subseteq Files
        /\ UpIsPending(m) /\ DownIsApplied(m)
    BY <2>1, EmbeddedAssumption DEF LoopInv
  <2>3. \A g \in Embedded[m] \ {f} : FileVersion[g] # vf
    BY CommitEffect, LoadableAssumption
  <2>4. \A g \in Embedded[m] \ {f} :
           FileVersion[g] \in VersionsOf(ledger)' <=> FileVersion[g] \in VersionsOf(ledger)
    BY <1>2, <2>2, <2>3, CommitEffect
  <2>5. UpIsPending(m)'
    <3> SUFFICES ASSUME command[m] \in {"boot", "up"}, NEW g \in Embedded[m]
                 PROVE  g \in todo'[m] <=> FileVersion[g] \notin VersionsOf(ledger)'
      BY <1>1 DEF UpIsPending
    <3>1. CASE g = f
      BY <1>1, <3>1, CommitEffect
    <3>2. CASE g # f
      BY <1>1, <2>2, <2>4, <3>2 DEF UpIsPending
    <3> QED
      BY <3>1, <3>2
  <2>6. DownIsApplied(m)'
    <3> SUFFICES ASSUME command[m] = "down" PROVE DownIsApplied(m)'
      BY <1>1 DEF DownIsApplied
    <3>1. /\ ledger' \subseteq ledger /\ ledger \subseteq recorded[m]
          /\ vf \notin VersionsOf(ledger)'
      BY <2>2, CommitEffect DEF DownIsApplied
    <3>2. \A g \in todo'[m] : FileVersion[g] \in VersionsOf(ledger)'
      BY <1>1, <2>2, <2>4 DEF DownIsApplied
    <3>3. ASSUME NEW g \in todo'[m], NEW h \in Embedded[m], FileVersion[h] > FileVersion[g],
                 FileVersion[h] \in VersionsOf(ledger)'
          PROVE  h \in todo'[m]
      <4>1. h # f
        BY <3>1, <3>3
      <4> QED
        BY <1>1, <2>2, <2>4, <3>3, <4>1 DEF DownIsApplied
    <3> QED
      BY <1>1, <3>1, <3>2, <3>3 DEF DownIsApplied
  <2>7. todo'[m] \subseteq Embedded[m] /\ (command'[m] = "status" => todo'[m] = {})
    BY <1>1, <2>1, <2>2 DEF LoopInv
  <2> QED
    BY <2>5, <2>6, <2>7 DEF LoopInv
<1> QED
  BY <1>3, <1>4, <1>5, <1>6 DEF MigInv

\* Every statement of a migrator keeps the types.
LEMMA MigTypes ==
    ASSUME MigInv, [MigNext]_migVars PROVE MigTypeOK'
<1> USE DEF MigInv, MigTypeOK
<1>1. ASSUME NEW m \in Migrators, NEW c \in Commands, NEW n \in {1, 2}, StartMigrator(m, c, n)
      PROVE  MigTypeOK'
  BY <1>1 DEF StartMigrator, Phases
<1>2. ASSUME NEW m \in Migrators, AcquireLock(m) PROVE MigTypeOK'
  BY <1>2 DEF AcquireLock, Phases
<1>3. ASSUME NEW m \in Migrators, ReadLedger(m) PROVE MigTypeOK'
  BY <1>3, EmbeddedAssumption DEF ReadLedger, Pending, Rollback, Phases
<1>4. ASSUME NEW m \in Migrators, ExecScript(m) PROVE MigTypeOK'
  BY <1>4 DEF ExecScript, Phases
<1>5. ASSUME NEW m \in Migrators, NEW f \in Files, Commit(m, f) PROVE MigTypeOK'
  <2>1. schema' \in [Versions -> Nat]
    BY <1>5, CommitEffect
  <2> QED
    BY <1>5, <2>1 DEF Commit, Phases
<1>6. ASSUME NEW m \in Migrators, FinishMigrator(m) \/ RefuseRollback(m) \/ FailMigrator(m)
      PROVE  MigTypeOK'
  BY <1>6 DEF FinishMigrator, RefuseRollback, FailMigrator, Leave, Phases, Commands
<1>7. CASE UNCHANGED migVars
  BY <1>7 DEF migVars
<1> QED
  BY <1>1, <1>2, <1>3, <1>4, <1>5, <1>6, <1>7 DEF MigNext, MigStep

\* Every statement of a migrator keeps the invariant.
LEMMA MigNextInv == MigInv /\ [MigNext]_migVars => MigInv'
<1> SUFFICES ASSUME MigInv, [MigNext]_migVars PROVE MigInv'
  OBVIOUS
<1>0. MigTypeOK'
  BY MigTypes
<1> USE DEF MigTypeOK
<1>1. ASSUME NEW m \in Migrators, NEW c \in Commands, NEW n \in {1, 2}, StartMigrator(m, c, n)
      PROVE  MigInv'
  BY <1>0, <1>1, OutsideStep DEF StartMigrator, Working, MigInv
<1>2. ASSUME NEW m \in Migrators, AcquireLock(m) PROVE MigInv'
  BY <1>0, <1>2, OutsideStep DEF AcquireLock, Working, MigInv
<1>3. ASSUME NEW m \in Migrators, ReadLedger(m) PROVE MigInv'
  BY <1>0, <1>3, ReadKeeps
<1>4. ASSUME NEW m \in Migrators, ExecScript(m) PROVE MigInv'
  <2>1. /\ UNCHANGED <<ledger, schema, lock, command, todo, recorded>> /\ Working(m)
        /\ \A n \in Migrators \ {m} : phase'[n] = phase[n]
    BY <1>4 DEF ExecScript, MigInv, Working
  <2>2. LoopInv(m)'
    BY <2>1 DEF MigInv, LoopInv, UpIsPending, DownIsApplied, VersionsOf
  <2>3. lock = m
    BY <2>1 DEF MigInv, LockHeld
  <2> QED
    BY <1>0, <2>1, <2>2, <2>3, OutsideStep
<1>5. ASSUME NEW m \in Migrators, NEW f \in Files, Commit(m, f) PROVE MigInv'
  BY <1>0, <1>5, CommitKeeps
<1>6. ASSUME NEW m \in Migrators, FinishMigrator(m) \/ RefuseRollback(m) \/ FailMigrator(m)
      PROVE  MigInv'
  <2>1. /\ UNCHANGED <<ledger, schema>> /\ phase'[m] \in {"idle", "waiting"}
        /\ lock' = lock \/ lock = m
        /\ \A n \in Migrators \ {m} :
              /\ phase'[n] = phase[n] /\ command'[n] = command[n]
              /\ todo'[n] = todo[n] /\ recorded'[n] = recorded[n]
    BY <1>6 DEF FinishMigrator, RefuseRollback, FailMigrator, Leave, MigInv
  <2> QED
    BY <1>0, <2>1, OutsideStep DEF Working
<1>7. CASE UNCHANGED migVars
  BY <1>7 DEF migVars, MigInv, LedgerTellsSchema, LockHeld, LoopInv, Working, UpIsPending,
              DownIsApplied, VersionsOf
<1> QED
  BY <1>1, <1>2, <1>3, <1>4, <1>5, <1>6, <1>7 DEF MigNext, MigStep

\* The ledger and the schema agree at every moment, whichever migrators of
\* whichever releases run at the same time, fail or die between two statements.
THEOREM LedgerAgrees == MigSpec => []LedgerTellsSchema
<1>1. MigInv => LedgerTellsSchema
  BY DEF MigInv
<1> QED
  BY <1>1, MigInitInv, MigNextInv, PTL DEF MigSpec

\* A script is committed on top of every earlier version of its release, and
\* rolled back only when no later one is left.
THEOREM VersionOrder == MigSpec => ScriptsInOrder
<1> DEFINE InOrder ==
        \A v \in Versions, m \in Migrators :
          (phase[m] = "inTx" /\ phase'[m] = "running" /\ schema'[v] # schema[v]) =>
             LET others == VersionsOf(Embedded[m])
             IN  IF schema'[v] > schema[v] THEN \A u \in others : u < v => schema[u] > 0
                                           ELSE \A u \in others : u > v => schema[u] = 0
<1>1. MigInv /\ [MigNext]_migVars => [InOrder]_migVars
  <2> SUFFICES ASSUME MigInv, MigNext, NEW v \in Versions, NEW m \in Migrators,
                      phase[m] = "inTx", phase'[m] = "running", schema'[v] # schema[v]
               PROVE  LET others == VersionsOf(Embedded[m])
                      IN  IF schema'[v] > schema[v]
                            THEN \A u \in others : u < v => schema[u] > 0
                            ELSE \A u \in others : u > v => schema[u] = 0
    OBVIOUS
  <2>1. \E n \in Migrators, f \in Files : Commit(n, f)
    BY DEF MigNext, MigStep, StartMigrator, AcquireLock, ReadLedger, RefuseRollback, ExecScript,
           FinishMigrator, FailMigrator, Leave
  <2>2. PICK n \in Migrators, f \in Files : Commit(n, f)
    BY <2>1
  <2>3. n = m
    BY <2>2, CommitEffect
  <2>4. PICK vf : vf = FileVersion[f]
    OBVIOUS
  <2>5. /\ v = vf /\ f \in todo[m] /\ Working(m) /\ f \in Embedded[m]
        /\ \A g \in todo[m] : IF command[m] = "down" THEN vf >= FileVersion[g]
                                                      ELSE vf <= FileVersion[g]
    BY <2>2, <2>3, <2>4, CommitEffect DEF Commit, NextScript, Working
  <2>6. /\ UpIsPending(m) /\ DownIsApplied(m) /\ todo[m] \subseteq Embedded[m]
        /\ Embedded[m] \subseteq Files
    BY <2>5, EmbeddedAssumption DEF MigInv, LoopInv
  <2>7. \A g \in Embedded[m] :
           /\ FileVersion[g] \in Nat
           /\ schema[FileVersion[g]] = IF FileVersion[g] \in VersionsOf(ledger) THEN 1 ELSE 0
    BY <2>6, FileVersionAssumption DEF MigInv, LedgerTellsSchema, Versions
  <2>8. CASE command[m] = "down"
    <3>1. ~(schema'[v] > schema[v])
      BY <2>2, <2>3, <2>4, <2>5, <2>8, CommitEffect
    <3>2. ASSUME NEW g \in Embedded[m], FileVersion[g] > v PROVE schema[FileVersion[g]] = 0
      <4>1. g \notin todo[m]
        BY <2>4, <2>5, <2>7, <2>8, <3>2
      <4>2. FileVersion[g] \notin VersionsOf(ledger)
        BY <2>4, <2>5, <2>6, <2>8, <3>2, <4>1 DEF DownIsApplied
      <4> QED
        BY <2>7, <4>2
    <3> QED
      BY <3>1, <3>2 DEF VersionsOf
  <2>9. CASE command[m] # "down"
    <3>1. schema'[v] > schema[v] /\ command[m] \in {"boot", "up"}
      BY <2>2, <2>3, <2>4, <2>5, <2>9, CommitEffect
    <3>2. ASSUME NEW g \in Embedded[m], FileVersion[g] < v PROVE schema[FileVersion[g]] > 0
      <4>1. g \notin todo[m]
        BY <2>4, <2>5, <2>7, <2>9, <3>2
      <4>2. FileVersion[g] \in VersionsOf(ledger)
        BY <2>6, <3>1, <4>1 DEF UpIsPending
      <4> QED
        BY <2>7, <4>2
    <3> QED
      BY <3>1, <3>2 DEF VersionsOf
  <2> QED
    BY <2>8, <2>9
<1> QED
  BY <1>1, MigInitInv, MigNextInv, PTL DEF MigSpec, ScriptsInOrder

============================================================================
