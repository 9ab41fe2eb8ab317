--------------------------- MODULE JobQueueProofs ---------------------------
(***************************************************************************)
(* What module JobQueue promises, for any sets of jobs and workers and any *)
(* bound on the attempts.                                                  *)
(*                                                                         *)
(* The inductive invariant is the conjunction of the type invariant, the   *)
(* attempt budget and HolderOwnsRow.  ExclusiveClaim alone is not          *)
(* inductive: that Claim finds no other worker on a pending row follows    *)
(* from what HolderOwnsRow says of the row's status.                       *)
(***************************************************************************)
EXTENDS JobQueue, TLAPS

IInv == TypeOK /\ AttemptBudget /\ HolderOwnsRow

\* The tables and the workers start empty.
LEMMA InitIInv == Init => IInv
BY MaxAttemptsAssumption DEF Init, IInv, TypeOK, AttemptBudget, HolderOwnsRow, Statuses

\* No operation leaves the types.
LEMMA NextTypeOK == TypeOK /\ [Next]_vars => TypeOK'
<1> SUFFICES ASSUME TypeOK, [Next]_vars PROVE TypeOK'
  OBVIOUS
<1> USE DEF TypeOK, Statuses
<1>1. ASSUME NEW S \in SUBSET Jobs, Enqueue(S) PROVE TypeOK'
  BY <1>1 DEF Enqueue
<1>2. ASSUME NEW w \in Workers, NEW j \in Jobs, Claim(w, j) PROVE TypeOK'
  BY <1>2 DEF Claim
<1>3. ASSUME NEW w \in Workers, Succeed(w) PROVE TypeOK'
  BY <1>3 DEF Succeed, Holders
<1>4. ASSUME NEW w \in Workers, Fail(w) PROVE TypeOK'
  BY <1>4 DEF Fail, Holders, AfterFailure
<1>5. CASE RequeueOrphans
  BY <1>5 DEF RequeueOrphans, Holders, AfterFailure
<1>6. ASSUME NEW S \in SUBSET Jobs, Reset(S) PROVE TypeOK'
  BY <1>6 DEF Reset, Holders
<1>7. ASSUME NEW S \in SUBSET Jobs, Kill(S) PROVE TypeOK'
  BY <1>7 DEF Kill, Holders
<1>8. ASSUME NEW S \in SUBSET Jobs, Delete(S) PROVE TypeOK'
  BY <1>8 DEF Delete, Holders
<1>9. ASSUME NEW W \in SUBSET Workers, Abandon(W) PROVE TypeOK'
  BY <1>9 DEF Abandon, rows
<1>10. ASSUME NEW j \in Jobs, BackoffElapses(j) PROVE TypeOK'
  BY <1>10 DEF BackoffElapses
<1>11. ASSUME NEW j \in Jobs, LockExpires(j) PROVE TypeOK'
  BY <1>11 DEF LockExpires
<1>12. CASE UNCHANGED vars
  BY <1>12 DEF vars
<1> QED
  BY <1>1, <1>2, <1>3, <1>4, <1>5, <1>6, <1>7, <1>8, <1>9, <1>10, <1>11, <1>12
     DEF Next, Api

\* Only Claim uses up an attempt, and only of a row that has one left; a row
\* that has none left goes to dead, and a reset gives all of them back.
LEMMA NextAttemptBudget == TypeOK /\ AttemptBudget /\ [Next]_vars => AttemptBudget'
<1> SUFFICES ASSUME TypeOK, AttemptBudget, [Next]_vars PROVE AttemptBudget'
  OBVIOUS
<1> USE MaxAttemptsAssumption DEF TypeOK, AttemptBudget, Exhausted
<1>1. ASSUME NEW S \in SUBSET Jobs, Enqueue(S) PROVE AttemptBudget'
  BY <1>1 DEF Enqueue
<1>2. ASSUME NEW w \in Workers, NEW j \in Jobs, Claim(w, j) PROVE AttemptBudget'
  BY <1>2 DEF Claim
<1>3. ASSUME NEW w \in Workers, Succeed(w) PROVE AttemptBudget'
  BY <1>3 DEF Succeed
<1>4. ASSUME NEW w \in Workers, Fail(w) PROVE AttemptBudget'
  <2> SUFFICES ASSUME NEW j \in Jobs
               PROVE  /\ attempts'[j] <= MaxAttempts
                      /\ status'[j] = "pending" => attempts'[j] < MaxAttempts
    OBVIOUS
  <2>1. attempts' = attempts
    BY <1>4 DEF Fail
  <2>2. CASE status'[j] = status[j]
    BY <2>1, <2>2
  <2>3. CASE status'[j] # status[j]
    <3>1. status' = [status EXCEPT ![held[w]] = AfterFailure(held[w])]
      BY <1>4, <2>3 DEF Fail
    <3>2. j = held[w]
      BY <2>3, <3>1
    <3>3. status'[j] = AfterFailure(j)
      BY <3>1, <3>2
    <3> QED
      BY <2>1, <3>3 DEF AfterFailure
  <2> QED
    BY <2>2, <2>3
<1>5. CASE RequeueOrphans
  BY <1>5 DEF RequeueOrphans, AfterFailure
<1>6. ASSUME NEW S \in SUBSET Jobs, Reset(S) PROVE AttemptBudget'
  BY <1>6 DEF Reset
<1>7. ASSUME NEW S \in SUBSET Jobs, Kill(S) PROVE AttemptBudget'
  BY <1>7 DEF Kill
<1>8. ASSUME NEW S \in SUBSET Jobs, Delete(S) PROVE AttemptBudget'
  BY <1>8 DEF Delete
<1>9. ASSUME NEW W \in SUBSET Workers, Abandon(W) PROVE AttemptBudget'
  BY <1>9 DEF Abandon, rows
<1>10. ASSUME NEW j \in Jobs, BackoffElapses(j) PROVE AttemptBudget'
  BY <1>10 DEF BackoffElapses
<1>11. ASSUME NEW j \in Jobs, LockExpires(j) PROVE AttemptBudget'
  BY <1>11 DEF LockExpires
<1>12. CASE UNCHANGED vars
  BY <1>12 DEF vars
<1> QED
  BY <1>1, <1>2, <1>3, <1>4, <1>5, <1>6, <1>7, <1>8, <1>9, <1>10, <1>11, <1>12
     DEF Next, Api

\* A row stops being its worker's own only in steps that make the worker
\* stale: a second worker claims a pending row, and no worker owns that one.
LEMMA NextHolderOwnsRow == TypeOK /\ HolderOwnsRow /\ [Next]_vars => HolderOwnsRow'
<1> SUFFICES ASSUME TypeOK, HolderOwnsRow, [Next]_vars,
                    NEW v \in Workers, v \notin stale', held'[v] # NoJob
             PROVE  status'[held'[v]] = "running" /\ lockedBy'[held'[v]] = v
  BY DEF HolderOwnsRow
<1> USE NoJobAssumption DEF TypeOK, HolderOwnsRow, Holders
<1> DEFINE Owns == status'[held'[v]] = "running" /\ lockedBy'[held'[v]] = v
<1>1. ASSUME NEW S \in SUBSET Jobs, Enqueue(S) PROVE Owns
  BY <1>1 DEF Enqueue
<1>2. ASSUME NEW w \in Workers, NEW j \in Jobs, Claim(w, j) PROVE Owns
  BY <1>2 DEF Claim
<1>3. ASSUME NEW w \in Workers, Succeed(w) PROVE Owns
  BY <1>3 DEF Succeed
<1>4. ASSUME NEW w \in Workers, Fail(w) PROVE Owns
  BY <1>4 DEF Fail
<1>5. CASE RequeueOrphans
  BY <1>5 DEF RequeueOrphans
<1>6. ASSUME NEW S \in SUBSET Jobs, Reset(S) PROVE Owns
  BY <1>6 DEF Reset
<1>7. ASSUME NEW S \in SUBSET Jobs, Kill(S) PROVE Owns
  BY <1>7 DEF Kill
<1>8. ASSUME NEW S \in SUBSET Jobs, Delete(S) PROVE Owns
  BY <1>8 DEF Delete
<1>9. ASSUME NEW W \in SUBSET Workers, Abandon(W) PROVE Owns
  BY <1>9 DEF Abandon, rows
<1>10. ASSUME NEW j \in Jobs, BackoffElapses(j) PROVE Owns
  BY <1>10 DEF BackoffElapses
<1>11. ASSUME NEW j \in Jobs, LockExpires(j) PROVE Owns
  BY <1>11 DEF LockExpires
<1>12. CASE UNCHANGED vars
  BY <1>12 DEF vars
<1> QED
  BY <1>1, <1>2, <1>3, <1>4, <1>5, <1>6, <1>7, <1>8, <1>9, <1>10, <1>11, <1>12
     DEF Next, Api

\* IInv is inductive.
LEMMA NextIInv == IInv /\ [Next]_vars => IInv'
BY NextTypeOK, NextAttemptBudget, NextHolderOwnsRow DEF IInv

\* IInv holds in every reachable state.
LEMMA Inductive == Spec => []IInv
BY InitIInv, NextIInv, PTL DEF Spec

-----------------------------------------------------------------------------
\* Every operation of the queue and of its users keeps the jobs table and the
\* workers' claims well typed.
THEOREM TypeCorrect == Spec => []TypeOK
<1>1. IInv => TypeOK
  BY DEF IInv
<1> QED
  BY Inductive, <1>1, PTL

\* No job is attempted more than MaxAttempts times between two resets, and no
\* pending job is one that Claim would skip for ever.
THEOREM AttemptsBounded == Spec => []AttemptBudget
<1>1. IInv => AttemptBudget
  BY DEF IInv
<1> QED
  BY Inductive, <1>1, PTL

\* A worker that is not stale owns the row it works on.
THEOREM Ownership == Spec => []HolderOwnsRow
<1>1. IInv => HolderOwnsRow
  BY DEF IInv
<1> QED
  BY Inductive, <1>1, PTL

\* Two workers are on one job only if it was taken from one of them: two
\* owners of one row would both be its locked_by.
THEOREM Exclusive == Spec => []ExclusiveClaim
<1>1. IInv => ExclusiveClaim
  BY DEF IInv, HolderOwnsRow, ExclusiveClaim
<1> QED
  BY Inductive, <1>1, PTL

\* A job that succeeded is executed again only after a replay deleted it or
\* a stale worker failed it.
THEOREM SuccessIsFinal == Spec => SucceededIsFinal
<1> DEFINE Stays(j) ==
      status[j] = "succeeded" =>
          \/ status'[j] \in {"succeeded", "deleted"}
          \/ \E w \in stale : held[w] = j /\ held'[w] = NoJob
<1>1. IInv /\ [Next]_vars => [\A j \in Jobs : Stays(j)]_vars
  <2> SUFFICES ASSUME IInv, Next, NEW j \in Jobs, status[j] = "succeeded"
               PROVE  Stays(j)
    OBVIOUS
  <2> USE DEF IInv, TypeOK
  <2>1. ASSUME NEW S \in SUBSET Jobs, Enqueue(S) PROVE Stays(j)
    BY <2>1 DEF Enqueue
  <2>2. ASSUME NEW w \in Workers, NEW k \in Jobs, Claim(w, k) PROVE Stays(j)
    BY <2>2 DEF Claim
  <2>3. ASSUME NEW w \in Workers, Succeed(w) PROVE Stays(j)
    BY <2>3 DEF Succeed
  <2>4. ASSUME NEW w \in Workers, Fail(w) PROVE Stays(j)
    <3>1. CASE held[w] # j
      BY <2>4, <3>1 DEF Fail
    <3>2. CASE held[w] = j
      <4>1. w \in stale
        BY <2>4, <3>2 DEF HolderOwnsRow, Fail
      <4>2. held'[w] = NoJob
        BY <2>4 DEF Fail
      <4> QED
        BY <3>2, <4>1, <4>2
    <3> QED
      BY <3>1, <3>2
  <2>5. CASE RequeueOrphans
    BY <2>5 DEF RequeueOrphans, Orphans
  <2>6. ASSUME NEW S \in SUBSET Jobs, Reset(S) PROVE Stays(j)
    BY <2>6 DEF Reset
  <2>7. ASSUME NEW S \in SUBSET Jobs, Kill(S) PROVE Stays(j)
    BY <2>7 DEF Kill
  <2>8. ASSUME NEW S \in SUBSET Jobs, Delete(S) PROVE Stays(j)
    BY <2>8 DEF Delete
  <2>9. ASSUME NEW W \in SUBSET Workers, Abandon(W) PROVE Stays(j)
    BY <2>9 DEF Abandon, rows
  <2>10. ASSUME NEW k \in Jobs, BackoffElapses(k) PROVE Stays(j)
    BY <2>10 DEF BackoffElapses
  <2>11. ASSUME NEW k \in Jobs, LockExpires(k) PROVE Stays(j)
    BY <2>11 DEF LockExpires
  <2> QED
    BY <2>1, <2>2, <2>3, <2>4, <2>5, <2>6, <2>7, <2>8, <2>9, <2>10, <2>11
       DEF Next, Api
<1> QED
  BY Inductive, <1>1, PTL DEF Spec, SucceededIsFinal
=============================================================================
