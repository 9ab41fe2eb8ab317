--------------------------- MODULE TransferProofs ---------------------------
(***************************************************************************)
(* The jobs of a copy behave as the jobs table (CopyRefinesQueue), and for *)
(* every table, every batch size and every number of workers:              *)
(*                                                                         *)
(*   - the ranges of computeNumericRanges, as hCopyBatch decodes them from *)
(*     the job's payload, hold every whole key once, and every key but the *)
(*     fractions behind the end of a range (KeysPartitioned);              *)
(*   - when all the batches are reported as copied, the target holds every *)
(*     row once (ExactCopy), whatever crashed or failed in between, except *)
(*     rows in no range and of batches whose stream was cut;               *)
(*   - of a table with a primary key that hValidate passes, the target     *)
(*     holds every row once, without any exception (ValidatedCopy).        *)
(*                                                                         *)
(* The loop invariant is about ranges as they are built: they lie below    *)
(* low, do not overlap, and span every key below low.  It needs keys of    *)
(* at most MaxExact (2^53) in absolute value, so that the bounds survive   *)
(* JSON, and a batch size that does not overflow an int64 on top of that.  *)
(* The invariant of the copy rests on it: since no row lies in the ranges  *)
(* of two jobs, what a worker's DELETE and COPY do to its own rows is      *)
(* undone by nobody.  The copy by offsets has an invariant of its own.     *)
(***************************************************************************)
EXTENDS Transfer, FiniteSetTheorems, TLAPS

\* No key is beyond 2^53: the bounds of the ranges survive JSON.
Numeric == table.kind = "numeric" /\ ExactTable

\* What the theorems assume of the batch size: it does not overflow an int64 on
\* top of such keys.
BatchFits == MaxExact + BatchSize <= MaxInt

\* A range of exact numbers that ends below n.
RangeBelow(r, n) ==
    /\ r = BatchRange(r.low, r.high)
    /\ r.low \in (-MaxExact)..MaxExact /\ r.high \in (-MaxExact)..MaxExact
    /\ r.low <= r.high /\ r.high < n

Disjoint(r, q) == r = q \/ r.high < q.low \/ q.high < r.low

\* The keys between the bounds of a range, and those behind its upper bound with
\* the same integer part.
Holds(r, k) == r.low <= k.int /\ (k.int < r.high \/ (k.int = r.high /\ k.frac = 0))
Spans(r, k) == r.low <= k.int /\ k.int <= r.high

\* The ranges built so far span each row with a key below n, once.
Covered(n) ==
    /\ \A r \in ranges : RangeBelow(r, n)
    /\ \A r, q \in ranges : Disjoint(r, q)
    /\ \A k \in table.rows : k.int < n => \E r \in ranges : Spans(r, k)

\* The loop of computeNumericRanges and what it leaves behind.
LoopInv ==
    /\ table \in Tables
    /\ phase \in {"start", "ranges", "enqueue", "copying", "failed"}
    /\ Numeric =>
          /\ phase = "start" => ranges = {}
          /\ phase = "ranges" =>
                /\ maxV \in (-MaxExact)..MaxExact /\ low \in Int
                /\ -MaxExact <= low /\ low <= maxV + 1
                /\ \A k \in table.rows : k.int <= maxV
                /\ Covered(low)
          /\ phase \in {"enqueue", "copying"} => Covered(MaxExact + 1)

\* The rows of a table are keys: numbers.
LEMMA RowsAreKeys ==
    ASSUME table \in Tables
    PROVE  /\ table.rows \subseteq Keys /\ IsFiniteSet(table.rows)
           /\ \A k \in table.rows : k.int \in Int /\ k.frac \in Nat
<1>1. table.rows \subseteq Keys /\ IsFiniteSet(table.rows)
  BY TableAssumption
<1>2. \A k \in Keys : k.int \in Int /\ k.frac \in Nat
  BY IntAssumption
<1> QED
  BY <1>1, <1>2

\* Exact keys lie between the bounds.
LEMMA KeyBounds ==
    ASSUME LoopInv, Numeric, NEW k \in table.rows
    PROVE  k \in Keys /\ k.int \in Int /\ k.frac \in Nat /\ -MaxExact <= k.int /\ k.int <= MaxExact
<1>1. k.int \in (-MaxExact)..MaxExact
  BY DEF Numeric, ExactTable
<1>2. k \in Keys /\ k.int \in Int /\ k.frac \in Nat
  BY RowsAreKeys DEF LoopInv
<1> QED BY <1>1, <1>2, IntAssumption

\* One iteration of the loop takes [low, High] off the keys still to cover, and
\* neither of its two additions overflows.
LEMMA Iteration ==
    ASSUME BatchFits, LoopInv, Numeric, phase = "ranges", low <= maxV
    PROVE  /\ High \in Int /\ low <= High /\ High <= maxV
           /\ Wrap(High + 1) = High + 1
<1> USE IntAssumption
<1>1. /\ maxV \in Int /\ maxV <= MaxExact /\ low \in Int
      /\ MaxInt \in Int /\ BatchSize \in Int /\ 1 <= BatchSize
      /\ MaxExact \in Int /\ MaxExact + BatchSize <= MaxInt
  BY DEF LoopInv, BatchFits
<1>2. Wrap(low + BatchSize - 1) = low + BatchSize - 1
  BY <1>1 DEF Wrap
<1>3. High \in Int /\ low <= High /\ High <= maxV
  BY <1>1, <1>2 DEF High
<1>4. Wrap(High + 1) = High + 1
  BY <1>1, <1>3 DEF Wrap
<1> QED BY <1>3, <1>4

\* An iteration of the loop, or its end, keeps the loop invariant.
LEMMA LoopStep ==
    ASSUME BatchFits, LoopInv, NumericRange
    PROVE  LoopInv'
<1> USE IntAssumption
<1>0. /\ phase = "ranges" /\ phase' \in {"ranges", "enqueue"} /\ table' = table /\ maxV' = maxV
      /\ Numeric' = Numeric
  BY DEF NumericRange, Numeric, ExactTable
<1>1. CASE ~Numeric
  BY <1>0, <1>1 DEF LoopInv
<1>2. CASE Numeric /\ low <= maxV
  <2>1. /\ High \in Int /\ low <= High /\ High <= maxV
        /\ Wrap(High + 1) = High + 1
    BY <1>0, <1>2, Iteration
  <2>2. /\ phase' = "ranges"
        /\ ranges' = ranges \cup {BatchRange(low, High)}
        /\ low' = High + 1
    BY <1>0, <1>2, <2>1 DEF NumericRange
  <2> DEFINE new == BatchRange(low, High)
  <2>3. new.low = low /\ new.high = High /\ new = BatchRange(new.low, new.high)
    BY DEF BatchRange
  <2>4. maxV \in (-MaxExact)..MaxExact /\ low \in Int /\ -MaxExact <= low /\ Covered(low)
    BY <1>0, <1>2 DEF LoopInv
  <2> HIDE DEF new
  <2>5. \A r \in ranges' : RangeBelow(r, low')
    <3>1. RangeBelow(new, low')
      BY <2>1, <2>2, <2>3, <2>4 DEF RangeBelow
    <3>2. ASSUME NEW r \in ranges PROVE RangeBelow(r, low')
      BY <2>1, <2>2, <2>4 DEF Covered, RangeBelow
    <3> QED BY <2>2, <3>1, <3>2 DEF new
  <2>6. \A r, q \in ranges' : Disjoint(r, q)
    <3>1. ASSUME NEW r \in ranges PROVE r.high < new.low
      BY <2>3, <2>4 DEF Covered, RangeBelow
    <3> QED BY <2>2, <2>4, <3>1 DEF Covered, Disjoint, new
  <2>7. \A k \in table'.rows : k.int < low' => \E r \in ranges' : Spans(r, k)
    <3> SUFFICES ASSUME NEW k \in table.rows, k.int < low'
                 PROVE  \E r \in ranges' : Spans(r, k)
      BY <1>0
    <3>0. k.int \in Int
      BY <1>2, KeyBounds
    <3>1. CASE k.int < low
      BY <2>2, <2>4, <3>1 DEF Covered
    <3>2. CASE low <= k.int
      <4>1. Spans(new, k)
        BY <2>1, <2>2, <2>3, <2>4, <3>0, <3>2 DEF Spans
      <4> QED BY <2>2, <4>1 DEF new
    <3> QED BY <2>4, <3>0, <3>1, <3>2
  <2>8. Covered(low)'
    BY <2>5, <2>6, <2>7 DEF Covered, RangeBelow, Disjoint, Spans
  <2> QED BY <1>0, <1>2, <2>1, <2>2, <2>4, <2>8 DEF LoopInv
<1>3. CASE Numeric /\ ~(low <= maxV)
  <2>1. phase' = "enqueue" /\ ranges' = ranges
    BY <1>3 DEF NumericRange
  <2>2. /\ low \in Int /\ maxV \in Int /\ low = maxV + 1 /\ maxV <= MaxExact
        /\ Covered(low) /\ \A k \in table.rows : k.int <= maxV /\ k.int \in Int
    <3>1. /\ low \in Int /\ maxV \in (-MaxExact)..MaxExact /\ low <= maxV + 1 /\ Covered(low)
          /\ \A k \in table.rows : k.int <= maxV
      BY <1>0, <1>3 DEF LoopInv
    <3>2. low = maxV + 1
      BY <1>3, <3>1
    <3>3. ASSUME NEW k \in table.rows PROVE k.int \in Int
      BY <1>3, KeyBounds
    <3> QED BY <3>1, <3>2, <3>3
  <2>3. Covered(MaxExact + 1)
    BY <2>2 DEF Covered, RangeBelow
  <2>4. Covered(MaxExact + 1)'
    BY <1>0, <2>1, <2>3 DEF Covered, RangeBelow, Disjoint, Spans
  <2> QED BY <1>0, <1>3, <2>1, <2>4 DEF LoopInv
<1> QED BY <1>1, <1>2, <1>3

\* Range bounds of exact numbers come out of JSON as they went in.
LEMMA ExactBounds ==
    ASSUME NEW r, NEW n, RangeBelow(r, n)
    PROVE  Decoded(r) = r
BY DEF RangeBelow, Decoded, ThroughJSON, BatchRange

\* The first range starts at the least key.
LEMMA PartitionKeepsLoop ==
    ASSUME LoopInv, Partition PROVE LoopInv'
<1>0. table' = table /\ phase = "start" /\ Numeric' = Numeric
  BY DEF Partition, Numeric, ExactTable
<1>1. phase' \in {"ranges", "enqueue", "failed"}
  BY DEF Partition, RangeKind
<1>2. CASE ~Numeric
  BY <1>0, <1>1, <1>2 DEF LoopInv
<1>3. CASE Numeric /\ table.rows = {}
  <2>1. phase' = "enqueue" /\ ranges' = {}
    BY <1>0, <1>3 DEF Partition, RangeKind, LoopInv, Numeric
  <2> QED BY <1>0, <1>3, <2>1 DEF LoopInv, Covered
<1>4. CASE Numeric /\ table.rows # {}
  <2>1. /\ ranges' = ranges /\ phase' \in {"ranges", "failed"}
        /\ \E min, max \in table.rows :
              /\ \A k \in table.rows : ~Less(k, min) /\ ~Less(max, k)
              /\ phase' = "ranges" => low' = min.int /\ maxV' = max.int
    BY <1>0, <1>4 DEF Partition, RangeKind, Numeric
  <2>2. PICK min \in table.rows, max \in table.rows :
           /\ \A k \in table.rows : ~Less(k, min) /\ ~Less(max, k)
           /\ phase' = "ranges" => low' = min.int /\ maxV' = max.int
    BY <2>1
  <2>3. \A k \in table.rows : k.int \in Int /\ -MaxExact <= k.int /\ k.int <= MaxExact
    BY <1>4, KeyBounds
  <2>4. \A k \in table.rows : min.int <= k.int /\ k.int <= max.int
    BY <2>2, <2>3 DEF Less
  <2>5. CASE phase' = "ranges"
    <3>1. /\ low' \in Int /\ maxV' \in (-MaxExact)..MaxExact /\ -MaxExact <= low' /\ low' <= maxV' + 1
          /\ \A k \in table.rows : k.int <= maxV' /\ ~(k.int < low')
      BY <2>2, <2>3, <2>4, <2>5, IntAssumption
    <3>2. ranges' = {}
      BY <1>0, <1>4, <2>1 DEF LoopInv
    <3>3. Covered(low)'
      BY <1>0, <3>1, <3>2 DEF Covered
    <3> QED BY <1>0, <1>4, <2>5, <3>1, <3>3 DEF LoopInv
  <2>6. CASE phase' = "failed"
    BY <1>0, <1>4, <2>6 DEF LoopInv
  <2> QED BY <2>1, <2>5, <2>6
<1> QED BY <1>2, <1>3, <1>4

\* Only Partition, NumericRange and EnqueueBatches change the plan.
LEMMA LoopInvariant ==
    ASSUME BatchFits PROVE Spec => []LoopInv
<1>1. Init => LoopInv
  BY DEF Init, LoopInv
<1>2. LoopInv /\ [Next]_vars => LoopInv'
  <2> SUFFICES ASSUME LoopInv, [Next]_vars PROVE LoopInv'
    OBVIOUS
  <2>0. ASSUME UNCHANGED <<table, phase, low, maxV, ranges>> PROVE LoopInv'
    BY <2>0 DEF LoopInv, Covered, Numeric, ExactTable
  <2>1. CASE Partition
    BY <2>1, PartitionKeepsLoop
  <2>2. CASE NumericRange
    BY <2>2, LoopStep
  <2>3. CASE EnqueueBatches
    <3>1. phase = "enqueue" /\ phase' = "copying" /\ UNCHANGED <<table, ranges>>
      BY <2>3 DEF EnqueueBatches
    <3> QED BY <3>1 DEF LoopInv, Covered, Numeric, ExactTable
  <2>4. ASSUME NEW w \in Workers, NEW j \in Jobs, ClaimBatch(w, j) PROVE LoopInv'
    BY <2>0, <2>4 DEF ClaimBatch, planVars
  <2>5. ASSUME NEW w \in Workers, Copy(w) PROVE LoopInv'
    BY <2>0, <2>5
       DEF Copy, DeleteTargetRange, CopyRange, CutShort, CopyError, Report, planVars
  <2>6. CASE Validate \/ RequeueOrphans \/ Crash \/ UNCHANGED vars
    BY <2>0, <2>6 DEF Validate, RequeueOrphans, Crash, planVars, vars
  <2>7. ASSUME NEW j \in Jobs, BackoffElapses(j) \/ LockExpires(j) PROVE LoopInv'
    BY <2>0, <2>7 DEF BackoffElapses, LockExpires, planVars
  <2> QED BY <2>1, <2>2, <2>3, <2>4, <2>5, <2>6, <2>7 DEF Next, Plan
<1> QED BY <1>1, <1>2, PTL DEF Spec

\* A key that two ranges span is in one range.
LEMMA OneSpan ==
    ASSUME LoopInv, Numeric, phase \in {"enqueue", "copying"}, NEW k \in table.rows,
           NEW r \in ranges, NEW q \in ranges, Spans(r, k), Spans(q, k)
    PROVE  r = q
<1>1. Disjoint(r, q) /\ RangeBelow(r, MaxExact + 1) /\ RangeBelow(q, MaxExact + 1)
  BY DEF LoopInv, Covered
<1>2. r.low \in Int /\ r.high \in Int /\ q.low \in Int /\ q.high \in Int /\ k.int \in Int
  BY <1>1, KeyBounds, IntAssumption DEF RangeBelow
<1> QED BY <1>1, <1>2 DEF Disjoint, Spans

\* A key is in the range that spans it, unless it lies behind its end.
LEMMA SpanOrGap ==
    ASSUME LoopInv, Numeric, phase \in {"enqueue", "copying"}, NEW k \in table.rows
    PROVE  /\ InGap(k) <=> \A r \in ranges : ~Holds(r, k)
           /\ \A r \in ranges : Decoded(r) = r /\ (k \in Between(Decoded(r)) <=> Holds(r, k))
           /\ \A r \in ranges : Holds(r, k) => Spans(r, k)
<1>1. Covered(MaxExact + 1)
  BY DEF LoopInv
<1>2. k \in Keys /\ k.int \in Int /\ k.frac \in Nat /\ k.int < MaxExact + 1
  BY KeyBounds, IntAssumption
<1>3. \A r \in ranges : RangeBelow(r, MaxExact + 1) /\ Decoded(r) = r
  BY <1>1, ExactBounds DEF Covered
<1>4. \A r \in ranges : r.low \in Int /\ r.high \in Int /\ r.low <= r.high
  BY <1>3, IntAssumption DEF RangeBelow
<1>5. \A r \in ranges : k \in Between(Decoded(r)) <=> Holds(r, k)
  BY <1>2, <1>3 DEF Between, Holds
<1>6. \A r \in ranges : Holds(r, k) <=> Spans(r, k) /\ ~(k.int = r.high /\ k.frac # 0)
  BY <1>2, <1>4 DEF Holds, Spans
<1>7. PICK s \in ranges : Spans(s, k)
  BY <1>1, <1>2 DEF Covered
<1>8. ASSUME InGap(k), NEW r \in ranges, Holds(r, k) PROVE FALSE
  <2>1. PICK q \in ranges : k.int = q.high /\ k.frac # 0
    BY <1>8 DEF InGap
  <2>2. Spans(q, k) /\ Spans(r, k)
    BY <1>2, <1>4, <1>6, <1>8, <2>1 DEF Spans
  <2>3. r = q
    BY <2>2, OneSpan
  <2> QED BY <1>6, <1>8, <2>1, <2>3
<1>9. ASSUME \A r \in ranges : ~Holds(r, k) PROVE InGap(k)
  BY <1>6, <1>7, <1>9 DEF InGap, Numeric
<1> QED BY <1>3, <1>5, <1>6, <1>8, <1>9

\* Each row of a table with a numeric key lies in the range of one copy_batch
\* job and of no other, unless its key has a fraction and lies behind the end of
\* a range: for every batch size, as long as keys fit a float64 exactly and
\* low + batchSize fits an int64.
THEOREM RangesPartitionKeys ==
    ASSUME BatchFits PROVE Spec => []KeysPartitioned
<1>1. LoopInv => KeysPartitioned
  <2> SUFFICES ASSUME LoopInv, phase \in {"enqueue", "copying"}, Numeric, NEW k \in table.rows
               PROVE  /\ InGap(k) <=> \A r \in ranges : k \notin Between(Decoded(r))
                      /\ \A r, q \in ranges :
                            k \in Between(Decoded(r)) /\ k \in Between(Decoded(q)) => r = q
    BY DEF KeysPartitioned, Numeric
  <2> QED BY SpanOrGap, OneSpan
<1> QED BY <1>1, LoopInvariant, PTL

-----------------------------------------------------------------------------
(* Refinement of JobQueue.                                                 *)

\* The transaction of hCopyTable inserts jobs that were not there.
LEMMA EnqueueRefines ==
    ASSUME EnqueueBatches PROVE \E S \in SUBSET Jobs : Q!Enqueue(S)
<1> DEFINE id == CHOOSE f \in Namings : TRUE
           new == {id[r] : r \in ranges}
<1>1. id \in Namings /\ Q!Enqueue(new)
  BY DEF EnqueueBatches
<1>2. new \in SUBSET Jobs
  BY <1>1 DEF Namings
<1> QED
  BY <1>1, <1>2

\* Each statement of the copy is an operation of the queue, or leaves the jobs
\* table alone: what JobQueueProofs shows of attempts, claims and reports holds
\* of copy_batch jobs, in a table of any kind.
THEOREM CopyRefinesQueue == Spec => Q!Spec
<1>1. Init => Q!Init
  BY DEF Init
<1>2. [Next]_vars => [Q!Next]_(Q!vars)
  <2> SUFFICES ASSUME [Next]_vars PROVE Q!Next \/ UNCHANGED queueVars
    BY DEF Q!vars, queueVars
  <2> USE DEF Q!Next
  <2>1. CASE Plan
    BY <2>1, EnqueueRefines DEF Plan, Partition, NumericRange
  <2>2. ASSUME NEW w \in Workers, NEW j \in Jobs, ClaimBatch(w, j) PROVE Q!Next
    BY <2>2 DEF ClaimBatch
  <2>3. ASSUME NEW w \in Workers, Copy(w) PROVE Q!Next \/ UNCHANGED queueVars
    BY <2>3 DEF Copy, DeleteTargetRange, CopyRange, CutShort, CopyError, Report, queueVars
  <2>4. CASE RequeueOrphans \/ Crash
    BY <2>4 DEF RequeueOrphans, Crash
  <2>5. ASSUME NEW j \in Jobs, BackoffElapses(j) \/ LockExpires(j) PROVE Q!Next
    BY <2>5 DEF BackoffElapses, LockExpires
  <2>6. CASE Validate \/ UNCHANGED vars
    BY <2>6 DEF Validate, vars
  <2> QED
    BY <2>1, <2>2, <2>3, <2>4, <2>5, <2>6 DEF Next
<1> QED
  BY <1>1, <1>2, PTL DEF Spec, Q!Spec

-----------------------------------------------------------------------------
(* The copy of a table with a numeric key.                                 *)

Pcs == {"idle", "delete", "copy", "fail", "succeed"}

CopyTypeOK ==
    /\ status \in [Jobs -> Q!Statuses]
    /\ expired \in [Jobs -> BOOLEAN]
    /\ held \in [Workers -> Jobs \cup {NoJob}]
    /\ pc \in [Workers -> Pcs]
    /\ target \in [Keys -> {0, 1}]

\* The jobs are the ranges, one each.
OneJobPerRange ==
    /\ phase # "copying" => \A j \in Jobs : range[j] = NoRange /\ status[j] = "none"
    /\ phase = "copying" => \A r \in ranges : \E j \in Jobs : range[j] = r
    /\ \A j \in Jobs : range[j] # NoRange => range[j] \in ranges
    /\ \A j \in Jobs : status[j] # "none" => range[j] # NoRange
    /\ \A i, j \in Jobs : range[i] = range[j] /\ range[i] # NoRange => i = j

\* A worker has its job to itself: the lock of a job that is worked on does
\* not expire.
OneWorkerPerJob ==
    /\ \A w \in Workers : held[w] = NoJob <=> pc[w] = "idle"
    /\ \A w \in Workers : held[w] # NoJob => status[held[w]] = "running" /\ ~expired[held[w]]
    /\ \A v, w \in Workers : held[v] = held[w] /\ held[v] # NoJob => v = w

InJob(k, j) == range[j] # NoRange /\ Holds(range[j], k)

\* The rows of a job: there when it has succeeded or is about to, unless its last
\* stream was cut; gone between its DELETE and its COPY.
RowsOfJobs ==
    /\ \A j \in Jobs, k \in table.rows :
          InJob(k, j) /\ status[j] = "succeeded" => target[k] = 1 \/ j \in cut
    /\ \A w \in Workers, k \in table.rows :
          held[w] # NoJob /\ InJob(k, held[w]) =>
             /\ pc[w] = "copy" => target[k] = 0
             /\ pc[w] = "succeed" => target[k] = 1 \/ held[w] \in cut

CopyInv ==
    Numeric => CopyTypeOK /\ OneJobPerRange /\ OneWorkerPerJob /\ RowsOfJobs

\* No key lies in the ranges of two jobs.
LEMMA KeyHasOneJob ==
    ASSUME BatchFits, LoopInv, OneJobPerRange, Numeric,
           NEW i \in Jobs, NEW j \in Jobs, NEW k \in table.rows, InJob(k, i), InJob(k, j)
    PROVE  i = j
<1>1. phase = "copying" /\ range[i] \in ranges /\ range[j] \in ranges
  BY DEF OneJobPerRange, InJob
<1>2. Spans(range[i], k) /\ Spans(range[j], k)
  BY <1>1, SpanOrGap DEF InJob
<1>4. range[i] = range[j]
  BY <1>1, <1>2, OneSpan
<1> QED
  BY <1>4 DEF OneJobPerRange, InJob

\* Statements that change neither the ranges nor the target, and leave every
\* job that has a worker with it.
LEMMA QueueStepKeepsCopy ==
    ASSUME CopyInv, Numeric,
           UNCHANGED <<table, planVars, copyVars>>,
           status' \in [Jobs -> Q!Statuses], expired' \in [Jobs -> BOOLEAN],
           held' \in [Workers -> Jobs \cup {NoJob}], pc' \in [Workers -> Pcs],
           \A j \in Jobs : status'[j] = "none" <=> status[j] = "none",
           OneWorkerPerJob',
           \A j \in Jobs, k \in table.rows : InJob(k, j) /\ status'[j] = "succeeded" => target[k] = 1 \/ j \in cut,
           \A w \in Workers : held'[w] # NoJob => pc'[w] \notin {"copy", "succeed"}
                                                  \/ (pc'[w] = pc[w] /\ held'[w] = held[w])
    PROVE  CopyInv'
<1> USE DEF planVars, copyVars, Numeric, ExactTable
<1>1. CopyTypeOK'
  BY DEF CopyInv, CopyTypeOK
<1>2. OneJobPerRange'
  BY DEF CopyInv, OneJobPerRange
<1>3. \A k, j : InJob(k, j)' <=> InJob(k, j)
  BY DEF InJob, Holds
<1>4. \A j \in Jobs, k \in table'.rows : InJob(k, j)' /\ status'[j] = "succeeded" => target'[k] = 1 \/ j \in cut'
  BY <1>3
<1>5. ASSUME NEW w \in Workers, NEW k \in table'.rows, held'[w] # NoJob, InJob(k, held[w])'
      PROVE  /\ pc'[w] = "copy" => target'[k] = 0
             /\ pc'[w] = "succeed" => target'[k] = 1 \/ held'[w] \in cut'
  <2>1. held'[w] = held[w] => InJob(k, held[w])
    BY <1>5 DEF InJob, Holds
  <2> QED
    BY <1>5, <2>1 DEF CopyInv, RowsOfJobs
<1>6. RowsOfJobs'
  BY <1>4, <1>5 DEF RowsOfJobs
<1> QED
  BY <1>1, <1>2, <1>6 DEF CopyInv

\* A claim takes a pending job, which no worker is on.
LEMMA ClaimKeepsCopy ==
    ASSUME CopyInv, Numeric, NEW w \in Workers, NEW j \in Jobs, ClaimBatch(w, j)
    PROVE  CopyInv'
<1> USE QueueAssumption
<1>1. /\ held[w] = NoJob /\ status[j] = "pending"
      /\ status' = [status EXCEPT ![j] = "running"] /\ expired' = [expired EXCEPT ![j] = FALSE]
      /\ held' = [held EXCEPT ![w] = j] /\ pc' = [pc EXCEPT ![w] = "delete"]
      /\ UNCHANGED <<table, planVars, copyVars>>
  BY DEF ClaimBatch, Q!Claim, GoTo
<1>2. CopyTypeOK /\ OneWorkerPerJob /\ RowsOfJobs
  BY DEF CopyInv
<1>3. /\ status' \in [Jobs -> Q!Statuses] /\ expired' \in [Jobs -> BOOLEAN]
      /\ held' \in [Workers -> Jobs \cup {NoJob}] /\ pc' \in [Workers -> Pcs]
  BY <1>1, <1>2 DEF CopyTypeOK, Q!Statuses, Pcs
<1>4. /\ \A i \in Jobs \ {j} : status'[i] = status[i] /\ expired'[i] = expired[i]
      /\ status'[j] = "running" /\ expired'[j] = FALSE
      /\ \A v \in Workers \ {w} : held'[v] = held[v] /\ pc'[v] = pc[v]
      /\ held'[w] = j /\ pc'[w] = "delete"
  BY <1>1, <1>2 DEF CopyTypeOK
<1>5. \A v \in Workers : held[v] # j
  BY <1>1, <1>2 DEF OneWorkerPerJob
<1>6. \A v \in Workers : held[v] # NoJob => held[v] \in Jobs
  BY <1>2 DEF CopyTypeOK
<1>7. OneWorkerPerJob'
  BY <1>2, <1>4, <1>5, <1>6 DEF OneWorkerPerJob
<1>8. \A i \in Jobs : status'[i] = "none" <=> status[i] = "none"
  BY <1>1, <1>4
<1>9. \A i \in Jobs, k \in table.rows : InJob(k, i) /\ status'[i] = "succeeded" => target[k] = 1 \/ i \in cut
  BY <1>2, <1>4 DEF RowsOfJobs
<1>10. \A v \in Workers : held'[v] # NoJob => pc'[v] \notin {"copy", "succeed"}
                                              \/ (pc'[v] = pc[v] /\ held'[v] = held[v])
  BY <1>4
<1> QED
  BY <1>1, <1>3, <1>7, <1>8, <1>9, <1>10, QueueStepKeepsCopy

\* A report leaves its job to nobody; what it reports as succeeded is copied.
LEMMA ReportKeepsCopy ==
    ASSUME CopyInv, Numeric, NEW w \in Workers, Report(w)
    PROVE  CopyInv'
<1> USE QueueAssumption
<1>2. CopyTypeOK /\ OneWorkerPerJob /\ RowsOfJobs
  BY DEF CopyInv
<1>0. PICK j : j = held[w]
  OBVIOUS
<1>a. j # NoJob /\ j \in Jobs /\ status[j] = "running"
  BY <1>0, <1>2 DEF Report, Q!Succeed, Q!Fail, CopyTypeOK, OneWorkerPerJob
<1>1. /\ held' = [held EXCEPT ![w] = NoJob] /\ pc' = [pc EXCEPT ![w] = "idle"]
      /\ UNCHANGED <<table, planVars, copyVars>>
      /\ expired' = [expired EXCEPT ![j] = FALSE]
      /\ \/ pc[w] = "succeed" /\ status' = [status EXCEPT ![j] = "succeeded"]
         \/ status' = [status EXCEPT ![j] = "pending"]
         \/ status' = [status EXCEPT ![j] = "dead"]
  <2>1. Q!Exists(j)
    BY <1>a DEF Q!Exists
  <2>2. CASE At(w, "succeed") /\ Q!Succeed(w)
    BY <2>1, <2>2, <1>0 DEF Report, GoTo, At, Q!Succeed
  <2>3. CASE At(w, "fail") /\ Q!Fail(w)
    BY <2>1, <2>3, <1>0 DEF Report, GoTo, At, Q!Fail, Q!AfterFailure
  <2> QED
    BY <2>2, <2>3 DEF Report
<1>3. /\ status' \in [Jobs -> Q!Statuses] /\ expired' \in [Jobs -> BOOLEAN]
      /\ held' \in [Workers -> Jobs \cup {NoJob}] /\ pc' \in [Workers -> Pcs]
  BY <1>1, <1>2, <1>a DEF CopyTypeOK, Q!Statuses, Pcs
<1>4. /\ \A i \in Jobs \ {j} : status'[i] = status[i] /\ expired'[i] = expired[i]
      /\ status'[j] # "none" /\ (status'[j] = "succeeded" => pc[w] = "succeed")
      /\ \A v \in Workers \ {w} : held'[v] = held[v] /\ pc'[v] = pc[v]
      /\ held'[w] = NoJob /\ pc'[w] = "idle"
  BY <1>1, <1>2, <1>a DEF CopyTypeOK
<1>5. \A v \in Workers \ {w} : held[v] # j /\ (held[v] # NoJob => held[v] \in Jobs)
  BY <1>0, <1>a, <1>2 DEF OneWorkerPerJob, CopyTypeOK
<1>7. OneWorkerPerJob'
  BY <1>2, <1>4, <1>5 DEF OneWorkerPerJob
<1>8. \A i \in Jobs : status'[i] = "none" <=> status[i] = "none"
  BY <1>a, <1>4
<1>9. ASSUME NEW i \in Jobs, NEW k \in table.rows, InJob(k, i), status'[i] = "succeeded"
      PROVE  target[k] = 1 \/ i \in cut
  <2>1. CASE i = j
    BY <1>9, <1>0, <1>a, <1>2, <1>4, <2>1 DEF RowsOfJobs
  <2>2. CASE i # j
    BY <1>9, <1>2, <1>4, <2>2 DEF RowsOfJobs
  <2> QED
    BY <2>1, <2>2
<1>10. \A v \in Workers : held'[v] # NoJob => pc'[v] \notin {"copy", "succeed"}
                                              \/ (pc'[v] = pc[v] /\ held'[v] = held[v])
  BY <1>4
<1> QED
  BY <1>1, <1>3, <1>7, <1>8, <1>9, <1>10, QueueStepKeepsCopy

\* Errors, crashes, the supervisor and time take a job from no worker that
\* goes on with it.
LEMMA EnvironmentKeepsCopy ==
    ASSUME ~MayOutlive, CopyInv, Numeric,
           \/ \E w \in Workers : CopyError(w)
           \/ RequeueOrphans
           \/ Crash
           \/ \E j \in Jobs : BackoffElapses(j) \/ LockExpires(j)
           \/ Validate \/ UNCHANGED vars
    PROVE  CopyInv'
<1> USE QueueAssumption
<1>0. CopyTypeOK /\ OneWorkerPerJob /\ RowsOfJobs
  BY DEF CopyInv
<1>h. \A v \in Workers : held[v] # NoJob => held[v] \in Jobs
  BY <1>0 DEF CopyTypeOK
<1>1. ASSUME NEW w \in Workers, CopyError(w) PROVE CopyInv'
  <2>1. /\ pc[w] # "idle" /\ pc' = [pc EXCEPT ![w] = "fail"]
        /\ UNCHANGED <<status, expired, held, table, planVars, copyVars>>
    BY <1>1 DEF CopyError, GoTo, At, queueVars
  <2>2. pc' \in [Workers -> Pcs] /\ pc'[w] = "fail" /\ \A v \in Workers \ {w} : pc'[v] = pc[v]
    BY <2>1, <1>0 DEF CopyTypeOK, Pcs
  <2>3. OneWorkerPerJob'
    BY <1>0, <2>1, <2>2 DEF OneWorkerPerJob
  <2>4. /\ status' \in [Jobs -> Q!Statuses] /\ expired' \in [Jobs -> BOOLEAN]
        /\ held' \in [Workers -> Jobs \cup {NoJob}]
        /\ \A i \in Jobs : status'[i] = "none" <=> status[i] = "none"
    BY <1>0, <2>1 DEF CopyTypeOK
  <2>5. \A i \in Jobs, k \in table.rows : InJob(k, i) /\ status'[i] = "succeeded" => target[k] = 1 \/ i \in cut
    BY <1>0, <2>1 DEF RowsOfJobs
  <2>6. \A v \in Workers : held'[v] # NoJob => pc'[v] \notin {"copy", "succeed"}
                                               \/ (pc'[v] = pc[v] /\ held'[v] = held[v])
    BY <2>1, <2>2
  <2> QED
    BY <2>1, <2>2, <2>3, <2>4, <2>5, <2>6, QueueStepKeepsCopy
<1>2. ASSUME UNCHANGED <<held, pc, table, planVars, copyVars>>,
             status' \in [Jobs -> Q!Statuses], expired' \in [Jobs -> BOOLEAN],
             \A j \in Jobs : \/ status'[j] = status[j]
                             \/ status[j] = "running" /\ expired[j] /\ status'[j] \in {"dead", "pending"},
             \A w \in Workers : held[w] # NoJob => ~expired'[held[w]]
      PROVE  CopyInv'
  <2>1. OneWorkerPerJob'
    BY <1>0, <1>h, <1>2 DEF OneWorkerPerJob
  <2>2. /\ held' \in [Workers -> Jobs \cup {NoJob}] /\ pc' \in [Workers -> Pcs]
        /\ \A i \in Jobs : status'[i] = "none" <=> status[i] = "none"
    BY <1>0, <1>2 DEF CopyTypeOK
  <2>3. \A i \in Jobs, k \in table.rows : InJob(k, i) /\ status'[i] = "succeeded" => target[k] = 1 \/ i \in cut
    BY <1>0, <1>2 DEF RowsOfJobs
  <2>4. \A v \in Workers : pc'[v] = pc[v] /\ held'[v] = held[v]
    BY <1>2
  <2> QED
    BY <1>2, <2>1, <2>2, <2>3, <2>4, QueueStepKeepsCopy
<1>3. CASE RequeueOrphans
  <2>1. /\ UNCHANGED <<held, pc, table, planVars, copyVars>>
        /\ status' = [j \in Jobs |-> IF j \in Q!Orphans THEN Q!AfterFailure(j) ELSE status[j]]
        /\ expired' = [j \in Jobs |-> IF j \in Q!Orphans THEN FALSE ELSE expired[j]]
    BY <1>3 DEF RequeueOrphans, Q!RequeueOrphans
  <2>2. \A j : Q!AfterFailure(j) \in {"dead", "pending"}
    BY DEF Q!AfterFailure
  <2>3. status' \in [Jobs -> Q!Statuses] /\ expired' \in [Jobs -> BOOLEAN]
    BY <2>1, <2>2, <1>0 DEF CopyTypeOK, Q!Statuses
  <2>4. \A j \in Jobs : \/ status'[j] = status[j]
                        \/ status[j] = "running" /\ expired[j] /\ status'[j] \in {"dead", "pending"}
    BY <2>1, <2>2 DEF Q!Orphans
  <2>5. \A w \in Workers : held[w] # NoJob => ~expired'[held[w]]
    BY <2>1, <1>0, <1>h DEF OneWorkerPerJob
  <2> QED
    BY <1>2, <2>1, <2>3, <2>4, <2>5
<1>4. CASE Crash
  <2>1. /\ \A w \in Workers : held'[w] = NoJob /\ pc'[w] = "idle"
        /\ held' \in [Workers -> Jobs \cup {NoJob}] /\ pc' \in [Workers -> Pcs]
        /\ UNCHANGED <<status, expired, table, planVars, copyVars>>
    BY <1>4 DEF Crash, Q!Abandon, Q!rows, Pcs
  <2>2. OneWorkerPerJob'
    BY <2>1 DEF OneWorkerPerJob
  <2>3. /\ status' \in [Jobs -> Q!Statuses] /\ expired' \in [Jobs -> BOOLEAN]
        /\ \A i \in Jobs : status'[i] = "none" <=> status[i] = "none"
    BY <1>0, <2>1 DEF CopyTypeOK
  <2>4. \A i \in Jobs, k \in table.rows : InJob(k, i) /\ status'[i] = "succeeded" => target[k] = 1 \/ i \in cut
    BY <1>0, <2>1 DEF RowsOfJobs
  <2> QED
    BY <2>1, <2>2, <2>3, <2>4, QueueStepKeepsCopy
<1>5. ASSUME NEW j \in Jobs, LockExpires(j) PROVE CopyInv'
  <2>1. /\ UNCHANGED <<status, held, pc, table, planVars, copyVars>>
        /\ expired' = [expired EXCEPT ![j] = TRUE]
        /\ Q!Holders({j}) = {}
    BY <1>5 DEF LockExpires, Q!LockExpires
  <2>2. \A w \in Workers : held[w] # j
    BY <2>1 DEF Q!Holders
  <2>3. status' \in [Jobs -> Q!Statuses] /\ expired' \in [Jobs -> BOOLEAN]
    BY <2>1, <1>0 DEF CopyTypeOK
  <2>4. \A w \in Workers : held[w] # NoJob => ~expired'[held[w]]
    BY <2>1, <2>2, <1>0, <1>h DEF OneWorkerPerJob, CopyTypeOK
  <2> QED
    BY <1>2, <2>1, <2>3, <2>4
<1>6. ASSUME UNCHANGED <<status, expired, held, pc, table, planVars, copyVars>> PROVE CopyInv'
  <2>1. status' \in [Jobs -> Q!Statuses] /\ expired' \in [Jobs -> BOOLEAN]
    BY <1>6, <1>0 DEF CopyTypeOK
  <2>2. \A w \in Workers : held[w] # NoJob => ~expired'[held[w]]
    BY <1>6, <1>0 DEF OneWorkerPerJob
  <2> QED
    BY <1>2, <1>6, <2>1, <2>2
<1>7. ASSUME NEW j \in Jobs, BackoffElapses(j) PROVE CopyInv'
  BY <1>6, <1>7 DEF BackoffElapses, Q!BackoffElapses
<1>8. CASE Validate \/ UNCHANGED vars
  BY <1>6, <1>8 DEF Validate, vars, queueVars
<1> QED
  BY <1>1, <1>3, <1>4, <1>5, <1>7, <1>8

\* The DELETE and the COPY of a worker change rows of its own job only; a row
\* of any other job is in none of its ranges.
LEMMA StatementKeepsCopy ==
    ASSUME BatchFits, LoopInv, CopyInv, Numeric, NEW w \in Workers,
           held[w] # NoJob,
           UNCHANGED <<queueVars, table, planVars>>,
           target' \in [Keys -> {0, 1}], pc' \in [Workers -> Pcs],
           pc'[w] # "idle", \A v \in Workers \ {w} : pc'[v] = pc[v],
           \A j \in Jobs : j # held[w] /\ j \in cut => j \in cut',
           \A k \in table.rows : ~InJob(k, held[w]) => target'[k] = target[k],
           \A k \in table.rows : InJob(k, held[w]) =>
              /\ pc'[w] = "copy" => target'[k] = 0
              /\ pc'[w] = "succeed" => target'[k] = 1 \/ held'[w] \in cut'
    PROVE  CopyInv'
<1> USE DEF queueVars, planVars, Numeric, ExactTable
<1>1. CopyTypeOK /\ OneJobPerRange /\ OneWorkerPerJob /\ RowsOfJobs
  BY DEF CopyInv
<1>2. CopyTypeOK'
  BY <1>1 DEF CopyTypeOK
<1>3. OneJobPerRange'
  BY <1>1 DEF OneJobPerRange
<1>4. OneWorkerPerJob'
  BY <1>1 DEF OneWorkerPerJob
<1>5. \A k, j : InJob(k, j)' <=> InJob(k, j)
  BY DEF InJob, Holds
<1>6. held[w] \in Jobs /\ status[held[w]] = "running"
  BY <1>1 DEF CopyTypeOK, OneWorkerPerJob
<1>7. \A j \in Jobs, k \in table.rows : InJob(k, j) /\ j # held[w] => target'[k] = target[k]
  BY <1>1, <1>6, KeyHasOneJob
<1>8. \A j \in Jobs, k \in table'.rows : InJob(k, j)' /\ status'[j] = "succeeded" => target'[k] = 1 \/ j \in cut'
  BY <1>1, <1>5, <1>6, <1>7 DEF RowsOfJobs
<1>9. ASSUME NEW v \in Workers, NEW k \in table'.rows, held'[v] # NoJob, InJob(k, held[v])'
      PROVE  /\ pc'[v] = "copy" => target'[k] = 0
             /\ pc'[v] = "succeed" => target'[k] = 1 \/ held'[v] \in cut'
  <2>1. InJob(k, held[v])
    BY <1>9 DEF InJob, Holds
  <2>2. CASE v = w
    BY <2>1, <2>2
  <2>3. CASE v # w
    <3>1. held[v] # held[w] /\ held[v] \in Jobs
      BY <1>1, <1>9, <2>3 DEF OneWorkerPerJob, CopyTypeOK
    <3>2. target'[k] = target[k]
      BY <1>7, <2>1, <3>1
    <3>3. held'[v] = held[v] /\ pc'[v] = pc[v] /\ (held[v] \in cut => held[v] \in cut')
      BY <2>3, <3>1
    <3>4. /\ pc[v] = "copy" => target[k] = 0
          /\ pc[v] = "succeed" => target[k] = 1 \/ held[v] \in cut
      BY <1>1, <1>9, <2>1 DEF RowsOfJobs
    <3> QED
      BY <3>2, <3>3, <3>4
  <2> QED
    BY <2>2, <2>3
<1>10. RowsOfJobs'
  BY <1>8, <1>9 DEF RowsOfJobs
<1> QED
  BY <1>2, <1>3, <1>4, <1>10 DEF CopyInv

\* deleteTargetRange empties the worker's own range.
LEMMA DeleteKeepsCopy ==
    ASSUME BatchFits, LoopInv, CopyInv, Numeric, NEW w \in Workers, DeleteTargetRange(w)
    PROVE  CopyInv'
<1>1. CopyTypeOK /\ OneWorkerPerJob /\ OneJobPerRange
  BY DEF CopyInv
<1>2. /\ pc[w] = "delete" /\ pc' = [pc EXCEPT ![w] = "copy"]
      /\ target' = [k \in Keys |-> IF k \in Between(range[held[w]]) THEN 0 ELSE target[k]]
      /\ UNCHANGED <<queueVars, table, planVars, cut>>
  BY DEF DeleteTargetRange, RangeKind, At, GoTo, Numeric
<1>3. held[w] # NoJob
  BY <1>1, <1>2 DEF OneWorkerPerJob
<1>4. range[held[w]] # NoRange
  BY <1>1, <1>3 DEF OneJobPerRange, OneWorkerPerJob, CopyTypeOK
<1>5. table.rows \subseteq Keys
  BY RowsAreKeys DEF LoopInv
<1>6. /\ pc' \in [Workers -> Pcs] /\ pc'[w] = "copy"
      /\ \A v \in Workers \ {w} : pc'[v] = pc[v]
  BY <1>1, <1>2 DEF CopyTypeOK, Pcs
<1>7. target' \in [Keys -> {0, 1}]
  BY <1>1, <1>2 DEF CopyTypeOK
<1>8. \A k \in table.rows : /\ ~InJob(k, held[w]) => target'[k] = target[k]
                            /\ InJob(k, held[w]) => target'[k] = 0
  BY <1>2, <1>4, <1>5 DEF InJob, Holds, Between
<1> QED
  BY <1>2, <1>3, <1>6, <1>7, <1>8, StatementKeepsCopy

\* The COPY finds its range empty, so that it meets no conflict with rows of an
\* earlier execution; it fills the range, unless its stream is cut.
LEMMA CopyKeepsCopy ==
    ASSUME BatchFits, LoopInv, CopyInv, Numeric, NEW w \in Workers, CopyRange(w) \/ CutShort(w)
    PROVE  CopyInv'
<1>1. CopyTypeOK /\ OneWorkerPerJob /\ OneJobPerRange /\ RowsOfJobs
  BY DEF CopyInv
<1> DEFINE own == table.rows \cap Between(range[held[w]])
<1>2. /\ pc[w] = "copy" /\ UNCHANGED <<queueVars, table, planVars>>
      /\ \E rows \in SUBSET own, newCut \in {cut \ {held[w]}, cut \cup {held[w]}} :
            /\ CopyFrom(w, rows, newCut)
            /\ rows = own \/ newCut = cut \cup {held[w]}
  <2>0. \A r, scan : Selected(r, scan) = table.rows \cap Between(r)
    BY DEF Selected, RangeKind, Numeric
  <2>1. CASE CopyRange(w)
    BY <2>0, <2>1 DEF CopyRange, At
  <2>2. CASE CutShort(w)
    <3>0. PICK scan \in Scans : \E next \in Selected(range[held[w]], scan) :
             CopyFrom(w, {k \in Selected(range[held[w]], scan) : scan[k] < scan[next]},
                      cut \cup {held[w]})
      BY <2>2 DEF CutShort
    <3>1. PICK next \in Selected(range[held[w]], scan) :
             CopyFrom(w, {k \in Selected(range[held[w]], scan) : scan[k] < scan[next]},
                      cut \cup {held[w]})
      BY <3>0
    <3>2. {k \in Selected(range[held[w]], scan) : scan[k] < scan[next]} \in SUBSET own
      BY <2>0
    <3> QED
      BY <2>2, <3>1, <3>2 DEF CutShort, At
  <2> QED
    BY <2>1, <2>2
<1>3. held[w] # NoJob
  BY <1>1, <1>2 DEF OneWorkerPerJob
<1>4. range[held[w]] # NoRange
  BY <1>1, <1>3 DEF OneJobPerRange, OneWorkerPerJob, CopyTypeOK
<1>5. table.rows \subseteq Keys
  BY RowsAreKeys DEF LoopInv
<1>6. \A k \in table.rows : k \in own <=> InJob(k, held[w])
  BY <1>4, <1>5 DEF InJob, Holds, Between
<1>h. held' = held
  BY <1>2 DEF queueVars
<1>p. PICK rows \in SUBSET own, newCut \in {cut \ {held[w]}, cut \cup {held[w]}} :
         /\ CopyFrom(w, rows, newCut)
         /\ rows = own \/ newCut = cut \cup {held[w]}
  BY <1>2
<1>e. \A k \in own : target[k] = 0 /\ k \in Keys
  BY <1>1, <1>2, <1>3, <1>5, <1>6 DEF RowsOfJobs
<1>7. CASE Conflict(rows)
  <2>0. pc' = [pc EXCEPT ![w] = "fail"] /\ target' = target /\ cut' = cut
    BY <1>p, <1>7 DEF CopyFrom, GoTo, copyVars
  <2>1. /\ pc' \in [Workers -> Pcs] /\ pc'[w] = "fail"
        /\ \A v \in Workers \ {w} : pc'[v] = pc[v]
    BY <1>1, <2>0 DEF CopyTypeOK, Pcs
  <2>2. target' \in [Keys -> {0, 1}] /\ \A k \in table.rows : target'[k] = target[k]
    BY <1>1, <2>0 DEF CopyTypeOK
  <2> QED
    BY <1>2, <1>3, <2>0, <2>1, <2>2, StatementKeepsCopy
<1>8. CASE ~Conflict(rows)
  <2>0. /\ pc' = [pc EXCEPT ![w] = "succeed"] /\ cut' = newCut
        /\ target' = [k \in Keys |-> IF k \in rows THEN target[k] + 1 ELSE target[k]]
    BY <1>p, <1>8 DEF CopyFrom, GoTo
  <2>1. /\ pc' \in [Workers -> Pcs] /\ pc'[w] = "succeed"
        /\ \A v \in Workers \ {w} : pc'[v] = pc[v]
    BY <1>1, <2>0 DEF CopyTypeOK, Pcs
  <2>3. target \in [Keys -> {0, 1}]
    BY <1>1 DEF CopyTypeOK
  <2>c. \A j \in Jobs : j # held[w] /\ j \in cut => j \in cut'
    BY <2>0
  <2>d. rows = own \/ held'[w] \in cut'
    BY <1>h, <1>p, <2>0
  <2>r. rows \subseteq own
    OBVIOUS
  <2> HIDE DEF own
  <2>4. target' \in [Keys -> {0, 1}]
    BY ONLY <2>0, <1>e, <2>3, <2>r
  <2>5. \A k \in table.rows : /\ ~InJob(k, held[w]) => target'[k] = target[k]
                              /\ InJob(k, held[w]) => target'[k] = 1 \/ held'[w] \in cut'
    BY <1>5, <1>6, <1>e, <2>0, <2>d, <2>r
  <2> QED
    BY <1>2, <1>3, <2>1, <2>4, <2>5, <2>c, StatementKeepsCopy
<1> QED
  BY <1>7, <1>8

\* While the ranges are built there are no jobs; their transaction makes one
\* for each, with the range as it comes out of JSON.
LEMMA PlanKeepsCopy ==
    ASSUME BatchFits, LoopInv, CopyInv, Numeric, Plan
    PROVE  CopyInv'
<1>1. CopyTypeOK /\ OneWorkerPerJob /\ OneJobPerRange /\ RowsOfJobs
  BY DEF CopyInv
<1>2. phase # "copying"
  BY DEF Plan, Partition, NumericRange, EnqueueBatches
<1>3. /\ \A j \in Jobs : range[j] = NoRange /\ status[j] = "none"
      /\ \A w \in Workers : held[w] = NoJob /\ pc[w] = "idle"
  BY <1>1, <1>2 DEF OneJobPerRange, OneWorkerPerJob, CopyTypeOK
<1>4. CASE Partition \/ NumericRange
  <2>1. phase' # "copying" /\ UNCHANGED <<queueVars, table, range, target, pc>>
    BY <1>2, <1>4 DEF Partition, RangeKind, NumericRange, copyVars
  <2>2. OneJobPerRange' /\ RowsOfJobs'
    BY <1>1, <1>3, <2>1 DEF OneJobPerRange, RowsOfJobs, InJob, queueVars
  <2>3. CopyTypeOK' /\ OneWorkerPerJob'
    BY <1>1, <2>1 DEF CopyTypeOK, OneWorkerPerJob, queueVars
  <2> QED
    BY <2>2, <2>3 DEF CopyInv
<1>5. CASE EnqueueBatches
  <2> DEFINE id == CHOOSE f \in Namings : TRUE
             new == {id[r] : r \in ranges}
             rangeOf(j) == CHOOSE r \in ranges : id[r] = j
  <2>1. /\ Namings # {} /\ phase = "enqueue" /\ phase' = "copying"
        /\ UNCHANGED <<expired, held, table, ranges, target, pc>>
        /\ status' = [j \in Jobs |-> IF j \in new THEN "pending" ELSE status[j]]
        /\ range' = [j \in Jobs |-> IF j \in new THEN Decoded(rangeOf(j)) ELSE NoRange]
    BY <1>5 DEF EnqueueBatches, Q!Enqueue, copyVars
  <2>2. id \in Namings
    BY <2>1
  <2>3. id \in [ranges -> Jobs] /\ \A a, b \in ranges : id[a] = id[b] => a = b
    BY <2>2 DEF Namings
  <2> HIDE DEF id
  <2>4. \A r \in ranges : RangeBelow(r, MaxExact + 1)
    BY <2>1 DEF LoopInv, Covered
  <2>5. \A r \in ranges : Decoded(r) = r
    BY <2>4, ExactBounds
  <2>6. \A r \in ranges : r # NoRange
    <3> SUFFICES ASSUME NEW r \in ranges PROVE r \in [low : Int, high : Int]
      BY NoRangeAssumption
    <3>1. r = [low |-> r.low, high |-> r.high] /\ r.low \in Int /\ r.high \in Int
      BY <2>4, IntAssumption DEF RangeBelow, BatchRange
    <3> QED
      BY <3>1
  <2>7. \A r \in ranges : id[r] \in Jobs /\ id[r] \in new /\ rangeOf(id[r]) = r
    BY <2>3
  <2>8. \A j \in new : j \in Jobs /\ rangeOf(j) \in ranges /\ id[rangeOf(j)] = j
    BY <2>3
  <2> HIDE DEF new, rangeOf
  <2>9. /\ \A j \in new : range'[j] = rangeOf(j)
        /\ \A j \in Jobs \ new : range'[j] = NoRange
    BY <2>1, <2>5, <2>8
  <2>10. /\ \A j \in new : status'[j] = "pending"
         /\ \A j \in Jobs \ new : status'[j] = "none"
         /\ status' \in [Jobs -> Q!Statuses]
    BY <2>1, <2>8, <1>3 DEF Q!Statuses
  <2>11. OneJobPerRange'
    BY <2>1, <2>6, <2>7, <2>8, <2>9, <2>10 DEF OneJobPerRange
  <2>12. CopyTypeOK' /\ OneWorkerPerJob' /\ RowsOfJobs'
    BY <1>1, <1>3, <2>1, <2>10 DEF CopyTypeOK, OneWorkerPerJob, RowsOfJobs
  <2> QED
    BY <2>11, <2>12 DEF CopyInv
<1> QED
  BY <1>4, <1>5 DEF Plan

\* The invariant of the copy holds in every reachable state, as long as no lock
\* expires under a worker.
LEMMA CopyInvariant ==
    ASSUME BatchFits, ~MayOutlive PROVE Spec => []CopyInv
<1>1. Init => CopyInv
  <2> SUFFICES ASSUME Init PROVE CopyInv
    OBVIOUS
  <2>1. CopyTypeOK
    BY DEF Init, Q!Init, CopyTypeOK, Q!Statuses, Pcs
  <2>2. OneJobPerRange /\ OneWorkerPerJob /\ RowsOfJobs
    BY DEF Init, Q!Init, OneJobPerRange, OneWorkerPerJob, RowsOfJobs, InJob
  <2> QED
    BY <2>1, <2>2 DEF CopyInv
<1>2. LoopInv /\ CopyInv /\ [Next]_vars => CopyInv'
  <2> SUFFICES ASSUME LoopInv, CopyInv, [Next]_vars PROVE CopyInv'
    OBVIOUS
  <2>1. CASE Numeric
    BY <2>1, PlanKeepsCopy, ClaimKeepsCopy, DeleteKeepsCopy, CopyKeepsCopy, ReportKeepsCopy,
       EnvironmentKeepsCopy
    DEF Next, Copy
  <2>2. CASE ~Numeric
    <3>1. UNCHANGED table
      BY DEF Next, Plan, Partition, NumericRange, EnqueueBatches, ClaimBatch, Copy, DeleteTargetRange,
             CopyRange, CutShort, CopyError, Report, Validate, RequeueOrphans, Crash, BackoffElapses,
             LockExpires, vars
    <3> QED
      BY <2>2, <3>1 DEF CopyInv, Numeric, ExactTable
  <2> QED
    BY <2>1, <2>2
<1> QED
  BY <1>1, <1>2, LoopInvariant, PTL DEF Spec

\* When the last batch of a table with a numeric key is reported as copied,
\* the target holds every row of the source once, except those between two ranges
\* and those of a batch whose last stream was cut: for any number of rows,
\* batches and workers, whatever crashed, failed and was executed again in
\* between, as long as no batch outlives the orphan TTL while it is worked on.
THEOREM RangesCopiedExactly ==
    ASSUME BatchFits, ~MayOutlive
    PROVE  Spec => [](table.kind = "numeric" => ExactCopy)
<1>1. LoopInv /\ CopyInv => (table.kind = "numeric" => ExactCopy)
  <2> SUFFICES ASSUME LoopInv, CopyInv, Numeric, Copied, NEW k \in table.rows
               PROVE  /\ \/ target[k] >= 1
                         \/ InGap(k)
                         \/ \E j \in cut, scan \in Scans : k \in Selected(range[j], scan)
                      /\ target[k] <= 1
    BY DEF ExactCopy, Numeric
  <2>1. phase = "copying" /\ \A j \in Batches : status[j] = "succeeded"
    BY DEF Copied
  <2>2. k \in Keys /\ target[k] \in {0, 1}
    BY KeyBounds DEF CopyInv, CopyTypeOK
  <2>3. SUFFICES ASSUME ~InGap(k), target[k] # 1
                 PROVE  \E j \in cut, scan \in Scans : k \in Selected(range[j], scan)
    BY <2>2
  <2>4. PICK r \in ranges : Holds(r, k) /\ Decoded(r) = r /\ k \in Between(Decoded(r))
    BY <2>1, <2>3, SpanOrGap
  <2>5. PICK j \in Jobs : range[j] = r
    BY <2>1 DEF CopyInv, OneJobPerRange
  <2>6. r # NoRange
    <3>1. RangeBelow(r, MaxExact + 1)
      BY <2>1 DEF LoopInv, Covered
    <3>2. r = [low |-> r.low, high |-> r.high] /\ r.low \in Int /\ r.high \in Int
      BY <3>1, IntAssumption DEF RangeBelow, BatchRange
    <3> QED
      BY <3>2, NoRangeAssumption
  <2>7. InJob(k, j) /\ status[j] = "succeeded"
    BY <2>1, <2>4, <2>5, <2>6 DEF InJob, Batches
  <2>8. j \in cut
    BY <2>3, <2>7 DEF CopyInv, RowsOfJobs
  <2>9. RangeKind = "pk"
    BY DEF RangeKind, Numeric
  <2>10. Scans = {[x \in table.rows |-> Cardinality({y \in table.rows : Less(y, x)})]}
    BY <2>9 DEF Scans
  <2>11. PICK scan : scan \in Scans
    BY <2>10
  <2>12. k \in Selected(range[j], scan)
    BY <2>4, <2>5, <2>9 DEF Selected
  <2> QED
    BY <2>8, <2>11, <2>12
<1> QED
  BY <1>1, LoopInvariant, CopyInvariant, PTL

-----------------------------------------------------------------------------
(* The copy of a table by offsets.                                         *)
(*                                                                         *)
(* An offset batch deletes nothing, so that a row that is there stays:     *)
(* with a primary key a second execution of its batch fails, and without   *)
(* one it doubles the rows, which the count of attempts tells.  Neither    *)
(* needs the workers of a batch to be alone with it.                       *)

\* What the theorem assumes: scans in one order, a dialect that takes the two
\* arguments in the order they are passed, and tables whose size is exact in
\* JSON.
PlainOffsets ==
    /\ StableScan /\ Kind \in {"mysql", "oracle"}
    /\ \A t \in Tables : Cardinality(t.rows) <= MaxExact

ByOffset == table.kind # "numeric" /\ table.rows # {}

\* The position of a row in the scan, and the rows of a range.
Position(k) == Cardinality({x \in table.rows : Less(x, k)})
Takes(r, k) == r.low <= Position(k) /\ Position(k) < r.low + r.high

\* Products grow with their factors.
LEMMA ProductsGrow == ASSUME NEW a \in Nat, NEW b \in Nat, NEW m \in Nat, a < b PROVE a * m + m <= b * m
<1>1. PICK d \in Nat : b = a + 1 + d
  <2>1. b - a - 1 \in Nat /\ b = a + 1 + (b - a - 1)
    OBVIOUS
  <2> QED
    BY <2>1
<1>2. b * m = a * m + m + d * m
  BY <1>1
<1>3. d * m \in Nat /\ a * m \in Nat /\ b * m \in Nat
  BY <1>1
<1> QED
  BY ONLY <1>2, <1>3, m \in Nat

\* Every number lies between two neighbouring multiples, and no other two.
LEMMA Multiples ==
    ASSUME NEW p \in Nat, NEW m \in Nat \ {0}
    PROVE  /\ p \div m \in Nat /\ (p \div m) * m <= p /\ p < (p \div m) * m + m
           /\ \A i \in Nat : i * m <= p /\ p < i * m + m => i = p \div m
<1>1. p \div m \in Nat /\ (p \div m) * m <= p /\ p < (p \div m) * m + m
  OBVIOUS
<1>2. PICK q \in Nat : q = p \div m
  BY <1>1
<1>3. ASSUME NEW i \in Nat, i * m <= p, p < i * m + m PROVE i = q
  <2>1. i * m \in Nat /\ q * m \in Nat /\ q * m <= p /\ p < q * m + m
    BY <1>1, <1>2
  <2>2. ~(i < q)
    <3> SUFFICES ASSUME i < q PROVE FALSE
      OBVIOUS
    <3>1. i * m + m <= q * m
      BY ProductsGrow
    <3> QED
      BY ONLY <3>1, <2>1, <1>3, p \in Nat, m \in Nat
  <2>3. ~(q < i)
    <3> SUFFICES ASSUME q < i PROVE FALSE
      OBVIOUS
    <3>1. q * m + m <= i * m
      BY ProductsGrow
    <3> QED
      BY ONLY <3>1, <2>1, <1>3, p \in Nat, m \in Nat
  <2> QED
    BY <2>2, <2>3
<1> QED
  BY <1>1, <1>2, <1>3

\* A table has finitely many rows, and each of them a position below their
\* number.
LEMMA Positions ==
    ASSUME PlainOffsets, table \in Tables
    PROVE  /\ Cardinality(table.rows) \in Nat /\ Cardinality(table.rows) <= MaxExact
           /\ \A k \in table.rows : Position(k) \in Nat /\ Position(k) < Cardinality(table.rows)
           /\ table.rows # {} => Cardinality(table.rows) > 0
<1> USE DEF PlainOffsets
<1>1. IsFiniteSet(table.rows) /\ Cardinality(table.rows) <= MaxExact
  BY RowsAreKeys
<1>2. Cardinality(table.rows) \in Nat
  BY <1>1, FS_CardinalityType
<1>3. ASSUME NEW k \in table.rows
      PROVE  Position(k) \in Nat /\ Position(k) < Cardinality(table.rows)
  <2> DEFINE before == {x \in table.rows : Less(x, k)}
  <2>1. k.int \in Int /\ k.frac \in Nat
    BY RowsAreKeys
  <2>2. k \notin before
    BY <2>1 DEF Less
  <2>3. before \subseteq table.rows /\ before \cup {k} \subseteq table.rows
    OBVIOUS
  <2>4. IsFiniteSet(before) /\ IsFiniteSet(before \cup {k})
    BY <1>1, <2>3, FS_Subset
  <2>5. Cardinality(before \cup {k}) = Cardinality(before) + 1
    BY <2>2, <2>4, FS_AddElement
  <2>6. Cardinality(before \cup {k}) <= Cardinality(table.rows)
    BY <1>1, <2>3, FS_Subset
  <2>7. Cardinality(before) \in Nat
    BY <2>4, FS_CardinalityType
  <2> QED
    BY <1>2, <2>5, <2>6, <2>7 DEF Position
<1>4. table.rows # {} => Cardinality(table.rows) > 0
  BY <1>2, <1>3
<1> QED
  BY <1>1, <1>2, <1>3, <1>4, IntAssumption

\* The ranges of the fallback are exact numbers, and each row is in one.
LEMMA OffsetsPartition ==
    ASSUME PlainOffsets, table \in Tables, table.rows # {}
    PROVE  /\ \A r \in OffsetRanges : /\ Decoded(r) = r /\ r # NoRange
                                      /\ r.low \in Nat /\ r.high \in Nat
           /\ \A k \in table.rows : \E r \in OffsetRanges : Takes(r, k)
           /\ \A k \in table.rows : \A r, q \in OffsetRanges : Takes(r, k) /\ Takes(q, k) => r = q
<1>1. PICK n : n = Cardinality(table.rows)
  OBVIOUS
<1>2. /\ n \in Nat \ {0} /\ n <= MaxExact
      /\ \A k \in table.rows : Position(k) \in Nat /\ Position(k) < n
  BY <1>1, Positions
<1>3. BatchSize \in Nat \ {0} /\ MaxExact \in Nat /\ MaxInt \in Nat /\ MaxExact <= MaxInt
  BY IntAssumption
<1> DEFINE last == (n - 1) \div BatchSize
           Off(i) == i * BatchSize
           Lim(i) == IF Off(i) + BatchSize > n THEN n - Off(i) ELSE BatchSize
<1>4. n - 1 \in Nat
  BY <1>2
<1>5. last \in Nat /\ last * BatchSize <= n - 1 /\ n - 1 < last * BatchSize + BatchSize
  BY <1>3, <1>4, Multiples
<1>6. OffsetRanges = {BatchRange(off, IF off + BatchSize > n THEN n - off ELSE BatchSize) :
                         off \in {Off(i) : i \in 0..last}}
  BY <1>1 DEF OffsetRanges
<1>7. /\ \A r \in OffsetRanges : \E i \in 0..last : r = BatchRange(Off(i), Lim(i))
      /\ \A i \in 0..last : BatchRange(Off(i), Lim(i)) \in OffsetRanges
  BY <1>6
<1> HIDE DEF last
<1>8. ASSUME NEW i \in 0..last PROVE i \in Nat /\ Off(i) \in Nat /\ Off(i) <= n - 1
  <2>1. i \in Nat /\ i * BatchSize \in Nat /\ (i = last \/ i < last)
    BY <1>3, <1>5
  <2>2. i < last => i * BatchSize + BatchSize <= last * BatchSize
    BY <1>3, <1>5, <2>1, ProductsGrow
  <2>3. last * BatchSize \in Nat
    BY <1>3, <1>5
  <2>4. i * BatchSize <= last * BatchSize
    BY <1>3, <2>1, <2>2, <2>3
  <2> QED
    BY <1>2, <1>5, <2>1, <2>3, <2>4
<1>9. ASSUME NEW i \in 0..last PROVE Lim(i) \in Nat /\ Lim(i) <= n
  <2>1. PICK o \in Nat : o = Off(i) /\ o <= n - 1
    BY <1>8
  <2> QED
    BY <2>1, <1>2, <1>3
<1> HIDE DEF Off, Lim
<1>10. ASSUME NEW r \in OffsetRanges
       PROVE  Decoded(r) = r /\ r # NoRange /\ r.low \in Nat /\ r.high \in Nat
  <2>1. PICK i \in 0..last : r = BatchRange(Off(i), Lim(i))
    BY <1>7
  <2>2. /\ r.low \in Nat /\ r.low <= n /\ r.high \in Nat /\ r.high <= n
        /\ r = [low |-> r.low, high |-> r.high]
    BY <2>1, <1>2, <1>8, <1>9 DEF BatchRange
  <2>3. r.low \in (-MaxExact)..MaxExact /\ r.high \in (-MaxExact)..MaxExact
    BY <2>2, <1>2, <1>3
  <2>4. Decoded(r) = r
    BY <2>2, <2>3 DEF Decoded, ThroughJSON, BatchRange
  <2>6. r \in [low : Int, high : Int]
    BY <2>2
  <2> QED
    BY <2>2, <2>4, <2>6, NoRangeAssumption
<1>11. ASSUME NEW i \in 0..last, NEW p \in Nat, p < n
       PROVE  Off(i) <= p /\ p < Off(i) + Lim(i) <=> i = p \div BatchSize
  <2>1. PICK o \in Nat : o = Off(i) /\ o = i * BatchSize
    BY <1>8 DEF Off
  <2>2. o <= p /\ p < o + Lim(i) <=> o <= p /\ p < o + BatchSize
    BY <2>1, <1>2, <1>3, <1>11 DEF Lim
  <2>3. o <= p /\ p < o + BatchSize <=> i = p \div BatchSize
    BY <2>1, <1>3, <1>8, Multiples
  <2> QED
    BY <2>1, <2>2, <2>3
<1>12. ASSUME NEW p \in Nat, p < n PROVE p \div BatchSize \in 0..last
  <2>1. PICK q \in Nat : q = p \div BatchSize
    BY <1>3, Multiples
  <2>2. q * BatchSize <= p /\ q * BatchSize \in Nat
    BY <2>1, <1>3, Multiples
  <2>3. ~(last < q)
    <3> SUFFICES ASSUME last < q PROVE FALSE
      OBVIOUS
    <3>1. last * BatchSize + BatchSize <= q * BatchSize
      BY <1>3, <1>5, ProductsGrow
    <3>2. last * BatchSize \in Nat
      BY <1>3, <1>5
    <3> QED
      BY ONLY <1>2, <1>3, <1>5, <1>12, <2>2, <3>1, <3>2
  <2> QED
    BY <1>5, <2>1, <2>3
<1>13. ASSUME NEW k \in table.rows PROVE \E r \in OffsetRanges : Takes(r, k)
  <2>1. PICK p \in Nat : p = Position(k) /\ p < n
    BY <1>2
  <2>2. PICK i \in 0..last : i = p \div BatchSize
    BY <2>1, <1>12
  <2>3. Off(i) <= p /\ p < Off(i) + Lim(i)
    BY <2>1, <2>2, <1>11
  <2>4. Takes(BatchRange(Off(i), Lim(i)), k)
    BY <2>1, <2>3 DEF Takes, BatchRange
  <2> QED
    BY <2>4, <1>7
<1>14. ASSUME NEW k \in table.rows, NEW r \in OffsetRanges, NEW q \in OffsetRanges,
              Takes(r, k), Takes(q, k)
       PROVE  r = q
  <2>1. PICK p \in Nat : p = Position(k) /\ p < n
    BY <1>2
  <2>2. PICK i \in 0..last : r = BatchRange(Off(i), Lim(i))
    BY <1>7
  <2>3. PICK j \in 0..last : q = BatchRange(Off(j), Lim(j))
    BY <1>7
  <2>4. i = p \div BatchSize
    BY <1>11, <1>14, <2>1, <2>2 DEF Takes, BatchRange
  <2>5. j = p \div BatchSize
    BY <1>11, <1>14, <2>1, <2>3 DEF Takes, BatchRange
  <2> QED
    BY <2>2, <2>3, <2>4, <2>5
<1> QED
  BY <1>10, <1>13, <1>14

OffsetTypeOK ==
    /\ status \in [Jobs -> Q!Statuses]
    /\ attempts \in [Jobs -> Nat]
    /\ held \in [Workers -> Jobs \cup {NoJob}]
    /\ pc \in [Workers -> Pcs]
    /\ target \in [Keys -> Nat]

\* The plan is the fallback's from the start, there is no loop; nothing is
\* copied before the jobs are there.
OffsetPlan ==
    /\ phase \in {"start", "enqueue", "copying"}
    /\ phase # "start" => ranges = OffsetRanges
    /\ phase # "copying" => \A k \in table.rows : target[k] = 0

\* A worker is on a job that was inserted and claimed.
WorkersClaimed ==
    \A w \in Workers : /\ held[w] = NoJob <=> pc[w] = "idle"
                       /\ held[w] # NoJob => status[held[w]] # "none" /\ attempts[held[w]] > 0

OwnRow(k, j) == range[j] # NoRange /\ Takes(range[j], k)

\* Copied rows are there, unless the last stream was cut, and once if there is a
\* key.
RowsArrive ==
    /\ \A j \in Jobs, k \in table.rows :
          OwnRow(k, j) /\ status[j] = "succeeded" => target[k] >= 1 \/ j \in cut
    /\ \A w \in Workers, k \in table.rows :
          held[w] # NoJob /\ OwnRow(k, held[w]) /\ pc[w] = "succeed" => target[k] >= 1 \/ held[w] \in cut
    /\ table.kind # "none" => \A k \in table.rows : target[k] <= 1

\* The first execution of a batch finds its rows missing, and it is the only
\* one as long as the job has been claimed once.
FirstAttempts ==
    \A j \in Jobs :
        /\ attempts[j] = 0 => \A k \in table.rows : OwnRow(k, j) => target[k] = 0
        /\ attempts[j] = 1 =>
              /\ \A k \in table.rows : OwnRow(k, j) => target[k] <= 1
              /\ \A w \in Workers, k \in table.rows :
                    held[w] = j /\ pc[w] \in {"delete", "copy"} /\ OwnRow(k, j) => target[k] = 0
              /\ \A v, w \in Workers : held[v] = j /\ held[w] = j => v = w

OffsetInv ==
    /\ table \in Tables
    /\ ByOffset => /\ OffsetTypeOK /\ OffsetPlan /\ OneJobPerRange /\ WorkersClaimed
                   /\ RowsArrive /\ FirstAttempts

\* No row lies in the ranges of two jobs.
LEMMA RowHasOneJob ==
    ASSUME PlainOffsets, OffsetInv, ByOffset,
           NEW i \in Jobs, NEW j \in Jobs, NEW k \in table.rows, OwnRow(k, i), OwnRow(k, j)
    PROVE  i = j
<1>1. phase = "copying" /\ range[i] \in ranges /\ range[j] \in ranges
  BY DEF OffsetInv, OneJobPerRange, OwnRow
<1>2. ranges = OffsetRanges
  BY <1>1 DEF OffsetInv, OffsetPlan
<1>3. range[i] = range[j]
  BY <1>1, <1>2, OffsetsPartition DEF OffsetInv, ByOffset, OwnRow
<1> QED
  BY <1>3 DEF OffsetInv, OneJobPerRange, OwnRow

\* Statements that leave the target alone: jobs that are claimed anew have no
\* attempt left that could be taken for a first one, and success is reported
\* of rows that are there.
LEMMA QueueStepKeepsOffsets ==
    ASSUME OffsetInv, ByOffset,
           UNCHANGED <<table, planVars, copyVars>>,
           OffsetTypeOK', WorkersClaimed',
           \A j \in Jobs : status'[j] = "none" <=> status[j] = "none",
           \A j \in Jobs, k \in table.rows : OwnRow(k, j) /\ status'[j] = "succeeded" => target[k] >= 1 \/ j \in cut,
           \A w \in Workers : held'[w] = NoJob \/ pc'[w] # "succeed"
                              \/ (pc[w] = "succeed" /\ held'[w] = held[w]),
           FirstAttempts'
    PROVE  OffsetInv'
<1> USE DEF planVars, copyVars
<1>1. OffsetPlan /\ OneJobPerRange /\ RowsArrive
  BY DEF OffsetInv
<1>2. OffsetPlan'
  BY <1>1 DEF OffsetPlan, OffsetRanges
<1>3. OneJobPerRange'
  BY <1>1 DEF OneJobPerRange
<1>4. \A k, j : OwnRow(k, j)' <=> OwnRow(k, j)
  BY DEF OwnRow, Takes, Position
<1>5. ASSUME NEW w \in Workers, NEW k \in table'.rows, held'[w] # NoJob, OwnRow(k, held[w])',
             pc'[w] = "succeed"
      PROVE  target'[k] >= 1 \/ held'[w] \in cut'
  <2>1. held'[w] = held[w] /\ pc[w] = "succeed"
    BY <1>5
  <2>2. OwnRow(k, held[w])
    BY <1>5, <2>1 DEF OwnRow, Takes, Position
  <2> QED
    BY <1>1, <1>5, <2>1, <2>2 DEF RowsArrive
<1>6. \A j \in Jobs, k \in table'.rows : OwnRow(k, j)' /\ status'[j] = "succeeded" => target'[k] >= 1 \/ j \in cut'
  BY <1>4
<1>7. table'.kind # "none" => \A k \in table'.rows : target'[k] <= 1
  BY <1>1 DEF RowsArrive
<1>8. RowsArrive'
  BY <1>5, <1>6, <1>7 DEF RowsArrive
<1> QED
  BY <1>2, <1>3, <1>8 DEF OffsetInv

\* The rest of the invariant stays when no attempt is used up and no worker
\* gets a job: workers go on to their report, or lose their job.
LEMMA AttemptsStay ==
    ASSUME OffsetInv, ByOffset, UNCHANGED <<table, planVars, copyVars, attempts>>,
           \A w \in Workers : held'[w] = held[w] \/ held'[w] = NoJob,
           \A w \in Workers : held'[w] = NoJob \/ pc'[w] \notin {"delete", "copy"}
                              \/ pc[w] \in {"delete", "copy"}
    PROVE  FirstAttempts'
<1> USE DEF planVars, copyVars
<1>1. FirstAttempts
  BY DEF OffsetInv
<1>2. \A k, j : OwnRow(k, j)' <=> OwnRow(k, j)
  BY DEF OwnRow, Takes, Position
<1>3. ASSUME NEW j \in Jobs, attempts'[j] = 0, NEW k \in table'.rows, OwnRow(k, j)'
      PROVE  target'[k] = 0
  BY <1>1, <1>2, <1>3 DEF FirstAttempts
<1>4. ASSUME NEW j \in Jobs, attempts'[j] = 1
      PROVE  /\ \A k \in table'.rows : OwnRow(k, j)' => target'[k] <= 1
             /\ \A v, w \in Workers : held'[v] = j /\ held'[w] = j => v = w
  <2>1. j # NoJob
    BY QueueAssumption
  <2> QED
    BY <1>1, <1>2, <1>4, <2>1 DEF FirstAttempts
<1>5. ASSUME NEW j \in Jobs, attempts'[j] = 1, NEW w \in Workers, NEW k \in table'.rows,
             held'[w] = j, pc'[w] \in {"delete", "copy"}, OwnRow(k, j)'
      PROVE  target'[k] = 0
  <2>1. held[w] = j /\ pc[w] \in {"delete", "copy"} /\ OwnRow(k, j)
    BY <1>2, <1>5, QueueAssumption
  <2> QED
    BY <1>1, <1>5, <2>1 DEF FirstAttempts
<1> QED
  BY <1>3, <1>4, <1>5 DEF FirstAttempts

\* A claim of a job that was never claimed is the first; any other is not.
LEMMA ClaimKeepsOffsets ==
    ASSUME OffsetInv, ByOffset, NEW w \in Workers, NEW j \in Jobs, ClaimBatch(w, j)
    PROVE  OffsetInv'
<1> USE QueueAssumption DEF copyVars
<1>0. OffsetTypeOK /\ WorkersClaimed /\ RowsArrive /\ FirstAttempts
  BY DEF OffsetInv
<1>1. /\ held[w] = NoJob /\ status[j] = "pending"
      /\ status' = [status EXCEPT ![j] = "running"]
      /\ attempts' = [attempts EXCEPT ![j] = attempts[j] + 1]
      /\ held' = [held EXCEPT ![w] = j] /\ pc' = [pc EXCEPT ![w] = "delete"]
      /\ UNCHANGED <<table, planVars, copyVars>>
  BY <1>0 DEF ClaimBatch, Q!Claim, GoTo, OffsetTypeOK
<1>2. OffsetTypeOK'
  BY <1>0, <1>1 DEF OffsetTypeOK, Q!Statuses, Pcs
<1>3. /\ \A i \in Jobs \ {j} : status'[i] = status[i] /\ attempts'[i] = attempts[i]
      /\ status'[j] = "running" /\ attempts'[j] = attempts[j] + 1 /\ attempts[j] \in Nat
      /\ \A v \in Workers \ {w} : held'[v] = held[v] /\ pc'[v] = pc[v]
      /\ held'[w] = j /\ pc'[w] = "delete"
      /\ \A v \in Workers : held[v] # NoJob => held[v] \in Jobs
      /\ \A i \in Jobs : attempts[i] \in Nat
  BY <1>0, <1>1 DEF OffsetTypeOK
<1>4. WorkersClaimed'
  BY <1>0, <1>3 DEF WorkersClaimed
<1>5. \A k, i : OwnRow(k, i)' <=> OwnRow(k, i)
  BY <1>1 DEF OwnRow, Takes, Position, planVars
<1>6. FirstAttempts'
  <2>1. ASSUME NEW i \in Jobs, i # j
        PROVE  /\ attempts'[i] = 0 => \A k \in table'.rows : OwnRow(k, i)' => target'[k] = 0
               /\ attempts'[i] = 1 =>
                     /\ \A k \in table'.rows : OwnRow(k, i)' => target'[k] <= 1
                     /\ \A v \in Workers, k \in table'.rows :
                           held'[v] = i /\ pc'[v] \in {"delete", "copy"} /\ OwnRow(k, i)' => target'[k] = 0
                     /\ \A u, v \in Workers : held'[u] = i /\ held'[v] = i => u = v
    BY <1>0, <1>1, <1>3, <1>5, <2>1 DEF FirstAttempts
  <2>2. attempts'[j] # 0
    BY <1>3
  <2>3. ASSUME attempts'[j] = 1
        PROVE  /\ \A k \in table'.rows : OwnRow(k, j)' => target'[k] = 0
               /\ \A v \in Workers : held'[v] = j => v = w
    <3>1. attempts[j] = 0
      BY <1>3, <2>3
    <3>2. \A v \in Workers : held[v] # j
      BY <1>0, <1>3, <3>1 DEF WorkersClaimed
    <3>3. \A k \in table.rows : OwnRow(k, j) => target[k] = 0
      BY <1>0, <3>1 DEF FirstAttempts
    <3> QED
      BY <1>1, <1>3, <1>5, <3>2, <3>3
  <2>4. \A k \in table'.rows : target'[k] = 0 => target'[k] <= 1
    OBVIOUS
  <2> QED
    BY <2>1, <2>2, <2>3, <2>4 DEF FirstAttempts
<1>7. \A i \in Jobs : status'[i] = "none" <=> status[i] = "none"
  BY <1>1, <1>3
<1>8. \A i \in Jobs, k \in table.rows : OwnRow(k, i) /\ status'[i] = "succeeded" => target[k] >= 1 \/ i \in cut
  BY <1>0, <1>3 DEF RowsArrive
<1>9. \A v \in Workers : held'[v] = NoJob \/ pc'[v] # "succeed"
                         \/ (pc[v] = "succeed" /\ held'[v] = held[v])
  BY <1>3
<1> QED
  BY <1>1, <1>2, <1>4, <1>6, <1>7, <1>8, <1>9, QueueStepKeepsOffsets

\* Whoever reports a success has copied.
LEMMA ReportKeepsOffsets ==
    ASSUME OffsetInv, ByOffset, NEW w \in Workers, Report(w)
    PROVE  OffsetInv'
<1> USE QueueAssumption DEF copyVars
<1>0. OffsetTypeOK /\ WorkersClaimed /\ RowsArrive
  BY DEF OffsetInv
<1>1. PICK j : j = held[w]
  OBVIOUS
<1>2. j # NoJob /\ j \in Jobs /\ status[j] # "none"
  BY <1>0, <1>1 DEF Report, Q!Succeed, Q!Fail, OffsetTypeOK, WorkersClaimed
<1>3. /\ held' = [held EXCEPT ![w] = NoJob] /\ pc' = [pc EXCEPT ![w] = "idle"]
      /\ UNCHANGED <<table, planVars, copyVars, attempts>>
      /\ \/ pc[w] = "succeed" /\ status' = [status EXCEPT ![j] = "succeeded"]
         \/ status' = [status EXCEPT ![j] = "pending"]
         \/ status' = [status EXCEPT ![j] = "dead"]
         \/ status' = status
  <2>1. CASE At(w, "succeed") /\ Q!Succeed(w)
    BY <2>1, <1>1 DEF Report, GoTo, At, Q!Succeed
  <2>2. CASE At(w, "fail") /\ Q!Fail(w)
    BY <2>2, <1>1 DEF Report, GoTo, At, Q!Fail, Q!AfterFailure
  <2> QED
    BY <2>1, <2>2 DEF Report
<1>4. OffsetTypeOK'
  BY <1>0, <1>2, <1>3 DEF OffsetTypeOK, Q!Statuses, Pcs
<1>5. /\ \A i \in Jobs \ {j} : status'[i] = status[i]
      /\ status'[j] # "none"
      /\ status'[j] = "succeeded" => pc[w] = "succeed" \/ status[j] = "succeeded"
      /\ \A v \in Workers \ {w} : held'[v] = held[v] /\ pc'[v] = pc[v]
      /\ held'[w] = NoJob /\ pc'[w] = "idle"
      /\ \A v \in Workers : held[v] # NoJob => held[v] \in Jobs
  BY <1>0, <1>2, <1>3 DEF OffsetTypeOK
<1>6. WorkersClaimed'
  BY <1>0, <1>3, <1>5 DEF WorkersClaimed
<1>7. FirstAttempts'
  BY <1>3, <1>5, AttemptsStay
<1>8. \A i \in Jobs : status'[i] = "none" <=> status[i] = "none"
  BY <1>2, <1>5
<1>9. \A i \in Jobs, k \in table.rows : OwnRow(k, i) /\ status'[i] = "succeeded" => target[k] >= 1 \/ i \in cut
  BY <1>0, <1>1, <1>2, <1>5 DEF RowsArrive
<1>10. \A v \in Workers : held'[v] = NoJob \/ pc'[v] # "succeed"
                          \/ (pc[v] = "succeed" /\ held'[v] = held[v])
  BY <1>5
<1> QED
  BY <1>3, <1>4, <1>6, <1>7, <1>8, <1>9, <1>10, QueueStepKeepsOffsets

\* The DELETE of an offset batch deletes nothing; errors, crashes, the
\* supervisor and time do not touch the target.
LEMMA EnvironmentKeepsOffsets ==
    ASSUME OffsetInv, ByOffset,
           \/ \E w \in Workers : DeleteTargetRange(w) \/ CopyError(w)
           \/ RequeueOrphans
           \/ Crash
           \/ \E j \in Jobs : BackoffElapses(j) \/ LockExpires(j)
           \/ Validate \/ UNCHANGED vars
    PROVE  OffsetInv'
<1> USE QueueAssumption DEF copyVars
<1>0. OffsetTypeOK /\ WorkersClaimed /\ RowsArrive
  BY DEF OffsetInv
<1>h. \A v \in Workers : held[v] # NoJob => held[v] \in Jobs
  BY <1>0 DEF OffsetTypeOK
<1>1. ASSUME UNCHANGED <<table, planVars, copyVars, attempts>>, OffsetTypeOK',
             \A j \in Jobs : \/ status'[j] = status[j]
                             \/ status[j] = "running" /\ status'[j] \in {"dead", "pending"},
             \A w \in Workers : \/ held'[w] = held[w] /\ pc'[w] = pc[w]
                                \/ /\ held'[w] = held[w] /\ pc[w] \in {"delete", "copy"}
                                   /\ pc'[w] \in {"copy", "fail"}
                                \/ held'[w] = NoJob /\ pc'[w] = "idle"
      PROVE  OffsetInv'
  <2>1. \A i \in Jobs : status'[i] = "none" <=> status[i] = "none"
    BY <1>1
  <2>2. WorkersClaimed'
    BY <1>0, <1>h, <1>1, <2>1 DEF WorkersClaimed
  <2>3. FirstAttempts'
    BY <1>1, AttemptsStay
  <2>4. \A i \in Jobs, k \in table.rows : OwnRow(k, i) /\ status'[i] = "succeeded" => target[k] >= 1 \/ i \in cut
    BY <1>0, <1>1 DEF RowsArrive
  <2>5. \A v \in Workers : held'[v] = NoJob \/ pc'[v] # "succeed"
                           \/ (pc[v] = "succeed" /\ held'[v] = held[v])
    BY <1>1
  <2> QED
    BY <1>1, <2>1, <2>2, <2>3, <2>4, <2>5, QueueStepKeepsOffsets
<1>2. ASSUME NEW w \in Workers, DeleteTargetRange(w) \/ CopyError(w) PROVE OffsetInv'
  <2>1. RangeKind = "offset"
    BY DEF RangeKind, ByOffset
  <2>2. /\ UNCHANGED <<table, planVars, copyVars, attempts, status, held>>
        /\ pc[w] \in {"delete", "copy"}
        /\ pc' = [pc EXCEPT ![w] = "copy"] \/ pc' = [pc EXCEPT ![w] = "fail"]
    BY <1>2, <2>1 DEF DeleteTargetRange, CopyError, At, GoTo, queueVars, copyVars
  <2>3. OffsetTypeOK' /\ pc'[w] \in {"copy", "fail"} /\ \A v \in Workers \ {w} : pc'[v] = pc[v]
    BY <1>0, <2>2 DEF OffsetTypeOK, Pcs
  <2> QED
    BY <1>1, <2>2, <2>3
<1>3. CASE RequeueOrphans
  <2>1. /\ UNCHANGED <<table, planVars, copyVars, attempts, held, pc>>
        /\ status' = [j \in Jobs |-> IF j \in Q!Orphans THEN Q!AfterFailure(j) ELSE status[j]]
    BY <1>3 DEF RequeueOrphans, Q!RequeueOrphans
  <2>2. \A j : Q!AfterFailure(j) \in {"dead", "pending"}
    BY DEF Q!AfterFailure
  <2>3. OffsetTypeOK'
    BY <1>0, <2>1, <2>2 DEF OffsetTypeOK, Q!Statuses
  <2>4. \A j \in Jobs : \/ status'[j] = status[j]
                        \/ status[j] = "running" /\ status'[j] \in {"dead", "pending"}
    BY <2>1, <2>2 DEF Q!Orphans
  <2> QED
    BY <1>1, <2>1, <2>3, <2>4
<1>4. CASE Crash
  <2>1. /\ \A w \in Workers : held'[w] = NoJob /\ pc'[w] = "idle"
        /\ held' \in [Workers -> Jobs \cup {NoJob}] /\ pc' \in [Workers -> Pcs]
        /\ UNCHANGED <<status, attempts, table, planVars, copyVars>>
    BY <1>4 DEF Crash, Q!Abandon, Q!rows, Pcs
  <2>2. OffsetTypeOK'
    BY <1>0, <2>1 DEF OffsetTypeOK
  <2> QED
    BY <1>1, <2>1, <2>2
<1>5. ASSUME UNCHANGED <<status, attempts, held, pc, table, planVars, copyVars>> PROVE OffsetInv'
  <2>1. OffsetTypeOK'
    BY <1>0, <1>5 DEF OffsetTypeOK
  <2> QED
    BY <1>1, <1>5, <2>1
<1>6. ASSUME NEW j \in Jobs, BackoffElapses(j) \/ LockExpires(j) PROVE OffsetInv'
  BY <1>5, <1>6 DEF BackoffElapses, Q!BackoffElapses, LockExpires, Q!LockExpires
<1>7. CASE Validate \/ UNCHANGED vars
  BY <1>5, <1>7 DEF Validate, vars, queueVars
<1> QED
  BY <1>2, <1>3, <1>4, <1>6, <1>7

\* A batch selects the rows whose positions its range takes.
LEMMA OffsetSelection ==
    ASSUME PlainOffsets, ByOffset, NEW scan \in Scans, NEW r
    PROVE  Selected(r, scan) = {k \in table.rows : Takes(r, k)}
<1>1. scan = [k \in table.rows |-> Position(k)]
  BY DEF PlainOffsets, Scans, Position
<1>2. RangeKind = "offset"
  BY DEF ByOffset, RangeKind
<1>3. Offset(OffsetArgs(r)) = r.low /\ Limit(OffsetArgs(r)) = r.high
  BY DEF PlainOffsets, Offset, Limit, OffsetArgs
<1> QED
  BY <1>1, <1>2, <1>3 DEF Selected, Takes

\* The COPY adds the rows of the batch, or some of them if its stream is cut,
\* unless one of them is there and the target has a key; no other batch has them.
LEMMA CopyKeepsOffsets ==
    ASSUME PlainOffsets, OffsetInv, ByOffset, NEW w \in Workers, CopyRange(w) \/ CutShort(w)
    PROVE  OffsetInv'
<1> USE QueueAssumption DEF copyVars
<1>0. OffsetTypeOK /\ OffsetPlan /\ OneJobPerRange /\ WorkersClaimed /\ RowsArrive /\ FirstAttempts
  BY DEF OffsetInv
<1>1. PICK j : j = held[w]
  OBVIOUS
<1>2. /\ pc[w] = "copy" /\ held[w] = j /\ j \in Jobs
      /\ attempts[j] > 0 /\ status[j] # "none" /\ range[j] # NoRange
  BY <1>0, <1>1 DEF CopyRange, CutShort, At, OffsetTypeOK, WorkersClaimed, OneJobPerRange
<1> DEFINE own == {k \in table.rows : OwnRow(k, j)}
<1>3. \E rows \in SUBSET own, newCut \in {cut \ {j}, cut \cup {j}} :
         CopyFrom(w, rows, newCut) /\ (rows = own \/ newCut = cut \cup {j})
  <2>0. \A scan \in Scans : Selected(range[held[w]], scan) = own
    BY <1>2, OffsetSelection DEF OwnRow
  <2>1. CASE CopyRange(w)
    BY <1>2, <2>0, <2>1 DEF CopyRange
  <2>2. CASE CutShort(w)
    <3>0. PICK scan \in Scans : \E next \in Selected(range[held[w]], scan) :
             CopyFrom(w, {k \in Selected(range[held[w]], scan) : scan[k] < scan[next]},
                      cut \cup {held[w]})
      BY <2>2 DEF CutShort
    <3>1. PICK next \in Selected(range[held[w]], scan) :
             CopyFrom(w, {k \in Selected(range[held[w]], scan) : scan[k] < scan[next]},
                      cut \cup {held[w]})
      BY <3>0
    <3>2. {k \in Selected(range[held[w]], scan) : scan[k] < scan[next]} \in SUBSET own
      BY <2>0
    <3> QED
      BY <1>2, <3>1, <3>2
  <2> QED
    BY <2>1, <2>2
<1>4. PICK rows \in SUBSET own, newCut \in {cut \ {j}, cut \cup {j}} :
         CopyFrom(w, rows, newCut) /\ (rows = own \/ newCut = cut \cup {j})
  BY <1>3
<1>5. UNCHANGED <<queueVars, table, planVars>>
  BY DEF CopyRange, CutShort
<1>6. phase = "copying" /\ table.rows \subseteq Keys
  BY <1>0, <1>2, RowsAreKeys DEF OneJobPerRange, OffsetInv
<1>7. \A k, i : OwnRow(k, i)' <=> OwnRow(k, i)
  BY <1>5 DEF OwnRow, Takes, Position, planVars
<1>8. OffsetPlan' /\ OneJobPerRange'
  BY <1>0, <1>5, <1>6 DEF OffsetPlan, OffsetRanges, OneJobPerRange, planVars, queueVars
<1>9. CASE Conflict(rows)
  <2>1. pc' = [pc EXCEPT ![w] = "fail"] /\ target' = target /\ cut' = cut
    BY <1>4, <1>9 DEF CopyFrom, GoTo, copyVars
  <2>2. pc'[w] = "fail" /\ \A v \in Workers \ {w} : pc'[v] = pc[v]
    BY <1>0, <2>1 DEF OffsetTypeOK
  <2>3. OffsetTypeOK' /\ WorkersClaimed'
    BY <1>0, <1>2, <1>5, <2>1, <2>2 DEF OffsetTypeOK, WorkersClaimed, Pcs, queueVars
  <2>4. FirstAttempts'
    BY <1>2, <1>5, <2>1, <2>2, AttemptsStay DEF queueVars, copyVars
  <2> QED
    BY <1>0, <1>5, <2>1, <2>2, <2>3, <2>4, QueueStepKeepsOffsets DEF queueVars, copyVars, RowsArrive
<1>10. CASE ~Conflict(rows)
  <2>1. /\ pc' = [pc EXCEPT ![w] = "succeed"] /\ cut' = newCut
        /\ target' = [k \in Keys |-> IF k \in rows THEN target[k] + 1 ELSE target[k]]
    BY <1>4, <1>10 DEF CopyFrom, GoTo
  <2>2. pc'[w] = "succeed" /\ \A v \in Workers \ {w} : pc'[v] = pc[v]
    BY <1>0, <2>1 DEF OffsetTypeOK
  <2>3. target \in [Keys -> Nat]
    BY <1>0 DEF OffsetTypeOK
  <2>a. rows \subseteq own /\ (rows = own \/ j \in cut')
    BY <1>4, <2>1
  <2>4. /\ \A k \in rows : target'[k] = target[k] + 1
        /\ \A k \in table.rows : k \notin rows => target'[k] = target[k]
        /\ \A k \in table.rows : ~OwnRow(k, j) => target'[k] = target[k]
        /\ \A k \in table.rows : OwnRow(k, j) => k \in rows \/ j \in cut'
        /\ \A k \in table.rows : target[k] \in Nat
        /\ \A i \in Jobs : i # j /\ i \in cut => i \in cut'
    BY <1>6, <2>1, <2>3, <2>a
  <2>5. table.kind # "none" => \A k \in rows : target[k] = 0
    BY <1>6, <1>10, <2>4, <2>a DEF Conflict
  <2>6. \A i \in Jobs, k \in table.rows : OwnRow(k, i) /\ i # j => ~OwnRow(k, j)
    BY <1>2, RowHasOneJob
  <2> HIDE DEF own
  <2>7. target' \in [Keys -> Nat]
    BY ONLY <2>1, <2>3
  <2>8. OffsetTypeOK' /\ WorkersClaimed'
    BY <1>0, <1>2, <1>5, <2>1, <2>2, <2>7 DEF OffsetTypeOK, WorkersClaimed, Pcs, queueVars
  <2>9. RowsArrive'
    <3>1. \A k \in table.rows : target'[k] >= target[k]
      BY <2>4
    <3>a. ASSUME NEW i \in Jobs, NEW k \in table.rows, OwnRow(k, i), target[k] >= 1 \/ i \in cut
          PROVE  target'[k] >= 1 \/ i \in cut'
      <4>1. CASE i = j
        BY <2>4, <3>a, <4>1
      <4>2. CASE i # j
        BY <2>4, <3>1, <3>a, <4>2
      <4> QED
        BY <4>1, <4>2
    <3>2. \A i \in Jobs, k \in table.rows :
             OwnRow(k, i) /\ status[i] = "succeeded" => target'[k] >= 1 \/ i \in cut'
      BY <1>0, <3>a DEF RowsArrive
    <3>3. ASSUME NEW v \in Workers, NEW k \in table.rows, held[v] # NoJob, OwnRow(k, held[v]),
                 pc'[v] = "succeed"
          PROVE  target'[k] >= 1 \/ held[v] \in cut'
      <4>1. CASE v = w
        BY <1>2, <2>4, <3>3, <4>1
      <4>2. CASE v # w
        <5>1. held[v] \in Jobs /\ (target[k] >= 1 \/ held[v] \in cut)
          BY <1>0, <2>2, <3>3, <4>2 DEF RowsArrive, OffsetTypeOK
        <5> QED
          BY <3>3, <3>a, <5>1
      <4> QED
        BY <4>1, <4>2
    <3>4. table.kind # "none" => \A k \in table.rows : target'[k] <= 1
      <4>1. \A k \in table.rows : target'[k] = target[k] \/ (k \in rows /\ target'[k] = target[k] + 1)
        BY <2>4
      <4> QED
        BY <1>0, <2>5, <4>1 DEF RowsArrive
    <3>5. UNCHANGED <<held, status, table, range>>
      BY <1>5 DEF queueVars, planVars
    <3>6. \A i \in Jobs, k \in table'.rows : OwnRow(k, i)' /\ status'[i] = "succeeded" => target'[k] >= 1 \/ i \in cut'
      BY <1>7, <3>2, <3>5
    <3>7. \A v \in Workers, k \in table'.rows :
             held'[v] # NoJob /\ OwnRow(k, held[v])' /\ pc'[v] = "succeed" => target'[k] >= 1 \/ held'[v] \in cut'
      BY <3>3, <3>5 DEF OwnRow, Takes, Position
    <3> QED
      BY <3>4, <3>5, <3>6, <3>7 DEF RowsArrive
  <2>10. FirstAttempts'
    <3>1. UNCHANGED <<held, attempts, table, range>>
      BY <1>5 DEF queueVars, planVars
    <3>2. ASSUME NEW i \in Jobs, i # j, NEW k \in table.rows, OwnRow(k, i) PROVE target'[k] = target[k]
      BY <2>4, <2>6, <3>2
    <3>3. attempts[j] = 1 =>
             /\ \A k \in table.rows : OwnRow(k, j) => target[k] = 0
             /\ \A v \in Workers : held[v] = j => v = w
      BY <1>0, <1>2 DEF FirstAttempts
    <3>4. ASSUME NEW i \in Jobs, attempts[i] = 0, NEW k \in table.rows, OwnRow(k, i)
          PROVE  target'[k] = 0
      BY <1>0, <1>2, <3>2, <3>4 DEF FirstAttempts
    <3>5. ASSUME NEW i \in Jobs, attempts[i] = 1
          PROVE  /\ \A k \in table.rows : OwnRow(k, i) => target'[k] <= 1
                 /\ \A v \in Workers, k \in table.rows :
                       held[v] = i /\ pc'[v] \in {"delete", "copy"} /\ OwnRow(k, i) => target'[k] = 0
                 /\ \A u, v \in Workers : held[u] = i /\ held[v] = i => u = v
      <4>1. CASE i = j
        <5>1. \A k \in table.rows : OwnRow(k, j) => target'[k] <= 1
          BY <2>4, <3>3, <3>5, <4>1
        <5> QED
          BY <1>0, <2>2, <3>3, <3>5, <4>1, <5>1
      <4>2. CASE i # j
        BY <1>0, <1>2, <2>2, <3>2, <3>5, <4>2 DEF FirstAttempts
      <4> QED
        BY <4>1, <4>2
    <3> QED
      BY <1>7, <3>1, <3>4, <3>5 DEF FirstAttempts
  <2> QED
    BY <1>5, <1>6, <1>8, <2>8, <2>9, <2>10 DEF OffsetInv
<1> QED
  BY <1>9, <1>10

\* The fallback's ranges, and their transaction.
LEMMA PlanKeepsOffsets ==
    ASSUME PlainOffsets, OffsetInv, ByOffset, Plan
    PROVE  OffsetInv'
<1> USE QueueAssumption DEF copyVars
<1>0. /\ OffsetTypeOK /\ OffsetPlan /\ OneJobPerRange /\ WorkersClaimed /\ RowsArrive /\ FirstAttempts
      /\ table \in Tables /\ table.rows # {}
  BY DEF OffsetInv, ByOffset
<1>1. phase # "copying"
  BY DEF Plan, Partition, NumericRange, EnqueueBatches
<1>2. /\ \A j \in Jobs : range[j] = NoRange /\ status[j] = "none"
      /\ \A w \in Workers : held[w] = NoJob /\ pc[w] = "idle"
      /\ \A k \in table.rows : target[k] = 0
  BY <1>0, <1>1 DEF OneJobPerRange, WorkersClaimed, OffsetTypeOK, OffsetPlan
<1>3. CASE Partition
  <2>1. /\ phase' = "enqueue" /\ ranges' = OffsetRanges
        /\ UNCHANGED <<queueVars, table, range, target, cut, pc>>
    BY <1>0, <1>3 DEF Partition, RangeKind, ByOffset, copyVars
  <2>2. OffsetRanges' = OffsetRanges
    BY <2>1 DEF OffsetRanges
  <2>3. OffsetPlan' /\ OneJobPerRange'
    BY <1>2, <2>1, <2>2 DEF OffsetPlan, OneJobPerRange, queueVars
  <2>4. OffsetTypeOK' /\ WorkersClaimed'
    BY <1>0, <2>1 DEF OffsetTypeOK, WorkersClaimed, queueVars
  <2>5. RowsArrive' /\ FirstAttempts'
    BY <1>2, <2>1 DEF RowsArrive, FirstAttempts, OwnRow, queueVars
  <2> QED
    BY <1>0, <2>1, <2>3, <2>4, <2>5 DEF OffsetInv
<1>4. CASE EnqueueBatches
  <2> DEFINE id == CHOOSE f \in Namings : TRUE
             new == {id[r] : r \in ranges}
             rangeOf(j) == CHOOSE r \in ranges : id[r] = j
  <2>1. /\ Namings # {} /\ phase = "enqueue" /\ phase' = "copying"
        /\ UNCHANGED <<held, table, ranges, target, cut, pc>>
        /\ status' = [j \in Jobs |-> IF j \in new THEN "pending" ELSE status[j]]
        /\ attempts' = [j \in Jobs |-> IF j \in new THEN 0 ELSE attempts[j]]
        /\ range' = [j \in Jobs |-> IF j \in new THEN Decoded(rangeOf(j)) ELSE NoRange]
    BY <1>4 DEF EnqueueBatches, Q!Enqueue, copyVars
  <2>2. id \in Namings
    BY <2>1
  <2>3. id \in [ranges -> Jobs] /\ \A a, b \in ranges : id[a] = id[b] => a = b
    BY <2>2 DEF Namings
  <2> HIDE DEF id
  <2>4. ranges = OffsetRanges /\ ranges' = OffsetRanges'
    BY <1>0, <2>1 DEF OffsetPlan, OffsetRanges
  <2>5. \A r \in ranges : Decoded(r) = r /\ r # NoRange
    BY <1>0, <2>4, OffsetsPartition
  <2>6. \A r \in ranges : id[r] \in Jobs /\ id[r] \in new /\ rangeOf(id[r]) = r
    BY <2>3
  <2>7. \A j \in new : j \in Jobs /\ rangeOf(j) \in ranges /\ id[rangeOf(j)] = j
    BY <2>3
  <2> HIDE DEF new, rangeOf
  <2>8. /\ \A j \in new : range'[j] = rangeOf(j)
        /\ \A j \in Jobs \ new : range'[j] = NoRange
    BY <2>1, <2>5, <2>7
  <2>9. /\ \A j \in new : status'[j] = "pending" /\ attempts'[j] = 0
        /\ \A j \in Jobs \ new : status'[j] = "none"
        /\ status' \in [Jobs -> Q!Statuses]
    BY <2>1, <2>7, <1>2 DEF Q!Statuses
  <2>10. OneJobPerRange'
    BY <2>1, <2>5, <2>6, <2>7, <2>8, <2>9 DEF OneJobPerRange
  <2>11. attempts' \in [Jobs -> Nat]
    BY <1>0, <2>1 DEF OffsetTypeOK
  <2>12. OffsetTypeOK' /\ WorkersClaimed'
    BY <1>0, <1>2, <2>1, <2>9, <2>11 DEF OffsetTypeOK, WorkersClaimed
  <2>13. OffsetPlan'
    BY <2>1, <2>4 DEF OffsetPlan
  <2>14. RowsArrive' /\ FirstAttempts'
    BY <1>2, <2>1, <2>9 DEF RowsArrive, FirstAttempts
  <2> QED
    BY <1>0, <2>1, <2>10, <2>12, <2>13, <2>14 DEF OffsetInv
<1>5. ~NumericRange
  BY <1>0 DEF NumericRange, OffsetPlan
<1> QED
  BY <1>3, <1>4, <1>5 DEF Plan

\* The invariant holds in every reachable state.
LEMMA OffsetInvariant == ASSUME PlainOffsets PROVE Spec => []OffsetInv
<1>1. Init => OffsetInv
  <2> SUFFICES ASSUME Init PROVE OffsetInv
    OBVIOUS
  <2>1. OffsetTypeOK
    BY DEF Init, Q!Init, OffsetTypeOK, Q!Statuses, Pcs
  <2>2. table \in Tables /\ table.rows \subseteq Keys
    BY RowsAreKeys DEF Init
  <2>3. OneJobPerRange /\ WorkersClaimed
    BY QueueAssumption DEF Init, Q!Init, OneJobPerRange, WorkersClaimed
  <2>4. OffsetPlan /\ RowsArrive /\ FirstAttempts
    BY QueueAssumption, <2>2 DEF Init, Q!Init, OffsetPlan, RowsArrive, FirstAttempts, OwnRow
  <2> QED
    BY <2>1, <2>2, <2>3, <2>4 DEF OffsetInv
<1>2. OffsetInv /\ [Next]_vars => OffsetInv'
  <2> SUFFICES ASSUME OffsetInv, [Next]_vars PROVE OffsetInv'
    OBVIOUS
  <2>1. CASE ByOffset
    BY <2>1, PlanKeepsOffsets, ClaimKeepsOffsets, CopyKeepsOffsets, ReportKeepsOffsets,
       EnvironmentKeepsOffsets
    DEF Next, Copy
  <2>2. CASE ~ByOffset
    <3>1. UNCHANGED table
      BY DEF Next, Plan, Partition, NumericRange, EnqueueBatches, ClaimBatch, Copy, DeleteTargetRange,
             CopyRange, CutShort, CopyError, Report, Validate, RequeueOrphans, Crash, BackoffElapses,
             LockExpires, vars
    <3> QED
      BY <2>2, <3>1 DEF OffsetInv, ByOffset
  <2> QED
    BY <2>1, <2>2
<1> QED
  BY <1>1, <1>2, PTL DEF Spec

\* When the last batch of a table without a numeric key is reported as copied,
\* the target holds every row of the source, except those of a batch whose last
\* stream was cut, and holds it at most once if the table has a primary key or
\* every batch was executed once.  Batches may outlive the orphan TTL, be worked
\* on twice at once, and be executed again: COPY against the key decides.
THEOREM OffsetsCopied ==
    ASSUME PlainOffsets
    PROVE  Spec => [](table.kind # "numeric" => ExactCopy)
<1>1. OffsetInv => (table.kind # "numeric" => ExactCopy)
  <2> SUFFICES ASSUME OffsetInv, table.kind # "numeric", Copied, NEW k \in table.rows
               PROVE  /\ \/ target[k] >= 1
                         \/ \E j \in cut, scan \in Scans : k \in Selected(range[j], scan)
                      /\ table.kind # "none" \/ (\A j \in Batches : attempts[j] = 1) => target[k] <= 1
    BY DEF ExactCopy
  <2>1. ByOffset /\ phase = "copying" /\ \A j \in Batches : status[j] = "succeeded"
    BY DEF Copied, ByOffset
  <2>2. table \in Tables /\ ranges = OffsetRanges /\ table.rows \subseteq Keys
    BY <2>1, RowsAreKeys DEF OffsetInv, OffsetPlan
  <2>3. PICK r \in ranges : Takes(r, k)
    BY <2>1, <2>2, OffsetsPartition DEF ByOffset
  <2>4. r # NoRange
    BY <2>1, <2>2, OffsetsPartition DEF ByOffset
  <2>5. PICK j \in Jobs : range[j] = r
    BY <2>1 DEF OffsetInv, OneJobPerRange
  <2>6. OwnRow(k, j) /\ j \in Batches /\ status[j] = "succeeded"
    BY <2>1, <2>3, <2>4, <2>5 DEF OwnRow, Batches
  <2>7. (target[k] >= 1 \/ j \in cut) /\ (table.kind # "none" => target[k] <= 1)
    BY <2>1, <2>6 DEF OffsetInv, RowsArrive
  <2>8. attempts[j] = 1 => target[k] <= 1
    BY <2>1, <2>6 DEF OffsetInv, FirstAttempts
  <2>9. Scans = {[x \in table.rows |-> Position(x)]}
    BY DEF PlainOffsets, Scans, Position
  <2>10. PICK scan : scan \in Scans
    BY <2>9
  <2>11. k \in Selected(range[j], scan)
    BY <2>1, <2>3, <2>5, <2>10, OffsetSelection
  <2> QED
    BY <2>6, <2>7, <2>8, <2>10, <2>11
<1> QED
  BY <1>1, OffsetInvariant, PTL

\* Both shapes of the plan together: ExactCopy, for every table.
THEOREM TablesCopiedExactly ==
    ASSUME BatchFits, PlainOffsets, ~MayOutlive
    PROVE  Spec => []ExactCopy
<1>1. (table.kind = "numeric" => ExactCopy) /\ (table.kind # "numeric" => ExactCopy) => ExactCopy
  OBVIOUS
<1> QED
  BY <1>1, RangesCopiedExactly, OffsetsCopied, PTL

-----------------------------------------------------------------------------
(* hValidate.                                                              *)
(*                                                                         *)
(* Of the copy this needs only that the target holds no row that the       *)
(* source does not have, and none twice if it has a key: whatever is wrong *)
(* then, the count is too small.  It needs no assumption on keys, dialects *)
(* or the order of scans.                                                  *)

ValidTypeOK ==
    /\ table \in Tables
    /\ phase \in {"start", "ranges", "enqueue", "copying", "failed"}
    /\ low \in Int /\ maxV \in Int /\ ranges \subseteq [low : Int, high : Int]
    /\ status \in [Jobs -> Q!Statuses] /\ expired \in [Jobs -> BOOLEAN]
    /\ held \in [Workers -> Jobs \cup {NoJob}]
    /\ pc \in [Workers -> Pcs]
    /\ target \in [Keys -> Nat]

\* A job that exists is a batch, and there are none before the plan is.
JobsAreBatches ==
    /\ \A j \in Jobs : status[j] # "none" => range[j] # NoRange
    /\ phase # "copying" => \A j \in Jobs : status[j] = "none"

\* The target has rows of the source only, and with a key each at most once.
NoForeignRows ==
    /\ \A k \in Keys \ table.rows : target[k] = 0
    /\ table.kind # "none" => \A k \in Keys : target[k] <= 1

ValidInv ==
    /\ ValidTypeOK /\ JobsAreBatches /\ OneWorkerPerJob /\ NoForeignRows
    /\ verdict = "valid" => Copied
    /\ ValidatedCopy

\* Two numbers in JSON come out as numbers.
LEMMA DecodedIsRange ==
    ASSUME NEW r \in [low : Int, high : Int] PROVE Decoded(r) \in [low : Int, high : Int]
<1>1. \A n \in Int : ThroughJSON(n) \in Int
  BY DEF ThroughJSON
<1> QED
  BY <1>1 DEF Decoded, BatchRange

\* The count of the target is the number of its rows that are there, as long as
\* there is none twice: equal counts are equal sets.
LEMMA EqualCounts ==
    ASSUME table \in Tables, target \in [Keys -> Nat], NoForeignRows, table.kind # "none",
           Cardinality(TargetRows) = Cardinality(table.rows)
    PROVE  \A k \in table.rows : target[k] = 1
<1>0. table.rows \subseteq Keys /\ IsFiniteSet(table.rows)
  BY RowsAreKeys
<1> DEFINE there == {k \in table.rows : target[k] = 1}
           pairs == {<<k, 1>> : k \in there}
<1>1. \A k \in Keys : target[k] \in {0, 1} /\ (target[k] = 1 => k \in table.rows)
  BY DEF NoForeignRows
<1>2. \A k \in Keys : {k} \X (1..target[k]) = IF k \in there THEN {<<k, 1>>} ELSE {}
  <2>1. ASSUME NEW k \in Keys, target[k] = 0 PROVE {k} \X (1..target[k]) = {}
    BY <2>1
  <2>2. ASSUME NEW k \in Keys, target[k] = 1 PROVE {k} \X (1..target[k]) = {<<k, 1>>}
    <3>1. 1..target[k] = {1}
      BY <2>2
    <3> QED
      BY <3>1
  <2> QED
    BY <1>1, <2>1, <2>2
<1>3. TargetRows = pairs
  <2>1. ASSUME NEW p \in TargetRows PROVE p \in pairs
    <3>1. PICK k \in Keys : p \in {k} \X (1..target[k])
      BY <2>1 DEF TargetRows
    <3> QED
      BY <1>2, <3>1
  <2>2. ASSUME NEW k \in there PROVE <<k, 1>> \in TargetRows
    <3>1. k \in Keys /\ <<k, 1>> \in {k} \X (1..target[k])
      BY <1>0, <1>2
    <3> QED
      BY <3>1 DEF TargetRows
  <2> QED
    BY <2>1, <2>2
<1>4. IsFiniteSet(there) /\ there \subseteq table.rows
  BY <1>0, FS_Subset
<1>5. Cardinality(pairs) = Cardinality(there)
  <2> DEFINE f == [k \in there |-> <<k, 1>>]
  <2>1. f \in Bijection(there, pairs)
    BY DEF Bijection, Injection, Surjection, IsInjective
  <2> QED
    BY <1>4, <2>1, FS_Bijection DEF ExistsBijection
<1>6. there = table.rows
  BY <1>0, <1>3, <1>4, <1>5, FS_Subset
<1> QED
  BY <1>6

\* Steps that touch neither the plan nor the target, after which workers and jobs
\* still fit.
LEMMA QueueStepKeepsValid ==
    ASSUME ValidInv, UNCHANGED <<table, planVars, target, verdict>>,
           status' \in [Jobs -> Q!Statuses], expired' \in [Jobs -> BOOLEAN],
           held' \in [Workers -> Jobs \cup {NoJob}], pc' \in [Workers -> Pcs],
           OneWorkerPerJob',
           \A j \in Jobs : status'[j] = status[j] \/ status[j] \notin {"none", "succeeded"}
    PROVE  ValidInv'
<1> USE DEF planVars
<1>1. ValidTypeOK'
  BY DEF ValidInv, ValidTypeOK
<1>2. JobsAreBatches'
  BY DEF ValidInv, JobsAreBatches
<1>3. NoForeignRows' /\ ValidatedCopy'
  BY DEF ValidInv, NoForeignRows, ValidatedCopy
<1>4. verdict' = "valid" => Copied'
  BY DEF ValidInv, Copied, Batches
<1> QED
  BY <1>1, <1>2, <1>3, <1>4 DEF ValidInv

\* After a validation nobody is on a job.
LEMMA NobodyAfterValid ==
    ASSUME ValidInv, verdict = "valid" PROVE \A w \in Workers : held[w] = NoJob
<1>1. ASSUME NEW w \in Workers, held[w] # NoJob PROVE FALSE
  <2>1. held[w] \in Jobs /\ status[held[w]] = "running"
    BY <1>1 DEF ValidInv, ValidTypeOK, OneWorkerPerJob
  <2>2. held[w] \in Batches
    BY <2>1 DEF ValidInv, JobsAreBatches, Batches
  <2> QED
    BY <2>1, <2>2 DEF ValidInv, Copied
<1> QED
  BY <1>1

\* A claim, a report.
LEMMA WorkerKeepsValid ==
    ASSUME ValidInv, NEW w \in Workers,
           (\E j \in Jobs : ClaimBatch(w, j)) \/ Report(w) \/ CopyError(w)
    PROVE  ValidInv'
<1> USE QueueAssumption
<1>0. ValidTypeOK /\ OneWorkerPerJob
  BY DEF ValidInv
<1>h. \A v \in Workers : held[v] # NoJob => held[v] \in Jobs
  BY <1>0 DEF ValidTypeOK
<1>1. ASSUME NEW j \in Jobs, ClaimBatch(w, j) PROVE ValidInv'
  <2>1. /\ held[w] = NoJob /\ status[j] = "pending"
        /\ status' = [status EXCEPT ![j] = "running"] /\ expired' = [expired EXCEPT ![j] = FALSE]
        /\ held' = [held EXCEPT ![w] = j] /\ pc' = [pc EXCEPT ![w] = "delete"]
        /\ UNCHANGED <<table, planVars, target, verdict>>
    BY <1>1 DEF ClaimBatch, Q!Claim, GoTo, copyVars
  <2>2. /\ status' \in [Jobs -> Q!Statuses] /\ expired' \in [Jobs -> BOOLEAN]
        /\ held' \in [Workers -> Jobs \cup {NoJob}] /\ pc' \in [Workers -> Pcs]
    BY <1>0, <2>1 DEF ValidTypeOK, Q!Statuses, Pcs
  <2>3. /\ \A i \in Jobs \ {j} : status'[i] = status[i] /\ expired'[i] = expired[i]
        /\ status'[j] = "running" /\ expired'[j] = FALSE
        /\ \A v \in Workers \ {w} : held'[v] = held[v] /\ pc'[v] = pc[v]
        /\ held'[w] = j /\ pc'[w] = "delete"
    BY <1>0, <2>1 DEF ValidTypeOK
  <2>4. \A v \in Workers : held[v] # j
    BY <1>0, <2>1 DEF OneWorkerPerJob
  <2>5. OneWorkerPerJob'
    BY <1>0, <1>h, <2>3, <2>4 DEF OneWorkerPerJob
  <2> QED
    BY <2>1, <2>2, <2>3, <2>5, QueueStepKeepsValid
<1>2. CASE Report(w)
  <2>0. PICK j : j = held[w]
    OBVIOUS
  <2>1. j # NoJob /\ j \in Jobs /\ status[j] = "running"
    BY <1>0, <1>2, <2>0 DEF Report, Q!Succeed, Q!Fail, ValidTypeOK, OneWorkerPerJob
  <2>2. /\ held' = [held EXCEPT ![w] = NoJob] /\ pc' = [pc EXCEPT ![w] = "idle"]
        /\ UNCHANGED <<table, planVars, target, verdict>>
        /\ expired' = [expired EXCEPT ![j] = FALSE]
        /\ \/ status' = [status EXCEPT ![j] = "succeeded"]
           \/ status' = [status EXCEPT ![j] = "pending"]
           \/ status' = [status EXCEPT ![j] = "dead"]
    <3>1. Q!Exists(j)
      BY <2>1 DEF Q!Exists
    <3>2. CASE At(w, "succeed") /\ Q!Succeed(w)
      BY <1>2, <2>0, <3>1, <3>2 DEF Report, GoTo, At, Q!Succeed, copyVars
    <3>3. CASE At(w, "fail") /\ Q!Fail(w)
      BY <1>2, <2>0, <3>1, <3>3 DEF Report, GoTo, At, Q!Fail, Q!AfterFailure, copyVars
    <3> QED
      BY <1>2, <3>2, <3>3 DEF Report
  <2>3. /\ status' \in [Jobs -> Q!Statuses] /\ expired' \in [Jobs -> BOOLEAN]
        /\ held' \in [Workers -> Jobs \cup {NoJob}] /\ pc' \in [Workers -> Pcs]
    BY <1>0, <2>1, <2>2 DEF ValidTypeOK, Q!Statuses, Pcs
  <2>4. /\ \A i \in Jobs \ {j} : status'[i] = status[i] /\ expired'[i] = expired[i]
        /\ \A v \in Workers \ {w} : held'[v] = held[v] /\ pc'[v] = pc[v]
        /\ held'[w] = NoJob /\ pc'[w] = "idle"
    BY <1>0, <2>1, <2>2 DEF ValidTypeOK
  <2>5. \A v \in Workers \ {w} : held[v] # j
    BY <1>0, <2>0, <2>1 DEF OneWorkerPerJob
  <2>6. OneWorkerPerJob'
    BY <1>0, <1>h, <2>4, <2>5 DEF OneWorkerPerJob
  <2>7. \A i \in Jobs : status'[i] = status[i] \/ status[i] \notin {"none", "succeeded"}
    BY <2>1, <2>4
  <2> QED
    BY <2>2, <2>3, <2>6, <2>7, QueueStepKeepsValid
<1>3. CASE CopyError(w)
  <2>1. /\ pc[w] # "idle" /\ pc' = [pc EXCEPT ![w] = "fail"]
        /\ UNCHANGED <<status, expired, held, table, planVars, target, verdict>>
    BY <1>3 DEF CopyError, GoTo, At, queueVars, copyVars
  <2>2. pc' \in [Workers -> Pcs] /\ pc'[w] = "fail" /\ \A v \in Workers \ {w} : pc'[v] = pc[v]
    BY <1>0, <2>1 DEF ValidTypeOK, Pcs
  <2>3. OneWorkerPerJob'
    BY <1>0, <2>1, <2>2 DEF OneWorkerPerJob
  <2> QED
    BY <1>0, <2>1, <2>2, <2>3, QueueStepKeepsValid DEF ValidTypeOK
<1> QED
  BY <1>1, <1>2, <1>3

\* The supervisor, time and a crash.
LEMMA EnvironmentKeepsValid ==
    ASSUME ~MayOutlive, ValidInv,
           \/ RequeueOrphans \/ Crash
           \/ \E j \in Jobs : BackoffElapses(j) \/ LockExpires(j)
           \/ UNCHANGED vars
    PROVE  ValidInv'
<1> USE QueueAssumption
<1>0. ValidTypeOK /\ OneWorkerPerJob
  BY DEF ValidInv
<1>h. \A v \in Workers : held[v] # NoJob => held[v] \in Jobs
  BY <1>0 DEF ValidTypeOK
<1>1. CASE RequeueOrphans
  <2>1. /\ UNCHANGED <<held, pc, table, planVars, target, verdict>>
        /\ status' = [j \in Jobs |-> IF j \in Q!Orphans THEN Q!AfterFailure(j) ELSE status[j]]
        /\ expired' = [j \in Jobs |-> IF j \in Q!Orphans THEN FALSE ELSE expired[j]]
    BY <1>1 DEF RequeueOrphans, Q!RequeueOrphans, copyVars
  <2>2. \A j : Q!AfterFailure(j) \in {"dead", "pending"}
    BY DEF Q!AfterFailure
  <2>3. status' \in [Jobs -> Q!Statuses] /\ expired' \in [Jobs -> BOOLEAN]
    BY <1>0, <2>1, <2>2 DEF ValidTypeOK, Q!Statuses
  <2>4. \A j \in Jobs : status'[j] = status[j] \/ (status[j] = "running" /\ expired[j])
    BY <2>1 DEF Q!Orphans
  <2>5. \A w \in Workers : held[w] # NoJob => ~expired'[held[w]]
    BY <1>0, <1>h, <2>1 DEF OneWorkerPerJob
  <2>6. OneWorkerPerJob'
    BY <1>0, <1>h, <2>1, <2>4, <2>5 DEF OneWorkerPerJob
  <2> QED
    BY <1>0, <2>1, <2>3, <2>4, <2>6, QueueStepKeepsValid DEF ValidTypeOK
<1>2. CASE Crash
  <2>1. /\ \A w \in Workers : held'[w] = NoJob /\ pc'[w] = "idle"
        /\ held' \in [Workers -> Jobs \cup {NoJob}] /\ pc' \in [Workers -> Pcs]
        /\ UNCHANGED <<status, expired, table, planVars, target, verdict>>
    BY <1>2 DEF Crash, Q!Abandon, Q!rows, Pcs, copyVars
  <2>2. OneWorkerPerJob'
    BY <2>1 DEF OneWorkerPerJob
  <2> QED
    BY <1>0, <2>1, <2>2, QueueStepKeepsValid DEF ValidTypeOK
<1>3. ASSUME NEW j \in Jobs, LockExpires(j) PROVE ValidInv'
  <2>1. /\ UNCHANGED <<status, held, pc, table, planVars, target, verdict>>
        /\ expired' = [expired EXCEPT ![j] = TRUE]
        /\ Q!Holders({j}) = {}
    BY <1>3 DEF LockExpires, Q!LockExpires, copyVars
  <2>2. \A w \in Workers : held[w] # j
    BY <2>1 DEF Q!Holders
  <2>3. expired' \in [Jobs -> BOOLEAN]
    BY <1>0, <2>1 DEF ValidTypeOK
  <2>4. OneWorkerPerJob'
    BY <1>0, <1>h, <2>1, <2>2 DEF OneWorkerPerJob, ValidTypeOK
  <2> QED
    BY <1>0, <2>1, <2>3, <2>4, QueueStepKeepsValid DEF ValidTypeOK
<1>4. ASSUME UNCHANGED <<status, expired, held, pc, table, planVars, target, verdict>> PROVE ValidInv'
  <2>1. OneWorkerPerJob'
    BY <1>0, <1>4 DEF OneWorkerPerJob
  <2> QED
    BY <1>0, <1>4, <2>1, QueueStepKeepsValid DEF ValidTypeOK
<1>5. ASSUME NEW j \in Jobs, BackoffElapses(j) PROVE ValidInv'
  BY <1>4, <1>5 DEF BackoffElapses, Q!BackoffElapses, copyVars
<1>6. CASE UNCHANGED vars
  BY <1>4, <1>6 DEF vars, queueVars, copyVars
<1> QED
  BY <1>1, <1>2, <1>3, <1>5, <1>6

\* The statements of a batch: DELETE makes rows go, COPY brings rows of the source
\* that are not there, and neither comes after a validation.
LEMMA StatementKeepsValid ==
    ASSUME ValidInv, NEW w \in Workers, DeleteTargetRange(w) \/ CopyRange(w) \/ CutShort(w)
    PROVE  ValidInv'
<1> USE QueueAssumption
<1>0. ValidTypeOK /\ OneWorkerPerJob /\ NoForeignRows /\ JobsAreBatches
  BY DEF ValidInv
<1>1. /\ pc[w] \in {"delete", "copy"} /\ UNCHANGED <<queueVars, table, planVars, verdict>>
      /\ \/ /\ pc' = [pc EXCEPT ![w] = "copy"]
            /\ target' = target \/ \E S : target' = [k \in Keys |-> IF k \in S THEN 0 ELSE target[k]]
         \/ \E rows \in SUBSET table.rows : \E newCut : CopyFrom(w, rows, newCut)
  <2>0. \A r, scan : Selected(r, scan) \subseteq table.rows
    BY DEF Selected
  <2>1. CASE DeleteTargetRange(w)
    BY <2>1 DEF DeleteTargetRange, At, GoTo
  <2>2. CASE CopyRange(w)
    <3>1. PICK scan \in Scans : CopyFrom(w, Selected(range[held[w]], scan), cut \ {held[w]})
      BY <2>2 DEF CopyRange
    <3>2. Selected(range[held[w]], scan) \in SUBSET table.rows
      BY <2>0
    <3> QED
      BY <2>2, <3>1, <3>2 DEF CopyRange, At
  <2>3. CASE CutShort(w)
    <3>0. PICK scan \in Scans : \E next \in Selected(range[held[w]], scan) :
             CopyFrom(w, {k \in Selected(range[held[w]], scan) : scan[k] < scan[next]},
                      cut \cup {held[w]})
      BY <2>3 DEF CutShort
    <3>1. PICK next \in Selected(range[held[w]], scan) :
             CopyFrom(w, {k \in Selected(range[held[w]], scan) : scan[k] < scan[next]},
                      cut \cup {held[w]})
      BY <3>0
    <3>2. {k \in Selected(range[held[w]], scan) : scan[k] < scan[next]} \in SUBSET table.rows
      BY <2>0
    <3> QED
      BY <2>3, <3>1, <3>2 DEF CutShort, At
  <2> QED
    BY <2>1, <2>2, <2>3
<1>2. held[w] # NoJob /\ verdict # "valid"
  BY <1>0, <1>1, NobodyAfterValid DEF OneWorkerPerJob
<1>3. table.rows \subseteq Keys
  BY <1>0, RowsAreKeys DEF ValidTypeOK
<1>4. /\ target' \in [Keys -> Nat]
      /\ \A k \in Keys \ table.rows : target'[k] = 0
      /\ table.kind # "none" => \A k \in Keys : target'[k] <= 1
      /\ \E p \in {"copy", "fail", "succeed"} : pc' = [pc EXCEPT ![w] = p]
  <2>0. target \in [Keys -> Nat]
    BY <1>0 DEF ValidTypeOK
  <2>1. ASSUME pc' = [pc EXCEPT ![w] = "copy"],
               target' = target \/ \E S : target' = [k \in Keys |-> IF k \in S THEN 0 ELSE target[k]]
        PROVE  <1>4!1 /\ <1>4!2 /\ <1>4!3 /\ <1>4!4
    <3>1. target' \in [Keys -> Nat] /\ \A k \in Keys : target'[k] = target[k] \/ target'[k] = 0
      BY <2>0, <2>1
    <3> QED
      BY <1>0, <2>0, <2>1, <3>1 DEF NoForeignRows
  <2>2. ASSUME NEW rows \in SUBSET table.rows, NEW newCut, CopyFrom(w, rows, newCut)
        PROVE  <1>4!1 /\ <1>4!2 /\ <1>4!3 /\ <1>4!4
    <3>1. CASE Conflict(rows)
      <4>1. target' = target /\ pc' = [pc EXCEPT ![w] = "fail"]
        BY <2>2, <3>1 DEF CopyFrom, GoTo, copyVars
      <4> QED
        BY <1>0, <2>0, <4>1 DEF NoForeignRows
    <3>2. CASE ~Conflict(rows)
      <4>1. /\ target' = [k \in Keys |-> IF k \in rows THEN target[k] + 1 ELSE target[k]]
            /\ pc' = [pc EXCEPT ![w] = "succeed"]
        BY <2>2, <3>2 DEF CopyFrom, GoTo
      <4>2. /\ target' \in [Keys -> Nat]
            /\ \A k \in Keys : k \notin rows => target'[k] = target[k]
            /\ \A k \in rows : target'[k] = target[k] + 1 /\ target[k] \in Nat
        BY <1>3, <2>0, <4>1
      <4>3. table.kind # "none" => \A k \in rows : target[k] = 0
        BY <3>2, <4>2 DEF Conflict
      <4>4. table.kind # "none" => \A k \in Keys : target'[k] <= 1
        <5>1. table.kind # "none" => \A k \in rows : target'[k] = 1
          BY <4>2, <4>3
        <5> QED
          BY <1>0, <4>2, <5>1 DEF NoForeignRows
      <4> QED
        BY <1>0, <4>1, <4>2, <4>4 DEF NoForeignRows
    <3> QED
      BY <3>1, <3>2
  <2> QED
    BY <1>1, <2>1, <2>2
<1>5. pc' \in [Workers -> Pcs] /\ pc'[w] # "idle" /\ \A v \in Workers \ {w} : pc'[v] = pc[v]
  BY <1>0, <1>4 DEF ValidTypeOK, Pcs
<1>6. ValidTypeOK'
  BY <1>0, <1>1, <1>4, <1>5 DEF ValidTypeOK, queueVars, planVars
<1>7. OneWorkerPerJob'
  BY <1>0, <1>1, <1>2, <1>5 DEF OneWorkerPerJob, queueVars
<1>8. NoForeignRows' /\ JobsAreBatches'
  BY <1>0, <1>1, <1>4 DEF NoForeignRows, JobsAreBatches, queueVars, planVars
<1> QED
  BY <1>1, <1>2, <1>6, <1>7, <1>8 DEF ValidInv, ValidatedCopy

\* The plan is ranges of numbers, and comes before the jobs.
LEMMA PlanKeepsValid ==
    ASSUME ValidInv, Plan PROVE ValidInv'
<1> USE QueueAssumption, IntAssumption
<1>0. ValidTypeOK /\ OneWorkerPerJob /\ NoForeignRows /\ JobsAreBatches
  BY DEF ValidInv
<1>1. phase # "copying" /\ verdict' = verdict /\ table' = table /\ target' = target /\ pc' = pc
  BY DEF Plan, Partition, NumericRange, EnqueueBatches, copyVars
<1>2. verdict # "valid"
  BY <1>1 DEF ValidInv, Copied
<1>3. \A j \in Jobs : status[j] = "none"
  BY <1>0, <1>1 DEF JobsAreBatches
<1>n. NoForeignRows'
  BY <1>0, <1>1 DEF NoForeignRows
<1>4. CASE Partition \/ NumericRange
  <2>1. /\ low' \in Int /\ maxV' \in Int /\ ranges' \subseteq [low : Int, high : Int]
        /\ phase' \in {"ranges", "enqueue", "failed"}
        /\ UNCHANGED <<queueVars, range>>
    <3>1. CASE Partition
      <4>1. OffsetRanges \subseteq [low : Int, high : Int]
        <5>1. IsFiniteSet(table.rows)
          BY <1>0, RowsAreKeys DEF ValidTypeOK
        <5>2. Cardinality(table.rows) \in Nat
          BY <5>1, FS_CardinalityType
        <5> QED
          BY <5>2 DEF OffsetRanges, BatchRange
      <4>2. \A k \in table.rows : k.int \in Int
        BY <1>0, RowsAreKeys DEF ValidTypeOK
      <4> QED
        BY <1>0, <3>1, <4>1, <4>2 DEF Partition, RangeKind, ValidTypeOK
    <3>2. CASE NumericRange
      <4>1. \A n \in Int : Wrap(n) \in Int
        BY DEF Wrap
      <4>2. High \in Int /\ Wrap(High + 1) \in Int
        BY <1>0, <4>1 DEF High, ValidTypeOK
      <4>3. BatchRange(low, High) \in [low : Int, high : Int]
        BY <1>0, <4>2 DEF BatchRange, ValidTypeOK
      <4> QED
        BY <1>0, <3>2, <4>2, <4>3 DEF NumericRange, ValidTypeOK
    <3> QED
      BY <1>4, <3>1, <3>2
  <2>2. ValidTypeOK'
    BY <1>0, <1>1, <2>1 DEF ValidTypeOK, queueVars
  <2>3. OneWorkerPerJob' /\ JobsAreBatches'
    BY <1>0, <1>1, <1>3, <2>1 DEF OneWorkerPerJob, JobsAreBatches, queueVars
  <2> QED
    BY <1>1, <1>2, <1>n, <2>2, <2>3 DEF ValidInv, ValidatedCopy
<1>5. CASE EnqueueBatches
  <2> DEFINE id == CHOOSE f \in Namings : TRUE
             new == {id[r] : r \in ranges}
             rangeOf(j) == CHOOSE r \in ranges : id[r] = j
  <2>1. /\ phase' = "copying"
        /\ UNCHANGED <<expired, held, low, maxV, ranges>>
        /\ status' = [j \in Jobs |-> IF j \in new THEN "pending" ELSE status[j]]
        /\ range' = [j \in Jobs |-> IF j \in new THEN Decoded(rangeOf(j)) ELSE NoRange]
    BY <1>5 DEF EnqueueBatches, Q!Enqueue
  <2>2. \A j \in new : rangeOf(j) \in ranges
    OBVIOUS
  <2>3. \A r \in ranges : Decoded(r) # NoRange
    BY <1>0, DecodedIsRange, NoRangeAssumption DEF ValidTypeOK
  <2> HIDE DEF new, rangeOf
  <2>4. status' \in [Jobs -> Q!Statuses]
    BY <1>0, <2>1 DEF ValidTypeOK, Q!Statuses
  <2>5. \A j \in Jobs : status'[j] # "none" => range'[j] # NoRange
    BY <1>3, <2>1, <2>2, <2>3
  <2>6. ValidTypeOK'
    BY <1>0, <1>1, <2>1, <2>4 DEF ValidTypeOK
  <2>7. \A w \in Workers : held[w] = NoJob
    BY <1>0, <1>3 DEF OneWorkerPerJob, ValidTypeOK
  <2>8. OneWorkerPerJob'
    BY <1>0, <1>1, <2>1, <2>7 DEF OneWorkerPerJob
  <2>9. JobsAreBatches'
    BY <2>1, <2>5 DEF JobsAreBatches
  <2> QED
    BY <1>1, <1>2, <1>n, <2>6, <2>8, <2>9 DEF ValidInv, ValidatedCopy
<1> QED
  BY <1>4, <1>5 DEF Plan

\* The target of a table with a primary key that hValidate passes holds every row
\* of the source, once: for every table, every key, dialect, batch size, order of
\* scans and number of workers, whatever was cut short, rounded, left between two
\* ranges, failed or was executed again, as long as no batch outlives the orphan
\* TTL while it is worked on.
THEOREM ValidationFindsLosses ==
    ASSUME ~MayOutlive PROVE Spec => []ValidatedCopy
<1>1. Init => ValidInv
  <2> SUFFICES ASSUME Init PROVE ValidInv
    OBVIOUS
  <2>1. ValidTypeOK
    BY DEF Init, Q!Init, ValidTypeOK, Q!Statuses, Pcs
  <2>2. JobsAreBatches /\ OneWorkerPerJob
    BY QueueAssumption DEF Init, Q!Init, JobsAreBatches, OneWorkerPerJob
  <2>3. NoForeignRows /\ verdict = "none"
    BY DEF Init, NoForeignRows
  <2> QED
    BY <2>1, <2>2, <2>3 DEF ValidInv, ValidatedCopy
<1>2. ValidInv /\ [Next]_vars => ValidInv'
  <2> SUFFICES ASSUME ValidInv, [Next]_vars PROVE ValidInv'
    OBVIOUS
  <2>1. CASE Validate
    <3>1. /\ UNCHANGED <<status, expired, held, table, planVars, target, pc>> /\ Copied
          /\ verdict' = "valid" => Cardinality(TargetRows) = Cardinality(table.rows)
      BY <2>1 DEF Validate, queueVars, copyVars
    <3>2. verdict' = "valid" /\ table.kind # "none" => \A k \in table.rows : target[k] = 1
      BY <3>1, EqualCounts DEF ValidInv, ValidTypeOK
    <3>3. ValidatedCopy' /\ Copied'
      BY <3>1, <3>2 DEF ValidatedCopy, Copied, Batches, planVars
    <3>4. ValidTypeOK' /\ JobsAreBatches' /\ OneWorkerPerJob' /\ NoForeignRows'
      BY <3>1 DEF ValidInv, ValidTypeOK, JobsAreBatches, OneWorkerPerJob, NoForeignRows, planVars
    <3> QED
      BY <3>3, <3>4 DEF ValidInv
  <2>2. CASE Plan
    BY <2>2, PlanKeepsValid
  <2>3. ASSUME NEW w \in Workers, NEW j \in Jobs, ClaimBatch(w, j) PROVE ValidInv'
    BY <2>3, WorkerKeepsValid
  <2>4. ASSUME NEW w \in Workers, Copy(w) PROVE ValidInv'
    BY <2>4, WorkerKeepsValid, StatementKeepsValid DEF Copy
  <2>5. CASE \/ RequeueOrphans \/ Crash
             \/ \E j \in Jobs : BackoffElapses(j) \/ LockExpires(j)
             \/ UNCHANGED vars
    BY <2>5, EnvironmentKeepsValid
  <2> QED
    BY <2>1, <2>2, <2>3, <2>4, <2>5 DEF Next
<1>3. ValidInv => ValidatedCopy
  BY DEF ValidInv
<1> QED
  BY <1>1, <1>2, <1>3, PTL DEF Spec
=============================================================================
