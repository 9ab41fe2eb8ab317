------------------------------ MODULE Transfer ------------------------------
(***************************************************************************)
(* The copy of one table: hCopyTable partitions the source into ranges     *)
(* (dataxfer.BuildPartitionPlan) and enqueues a copy_batch job for each;   *)
(* workers execute CopyBatch, any number at once and each job as often as  *)
(* the queue hands it out.  The jobs are those of module JobQueue.         *)
(*                                                                         *)
(* Every action is one statement on the target or one iteration of the     *)
(* partitioner's loop: the DELETE and the COPY of CopyBatch are separate   *)
(* statements, each atomic.  The source does not change while it is read.  *)
(* What coerce does to column values is left out; a row is its key.  The   *)
(* last step is hValidate's, which compares the numbers of rows.           *)
(*                                                                         *)
(* Operators named Bug... are wrong forms of the definition after them;    *)
(* see JobQueue.                                                           *)
(***************************************************************************)
EXTENDS Integers, FiniteSets

CONSTANTS
    Jobs, Workers, MaxAttempts, NoJob, Nobody,   \* see JobQueue
    Keys,          \* the keys rows of the source may have: see IntAssumption
    Tables,        \* the tables of the source: see TableAssumption
    Kind,          \* SourceDialect.Kind
    StableScan,    \* a scan without ORDER BY returns the rows in one order
    BatchSize,     \* rows (offset) or key values (pk) per batch
    MaxInt,        \* the largest int64
    MaxExact,      \* 2^53: up to here every integer is a float64
    NoRange,       \* the range of a job that was not inserted
    MayOutlive,    \* whether a batch may take longer than the orphan TTL
    MaxMishaps     \* bound on the number of crashes and connection errors

ASSUME QueueAssumption ==
    MaxAttempts \in Nat \ {0} /\ NoJob \notin Jobs /\ Nobody \notin Workers
\* A key is a number: the integer below it and the place of its fraction among
\* the fractions, 0 if it has none.
ASSUME IntAssumption ==
    /\ MaxInt \in Nat /\ MaxExact \in Nat /\ MaxExact <= MaxInt
    /\ BatchSize \in 1..MaxInt
    /\ Keys \subseteq [int : (-MaxInt)..MaxInt, frac : Nat]
    /\ MaxMishaps \in Nat
ASSUME KindAssumption == Kind \in {"mysql", "oracle", "db2", "db2zos"}
\* The kind of the primary key is "numeric": one column for which
\* IsNumericDataType holds, with or without decimals; "other": any other; "none":
\* no primary key, so that the target has none either.
ASSUME TableAssumption ==
    /\ Tables \subseteq [kind : {"numeric", "other", "none"}, decimals : BOOLEAN, rows : SUBSET Keys]
    /\ \A t \in Tables : IsFiniteSet(t.rows)
ASSUME NoRangeAssumption == NoRange \notin [low : Int, high : Int]

VARIABLES
    status, attempts, lockedBy, backoff, expired, held, stale,   \* JobQueue
    table,         \* the source: its primary key and its rows
    phase,         \* of hCopyTable: "start", "ranges", "enqueue", "copying", "failed"
    low, maxV,     \* computeNumericRanges: low, maxV
    ranges,        \* PartitionPlan.Ranges
    range,         \* the range in a copy_batch job's payload
    target,        \* how often the target table holds each row
    cut,           \* the jobs whose last COPY ended with the source's connection
    verdict,       \* of hValidate: "none", "valid", "mismatch"
    pc,            \* the statement a worker executes next
    mishaps        \* crashes and connection errors so far

Q == INSTANCE JobQueue

queueVars == <<status, attempts, lockedBy, backoff, expired, held, stale>>
planVars == <<phase, low, maxV, ranges, range>>
copyVars == <<target, cut>>
vars == <<queueVars, table, planVars, copyVars, verdict, pc, mishaps>>

Init ==
    /\ Q!Init
    /\ table \in Tables
    /\ phase = "start" /\ low = 0 /\ maxV = 0
    /\ ranges = {}
    /\ range = [j \in Jobs |-> NoRange]
    /\ target = [k \in Keys |-> 0] /\ cut = {}
    /\ verdict = "none"
    /\ pc = [w \in Workers |-> "idle"]
    /\ mishaps = 0

-----------------------------------------------------------------------------
(* BuildPartitionPlan.                                                     *)

\* Two's complement addition of int64.
Wrap(n) == IF n > MaxInt THEN n - 2 * (MaxInt + 1) ELSE n

BatchRange(l, h) == [low |-> l, high |-> h]

RangeKind == IF table.rows = {} \/ table.kind = "numeric" THEN "pk" ELSE "offset"

\* The fallback: offset and limit of each batch.
OffsetRanges ==
    LET n == Cardinality(table.rows)
    IN  {BatchRange(off, IF off + BatchSize > n THEN n - off ELSE BatchSize) :
            off \in {i * BatchSize : i \in 0..((n - 1) \div BatchSize)}}

\* The order of the keys.
Less(a, b) == a.int < b.int \/ (a.int = b.int /\ a.frac < b.frac)

\* The ways Scan may end that puts MIN or MAX into an int64: a number with a
\* fraction is none, and a whole number of a column with decimals reads 1.00 from
\* MySQL's driver, 1 from Oracle's, and one or the other from DB2's.
Readable(k) ==
    IF ~table.decimals THEN {TRUE}
    ELSE IF k.frac # 0 \/ Kind = "mysql" THEN {FALSE}
    ELSE IF Kind = "oracle" THEN {TRUE} ELSE BOOLEAN

\* Which of the three shapes the plan has; hCopyTable fails if MIN or MAX cannot
\* be read.
Partition ==
    /\ phase = "start"
    /\ CASE table.rows = {} ->
              phase' = "enqueue" /\ UNCHANGED <<low, maxV, ranges>>
         [] RangeKind = "pk" /\ table.rows # {} ->
              /\ \E min, max \in table.rows :
                    /\ \A k \in table.rows : ~Less(k, min) /\ ~Less(max, k)
                    /\ \/ /\ TRUE \in Readable(min) \cap Readable(max)
                          /\ phase' = "ranges" /\ low' = min.int /\ maxV' = max.int
                       \/ /\ FALSE \in Readable(min) \cup Readable(max)
                          /\ phase' = "failed" /\ UNCHANGED <<low, maxV>>
              /\ UNCHANGED ranges
         [] RangeKind = "offset" ->
              phase' = "enqueue" /\ ranges' = OffsetRanges /\ UNCHANGED <<low, maxV>>
    /\ UNCHANGED <<queueVars, table, range, copyVars, verdict, pc, mishaps>>

\* The upper end of the next range, inclusive.
High == IF Wrap(low + BatchSize - 1) > maxV THEN maxV ELSE Wrap(low + BatchSize - 1)

BugHalfOpenRange ==
    /\ phase = "ranges"
    /\ IF low <= maxV
         THEN /\ ranges' = ranges \cup
                    {BatchRange(low, IF low + BatchSize > maxV THEN maxV ELSE low + BatchSize)}
              /\ low' = low + BatchSize
              /\ UNCHANGED phase
         ELSE /\ phase' = "enqueue"
              /\ UNCHANGED <<low, ranges>>
    /\ UNCHANGED <<queueVars, table, maxV, range, copyVars, verdict, pc, mishaps>>

\* computeNumericRanges: one iteration of the loop, or its end.
NumericRange ==
    /\ phase = "ranges"
    /\ IF low <= maxV
         THEN /\ ranges' = ranges \cup {BatchRange(low, High)}
              /\ low' = Wrap(High + 1)
              /\ UNCHANGED phase
         ELSE /\ phase' = "enqueue"
              /\ UNCHANGED <<low, ranges>>
    /\ UNCHANGED <<queueVars, table, maxV, range, copyVars, verdict, pc, mishaps>>

\* A number through JSON: written as a decimal, read back as a float64.  Beyond
\* 2^53 the nearest float64, the one with an even mantissa if two are (for the
\* first such octave, where they are 2 apart).
ThroughJSON(n) ==
    IF n \in (-MaxExact)..MaxExact \/ n % 2 = 0 THEN n
    ELSE IF (n + 1) % 4 = 0 THEN n + 1 ELSE n - 1

Decoded(r) == BatchRange(ThroughJSON(r.low), ThroughJSON(r.high))

\* Ids for the jobs of the ranges; Jobs is large enough when there are any.
Namings == {f \in [ranges -> Jobs] : \A a, b \in ranges : f[a] = f[b] => a = b}

\* hCopyTable's transaction: a job for each range.  Which ids the jobs get does
\* not matter.
EnqueueBatches ==
    LET id == CHOOSE f \in Namings : TRUE
        new == {id[r] : r \in ranges}
    IN
    /\ phase = "enqueue"
    /\ Namings # {}
    /\ phase' = "copying"
    /\ Q!Enqueue(new)
    /\ range' = [j \in Jobs |-> IF j \in new
                                  THEN Decoded(CHOOSE r \in ranges : id[r] = j)
                                  ELSE NoRange]
    /\ UNCHANGED <<table, low, maxV, ranges, copyVars, verdict, pc, mishaps>>

-----------------------------------------------------------------------------
(* hCopyBatch and CopyBatch.                                               *)

At(w, statement) == pc[w] = statement
GoTo(w, statement) == pc' = [pc EXCEPT ![w] = statement]

\* WHERE key BETWEEN low AND high.
Between(r) == {k \in Keys : r.low <= k.int /\ (k.int < r.high \/ (k.int = r.high /\ k.frac = 0))}

ClaimBatch(w, j) ==
    /\ At(w, "idle")
    /\ Q!Claim(w, j)
    /\ GoTo(w, "delete")
    /\ UNCHANGED <<table, planVars, copyVars, verdict, mishaps>>

BugNoDelete(w) ==
    /\ At(w, "delete")
    /\ GoTo(w, "copy")
    /\ UNCHANGED <<queueVars, table, planVars, copyVars, verdict, mishaps>>

\* deleteTargetRange: an offset range has no rows of its own to delete.
DeleteTargetRange(w) ==
    /\ At(w, "delete")
    /\ target' = IF RangeKind = "pk"
                   THEN [k \in Keys |-> IF k \in Between(range[held[w]]) THEN 0 ELSE target[k]]
                   ELSE target
    /\ GoTo(w, "copy")
    /\ UNCHANGED <<queueVars, table, planVars, cut, verdict, mishaps>>

\* The orders in which a scan of the source may return its rows.  The query of a
\* range has an ORDER BY; of those by offset, only DB2's.
Scans ==
    LET n == Cardinality(table.rows)
        sorted == [k \in table.rows |-> Cardinality({x \in table.rows : Less(x, k)})]
    IN  IF StableScan \/ RangeKind = "pk" \/ Kind \in {"db2", "db2zos"} THEN {sorted}
        ELSE {f \in [table.rows -> 0..(n - 1)] :
                 \A a, b \in table.rows : f[a] = f[b] => a = b}

BugOffsetArgs(r) == <<r.high, r.low>>

\* The arguments of SelectOffsetQuery, in the order selectSource passes them:
\* (offset, limit) to oracle, (limit, offset) to all others.
OffsetArgs(r) == IF Kind = "oracle" THEN <<r.low, r.high>> ELSE <<r.high, r.low>>

\* What the query takes them for: LIMIT ? OFFSET ? in MySQL, OFFSET ? ROWS FETCH
\* NEXT ? ROWS ONLY in the others.
Offset(args) == IF Kind = "mysql" THEN args[2] ELSE args[1]
Limit(args) == IF Kind = "mysql" THEN args[1] ELSE args[2]

\* selectSource.
Selected(r, scan) ==
    IF RangeKind = "pk" THEN table.rows \cap Between(r)
    ELSE LET args == OffsetArgs(r)
         IN  {k \in table.rows : /\ Offset(args) <= scan[k]
                                 /\ scan[k] < Offset(args) + Limit(args)}

\* The primary key of the target, if the source has one.
Conflict(rows) == table.kind # "none" /\ \E k \in rows : target[k] > 0

\* A crash or a connection error, within the bound.
Mishap == mishaps < MaxMishaps /\ mishaps' = mishaps + 1

\* The COPY of some rows: all of them or, on a duplicate key, none.
CopyFrom(w, rows, newCut) ==
    IF Conflict(rows)
      THEN GoTo(w, "fail") /\ UNCHANGED copyVars
      ELSE /\ GoTo(w, "succeed")
           /\ target' = [k \in Keys |-> IF k \in rows THEN target[k] + 1 ELSE target[k]]
           /\ cut' = newCut

\* SELECT streamed into COPY, to its end.
CopyRange(w) ==
    /\ At(w, "copy")
    /\ \E scan \in Scans : CopyFrom(w, Selected(range[held[w]], scan), cut \ {held[w]})
    /\ UNCHANGED <<queueVars, table, planVars, verdict, mishaps>>

\* The source's connection ends before some row.  sqlRowSource.Next takes that for
\* the end of the rows and Err does not ask the rows for their error: the rows
\* before it are copied, and nobody is told.
CutShort(w) ==
    /\ At(w, "copy")
    /\ Mishap
    /\ \E scan \in Scans : \E next \in Selected(range[held[w]], scan) :
          CopyFrom(w, {k \in Selected(range[held[w]], scan) : scan[k] < scan[next]},
                   cut \cup {held[w]})
    /\ UNCHANGED <<queueVars, table, planVars, verdict>>

\* The target's connection fails before the COPY commits, or the source's before
\* the first row.
CopyError(w) ==
    /\ At(w, "delete") \/ At(w, "copy")
    /\ Mishap
    /\ GoTo(w, "fail")
    /\ UNCHANGED <<queueVars, table, planVars, copyVars, verdict>>

\* Pool.handle's report.
Report(w) ==
    /\ \/ At(w, "succeed") /\ Q!Succeed(w)
       \/ At(w, "fail") /\ Q!Fail(w)
    /\ GoTo(w, "idle")
    /\ UNCHANGED <<table, planVars, copyVars, verdict, mishaps>>

-----------------------------------------------------------------------------
(* hValidate, of a later step.                                             *)

Batches == {j \in Jobs : range[j] # NoRange}

\* All the batches are reported as copied: the step is about to succeed.
Copied == phase = "copying" /\ \A j \in Batches : status[j] = "succeeded"

\* The rows of the target, which COUNT counts.
TargetRows == UNION {{k} \X (1..target[k]) : k \in Keys}

BugValidate ==
    /\ Copied /\ verdict = "none"
    /\ verdict' = IF Cardinality(TargetRows) > Cardinality(table.rows) THEN "mismatch" ELSE "valid"
    /\ UNCHANGED <<queueVars, table, planVars, copyVars, pc, mishaps>>

\* The count of the source against that of the target.
Validate ==
    /\ Copied /\ verdict = "none"
    /\ verdict' = IF Cardinality(TargetRows) = Cardinality(table.rows) THEN "valid" ELSE "mismatch"
    /\ UNCHANGED <<queueVars, table, planVars, copyVars, pc, mishaps>>

-----------------------------------------------------------------------------
(* The supervisor and the environment.                                     *)

RequeueOrphans ==
    /\ Q!RequeueOrphans
    /\ UNCHANGED <<table, planVars, copyVars, verdict, pc, mishaps>>

\* The process dies between two statements; the target keeps what it has.
Crash ==
    /\ phase = "copying"
    /\ Mishap
    /\ Q!Abandon(Workers)
    /\ pc' = [w \in Workers |-> "idle"]
    /\ UNCHANGED <<table, planVars, copyVars, verdict>>

BackoffElapses(j) ==
    /\ Q!BackoffElapses(j)
    /\ UNCHANGED <<table, planVars, copyVars, verdict, pc, mishaps>>

LockExpires(j) ==
    /\ MayOutlive \/ Q!Holders({j}) = {}
    /\ Q!LockExpires(j)
    /\ UNCHANGED <<table, planVars, copyVars, verdict, pc, mishaps>>

-----------------------------------------------------------------------------
Plan == Partition \/ NumericRange \/ EnqueueBatches
Copy(w) == DeleteTargetRange(w) \/ CopyRange(w) \/ CutShort(w) \/ CopyError(w) \/ Report(w)

Next ==
    \/ Plan
    \/ \E w \in Workers, j \in Jobs : ClaimBatch(w, j)
    \/ \E w \in Workers : Copy(w)
    \/ Validate
    \/ RequeueOrphans
    \/ Crash
    \/ \E j \in Jobs : BackoffElapses(j) \/ LockExpires(j)

Spec == Init /\ [][Next]_vars

\* As in RunEngine: workers, supervisor and time go on.
FairSpec ==
    /\ Spec
    /\ WF_vars(Plan)
    /\ WF_vars(\E w \in Workers, j \in Jobs : ClaimBatch(w, j))
    /\ \A w \in Workers : WF_vars(Copy(w))
    /\ WF_vars(Validate)
    /\ WF_vars(RequeueOrphans)
    /\ \A j \in Jobs : WF_vars(BackoffElapses(j)) /\ WF_vars(LockExpires(j))

-----------------------------------------------------------------------------
(* Properties.                                                             *)

\* No key is beyond 2^53.  (Bounds of ranges that are come out of JSON as their
\* neighbours, and near the largest int64 the loop does not end.)
ExactTable == \A k \in table.rows : k.int \in (-MaxExact)..MaxExact

\* A fraction behind the whole number where a range ends, and before the next
\* range.
InGap(k) == table.kind = "numeric" /\ k.frac # 0 /\ \E r \in ranges : k.int = r.high

\* Every key lies in one range, and in no other: the loop leaves out no whole
\* number between two ranges and at the ends, and rows never belong to two
\* workers.  Only fractions between two ranges belong to none.
KeysPartitioned ==
    phase \in {"enqueue", "copying"} /\ table.kind = "numeric" /\ ExactTable =>
        \A k \in table.rows :
            /\ InGap(k) <=> \A r \in ranges : k \notin Between(Decoded(r))
            /\ \A r, q \in ranges :
                  k \in Between(Decoded(r)) /\ k \in Between(Decoded(q)) => r = q

\* When the last batch is reported as copied, the target misses no row of the
\* source, whatever crashed, failed and was executed again in between, except
\* those in no range and those of batches whose last stream was cut; and it holds
\* each at most once if the table has a primary key or every batch was executed
\* once.  (An offset batch of a table without a key is not idempotent.)
ExactCopy ==
    Copied /\ ExactTable => \A k \in table.rows :
        /\ \/ target[k] >= 1
           \/ InGap(k)
           \/ \E j \in cut, scan \in Scans : k \in Selected(range[j], scan)
        /\ table.kind # "none" \/ (\A j \in Batches : attempts[j] = 1) => target[k] <= 1

\* Nothing that the copy got wrong passes hValidate: the target of a table with a
\* primary key that does has the rows of the source, each once, although streams
\* were cut, keys lay between the ranges, and bounds were rounded.
ValidatedCopy ==
    verdict = "valid" /\ table.kind # "none" => \A k \in table.rows : target[k] = 1

\* CopyBatch of a key range can be executed again after a crash at any point of
\* it, and after an error: as long as a batch has attempts left, the copy of a
\* table with a numeric key ends with all of its batches copied, unless its bounds
\* could not be read.
RangeCopySucceeds ==
    table.kind = "numeric" /\ ExactTable => <>(Copied \/ (table.decimals /\ phase = "failed"))
=============================================================================
