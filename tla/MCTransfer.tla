---------------------------- MODULE MCTransfer ----------------------------
(***************************************************************************)
(* Transfer with up to four rows in batches of two.  Whole keys from -1 to *)
(* 2, the largest exact number, in every combination: with gaps, with a    *)
(* full and with a short last batch.  Columns with decimals have a key     *)
(* inside the first range and one behind its end.  Wider tables have keys  *)
(* beyond the exact numbers, up to the largest int64.                      *)
(***************************************************************************)
EXTENDS Transfer

CONSTANTS j1, j2, w1, w2

MCJobs == {j1, j2}
MCWorkers == {w1, w2}

Number(n, f) == [int |-> n, frac |-> f]
WholeKeys == {Number(n, 0) : n \in -1..2}
DecimalKeys == {Number(-1, 0), Number(0, 0), Number(-1, 1), Number(0, 1), Number(2, 0)}
WideKeys == {Number(2, 0), Number(3, 0), Number(4, 0)}

MCKeys == WholeKeys \cup DecimalKeys \cup WideKeys
MCTables ==
    [kind : {"numeric", "other", "none"}, decimals : {FALSE}, rows : SUBSET WholeKeys]
    \cup [kind : {"numeric"}, decimals : {TRUE}, rows : SUBSET DecimalKeys]
    \cup [kind : {"numeric"}, decimals : {FALSE}, rows : SUBSET WideKeys]
===========================================================================
