---------------------------- MODULE MCExportBatches ----------------------------
(* Instances of ExportBatches: two requests at a time for one range.       *)
EXTENDS ExportBatches, TLC

CONSTANTS w1, w2, r1, k1, k2

TwoWorkers == {w1, w2}
OneRange == {r1}
TwoBatches == {k1, k2}
\* Requests are interchangeable, and so are batches.
Alike == Permutations(Workers) \union Permutations(BatchIds)
===============================================================================
