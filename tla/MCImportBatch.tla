----------------------------- MODULE MCImportBatch -----------------------------
\* The small instance of ImportBatch that TLC checks.
EXTENDS ImportBatch, TLC

CONSTANT t1

\* Every row has the same title.
Alike == [i \in Rows |-> t1]
=============================================================================
