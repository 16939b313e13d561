--------------------------- MODULE MCBulkExecutor ---------------------------
EXTENDS BulkExecutor
MCKeyOf == [t \in Tasks |-> IF t = 2 THEN NoKey ELSE "k"]
=============================================================================
