---------------------------- MODULE MCStateFiles ----------------------------
\* A new project begins with empty tables, a migrated one with rows in the first.
EXTENDS StateFiles

CONSTANTS p1, p2

EmptyTables == [t \in Tables |-> 0]
OldTables == [t \in Tables |-> IF t = 1 THEN 1 ELSE 0]

=============================================================================
