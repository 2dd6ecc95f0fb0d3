--------------------------- MODULE OperatorJobsMC ---------------------------
\* Constants for checking OperatorJobs with TLC.
EXTENDS OperatorJobs

CONSTANTS k1, k2

TwoKeys == {k1, k2}

\* One command that changes the schema, one that does not.
TwoCommands == {"bootstrap_db", "validate"}
=============================================================================
