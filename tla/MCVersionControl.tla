-------------------------- MODULE MCVersionControl --------------------------
\* Two tasks and two files for the model checker.
EXTENDS VersionControl

CONSTANTS f1, f2, r1, r2

MCFiles == {f1, f2}
MCRequests == {r1, r2}

=============================================================================
