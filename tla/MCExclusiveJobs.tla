---------------------------- MODULE MCExclusiveJobs ----------------------------
EXTENDS ExclusiveJobs, TLC

CONSTANTS j1, j2, j3, w1, w2, h1

\* Rows and worker processes are interchangeable.
Symm == Permutations(Job) \union Permutations(Worker)
==============================================================================
