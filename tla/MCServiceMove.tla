---------------------------- MODULE MCServiceMove ----------------------------
EXTENDS ServiceMove, TLC

CONSTANTS j1, j2, j3

\* Rows are interchangeable.
Symm == Permutations(Job)
==============================================================================
