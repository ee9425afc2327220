------------------------------ MODULE MCServerLock ------------------------------
EXTENDS ServerLock, TLC

CONSTANTS w1, w2

\* Worker processes are interchangeable.
Symm == Permutations(Worker)
==============================================================================
