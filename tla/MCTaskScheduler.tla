---------------------------- MODULE MCTaskScheduler ----------------------------
EXTENDS TaskScheduler, TLC
Symmetry == Permutations(Tasks) \cup Permutations(Workers) \cup Permutations(Clients)
===============================================================================
