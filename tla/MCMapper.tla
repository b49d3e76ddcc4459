-------------------------------- MODULE MCMapper --------------------------------
EXTENDS ProcessMapper, TLC

\* Callers, PIDs and containers are interchangeable.
Symmetry == Permutations(Callers) \cup Permutations(Pids) \cup Permutations(Containers)
================================================================================
