-------------------------- MODULE MCRollbackGovernance --------------------------
EXTENDS RollbackGovernance, TLC

CONSTANTS e1, e2

\* The window of e1 closes when e2 is logged.
MCExecutedAt == [e \in {e1, e2} |-> IF e = e1 THEN 0 ELSE 1]

\* Calls of a kind, and incidents, differ in nothing but their names.
Symmetry == Permutations(Requesters) \cup Permutations(Finalizers) \cup Permutations(Incidents)
================================================================================
