--------------------------- MODULE MCGuardedExecution ---------------------------
EXTENDS GuardedExecution

CONSTANTS g1, s1, b1

\* An approval for a suggestion of a brand, with an end; one for no suggestion
\* in particular; one given for another environment.
MCDecisions ==
    {[suggestion |-> g1, snapshot |-> s1, environment |-> "this", expiresAt |-> 1],
     [suggestion |-> None, snapshot |-> s1, environment |-> "this", expiresAt |-> None],
     [suggestion |-> g1, snapshot |-> s1, environment |-> "another", expiresAt |-> None]}

MCBrandOf == [g \in {g1} |-> b1]
================================================================================
