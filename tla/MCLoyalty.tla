------------------------------- MODULE MCLoyalty -------------------------------
EXTENDS Loyalty

CONSTANTS silver, gold, rose

\* Gold and rose begin at the same points.
MCMinPoints == [t \in {silver, gold, rose} |-> IF t = silver THEN 1 ELSE 2]
MCMaxPoints == [t \in {silver, gold, rose} |-> IF t = silver THEN 2 ELSE None]
\* Between them they reach silver, silver together with the others, those two, and none.
MCDeltas == {-1, 0, 2}
================================================================================
