------------------------------ MODULE MCInventory ------------------------------
EXTENDS Inventory

\* Two that overdraw together, and one that crosses the threshold upwards.
MCDeltas == {-2, -1, 2}
================================================================================
