------------------------------ MODULE MCMsList ------------------------------
EXTENDS MsList

CONSTANTS n1, n2, n3, e1

Nodes == {n1, n2, n3}
Elems == {e1}
Indices == -2 .. 3
=============================================================================
