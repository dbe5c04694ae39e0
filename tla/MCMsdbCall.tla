----------------------------- MODULE MCMsdbCall -----------------------------
EXTENDS MsdbCallProps, TLC

CONSTANTS p1, p2, a, b

\* every two calls of the catalogue that touch the same table
Colliding == {<<c, d>> \in Catalog \X Catalog : Collide(c, d)}
AllPairs  == {a :> cd[1] @@ b :> cd[2] : cd \in Colliding}

SoloProcOf    == a :> p1 @@ b :> p2
SiblingProcOf == a :> p1 @@ b :> p1
=============================================================================
