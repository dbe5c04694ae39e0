----------------------------- MODULE MCMsdbLock -----------------------------
EXTENDS MsdbLockProps, TLC

CONSTANTS p1, p2, p3, a, b, c, d, msdb, tz

\* three processes with one thread each
SoloProcOf == a :> p1 @@ b :> p2 @@ c :> p3
\* a process with two threads and one with a single thread
LiveProcOf == a :> p1 @@ b :> p1 @@ c :> p2
\* two processes with two threads each
PairProcOf == a :> p1 @@ b :> p1 @@ c :> p2 @@ d :> p2

\* the two threads of a process are interchangeable, and so are the lock files
PairSymmetry ==
  Permutations({a, b}) \cup Permutations({c, d}) \cup Permutations({msdb, tz})
=============================================================================
