---------------------------- MODULE MCThreadPool ----------------------------
EXTENDS ThreadPool

CONSTANTS w1, w2, a1, a2, t1, t2, t3
=============================================================================
