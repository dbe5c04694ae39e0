---------------------------- MODULE MCSqliteConn ----------------------------
EXTENDS SqliteConn
CONSTANTS c1, c2
=============================================================================
