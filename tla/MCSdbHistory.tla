---------------------------- MODULE MCSdbHistory ----------------------------
(* The executables of MCSdb, for the debugger with its history.            *)
EXTENDS SdbHistory, MCSdb
=============================================================================
