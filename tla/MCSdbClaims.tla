---------------------------- MODULE MCSdbClaims ----------------------------
(* The executables of MCSdb, for the claims.                               *)
EXTENDS SdbClaims, MCSdb
=============================================================================
