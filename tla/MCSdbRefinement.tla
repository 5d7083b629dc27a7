-------------------------- MODULE MCSdbRefinement --------------------------
(* The executables of MCSdb, for the refinement of DebugService.           *)
EXTENDS SdbRefinement, MCSdb
=============================================================================
