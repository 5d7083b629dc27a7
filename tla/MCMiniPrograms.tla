--------------------------- MODULE MCMiniPrograms ---------------------------
(***************************************************************************)
(* The four programs with the real signal numbers; the uninitialised mask  *)
(* of signal may hold nothing, SIGINT or SIGALRM.                          *)
(***************************************************************************)
EXTENDS MiniPrograms

MCGarbage    == {{}, {2}, {14}}
MCMasks      == {{14}}
MCJumpValues == 1 .. 10
=============================================================================
