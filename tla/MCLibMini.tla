----------------------------- MODULE MCLibMini -----------------------------
(***************************************************************************)
(* Instance of the library for TLC: a program that handles SIGINT and      *)
(* SIGALRM, never unblocks a signal itself, and asks for handlers with     *)
(* SA_NODEFER that block SIGALRM (sigaction) or for those of signal, whose *)
(* uninitialised mask holds SIGINT.  What a query without a new action     *)
(* installs has SA_RESETHAND and no restorer.                              *)
(***************************************************************************)
EXTENDS LibMini

MCMasks        == {{14}}
MCGarbage      == {{2}}
MCFlagArgs     == {{"SA_NODEFER"}}
MCGarbageFlags == {{"SA_RESETHAND"}}
=============================================================================
