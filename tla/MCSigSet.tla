------------------------------ MODULE MCSigSet ------------------------------
(***************************************************************************)
(* A word of eight bits; the arguments around both ends of its range.      *)
(***************************************************************************)
EXTENDS SigSet

MCAddNos  == -1 .. NSIG + 2
MCSignals == Signals
MCDelNos  == 0 .. NSIG + 1
=============================================================================
