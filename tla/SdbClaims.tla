----------------------------- MODULE SdbClaims -----------------------------
(***************************************************************************)
(* What the README of hw4 says of the debugger and the code does not do.   *)
(* Its run ends in a counterexample.                                       *)
(***************************************************************************)
EXTENDS Sdb

(* README, list: "List break points".  bp_restore outlives the process of  *)
(* the breakpoint: cont plants it in the next one, unlisted.               *)
PatchesAreListed ==
  tstat = "stopped" => \A a \in Addr : mem[a] # Image[tprog].text[a] => a \in BpAddrs
=============================================================================
