--------------------------- MODULE SdbRefinement ---------------------------
(***************************************************************************)
(* When the debugger of hw4/sdb.cpp is transparent: used with care, it     *)
(* implements DebugService.  Careful names the care.                       *)
(***************************************************************************)
EXTENDS Sdb

(* Programs whose instructions do not overlap, contain no int3 of their    *)
(* own and continue at instructions.                                       *)
Bytes(p, a) == a .. a + Image[p].len[a] - 1

ASSUME ProgramAssumption ==
  \A p \in Programs :
    LET im == Image[p] IN
      /\ im.entry \in im.starts
      /\ \A a \in im.starts :
           /\ im.text[a] # CC
           /\ im.succ[a] \subseteq im.starts
           /\ \A b \in im.starts : b \in Bytes(p, a) => b = a

(* Breakpoints and set rip only at instructions of the program that were   *)
(* disassembled: cont does not take a stop elsewhere for a hit.  si never  *)
(* where a breakpoint is: it would execute the int3.  No signal for a      *)
(* program just behind a breakpoint: cont takes it for a hit.              *)
Instructions == {a \in Image[tprog].starts : Disassembled(a)}

BreaksAtInstructions == BpAddrs' \subseteq BpAddrs \union Instructions

MovesToInstructions ==
  pc = "prompt" /\ pc' = "prompt" /\ rip' # rip => rip' \in Image[tprog].starts

StepsOffBreakpoints == pc = "prompt" /\ pc' = "wait_si" => rip \notin BpAddrs

SignalsOffBreakpoints == Signal => rip - 1 \notin BpAddrs

Careful ==
  /\ tprog \in Programs => BreaksAtInstructions /\ MovesToInstructions
  /\ StepsOffBreakpoints
  /\ SignalsOffBreakpoints

CarefulSpec == Init /\ [][Next /\ Careful]_vars

-----------------------------------------------------------------------------
(* The refinement mapping.  A wait of cont is a running program, also when *)
(* the tracee has stopped and the debugger has not seen it yet; a trap     *)
(* that it has not seen leaves rip one byte behind the breakpoint.         *)
Over == tstat \in {"exited", "killed", "gone", "detached"}

phaseBar ==
  IF Over THEN "over"
  ELSE IF tstat = "none" THEN "idle"
  ELSE IF tstat = "execing" THEN "starting"
  ELSE IF pc \in {"wait_step", "wait_cont"} THEN "running"
  ELSE IF tstat = "stepping" THEN "stepping"
  ELSE "stopped"

Trapped == pc = "wait_cont" /\ tstat = "stopped" /\ why = "trap"

atBar   == IF Over THEN 0 ELSE IF Trapped THEN rip - 1 ELSE rip
bpsBar  == IF Over THEN {} ELSE BpAddrs
hitBar  == IF Over \/ pc = "wait_step" THEN 0 ELSE bp_restore.addr
skipBar == pc = "wait_step" /\ tstat = "stepping"

Service == INSTANCE DebugService WITH
  Entry  <- [p \in Programs |-> Image[p].entry],
  Starts <- [p \in Programs \union {NoProg} |-> IF p = NoProg THEN {} ELSE Image[p].starts],
  Succ   <- [p \in Programs |-> Image[p].succ],
  Exits  <- [p \in Programs |-> Image[p].exits],
  phase  <- phaseBar,
  prog   <- tprog,
  at     <- atBar,
  bps    <- bpsBar,
  hit    <- hitBar,
  skip   <- skipBar

(* Every step of a carefully used debugger is a step of the service or     *)
(* invisible to its user: cont from a hit breakpoint executes exactly the  *)
(* program's instruction and re-arms, a trap is reported at the            *)
(* breakpoint's address, and no patched byte is ever executed as part of   *)
(* an instruction.                                                         *)
ImplementsService == Service!Spec

(* The tracee executes nothing but the program's instructions.             *)
OwnInstructions == ~derailed
=============================================================================
