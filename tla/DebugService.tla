---------------------------- MODULE DebugService ----------------------------
(***************************************************************************)
(* What the breakpoint debugger of hw4 promises its user: the program runs *)
(* its own instructions, as if no byte of it had ever been changed, and    *)
(* does not execute an instruction that has a breakpoint before it has     *)
(* stopped there and been told to continue.  Derived from the commands of  *)
(* hw4/sdb.cpp; int3, saved bytes, single steps and waits do not exist     *)
(* here.                                                                   *)
(***************************************************************************)
EXTENDS Naturals

CONSTANTS
  Programs,  \* the executables
  NoProg,    \* no executable
  Entry,     \* the entry point of each
  Starts,    \* the addresses of its instructions
  Succ,      \* where each instruction may continue
  Exits      \* the instructions that end it

VARIABLES
  phase,  \* what the program is doing
  prog,   \* the program
  at,     \* its next instruction
  bps,    \* the breakpoints
  hit,    \* the breakpoint at which it last stopped, 0 if none
  skip    \* the next instruction runs even if it has a breakpoint

vars == <<phase, prog, at, bps, hit, skip>>

Init ==
  /\ phase = "idle" /\ prog = NoProg
  /\ at = 0 /\ bps = {} /\ hit = 0 /\ skip = FALSE

Begin(p) ==
  /\ phase = "idle"
  /\ phase' = "starting" /\ prog' = p
  /\ UNCHANGED <<at, bps, hit, skip>>

Begun ==
  /\ phase = "starting"
  /\ phase' = "stopped" /\ at' = Entry[prog]
  /\ UNCHANGED <<prog, bps, hit, skip>>

Break(a) ==
  /\ phase = "stopped"
  /\ bps' = bps \union {a}
  /\ UNCHANGED <<phase, prog, at, hit, skip>>

Delete(a) ==
  /\ phase = "stopped"
  /\ bps' = bps \ {a}
  /\ hit' = IF hit = a THEN 0 ELSE hit
  /\ UNCHANGED <<phase, prog, at, skip>>

Move(a) ==
  /\ phase = "stopped"
  /\ at' = a
  /\ UNCHANGED <<phase, prog, bps, hit, skip>>

(* Where the program last stopped at a breakpoint it goes past it, once.   *)
Continue ==
  /\ phase = "stopped"
  /\ phase' = "running"
  /\ skip' = (at = hit)
  /\ hit' = IF at = hit THEN 0 ELSE hit
  /\ UNCHANGED <<prog, at, bps>>

Step ==
  /\ phase = "stopped"
  /\ phase' = "stepping"
  /\ UNCHANGED <<prog, at, bps, hit, skip>>

Execute ==
  /\ \/ phase = "running" /\ (skip \/ at \notin bps) /\ phase' = "running"
     \/ phase = "stepping" /\ phase' = "stopped"
  /\ at \notin Exits[prog]
  /\ at' \in Succ[prog][at]
  /\ skip' = FALSE
  /\ UNCHANGED <<prog, bps, hit>>

Hit ==
  /\ phase = "running" /\ at \in bps /\ ~skip
  /\ phase' = "stopped"
  /\ hit' = at
  /\ UNCHANGED <<prog, at, bps, skip>>

(* A signal stops the program where it is; when it comes before the        *)
(* instruction to be skipped has run, the breakpoint there is hit again.   *)
Interrupt ==
  /\ \/ phase \in {"running", "stepping"} /\ ~skip /\ phase' = "stopped"
     \/ phase = "running" /\ skip /\ phase' = "running"
  /\ skip' = FALSE
  /\ UNCHANGED <<prog, at, bps, hit>>

(* The program exits at one of its exits, or it is killed or left.         *)
End ==
  /\ phase \notin {"idle", "over"}
  /\ phase' = "over"
  /\ at' = 0 /\ bps' = {} /\ hit' = 0 /\ skip' = FALSE
  /\ UNCHANGED prog

Next ==
  \/ \E p \in Programs : Begin(p)
  \/ Begun
  \/ \E a \in Starts[prog] : Break(a) \/ Delete(a) \/ Move(a)
  \/ Continue \/ Step
  \/ Execute \/ Hit \/ Interrupt
  \/ End

Spec == Init /\ [][Next]_vars
=============================================================================
