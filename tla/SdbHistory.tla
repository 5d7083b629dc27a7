----------------------------- MODULE SdbHistory -----------------------------
(***************************************************************************)
(* The debugger with two variables of history, which restrict no step: the *)
(* breakpoint that a process inherits from the one before, and the hits    *)
(* that were reported and not yet passed.                                  *)
(***************************************************************************)
EXTENDS Sdb

VARIABLES
  inherited,  \* the address in bp_restore at the last fork, 0 if none
  reported    \* addresses whose instruction may run once: their hit was reported

hvars == <<vars, inherited, reported>>

(* The tracee runs what is at a listed breakpoint, be it a whole           *)
(* instruction or not.                                                     *)
Passes == rip \in BpAddrs /\ (Insn \/ ExitInsn \/ Derail)

Forks == sessions' # sessions

(* ContHits reports the hit at rip'. What the process before has left in   *)
(* bp_restore counts as reported: the next cont at that address will step  *)
(* over it. A breakpoint that is no longer listed is forgotten.            *)
Remember ==
  /\ inherited' = IF Forks THEN bp_restore.addr ELSE inherited
  /\ reported' =
       ((IF Forks THEN {bp_restore.addr} ELSE IF Passes THEN reported \ {rip} ELSE reported)
          \union (IF ContHits THEN {rip'} ELSE {}))
       \ (BpAddrs \ BpAddrs')

HInit == Init /\ inherited = 0 /\ reported = {}

HNext == Next /\ Remember

HSpec == HInit /\ [][HNext]_hvars

HFairSpec == HSpec /\ Fairness

-----------------------------------------------------------------------------
(* The tracee runs the instruction at a listed breakpoint only after its   *)
(* hit was reported by cont, once for each report, whatever break, delete, *)
(* set rip, si, signals and new processes come in between (cont, sdb.cpp:  *)
(* 230-248 and 261-282; del_bp, 299-303).  One pass per process is not     *)
(* announced: that of the breakpoint inherited in bp_restore.  (An int3    *)
(* that si executes, or that cont meets outside of the disassembly, stops  *)
(* the tracee unreported; its instruction has then not run.)               *)
PassesReported == [][Passes => rip \in reported]_hvars

(* In any session at most one address is astray, and it is the one that    *)
(* was in bp_restore when the process was forked, whatever commands follow;*)
(* everywhere else the text and the saved bytes are as in the first        *)
(* session.                                                                *)
SyncedBut(s) ==
  /\ \A a \in Addr \ {s} : mem[a] = IF Patched(a) THEN CC ELSE Image[tprog].text[a]
  /\ \A i \in DOMAIN bp_vec :
       bp_vec[i].addr # s => bp_vec[i].orig_patch = Image[tprog].text[bp_vec[i].addr]

OneStray ==
  tstat \in {"stopped", "running", "stepping"} => SyncedBut(inherited)
=============================================================================
