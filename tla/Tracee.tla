------------------------------- MODULE Tracee -------------------------------
(***************************************************************************)
(* The program being debugged, as hw4/sdb.cpp sees it through ptrace(2):   *)
(* a process with an instruction pointer and a text segment whose bytes    *)
(* the debugger patches.  Everything here is the kernel and the processor; *)
(* it is modelled from the calls sdb.cpp makes (PTRACE_TRACEME, CONT,      *)
(* SINGLESTEP, PEEKTEXT, POKETEXT, GETREGS, SETREGS, O_EXITKILL, waitpid). *)
(*                                                                         *)
(* A text segment is a function from addresses to bytes.  An instruction   *)
(* can be executed only where all of its bytes are those of the program;   *)
(* the byte CC is int3, which stops the process with rip one byte later.   *)
(***************************************************************************)
EXTENDS Integers, Sequences

CONSTANTS
  MaxAddr,   \* the text segment is mapped at 1 .. MaxAddr, nothing else is
  Byte,      \* the values of a byte
  CC,        \* the byte 0xcc, the int3 instruction
  Programs,  \* the executables that can be loaded
  NoProg,    \* no executable
  Image,     \* what each executable contains, see ImageAssumption
  Faults     \* the environment events that may happen

Addr == 1 .. MaxAddr
Rip  == 0 .. MaxAddr + 1   \* values of the instruction pointer, 0 and MaxAddr+1 unmapped

(***************************************************************************)
(* starts: where the program's instructions begin; len: the length decoded *)
(* at an address; succ: where the instruction may continue; exits: the     *)
(* instructions that end the process; entry, size: e_entry and the size of *)
(* .text, which need not end at the same address as the mapping.           *)
(***************************************************************************)
ImageAssumption ==
  Image \in [Programs -> [entry : Addr, size : Nat, text : [Addr -> Byte],
                          len : [Addr -> Nat \ {0}], starts : SUBSET Addr,
                          succ : [Addr -> SUBSET Addr], exits : SUBSET Addr]]

ASSUME TraceeAssumption ==
  /\ MaxAddr \in Nat
  /\ CC \in Byte /\ 0 \in Byte
  /\ NoProg \notin Programs
  /\ ImageAssumption

VARIABLES
  tstat,     \* what the kernel has the process do
  why,       \* why it last stopped
  tprog,     \* the executable it runs
  mem,       \* its text segment
  rip,       \* its instruction pointer
  exitkill,  \* PTRACE_O_EXITKILL is set
  derailed   \* history: it executed bytes that are not an instruction of tprog

traceeVars == <<tstat, why, tprog, mem, rip, exitkill, derailed>>

Status == {"none", "execing", "stopped", "running", "stepping",
           "exited", "killed", "gone", "detached"}
Reason == {"none", "exec", "trap", "step", "signal"}

TraceeTypeOK ==
  /\ tstat \in Status
  /\ why \in Reason
  /\ tprog \in Programs \union {NoProg}
  /\ mem \in [Addr -> Byte]
  /\ rip \in Rip
  /\ exitkill \in BOOLEAN
  /\ derailed \in BOOLEAN
  /\ tstat \in {"execing", "stopped", "running", "stepping"} => tprog \in Programs

TraceeInit ==
  /\ tstat = "none"
  /\ why = "none"
  /\ tprog = NoProg
  /\ mem = [a \in Addr |-> 0]
  /\ rip = 0
  /\ exitkill = FALSE
  /\ derailed = FALSE

Executing == tstat \in {"running", "stepping"}
Living    == tstat \in {"execing", "stopped", "running", "stepping"}
Waitable  == tstat \in {"stopped", "exited", "killed"}   \* waitpid returns

(* A stop: a resumed process goes back to the debugger's waitpid.          *)
Stop(reason) == tstat' = "stopped" /\ why' = reason

(* All bytes of the program's instruction at a are in memory.              *)
Intact(a) ==
  /\ a \in Image[tprog].starts
  /\ \A b \in Addr : b \in a .. a + Image[tprog].len[a] - 1 => mem[b] = Image[tprog].text[b]

-----------------------------------------------------------------------------
(* Requests of the debugger.                                               *)

Fork(p) ==
  /\ tstat' = "execing" /\ tprog' = p
  /\ why' = "none" /\ mem' = [a \in Addr |-> 0] /\ rip' = 0
  /\ exitkill' = FALSE /\ derailed' = FALSE

Resume(how) ==
  tstat' = how /\ why' = "none"

(* The kernel's part of the debugger's death: PTRACE_O_EXITKILL kills the  *)
(* tracee, without it the tracee goes on alone.                            *)
TracerExit ==
  /\ tstat' = IF Living THEN IF exitkill THEN "killed" ELSE "detached" ELSE tstat
  /\ UNCHANGED <<why, tprog, mem, rip, exitkill, derailed>>

-----------------------------------------------------------------------------
(* Steps of the process and of the environment.                            *)

ExecOk ==
  /\ tstat = "execing"
  /\ Stop("exec")
  /\ mem' = Image[tprog].text
  /\ rip' = Image[tprog].entry
  /\ UNCHANGED <<tprog, exitkill, derailed>>

ExecFails ==
  /\ "execfail" \in Faults
  /\ tstat = "execing"
  /\ tstat' = "exited"
  /\ UNCHANGED <<why, tprog, mem, rip, exitkill, derailed>>

Trap ==
  /\ Executing /\ rip \in Addr
  /\ mem[rip] = CC
  /\ Stop("trap")
  /\ rip' = rip + 1
  /\ UNCHANGED <<tprog, mem, exitkill, derailed>>

(* After one instruction a single-stepped process stops.                   *)
StopIfStepping ==
  IF tstat = "stepping" THEN Stop("step") ELSE UNCHANGED <<tstat, why>>

Insn ==
  /\ Executing /\ rip \in Addr
  /\ mem[rip] # CC /\ Intact(rip) /\ rip \notin Image[tprog].exits
  /\ rip' \in Image[tprog].succ[rip]
  /\ StopIfStepping
  /\ UNCHANGED <<tprog, mem, exitkill, derailed>>

ExitInsn ==
  /\ Executing /\ rip \in Addr
  /\ mem[rip] # CC /\ Intact(rip) /\ rip \in Image[tprog].exits
  /\ tstat' = "exited"
  /\ UNCHANGED <<why, tprog, mem, rip, exitkill, derailed>>

(* Other bytes: whatever they decode to, the process may go anywhere,      *)
(* fault or end.                                                           *)
Derail ==
  /\ Executing /\ rip \in Addr
  /\ mem[rip] # CC /\ ~Intact(rip)
  /\ derailed' = TRUE
  /\ \/ rip' \in Rip /\ StopIfStepping
     \/ Stop("signal") /\ UNCHANGED rip
     \/ tstat' = "exited" /\ UNCHANGED <<rip, why>>
  /\ UNCHANGED <<tprog, mem, exitkill>>

(* Unmapped memory: SIGSEGV stops the process before it is delivered.      *)
Segfault ==
  /\ Executing
  /\ rip \notin Addr
  /\ Stop("signal")
  /\ UNCHANGED <<tprog, mem, rip, exitkill, derailed>>

(* A signal from outside, at any moment; the process stops where it is.    *)
Signal ==
  /\ "signal" \in Faults
  /\ Executing
  /\ Stop("signal")
  /\ UNCHANGED <<tprog, mem, rip, exitkill, derailed>>

Kill ==
  /\ "kill" \in Faults
  /\ Living
  /\ tstat' = "killed"
  /\ UNCHANGED <<why, tprog, mem, rip, exitkill, derailed>>

Run == Insn \/ ExitInsn \/ Trap \/ Derail \/ Segfault

TraceeNext == ExecOk \/ ExecFails \/ Run \/ Signal \/ Kill
=============================================================================
