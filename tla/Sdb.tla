-------------------------------- MODULE Sdb --------------------------------
(***************************************************************************)
(* The debugger hw4/sdb.cpp: its command loop, its breakpoints, and the    *)
(* ptrace requests it makes of the tracee.                                 *)
(*                                                                         *)
(* A command that resumes the tracee returns only after a waitpid, so the  *)
(* debugger has one control point per waitpid (and one for the loop of     *)
(* get_orig_code); between two control points the tracee is stopped and    *)
(* only a SIGKILL can intervene.  Commands that print and change nothing   *)
(* are left out, except where they end the debugger.                       *)
(***************************************************************************)
EXTENDS Tracee, SequencesExt

CONSTANTS
  Commands,     \* the commands the script or the user gives
  BreakAddrs,   \* arguments of the break command
  RipValues,    \* arguments of the command set rip
  MaxSessions   \* how many times the tracee may be started

ASSUME SdbAssumption ==
  /\ BreakAddrs \subseteq Nat
  /\ RipValues \subseteq Rip
  /\ MaxSessions \in Nat

VARIABLES
  pc,                 \* where the debugger is
  then_cont,          \* the start in progress belongs to a run command
  state,              \* info.state
  path,               \* info.path
  bp_vec,             \* info.bp_vec
  bp_restore,         \* the breakpoint to step over, {} if none
  orig_instructions,  \* the disassembly made by get_orig_code
  addr,               \* the loop variable of get_orig_code
  sessions            \* history: number of processes started

infoVars == <<state, path, bp_vec>>
sdbVars  == <<pc, then_cont, state, path, bp_vec, bp_restore, orig_instructions, addr, sessions>>
vars     == <<traceeVars, sdbVars>>

Point == {"prompt", "wait_exec", "sweep", "cont", "wait_step", "wait_cont", "wait_si", "exit"}

Breakpoint  == [addr : Nat, orig_patch : Byte]
Instruction == [addr : Nat, prog : Programs \union {NoProg}]
NoRestore   == [addr |-> 0, orig_patch |-> 0]

TypeOK ==
  /\ TraceeTypeOK
  /\ pc \in Point
  /\ then_cont \in BOOLEAN
  /\ state \in {"NOLOAD", "LOADED", "RUNNING"}
  /\ path \in Programs \union {NoProg}
  /\ bp_vec \in Seq(Breakpoint)
  /\ bp_restore \in Breakpoint
  /\ orig_instructions \in Seq(Instruction)
  /\ addr \in Nat
  /\ sessions \in 0 .. MaxSessions

Init ==
  /\ TraceeInit
  /\ pc = "prompt"
  /\ then_cont = FALSE
  /\ state = "NOLOAD"
  /\ path = NoProg
  /\ bp_vec = << >>
  /\ bp_restore = NoRestore
  /\ orig_instructions = << >>
  /\ addr = 0
  /\ sessions = 0

-----------------------------------------------------------------------------
Command(c) == pc = "prompt" /\ c \in Commands

(* ptrace requests succeed only on a stopped tracee; PEEKTEXT and POKETEXT *)
(* also need a mapped address.                                             *)
Stopped     == tstat = "stopped"
Pokeable(a) == Stopped /\ a \in Addr

BpAddrs == {bp_vec[i].addr : i \in DOMAIN bp_vec}

Disassembled(a) == \E i \in DOMAIN orig_instructions : orig_instructions[i].addr = a

(* The end of the debugger process, whatever its cause.                    *)
Die ==
  /\ pc' = "exit"
  /\ TracerExit
  /\ UNCHANGED <<then_cont, infoVars, bp_restore, orig_instructions, addr, sessions>>

(* waitpid on a process that has ended also forgets it.                    *)
Reap ==
  /\ tstat' = IF Stopped THEN "stopped" ELSE "gone"
  /\ UNCHANGED <<why, tprog, mem, exitkill, derailed>>

-----------------------------------------------------------------------------
(* load                                                                    *)
Load(p) ==
  /\ Command("load")
  /\ state = "NOLOAD"
  /\ state' = "LOADED"
  /\ path' = p
  /\ bp_vec' = << >>
  /\ UNCHANGED <<traceeVars, pc, then_cont, bp_restore, orig_instructions, addr, sessions>>

(* elf_read exits when the file cannot be opened or read.                  *)
LoadFails ==
  /\ Command("load")
  /\ state = "NOLOAD"
  /\ Die

(* start, or run of a loaded program: fork, then wait for the exec.        *)
StartableWithoutLoad == state # "RUNNING"

Startable == state = "LOADED"

Start(c) ==
  /\ Command(c)
  /\ Startable
  /\ sessions < MaxSessions
  /\ Fork(path)
  /\ pc' = "wait_exec"
  /\ then_cont' = (c = "run")
  /\ sessions' = sessions + 1
  /\ UNCHANGED <<infoVars, bp_restore, orig_instructions, addr>>

(* The waitpid of start: the assertion on its status, PTRACE_O_EXITKILL,   *)
(* and the call of get_orig_code.  A stop of the exec may still be what    *)
(* waitpid reports of a tracee killed since; SETOPTIONS is not checked.    *)
OptionsNotSet == UNCHANGED exitkill

SetOptions == exitkill' = IF Stopped THEN TRUE ELSE exitkill

StartReturns ==
  /\ pc = "wait_exec"
  /\ \/ /\ Stopped \/ (tstat = "killed" /\ why = "exec")
        /\ SetOptions
        /\ state' = "RUNNING"
        /\ addr' = Image[path].entry
        /\ pc' = "sweep"
        /\ UNCHANGED <<tstat, why, tprog, mem, rip, derailed, then_cont, path, bp_vec,
                       bp_restore, orig_instructions, sessions>>
     \/ /\ tstat \in {"exited", "killed"}
        /\ Die

(* One iteration of the loop of get_orig_code.  An address that cannot be  *)
(* read decodes as zero bytes, an instruction of length 2.                 *)
SweepEnd == Image[path].entry + Image[path].size

DecodedIfRead(a) ==
  [prog |-> tprog, len |-> IF Pokeable(a) THEN Image[tprog].len[a] ELSE 0]

Decoded(a) ==
  IF Pokeable(a) THEN [prog |-> tprog, len |-> Image[tprog].len[a]]
                 ELSE [prog |-> NoProg, len |-> 2]

SweepRetrying ==
  /\ pc = "sweep"
  /\ addr < SweepEnd /\ Pokeable(addr)
  /\ orig_instructions' = Append(orig_instructions, [addr |-> addr, prog |-> tprog])
  /\ addr' = addr + Decoded(addr).len
  /\ UNCHANGED <<traceeVars, pc, then_cont, infoVars, bp_restore, sessions>>

Sweep ==
  /\ pc = "sweep"
  /\ addr < SweepEnd
  /\ orig_instructions' = Append(orig_instructions, [addr |-> addr, prog |-> Decoded(addr).prog])
  /\ addr' = addr + Decoded(addr).len
  /\ UNCHANGED <<traceeVars, pc, then_cont, infoVars, bp_restore, sessions>>

SweepDone ==
  /\ pc = "sweep"
  /\ addr >= SweepEnd
  /\ pc' = IF then_cont THEN "cont" ELSE "prompt"
  /\ then_cont' = FALSE
  /\ addr' = 0
  /\ UNCHANGED <<traceeVars, infoVars, bp_restore, orig_instructions, sessions>>

-----------------------------------------------------------------------------
(* cont, also reached from run.  At the address of the last hit breakpoint *)
(* the original byte is put back for one single step; elsewhere the tracee *)
(* is let go.                                                              *)
ContCalled == (pc = "cont" \/ Command("cont") \/ Command("run")) /\ state = "RUNNING"

ContStepsOver ==
  /\ ContCalled
  /\ Pokeable(rip) /\ rip = bp_restore.addr
  /\ mem' = [mem EXCEPT ![rip] = bp_restore.orig_patch]
  /\ Resume("stepping")
  /\ pc' = "wait_step"
  /\ UNCHANGED <<tprog, rip, exitkill, derailed, then_cont, infoVars, bp_restore,
                 orig_instructions, addr, sessions>>

ContResumes ==
  /\ ContCalled
  /\ Stopped /\ rip # bp_restore.addr
  /\ Resume("running")
  /\ pc' = "wait_cont"
  /\ UNCHANGED <<tprog, mem, rip, exitkill, derailed, then_cont, infoVars, bp_restore,
                 orig_instructions, addr, sessions>>

(* GETREGS on a dead tracee, or POKETEXT at an unmapped address, fails.    *)
ContFails ==
  /\ ContCalled
  /\ ~Stopped \/ (rip = bp_restore.addr /\ rip \notin Addr)
  /\ Die

(* The waitpid after the single step.  The breakpoint is armed again and   *)
(* the tracee let go; poking a tracee that ended in the step fails.        *)
LeftDisarmed == mem

Rearmed == [mem EXCEPT ![bp_restore.addr] = CC]

StepReturns ==
  /\ pc = "wait_step"
  /\ \/ /\ Stopped
        /\ mem' = Rearmed
        /\ bp_restore' = NoRestore
        /\ Resume("running")
        /\ pc' = "wait_cont"
        /\ UNCHANGED <<tprog, rip, exitkill, derailed, then_cont, infoVars,
                       orig_instructions, addr, sessions>>
     \/ /\ tstat \in {"exited", "killed"}
        /\ Die

(* The waitpid after PTRACE_CONT.  A stop one byte after a breakpoint is   *)
(* taken for a hit of it, whatever the signal, if its address was          *)
(* disassembled; rip is then moved back.                                   *)
HitAt(i) == i \in DOMAIN bp_vec /\ bp_vec[i].addr = rip - 1 /\ Disassembled(rip - 1)

NotRewound == rip

Rewound == rip - 1

ContHits ==
  /\ pc = "wait_cont" /\ Stopped
  /\ \E i \in DOMAIN bp_vec : HitAt(i) /\ bp_restore' = bp_vec[i]
  /\ rip' = Rewound
  /\ pc' = "prompt"
  /\ UNCHANGED <<tstat, why, tprog, mem, exitkill, derailed, then_cont, infoVars,
                 orig_instructions, addr, sessions>>

ContStops ==
  /\ pc = "wait_cont" /\ Stopped
  /\ \A i \in DOMAIN bp_vec : ~HitAt(i)
  /\ pc' = "prompt"
  /\ UNCHANGED <<traceeVars, then_cont, infoVars, bp_restore, orig_instructions, addr, sessions>>

ContExits ==
  /\ pc = "wait_cont" /\ tstat = "exited"
  /\ Reap
  /\ state' = "NOLOAD" /\ path' = NoProg /\ bp_vec' = << >>
  /\ pc' = "prompt"
  /\ UNCHANGED <<rip, then_cont, bp_restore, orig_instructions, addr, sessions>>

(* Killed: WIFEXITED is false, so nothing happens; but if the status read  *)
(* was that of a stop that came before the kill, GETREGS fails.            *)
WaitAgain == UNCHANGED pc

CommandOver == pc' = "prompt"

ContKilled ==
  /\ pc = "wait_cont" /\ tstat = "killed"
  /\ \/ /\ Reap
        /\ CommandOver
        /\ UNCHANGED <<rip, then_cont, infoVars, bp_restore, orig_instructions, addr, sessions>>
     \/ why # "none" /\ Die

-----------------------------------------------------------------------------
(* si                                                                      *)
Si ==
  /\ Command("si")
  /\ state = "RUNNING"
  /\ \/ /\ Stopped
        /\ Resume("stepping")
        /\ pc' = "wait_si"
        /\ UNCHANGED <<tprog, mem, rip, exitkill, derailed, then_cont, infoVars, bp_restore,
                       orig_instructions, addr, sessions>>
     \/ ~Stopped /\ Die

SiReturns ==
  /\ pc = "wait_si"
  /\ Waitable
  /\ Reap
  /\ pc' = "prompt"
  /\ UNCHANGED <<rip, then_cont, infoVars, bp_restore, orig_instructions, addr, sessions>>

(* break: a second breakpoint at an address is ignored; poking an unmapped *)
(* address or a dead tracee fails.                                         *)
AnyAddress(a) == TRUE

NewAddress(a) == a \notin BpAddrs

SetBp(a) ==
  /\ Command("break")
  /\ state = "RUNNING"
  /\ NewAddress(a)
  /\ \/ /\ Pokeable(a)
        /\ bp_vec' = Append(bp_vec, [addr |-> a, orig_patch |-> mem[a]])
        /\ mem' = [mem EXCEPT ![a] = CC]
        /\ UNCHANGED <<tstat, why, tprog, rip, exitkill, derailed, pc, then_cont, state, path,
                       bp_restore, orig_instructions, addr, sessions>>
     \/ ~Pokeable(a) /\ Die

(* delete, by index in the list; no state is required.                     *)
LeftPatched(i) == mem

Unpatched(i) == [mem EXCEPT ![bp_vec[i].addr] = bp_vec[i].orig_patch]

RestoreKept(i) == bp_restore

RestoreAfter(i) ==
  IF bp_restore.addr = bp_vec[i].addr THEN NoRestore ELSE bp_restore

DelBp(i) ==
  /\ Command("delete")
  /\ i \in DOMAIN bp_vec
  /\ \/ /\ Pokeable(bp_vec[i].addr)
        /\ mem' = Unpatched(i)
        /\ bp_restore' = RestoreAfter(i)
        /\ bp_vec' = RemoveAt(bp_vec, i)
        /\ UNCHANGED <<tstat, why, tprog, rip, exitkill, derailed, pc, then_cont, state, path,
                       orig_instructions, addr, sessions>>
     \/ ~Pokeable(bp_vec[i].addr) /\ Die

(* set rip                                                                 *)
SetRip(v) ==
  /\ Command("set")
  /\ state = "RUNNING"
  /\ \/ /\ Stopped
        /\ rip' = v
        /\ UNCHANGED <<tstat, why, tprog, mem, exitkill, derailed, sdbVars>>
     \/ ~Stopped /\ Die

(* get, getregs: only GETREGS failing changes anything.                    *)
GetRegs ==
  /\ Command("getregs")
  /\ state = "RUNNING"
  /\ ~Stopped
  /\ Die

(* exit, end of input, or an argument that stoull and stoi reject.         *)
Quit ==
  /\ Command("exit")
  /\ Die

(* The debugger itself is killed, for instance by ^C at the terminal.      *)
DebuggerKilled ==
  /\ "die" \in Faults
  /\ pc # "exit"
  /\ Die

-----------------------------------------------------------------------------
Internal ==
  \/ StartReturns \/ Sweep \/ SweepDone
  \/ pc = "cont" /\ (ContStepsOver \/ ContResumes \/ ContFails)
  \/ StepReturns \/ ContHits \/ ContStops \/ ContExits \/ ContKilled \/ SiReturns

UserCommand ==
  \/ \E p \in Programs : Load(p)
  \/ LoadFails
  \/ \E c \in {"start", "run"} : Start(c)
  \/ ContStepsOver \/ ContResumes \/ ContFails
  \/ Si
  \/ \E a \in BreakAddrs : SetBp(a)
  \/ \E i \in DOMAIN bp_vec : DelBp(i)
  \/ \E v \in RipValues : SetRip(v)
  \/ GetRegs
  \/ Quit

Next ==
  \/ TraceeNext /\ UNCHANGED sdbVars
  \/ Internal
  \/ UserCommand
  \/ DebuggerKilled

Spec == Init /\ [][Next]_vars

(* The scheduler runs the tracee whenever it is resumed, exec completes or *)
(* fails, and the debugger returns from its waitpid calls.  Nothing makes  *)
(* the user type a command or the environment send a signal.               *)
Fairness ==
  /\ WF_vars((ExecOk \/ ExecFails \/ Run) /\ UNCHANGED sdbVars)
  /\ WF_vars(Internal)

FairSpec == Spec /\ Fairness

-----------------------------------------------------------------------------
(* Safety, for any sequence of commands, any faults and any number of      *)
(* sessions.                                                               *)

(* A breakpoint that list shows is in the tracee's text: set_bp, cont and  *)
(* del_bp leave no command, and no wait but the one of the single step,    *)
(* with a listed breakpoint disarmed.                                      *)
Disarmed(a) == pc = "wait_step" /\ a = bp_restore.addr

Armed ==
  Living => \A i \in DOMAIN bp_vec : mem[bp_vec[i].addr] = CC \/ Disarmed(bp_vec[i].addr)

(* set_bp never lists an address twice, so deleting an index removes the   *)
(* breakpoint at its address.                                              *)
UniqueBps ==
  \A i, j \in DOMAIN bp_vec : bp_vec[i].addr = bp_vec[j].addr => i = j

(* In the first session the text of the tracee is the program's, with int3 *)
(* at the listed breakpoints and nowhere else, and the byte saved for each *)
(* is the program's own: patches are undone exactly, in whatever order     *)
(* breakpoints are set, hit, stepped over and deleted.                     *)
Patched(a) == a \in BpAddrs /\ ~Disarmed(a)

TextPatched ==
  mem = [a \in Addr |-> IF Patched(a) THEN CC ELSE Image[tprog].text[a]]

BytesSaved ==
  \A i \in DOMAIN bp_vec : bp_vec[i].orig_patch = Image[tprog].text[bp_vec[i].addr]

TextSync ==
  tstat \in {"stopped", "running", "stepping"} /\ sessions = 1 => TextPatched /\ BytesSaved

(* In the first session the breakpoint that the next cont would step over  *)
(* is a listed one: deleting it forgets it, so cont cannot plant it again. *)
RestoreListed ==
  sessions = 1 /\ state = "RUNNING" =>
    bp_restore = NoRestore \/ \E i \in DOMAIN bp_vec : bp_vec[i] = bp_restore

(* The debugger waits only for a process that is its child, was not reaped *)
(* and was resumed as the wait expects: after PTRACE_SINGLESTEP it has one *)
(* instruction to go, so that only the wait of cont may last.              *)
WaitsAnswered ==
  /\ pc = "wait_exec" => Waitable \/ tstat = "execing"
  /\ pc \in {"wait_step", "wait_si"} => Waitable \/ tstat = "stepping"
  /\ pc = "wait_cont" => Waitable \/ tstat = "running"

(* However the debugger ends once start has returned, exit, an error or a  *)
(* signal, it leaves no tracee behind.                                     *)
NoOrphan ==
  pc = "exit" /\ state = "RUNNING" => tstat \notin {"execing", "stopped", "running", "stepping", "detached"}

(* What a command has ahead: stages, addresses of the sweep, and what the  *)
(* child may still do for the wait.                                        *)
Stage ==
  [wait_exec |-> 5, sweep |-> 4, cont |-> 3, wait_step |-> 2, wait_cont |-> 1, wait_si |-> 1,
   prompt |-> 0, exit |-> 0]

Unswept == IF pc = "sweep" /\ addr < SweepEnd THEN SweepEnd - addr ELSE 0

ChildAhead == IF tstat \in {"execing", "running", "stepping"} THEN 2 ELSE IF Stopped THEN 1 ELSE 0

Ahead == <<Stage[pc], Unswept, ChildAhead>>

Nearer(x, y) == \E k \in DOMAIN x : x[k] < y[k] /\ \A m \in 1 .. k - 1 : x[m] = y[m]

(* A command that was typed is brought nearer to the prompt by every step  *)
(* of anyone, whatever stops, ends or kills the tracee meanwhile: it takes *)
(* finitely many, except that cont waits for as long as the tracee runs.   *)
CommandsAdvance ==
  [][pc \notin {"prompt", "exit"} =>
       /\ Ahead' \in [1 .. 3 -> Nat]
       /\ \/ Nearer(Ahead', Ahead)
          \/ pc = "wait_cont" /\ tstat = "running" /\ UNCHANGED <<tstat, sdbVars>>]_vars

(* Liveness.  The disassembly of get_orig_code ends, also when the tracee  *)
(* is killed under it and every read fails.                                *)
SweepEnds == pc = "sweep" ~> pc # "sweep"

(* A command ends, unless it has let the tracee run and the tracee runs    *)
(* for ever: the debugger is never stuck in a waitpid that nothing will    *)
(* answer, whatever stopped, ended or killed the tracee before.            *)
NeverStuck == []<>(pc \in {"prompt", "exit"} \/ tstat = "running")
=============================================================================
