------------------------ MODULE SdbRefinementProofs ------------------------
(***************************************************************************)
(* The proof that the debugger, used with care, implements DebugService:   *)
(* for any executables of the kind ProgramAssumption describes, any        *)
(* commands and any faults, in the first session.                          *)
(***************************************************************************)
EXTENDS SdbRefinement, SdbProofs

(* What care keeps true, beyond what holds for any user.  A process that   *)
(* is running is at an instruction, a stopped one too or just behind the   *)
(* breakpoint it has hit; a wait tells what may have stopped it; and every *)
(* breakpoint is at an instruction that the disassembly knows.             *)
Starts == Image[tprog].starts

Marked == Inside => BpAddrs \subseteq Instructions

Placed ==
  /\ tstat = "none" => rip = 0
  /\ Executing => rip \in Starts
  /\ tstat = "stopped" /\ ~Trapped => rip \in Starts
  /\ Trapped => rip - 1 \in BpAddrs

Waits ==
  /\ tstat = "none" => pc \in {"prompt", "exit"}
  /\ tstat = "running" => pc = "wait_cont"
  /\ tstat = "stepping" => pc \in {"wait_step", "wait_si"}
  /\ tstat = "stepping" /\ pc = "wait_step" => rip = bp_restore.addr
  /\ tstat = "stepping" /\ pc = "wait_si" => rip \notin BpAddrs
  /\ tstat = "stopped" /\ pc = "wait_cont" /\ ~Trapped => rip - 1 \notin BpAddrs

CareInv == Marked /\ Placed /\ Waits /\ OwnInstructions

(* What the proofs about any user give.                                    *)
AnyUser == ArmedInv /\ SyncInv

LEMMA FirstSession ==
  ASSUME MaxSessions <= 1, AnyUser, tstat # "none"
  PROVE  sessions = 1
<1>1. sessions \in 0 .. MaxSessions /\ sessions # 0
  BY DEF AnyUser, SyncInv, Unstarted, TypeInv, TypeOK
<1> QED BY <1>1, SdbAssumption

(* The instructions of the executable that runs.                           *)
LEMMA ProgramKnown ==
  ASSUME AnyUser, Living
  PROVE  /\ tprog \in Programs /\ tprog # NoProg
         /\ Starts \subseteq Addr
         /\ Image[tprog].entry \in Starts
         /\ \A a \in Starts : Image[tprog].text[a] # CC /\ Image[tprog].succ[a] \subseteq Starts
         /\ \A a, b \in Starts : b \in Bytes(tprog, a) => b = a
<1>1. tprog \in Programs
  BY DEF AnyUser, SyncInv, TypeInv, TypeOK, TraceeTypeOK, Living
<1>2. Starts \subseteq Addr
  BY <1>1, TraceeAssumption DEF ImageAssumption, Starts
<1> QED BY <1>1, <1>2, ProgramAssumption, TraceeAssumption DEF Starts

(* Where a running process is, it finds int3 exactly if a breakpoint is    *)
(* armed there, and otherwise the whole instruction of the program: no     *)
(* breakpoint is inside another instruction.                               *)
LEMMA TextAt ==
  ASSUME MaxSessions <= 1, AnyUser, CareInv, Executing
  PROVE  /\ rip \in Starts /\ rip \in Addr
         /\ mem[rip] = CC <=> rip \in BpAddrs /\ pc # "wait_step"
         /\ mem[rip] # CC => Intact(rip)
<1>1. Living /\ Inside /\ Synced
  BY FirstSession DEF Executing, Living, Inside, Synced
<1>2. rip \in Starts /\ rip \in Addr
  BY <1>1, ProgramKnown DEF CareInv, Placed
<1>3. \A a \in Addr : mem[a] = IF Patched(a) THEN CC ELSE Image[tprog].text[a]
  BY <1>1, SyncedText DEF AnyUser
<1>4. Patched(rip) <=> rip \in BpAddrs /\ pc # "wait_step"
  BY <1>1 DEF Patched, Disarmed, CareInv, Waits, Executing
<1>5. mem[rip] = CC <=> Patched(rip)
  BY <1>1, <1>2, <1>3, ProgramKnown
<1>6. ASSUME ~Patched(rip) PROVE Intact(rip)
  <2>1. BpAddrs \subseteq Starts
    BY <1>1 DEF CareInv, Marked, Instructions, Starts
  <2>2. ASSUME NEW b \in Addr, b \in Bytes(tprog, rip) PROVE mem[b] = Image[tprog].text[b]
    <3>1. CASE b = rip
      BY <3>1, <1>6, <1>3
    <3>2. CASE b # rip
      <4>1. b \notin BpAddrs
        BY <1>1, <1>2, <2>1, <2>2, <3>2, ProgramKnown
      <4> QED BY <4>1, <1>3 DEF Patched
    <3> QED BY <3>1, <3>2
  <2> QED BY <1>2, <2>2 DEF Intact, Bytes, Starts
<1> QED BY <1>2, <1>4, <1>5, <1>6

-----------------------------------------------------------------------------
(* Steps that a user does not see.                                         *)
Shows == Service!Next \/ UNCHANGED Service!vars

LEMMA Unseen ==
  ASSUME UNCHANGED <<phaseBar, tprog, atBar, bpsBar, hitBar, skipBar>>
  PROVE  Shows
BY DEF Shows, Service!vars

(* A tracee that has ended, or has never been there.                       *)
LEMMA CareAfterEnd ==
  ASSUME CareInv, tstat' \notin {"stopped", "running", "stepping"},
         tstat' = "none" => tstat = "none" /\ rip' = rip /\ pc' \in {"prompt", "exit"},
         derailed' = derailed
  PROVE  CareInv'
BY DEF CareInv, Marked, Placed, Waits, OwnInstructions, Inside, Executing, Trapped

LEMMA SimulateEnd ==
  ASSUME Living, Over', tprog' = tprog
  PROVE  Shows
<1>1. phaseBar \notin {"idle", "over"}
  BY DEF phaseBar, Living, Over
<1>2. phaseBar' = "over"
  BY DEF phaseBar
<1>3. atBar' = 0 /\ bpsBar' = {} /\ hitBar' = 0
  BY DEF atBar, bpsBar, hitBar
<1>4. skipBar' = FALSE
  BY DEF skipBar, Over
<1>5. Service!End
  BY <1>1, <1>2, <1>3, <1>4 DEF Service!End
<1> QED BY <1>5 DEF Shows, Service!Next

LEMMA SimulateOver ==
  ASSUME Over, Over', tprog' = tprog
  PROVE  Shows
<1>1. phaseBar' = phaseBar
  BY DEF phaseBar
<1>2. atBar' = atBar /\ bpsBar' = bpsBar /\ hitBar' = hitBar
  BY DEF atBar, bpsBar, hitBar
<1>3. skipBar' = skipBar
  BY DEF skipBar, Over
<1> QED BY <1>1, <1>2, <1>3, Unseen

LEMMA SimulateDie ==
  ASSUME AnyUser, CareInv, Die
  PROVE  CareInv' /\ Shows
<1>1. /\ pc' = "exit" /\ ~Living'
      /\ UNCHANGED <<tprog, rip, derailed, bp_vec, bp_restore>>
      /\ tstat' = (IF Living THEN IF exitkill THEN "killed" ELSE "detached" ELSE tstat)
  BY DEF Die, TracerExit, Living, infoVars
<1>2. CareInv'
  <2>1. tstat' \notin {"stopped", "running", "stepping"}
    BY <1>1 DEF Living
  <2>2. tstat' = "none" => tstat = "none"
    BY <1>1
  <2> QED BY <1>1, <2>1, <2>2, CareAfterEnd
<1> SUFFICES Shows
  BY <1>2
<1>3. CASE Living
  BY <1>1, <1>3, SimulateEnd DEF Over
<1>4. CASE Over
  <2>1. tstat' = tstat
    BY <1>1, <1>4 DEF Over, Living
  <2> QED BY <1>1, <1>4, <2>1, SimulateOver DEF Over
<1>5. CASE tstat = "none"
  <2>1. tstat' = "none" /\ pc \in {"prompt", "exit"}
    BY <1>1, <1>5 DEF Living, CareInv, Waits
  <2>2. phaseBar' = phaseBar /\ atBar' = atBar
    BY <1>1, <1>5, <2>1 DEF phaseBar, atBar, Trapped, Over
  <2>3. bpsBar' = bpsBar /\ hitBar' = hitBar /\ skipBar' = skipBar
    BY <1>1, <1>5, <2>1 DEF bpsBar, BpAddrs, hitBar, skipBar, Over
  <2> QED BY <1>1, <2>2, <2>3, Unseen
<1>6. tstat \in Status
  BY DEF AnyUser, SyncInv, TypeInv, TypeOK, TraceeTypeOK
<1> QED BY <1>3, <1>4, <1>5, <1>6 DEF Living, Over, Status

-----------------------------------------------------------------------------
(* Steps of the tracee.                                                    *)
LEMMA MarkedKept ==
  ASSUME CareInv, Inside' => Inside, bp_vec' = bp_vec, tprog' = tprog,
         orig_instructions' = orig_instructions
  PROVE  Marked' /\ BpAddrs' = BpAddrs
BY DEF CareInv, Marked, BpAddrs, Instructions, Disassembled

LEMMA SimulateTracee ==
  ASSUME MaxSessions <= 1, AnyUser, CareInv,
         TraceeNext, UNCHANGED sdbVars, SignalsOffBreakpoints
  PROVE  CareInv' /\ Shows
<1>1. /\ UNCHANGED <<pc, bp_vec, bp_restore, orig_instructions>>
      /\ BpAddrs' = BpAddrs
  BY DEF sdbVars, infoVars, BpAddrs
<1>2. CASE ExecOk
  <2>1. pc = "wait_exec" /\ bp_vec = << >>
    BY <1>2 DEF ExecOk, AnyUser, ArmedInv, Fresh, TypeInv, PathKnown
  <2>2. /\ tstat = "execing" /\ tstat' = "stopped" /\ tprog' = tprog /\ derailed' = derailed
        /\ rip' = Image[tprog].entry
    BY <1>2 DEF ExecOk, Stop
  <2>3. Living /\ Image[tprog].entry \in Starts /\ tprog \in Programs
    BY <2>2, ProgramKnown DEF Living
  <2>4. CareInv'
    <3>1. Marked'
      BY <1>1, <2>1 DEF Marked, BpAddrs
    <3>2. Placed' /\ Waits'
      BY <1>1, <2>1, <2>2, <2>3 DEF Placed, Waits, Trapped, Executing, Starts
    <3> QED BY <2>2, <3>1, <3>2 DEF CareInv, OwnInstructions
  <2>5. phaseBar = "starting" /\ phaseBar' = "stopped"
    BY <1>1, <2>1, <2>2 DEF phaseBar, Over
  <2>6. atBar' = Image[tprog].entry
    BY <1>1, <2>1, <2>2 DEF atBar, Over, Trapped
  <2>7. bpsBar' = bpsBar /\ hitBar' = hitBar /\ skipBar' = skipBar
    BY <1>1, <2>1, <2>2 DEF bpsBar, hitBar, skipBar, Over
  <2>8. Service!Begun
    BY <2>2, <2>3, <2>5, <2>6, <2>7 DEF Service!Begun
  <2> QED BY <2>4, <2>8 DEF Shows, Service!Next
<1>3. CASE ExecFails \/ Kill \/ ExitInsn
  <2>1. Living /\ tstat' \in {"exited", "killed"} /\ tprog' = tprog /\ derailed' = derailed
    BY <1>3 DEF ExecFails, Kill, ExitInsn, Living, Executing
  <2>2. CareInv'
    BY <2>1, CareAfterEnd
  <2>3. Over'
    BY <2>1 DEF Over
  <2> QED BY <2>1, <2>2, <2>3, SimulateEnd
<1>4. ASSUME Executing
      PROVE  /\ Living /\ Inside /\ rip \in Starts /\ rip \in Addr
             /\ tprog \in Programs
             /\ mem[rip] = CC <=> rip \in BpAddrs /\ pc # "wait_step"
             /\ mem[rip] # CC => Intact(rip)
             /\ phaseBar = (IF pc = "wait_si" THEN "stepping" ELSE "running")
             /\ atBar = rip /\ bpsBar = BpAddrs
             /\ pc \in {"wait_cont", "wait_step", "wait_si"}
             /\ pc = "wait_cont" <=> tstat = "running"
             /\ skipBar = (pc = "wait_step")
             /\ hitBar = IF pc = "wait_step" THEN 0 ELSE bp_restore.addr
  <2>1. Living /\ Inside /\ ~Over /\ tstat \notin {"none", "execing", "stopped"}
    BY <1>4 DEF Executing, Living, Inside, Over
  <2>2. /\ pc \in {"wait_cont", "wait_step", "wait_si"}
        /\ pc = "wait_cont" <=> tstat = "running"
        /\ tstat = "stepping" \/ tstat = "running"
    BY <1>4 DEF CareInv, Waits, Executing
  <2>3. phaseBar = (IF pc = "wait_si" THEN "stepping" ELSE "running")
    BY <2>1, <2>2 DEF phaseBar
  <2>4. atBar = rip /\ bpsBar = BpAddrs
    BY <2>1 DEF atBar, bpsBar, Trapped
  <2>5. /\ hitBar = IF pc = "wait_step" THEN 0 ELSE bp_restore.addr
        /\ skipBar = (pc = "wait_step")
    BY <2>1, <2>2 DEF hitBar, skipBar
  <2> QED BY <1>4, <2>1, <2>2, <2>3, <2>4, <2>5, TextAt, ProgramKnown
<1>5. ASSUME Executing, tstat' = "stopped", UNCHANGED <<tprog, derailed>>
      PROVE  /\ Marked' /\ Inside' /\ ~Over'
             /\ phaseBar' = (IF pc = "wait_si" THEN "stopped" ELSE "running")
             /\ atBar' = (IF pc = "wait_cont" /\ why' = "trap" THEN rip' - 1 ELSE rip')
             /\ bpsBar' = BpAddrs /\ hitBar' = hitBar /\ skipBar' = FALSE
  <2>1. ~Over' /\ Inside' /\ ~Over
    BY <1>5 DEF Over, Inside, Executing
  <2>2. Marked'
    BY <1>1, <1>4, <1>5, MarkedKept
  <2>3. phaseBar' = (IF pc = "wait_si" THEN "stopped" ELSE "running")
    BY <1>1, <1>4, <1>5, <2>1 DEF phaseBar
  <2>4. atBar' = (IF pc = "wait_cont" /\ why' = "trap" THEN rip' - 1 ELSE rip')
    BY <1>1, <1>5, <2>1 DEF atBar, Trapped
  <2>5. bpsBar' = BpAddrs /\ hitBar' = hitBar /\ skipBar' = FALSE
    BY <1>1, <1>5, <2>1 DEF bpsBar, hitBar, skipBar
  <2> QED BY <2>1, <2>2, <2>3, <2>4, <2>5
<1>6. CASE Insn
  <2>1. /\ Executing /\ rip \notin Image[tprog].exits /\ rip' \in Image[tprog].succ[rip]
        /\ mem[rip] # CC /\ UNCHANGED <<tprog, derailed>>
        /\ StopIfStepping
    BY <1>6 DEF Insn
  <2>2. rip' \in Starts
    BY <1>4, <2>1, ProgramKnown
  <2>3. pc = "wait_step" \/ rip \notin BpAddrs
    BY <1>4, <2>1
  <2>4. CASE tstat = "running"
    <3>1. tstat' = "running" /\ pc = "wait_cont"
      BY <1>4, <2>1, <2>4 DEF StopIfStepping
    <3>2. Marked'
      BY <1>1, <1>4, <2>1, MarkedKept
    <3>3. CareInv'
      BY <1>1, <2>1, <2>2, <3>1, <3>2
      DEF CareInv, Placed, Waits, OwnInstructions, Executing, Trapped, Starts
    <3>4. /\ phaseBar' = "running" /\ atBar' = rip' /\ bpsBar' = BpAddrs
          /\ hitBar' = hitBar
      BY <1>1, <3>1, <2>4 DEF phaseBar, atBar, bpsBar, hitBar, Over, Trapped
    <3>5. skipBar' = FALSE
      BY <1>1, <3>1 DEF skipBar
    <3>6. Service!Execute
      BY <1>4, <2>1, <2>3, <3>1, <3>4, <3>5 DEF Service!Execute
    <3> QED BY <3>3, <3>6 DEF Shows, Service!Next
  <2>5. CASE tstat = "stepping"
    <3>1. tstat' = "stopped" /\ why' = "step" /\ pc # "wait_cont"
      BY <1>4, <2>1, <2>5 DEF StopIfStepping, Stop
    <3>2. CareInv'
      BY <1>1, <1>5, <2>1, <2>2, <3>1
      DEF CareInv, Placed, Waits, OwnInstructions, Executing, Trapped, Starts
    <3>3. /\ phaseBar' = (IF pc = "wait_si" THEN "stopped" ELSE "running")
          /\ atBar' = rip' /\ bpsBar' = bpsBar /\ hitBar' = hitBar /\ skipBar' = FALSE
      BY <1>4, <1>5, <2>1, <3>1
    <3>4. Service!Execute
      BY <1>4, <2>1, <2>3, <3>1, <3>3 DEF Service!Execute
    <3> QED BY <3>2, <3>4 DEF Shows, Service!Next
  <2> QED BY <2>1, <2>4, <2>5 DEF Executing
<1>7. CASE Trap
  <2>1. /\ Executing /\ mem[rip] = CC /\ tstat' = "stopped" /\ why' = "trap" /\ rip' = rip + 1
        /\ UNCHANGED <<tprog, derailed>>
    BY <1>7 DEF Trap, Stop
  <2>2. rip \in BpAddrs /\ pc = "wait_cont"
    BY <1>4, <2>1 DEF CareInv, Waits, Executing
  <2>3. rip' - 1 = rip
    BY <1>4, <2>1 DEF Addr
  <2>4. CareInv'
    BY <1>1, <1>5, <2>1, <2>2, <2>3 DEF CareInv, Placed, Waits, OwnInstructions, Executing, Trapped
  <2>5. /\ phaseBar' = phaseBar /\ atBar' = atBar /\ bpsBar' = bpsBar /\ hitBar' = hitBar
        /\ skipBar' = skipBar
    BY <1>4, <1>5, <2>1, <2>2, <2>3
  <2> QED BY <2>1, <2>4, <2>5, Unseen
<1>8. CASE Derail \/ Segfault
  BY <1>4, <1>8 DEF Derail, Segfault
<1>9. CASE Signal
  <2>1. /\ Executing /\ tstat' = "stopped" /\ why' = "signal" /\ UNCHANGED <<tprog, derailed, rip>>
    BY <1>9 DEF Signal, Stop
  <2>2. rip - 1 \notin BpAddrs
    BY <1>9 DEF SignalsOffBreakpoints
  <2>3. CareInv'
    BY <1>1, <1>4, <1>5, <2>1, <2>2
    DEF CareInv, Placed, Waits, OwnInstructions, Executing, Trapped, Starts
  <2>4. /\ phaseBar' = (IF pc = "wait_si" THEN "stopped" ELSE "running")
        /\ atBar' = atBar /\ bpsBar' = bpsBar /\ hitBar' = hitBar /\ skipBar' = FALSE
    BY <1>4, <1>5, <2>1
  <2>5. CASE pc = "wait_cont"
    BY <1>4, <2>1, <2>3, <2>4, <2>5, Unseen
  <2>6. CASE pc # "wait_cont"
    <3>1. Service!Interrupt
      BY <1>4, <2>1, <2>4, <2>6 DEF Service!Interrupt
    <3> QED BY <2>3, <3>1 DEF Shows, Service!Next
  <2> QED BY <2>5, <2>6
<1> QED
  BY <1>2, <1>3, <1>6, <1>7, <1>8, <1>9 DEF TraceeNext, Run

-----------------------------------------------------------------------------
(* Steps of the debugger.  At a command, a stopped tracee is a stopped     *)
(* program at one of its instructions.                                     *)
LEMMA AtPrompt ==
  ASSUME AnyUser, CareInv, Stopped, pc \in {"prompt", "cont"}
  PROVE  /\ tstat = "stopped" /\ Living /\ Inside /\ ~Over /\ rip \in Starts /\ tprog \in Programs
         /\ BpAddrs \subseteq Instructions
         /\ phaseBar = "stopped" /\ atBar = rip /\ bpsBar = BpAddrs
         /\ hitBar = bp_restore.addr /\ skipBar = FALSE
<1>1. tstat = "stopped" /\ Living /\ Inside /\ ~Over /\ ~Trapped
  BY DEF Stopped, Living, Inside, Over, Trapped
<1>2. rip \in Starts /\ tprog \in Programs /\ BpAddrs \subseteq Instructions
  BY <1>1, ProgramKnown DEF CareInv, Placed, Marked
<1>3. phaseBar = "stopped" /\ atBar = rip
  BY <1>1 DEF phaseBar, atBar
<1>4. bpsBar = BpAddrs /\ hitBar = bp_restore.addr /\ skipBar = FALSE
  BY <1>1 DEF bpsBar, hitBar, skipBar
<1> QED BY <1>1, <1>2, <1>3, <1>4

LEMMA AtPromptNext ==
  ASSUME tstat' = "stopped", pc' \in {"prompt", "cont"}
  PROVE  /\ phaseBar' = "stopped" /\ atBar' = rip' /\ bpsBar' = BpAddrs'
         /\ hitBar' = bp_restore'.addr /\ skipBar' = FALSE
<1>1. ~Over' /\ ~Trapped'
  BY DEF Over, Trapped
<1>2. phaseBar' = "stopped" /\ atBar' = rip'
  BY <1>1 DEF phaseBar, atBar
<1>3. bpsBar' = BpAddrs' /\ hitBar' = bp_restore'.addr
  BY <1>1 DEF bpsBar, hitBar
<1>4. skipBar' = FALSE
  BY DEF skipBar
<1> QED BY <1>2, <1>3, <1>4

(* A tracee that stays stopped, at an instruction, while a command works.  *)
LEMMA CareStopped ==
  ASSUME CareInv, tstat' = "stopped", pc' \notin {"wait_cont"},
         rip' \in Starts, Marked', UNCHANGED <<tprog, derailed>>
  PROVE  CareInv'
BY DEF CareInv, Placed, Waits, OwnInstructions, Executing, Trapped, Starts

(* load, start and the disassembly.                                        *)
LEMMA SimulateLoad ==
  ASSUME AnyUser, CareInv, NEW p \in Programs, Load(p)
  PROVE  CareInv' /\ Shows
<1>1. /\ pc = "prompt" /\ state = "NOLOAD" /\ bp_vec' = << >>
      /\ UNCHANGED <<tstat, why, tprog, rip, derailed, pc, bp_restore, orig_instructions>>
  BY DEF Load, Command, traceeVars
<1>2. ~Living /\ bp_vec = << >>
  BY <1>1 DEF AnyUser, SyncInv, Phases, ArmedInv, Fresh
<1>3. CareInv'
  <2>1. tstat' \notin {"stopped", "running", "stepping"}
    BY <1>1, <1>2 DEF Living
  <2> QED BY <1>1, <2>1, CareAfterEnd
<1>4. bpsBar' = bpsBar
  BY <1>1, <1>2 DEF bpsBar, BpAddrs, Over
<1>5. phaseBar' = phaseBar /\ atBar' = atBar /\ hitBar' = hitBar /\ skipBar' = skipBar
  BY <1>1 DEF phaseBar, atBar, hitBar, skipBar, Over, Trapped
<1> QED BY <1>1, <1>3, <1>4, <1>5, Unseen

LEMMA SimulateStart ==
  ASSUME MaxSessions <= 1, AnyUser, CareInv, NEW c, Start(c)
  PROVE  CareInv' /\ Shows
<1>1. /\ pc = "prompt" /\ state = "LOADED" /\ sessions < MaxSessions
      /\ tstat' = "execing" /\ tprog' = path /\ rip' = 0 /\ derailed' = FALSE
      /\ pc' = "wait_exec" /\ UNCHANGED <<bp_vec, bp_restore>>
  BY DEF Start, Startable, Command, Fork, infoVars
<1>2. path \in Programs /\ tprog \in Programs \union {NoProg}
  BY <1>1 DEF AnyUser, SyncInv, TypeInv, TypeOK, TraceeTypeOK, PathKnown
<1>3. tstat = "none" /\ sessions = 0 /\ bp_vec = << >> /\ rip = 0
  <2>1. sessions \in 0 .. MaxSessions
    BY DEF AnyUser, SyncInv, TypeInv, TypeOK
  <2>2. sessions = 0
    BY <1>1, <2>1, SdbAssumption
  <2> QED BY <1>1, <2>2 DEF AnyUser, SyncInv, Unstarted, ArmedInv, Fresh, CareInv, Placed
<1>4. CareInv'
  <2>1. Marked' /\ Placed' /\ Waits'
    BY <1>1 DEF Marked, Placed, Waits, Inside, Executing, Trapped
  <2> QED BY <1>1, <2>1 DEF CareInv, OwnInstructions
<1>5. phaseBar = "idle" /\ phaseBar' = "starting"
  BY <1>1, <1>3 DEF phaseBar, Over
<1>6. atBar' = atBar
  BY <1>1, <1>3 DEF atBar, Over, Trapped
<1>7. bpsBar' = bpsBar /\ hitBar' = hitBar /\ skipBar' = skipBar
  BY <1>1, <1>3 DEF bpsBar, BpAddrs, hitBar, skipBar, Over
<1>8. Service!Begin(path)
  BY <1>1, <1>5, <1>6, <1>7 DEF Service!Begin
<1> QED BY <1>2, <1>4, <1>8 DEF Shows, Service!Next

LEMMA SimulateSweep ==
  ASSUME AnyUser, CareInv,
         pc \in {"wait_exec", "sweep"}, pc' \in {"sweep", "cont", "prompt"}, tstat # "none",
         tstat # "execing",
         UNCHANGED <<tstat, why, tprog, rip, derailed, bp_vec, bp_restore>>,
         \A a : Disassembled(a) => Disassembled(a)'
  PROVE  CareInv' /\ Shows
<1>1. BpAddrs' = BpAddrs
  BY DEF BpAddrs
<1>2. ~Executing /\ ~Trapped /\ ~Trapped'
  BY DEF CareInv, Waits, Executing, Trapped
<1>3. Marked'
  BY <1>1 DEF CareInv, Marked, Instructions, Inside
<1>4. CareInv'
  BY <1>2, <1>3 DEF CareInv, Placed, Waits, OwnInstructions, Executing, Starts
<1>5. phaseBar' = phaseBar /\ atBar' = atBar
  BY <1>2 DEF phaseBar, atBar, Over
<1>6. bpsBar' = bpsBar /\ hitBar' = hitBar /\ skipBar' = skipBar
  BY <1>1 DEF bpsBar, hitBar, skipBar, Over
<1> QED BY <1>4, <1>5, <1>6, Unseen

(* start's waitpid and the loop of get_orig_code.                          *)
LEMMA SimulateStartReturns ==
  ASSUME AnyUser, CareInv, StartReturns
  PROVE  CareInv' /\ Shows
<1>1. CASE Die
  BY <1>1, SimulateDie
<1>2. CASE ~Die
  <2>1. /\ pc = "wait_exec" /\ pc' = "sweep" /\ tstat \in {"stopped", "killed"}
        /\ UNCHANGED <<tstat, why, tprog, rip, derailed, bp_vec, bp_restore, orig_instructions>>
    BY <1>2 DEF StartReturns, Stopped
  <2>2. \A a : Disassembled(a) => Disassembled(a)'
    BY <2>1 DEF Disassembled
  <2> QED BY <2>1, <2>2, SimulateSweep
<1> QED BY <1>1, <1>2

LEMMA SimulateDisassembly ==
  ASSUME AnyUser, CareInv, Sweep \/ SweepDone
  PROVE  CareInv' /\ Shows
<1>1. /\ pc = "sweep" /\ pc' \in {"sweep", "cont", "prompt"}
      /\ UNCHANGED <<tstat, why, tprog, rip, derailed, bp_vec, bp_restore>>
  BY DEF Sweep, SweepDone, traceeVars, infoVars
<1>2. tstat # "none" /\ tstat # "execing"
  BY <1>1 DEF CareInv, Waits, AnyUser, ArmedInv, Fresh
<1>3. \A a : Disassembled(a) => Disassembled(a)'
  <2>1. CASE SweepDone
    BY <2>1 DEF SweepDone, Disassembled
  <2>2. CASE Sweep
    <3>1. PICK e : orig_instructions' = Append(orig_instructions, e)
      BY <2>2 DEF Sweep
    <3>2. orig_instructions \in Seq(Instruction) /\ orig_instructions' \in Seq(Instruction)
      BY <2>2, SdbTypeInv DEF AnyUser, SyncInv, TypeInv, TypeOK, Internal
    <3>3. \A i \in DOMAIN orig_instructions :
            i \in DOMAIN orig_instructions' /\ orig_instructions'[i] = orig_instructions[i]
      BY <3>1, <3>2, LenProperties
    <3> QED BY <3>3 DEF Disassembled
  <2> QED BY <2>1, <2>2
<1> QED BY <1>1, <1>2, <1>3, SimulateSweep

(* cont from a stop: at the breakpoint last hit it steps over, elsewhere   *)
(* it resumes.                                                             *)
LEMMA SimulateStepsOver ==
  ASSUME MaxSessions <= 1, AnyUser, CareInv, ContStepsOver
  PROVE  CareInv' /\ Shows
<1>1. /\ pc \in {"prompt", "cont"} /\ state = "RUNNING" /\ Stopped
      /\ rip \in Addr /\ rip = bp_restore.addr
      /\ tstat' = "stepping" /\ pc' = "wait_step"
      /\ UNCHANGED <<tprog, rip, derailed, bp_vec, bp_restore, orig_instructions>>
  BY DEF ContStepsOver, ContCalled, Command, Pokeable, Resume, infoVars
<1>2. /\ tstat = "stopped" /\ Inside /\ Inside' /\ rip \in Starts
      /\ phaseBar = "stopped" /\ atBar = rip /\ bpsBar = BpAddrs /\ hitBar = bp_restore.addr
  BY <1>1, AtPrompt DEF Inside
<1>3. rip \in BpAddrs
  <2>1. sessions = 1 /\ bp_restore # NoRestore
    BY <1>1, <1>2, FirstSession DEF NoRestore, Addr
  <2>2. PICK i \in DOMAIN bp_vec : bp_vec[i] = bp_restore
    BY <1>1, <2>1 DEF AnyUser, SyncInv, RestoreListed
  <2> QED BY <1>1, <2>2 DEF BpAddrs
<1>4. Marked' /\ BpAddrs' = BpAddrs
  BY <1>1, <1>2, MarkedKept
<1>5. CareInv'
  BY <1>1, <1>2, <1>3, <1>4
  DEF CareInv, Placed, Waits, OwnInstructions, Executing, Trapped, Starts
<1>6. phaseBar' = "running" /\ atBar' = rip /\ hitBar' = 0
  BY <1>1 DEF phaseBar, atBar, hitBar, Over, Trapped
<1>7. bpsBar' = BpAddrs
  BY <1>1, <1>4 DEF bpsBar, Over
<1>8. skipBar' = TRUE
  BY <1>1 DEF skipBar
<1>9. Service!Continue
  BY <1>1, <1>2, <1>6, <1>7, <1>8 DEF Service!Continue
<1> QED BY <1>5, <1>9 DEF Shows, Service!Next

LEMMA SimulateResumes ==
  ASSUME MaxSessions <= 1, AnyUser, CareInv, ContResumes
  PROVE  CareInv' /\ Shows
<1>1. /\ pc \in {"prompt", "cont"} /\ Stopped /\ rip # bp_restore.addr
      /\ tstat' = "running" /\ pc' = "wait_cont"
      /\ UNCHANGED <<tprog, rip, derailed, bp_vec, bp_restore, orig_instructions>>
  BY DEF ContResumes, ContCalled, Command, Resume, infoVars
<1>2. /\ tstat = "stopped" /\ Inside /\ Inside' /\ rip \in Starts
      /\ phaseBar = "stopped" /\ atBar = rip /\ bpsBar = BpAddrs /\ hitBar = bp_restore.addr
  BY <1>1, AtPrompt DEF Inside
<1>3. Marked' /\ BpAddrs' = BpAddrs
  BY <1>1, <1>2, MarkedKept
<1>4. CareInv'
  BY <1>1, <1>2, <1>3
  DEF CareInv, Placed, Waits, OwnInstructions, Executing, Trapped, Starts
<1>5. phaseBar' = "running" /\ atBar' = rip /\ hitBar' = bp_restore.addr
  BY <1>1 DEF phaseBar, atBar, hitBar, Over, Trapped
<1>6. bpsBar' = BpAddrs
  BY <1>1, <1>3 DEF bpsBar, Over
<1>7. skipBar' = FALSE
  BY <1>1 DEF skipBar
<1>8. Service!Continue
  BY <1>1, <1>2, <1>5, <1>6, <1>7 DEF Service!Continue
<1> QED BY <1>4, <1>8 DEF Shows, Service!Next

(* The waitpid after the single step: the tracee is let go.                *)
LEMMA SimulateStepReturns ==
  ASSUME AnyUser, CareInv, StepReturns
  PROVE  CareInv' /\ Shows
<1>1. CASE Die
  BY <1>1, SimulateDie
<1>2. CASE ~Die
  <2>1. /\ pc = "wait_step" /\ pc' = "wait_cont" /\ tstat = "stopped" /\ tstat' = "running"
        /\ bp_restore' = NoRestore
        /\ UNCHANGED <<tprog, rip, derailed, bp_vec, orig_instructions>>
    BY <1>2 DEF StepReturns, Stopped, Resume, infoVars
  <2>2. Inside /\ Inside' /\ rip \in Starts
    BY <2>1 DEF Inside, CareInv, Placed, Trapped
  <2>3. Marked' /\ BpAddrs' = BpAddrs
    BY <2>1, <2>2, MarkedKept
  <2>4. CareInv'
    BY <2>1, <2>2, <2>3
    DEF CareInv, Placed, Waits, OwnInstructions, Executing, Trapped, Starts
  <2>5. phaseBar' = phaseBar /\ atBar' = atBar
    BY <2>1 DEF phaseBar, atBar, Over, Trapped
  <2>6. bpsBar' = bpsBar /\ hitBar' = hitBar
    BY <2>1, <2>3 DEF bpsBar, hitBar, Over, NoRestore
  <2>7. skipBar' = skipBar
    BY <2>1 DEF skipBar
  <2> QED BY <2>1, <2>4, <2>5, <2>6, <2>7, Unseen
<1> QED BY <1>1, <1>2

(* The waitpid of cont: a trap is reported as a hit, at the breakpoint's   *)
(* address; a signal as a stop where the program is.                       *)
LEMMA SimulateHits ==
  ASSUME AnyUser, CareInv, ContHits
  PROVE  CareInv' /\ Shows
<1>1. /\ pc = "wait_cont" /\ tstat = "stopped" /\ pc' = "prompt" /\ rip' = rip - 1
      /\ UNCHANGED <<tstat, tprog, derailed, bp_vec, orig_instructions>>
  BY DEF ContHits, Stopped, Rewound, infoVars
<1>2. PICK i \in DOMAIN bp_vec : bp_vec[i].addr = rip - 1 /\ bp_restore' = bp_vec[i]
  BY DEF ContHits, HitAt
<1>3. rip - 1 \in BpAddrs
  BY <1>2 DEF BpAddrs
<1>4. Trapped
  BY <1>1, <1>3 DEF CareInv, Waits
<1>5. Inside /\ Inside'
  BY <1>1 DEF Inside
<1>6. Marked' /\ BpAddrs' = BpAddrs
  BY <1>1, <1>5, MarkedKept
<1>7. rip' \in Starts
  BY <1>1, <1>3, <1>5 DEF CareInv, Marked, Instructions, Starts
<1>8. CareInv'
  BY <1>1, <1>6, <1>7, CareStopped
<1>9. phaseBar = "running" /\ atBar = rip - 1 /\ bpsBar = BpAddrs
  BY <1>1, <1>4 DEF phaseBar, atBar, bpsBar, Over
<1>10. skipBar = FALSE
  BY <1>1 DEF skipBar
<1>11. /\ phaseBar' = "stopped" /\ atBar' = rip' /\ bpsBar' = BpAddrs'
       /\ hitBar' = bp_restore'.addr /\ skipBar' = FALSE
  BY <1>1, AtPromptNext
<1>12. Service!Hit
  BY <1>1, <1>2, <1>3, <1>6, <1>9, <1>10, <1>11 DEF Service!Hit
<1> QED BY <1>8, <1>12 DEF Shows, Service!Next

LEMMA SimulateStops ==
  ASSUME AnyUser, CareInv, ContStops
  PROVE  CareInv' /\ Shows
<1>1. /\ pc = "wait_cont" /\ tstat = "stopped" /\ pc' = "prompt"
      /\ UNCHANGED <<tstat, tprog, rip, derailed, bp_vec, bp_restore, orig_instructions>>
  BY DEF ContStops, Stopped, traceeVars, infoVars
<1>2. Inside /\ Inside' /\ BpAddrs \subseteq Instructions
  BY <1>1 DEF Inside, CareInv, Marked
<1>3. ~Trapped
  <2>1. SUFFICES ASSUME Trapped PROVE FALSE
    OBVIOUS
  <2>2. rip - 1 \in BpAddrs /\ rip - 1 \in Instructions
    BY <1>2, <2>1 DEF CareInv, Placed
  <2>3. PICK i \in DOMAIN bp_vec : bp_vec[i].addr = rip - 1
    BY <2>2 DEF BpAddrs
  <2>4. HitAt(i)
    BY <2>2, <2>3 DEF HitAt, Instructions
  <2> QED BY <2>4 DEF ContStops
<1>4. rip \in Starts
  BY <1>1, <1>3 DEF CareInv, Placed
<1>5. Marked' /\ BpAddrs' = BpAddrs
  BY <1>1, <1>2, MarkedKept
<1>6. CareInv'
  BY <1>1, <1>4, <1>5, CareStopped
<1>7. phaseBar = "running" /\ atBar = rip /\ bpsBar = BpAddrs /\ hitBar = bp_restore.addr
  BY <1>1, <1>3 DEF phaseBar, atBar, bpsBar, hitBar, Over
<1>8. skipBar = FALSE
  BY <1>1 DEF skipBar
<1>9. /\ phaseBar' = "stopped" /\ atBar' = rip' /\ bpsBar' = BpAddrs'
      /\ hitBar' = bp_restore'.addr /\ skipBar' = FALSE
  BY <1>1, AtPromptNext
<1>10. Service!Interrupt
  BY <1>1, <1>5, <1>7, <1>8, <1>9 DEF Service!Interrupt
<1> QED BY <1>6, <1>10 DEF Shows, Service!Next

(* Waits that report the end of the tracee.                                *)
LEMMA SimulateReaped ==
  ASSUME AnyUser, CareInv, ContExits \/ ContKilled
  PROVE  CareInv' /\ Shows
<1>1. CASE Die
  BY <1>1, SimulateDie
<1>2. CASE ~Die
  <2>1. tstat \in {"exited", "killed"} /\ tstat' = "gone" /\ UNCHANGED <<tprog, derailed>>
    BY <1>2 DEF ContExits, ContKilled, Reap, Stopped
  <2> QED BY <2>1, CareAfterEnd, SimulateOver DEF Over
<1> QED BY <1>1, <1>2

(* si.                                                                     *)
LEMMA SimulateSi ==
  ASSUME AnyUser, CareInv, Si, StepsOffBreakpoints
  PROVE  CareInv' /\ Shows
<1>1. CASE Die
  BY <1>1, SimulateDie
<1>2. CASE ~Die
  <2>1. /\ pc = "prompt" /\ Stopped /\ tstat' = "stepping" /\ pc' = "wait_si"
        /\ UNCHANGED <<tprog, rip, derailed, bp_vec, bp_restore, orig_instructions>>
    BY <1>2 DEF Si, Command, Resume, infoVars
  <2>2. /\ Inside /\ Inside' /\ rip \in Starts /\ rip \notin BpAddrs
        /\ phaseBar = "stopped" /\ atBar = rip /\ bpsBar = BpAddrs /\ hitBar = bp_restore.addr
        /\ skipBar = FALSE
    BY <2>1, AtPrompt DEF Inside, StepsOffBreakpoints
  <2>3. Marked' /\ BpAddrs' = BpAddrs
    BY <2>1, <2>2, MarkedKept
  <2>4. CareInv'
    BY <2>1, <2>2, <2>3
    DEF CareInv, Placed, Waits, OwnInstructions, Executing, Trapped, Starts
  <2>5. phaseBar' = "stepping" /\ atBar' = rip /\ hitBar' = bp_restore.addr
    BY <2>1 DEF phaseBar, atBar, hitBar, Over, Trapped
  <2>6. bpsBar' = BpAddrs
    BY <2>1, <2>3 DEF bpsBar, Over
  <2>7. skipBar' = FALSE
    BY <2>1 DEF skipBar
  <2>8. Service!Step
    BY <2>1, <2>2, <2>5, <2>6, <2>7 DEF Service!Step
  <2> QED BY <2>4, <2>8 DEF Shows, Service!Next
<1> QED BY <1>1, <1>2

LEMMA SimulateSiReturns ==
  ASSUME AnyUser, CareInv, SiReturns
  PROVE  CareInv' /\ Shows
<1>1. /\ pc = "wait_si" /\ pc' = "prompt" /\ tstat \in {"stopped", "exited", "killed"}
      /\ tstat' = (IF tstat = "stopped" THEN "stopped" ELSE "gone")
      /\ UNCHANGED <<why, tprog, rip, derailed, bp_vec, bp_restore, orig_instructions>>
  BY DEF SiReturns, Waitable, Reap, Stopped, infoVars
<1>2. CASE tstat # "stopped"
  BY <1>1, <1>2, CareAfterEnd, SimulateOver DEF Over
<1>3. CASE tstat = "stopped"
  <2>1. Inside /\ Inside' /\ rip \in Starts
    BY <1>1, <1>3 DEF Inside, CareInv, Placed, Trapped
  <2>2. Marked' /\ BpAddrs' = BpAddrs
    BY <1>1, <2>1, MarkedKept
  <2>3. CareInv'
    BY <1>1, <1>3, <2>1, <2>2, CareStopped
  <2>4. /\ phaseBar' = "stopped" /\ atBar' = rip' /\ bpsBar' = BpAddrs'
        /\ hitBar' = bp_restore'.addr /\ skipBar' = FALSE
    BY <1>1, <1>3, AtPromptNext
  <2>5. phaseBar = "stopped" /\ atBar = rip /\ bpsBar = BpAddrs /\ hitBar = bp_restore.addr
    BY <1>1, <1>3 DEF phaseBar, atBar, bpsBar, hitBar, Over, Trapped
  <2>6. skipBar = FALSE
    BY <1>1 DEF skipBar
  <2> QED BY <1>1, <2>2, <2>3, <2>4, <2>5, <2>6, Unseen
<1> QED BY <1>2, <1>3

(* break, delete and set rip.                                              *)
LEMMA StartsOf ==
  ASSUME AnyUser, Living
  PROVE  [p \in Programs \union {NoProg} |-> IF p = NoProg THEN {} ELSE Image[p].starts][tprog] = Starts
BY ProgramKnown DEF Starts

LEMMA SimulateBreak ==
  ASSUME AnyUser, CareInv, NEW a \in BreakAddrs, SetBp(a), BreaksAtInstructions
  PROVE  CareInv' /\ Shows
<1>1. CASE Die
  BY <1>1, SimulateDie
<1>2. CASE ~Die
  <2>1. /\ pc = "prompt" /\ Stopped /\ pc' = "prompt" /\ tstat' = tstat /\ a \notin BpAddrs
        /\ bp_vec' = Append(bp_vec, [addr |-> a, orig_patch |-> mem[a]]) /\ a \in Addr
        /\ UNCHANGED <<tprog, rip, derailed, bp_restore, orig_instructions>>
    BY <1>2 DEF SetBp, Command, Pokeable, NewAddress
  <2>2. /\ tstat = "stopped" /\ Living /\ Inside /\ rip \in Starts
        /\ phaseBar = "stopped" /\ atBar = rip /\ bpsBar = BpAddrs /\ hitBar = bp_restore.addr
        /\ skipBar = FALSE /\ BpAddrs \subseteq Instructions
    BY <2>1, AtPrompt
  <2>3. BpAddrs' = BpAddrs \union {a}
    <3> DEFINE bp == [addr |-> a, orig_patch |-> mem[a]]
    <3>1. /\ bp_vec \in Seq(Breakpoint) /\ mem[a] \in Byte /\ a \in Nat
      BY <2>1 DEF AnyUser, SyncInv, TypeInv, TypeOK, TraceeTypeOK, Addr
    <3>2. bp \in Breakpoint /\ bp.addr = a
      BY <3>1 DEF Breakpoint
    <3>3. bp_vec' = Append(bp_vec, bp)
      BY <2>1
    <3> HIDE DEF bp
    <3>4. /\ DOMAIN bp_vec = 1 .. Len(bp_vec) /\ Len(bp_vec) \in Nat
          /\ DOMAIN bp_vec' = 1 .. Len(bp_vec) + 1
          /\ \A i \in DOMAIN bp_vec : bp_vec'[i] = bp_vec[i]
          /\ bp_vec'[Len(bp_vec) + 1] = bp
      BY <3>1, <3>2, <3>3, AppendProperties, LenProperties
    <3>5. /\ DOMAIN bp_vec \subseteq DOMAIN bp_vec' /\ Len(bp_vec) + 1 \in DOMAIN bp_vec'
          /\ \A i \in DOMAIN bp_vec' : i \in DOMAIN bp_vec \/ i = Len(bp_vec) + 1
      BY <3>4
    <3> QED BY <3>2, <3>4, <3>5 DEF BpAddrs
  <2>4. a \in Instructions
    BY <2>1, <2>3 DEF BreaksAtInstructions
  <2>5. Marked'
    <3>1. Instructions' = Instructions
      BY <2>1 DEF Instructions, Disassembled
    <3> QED BY <2>2, <2>3, <2>4, <3>1 DEF Marked
  <2>6. CareInv'
    BY <2>1, <2>2, <2>5, CareStopped
  <2>7. /\ phaseBar' = "stopped" /\ atBar' = rip' /\ bpsBar' = BpAddrs'
        /\ hitBar' = bp_restore'.addr /\ skipBar' = FALSE
    BY <2>1, <2>2, AtPromptNext
  <2>8. Service!Break(a)
    BY <2>1, <2>2, <2>3, <2>7 DEF Service!Break
  <2>9. a \in Starts
    BY <2>4 DEF Instructions, Starts
  <2> QED BY <2>2, <2>6, <2>8, <2>9, StartsOf DEF Shows, Service!Next
<1> QED BY <1>1, <1>2

LEMMA SimulateDelete ==
  ASSUME AnyUser, CareInv, NEW i \in DOMAIN bp_vec, DelBp(i)
  PROVE  CareInv' /\ Shows
<1>1. CASE Die
  BY <1>1, SimulateDie
<1>2. CASE ~Die
  <2> DEFINE a == bp_vec[i].addr
  <2>1. /\ pc = "prompt" /\ Stopped /\ pc' = "prompt" /\ tstat' = tstat
        /\ bp_vec' = RemoveAt(bp_vec, i) /\ bp_restore' = RestoreAfter(i)
        /\ UNCHANGED <<tprog, rip, derailed, orig_instructions>>
    BY <1>2 DEF DelBp, Command, Pokeable
  <2>2. /\ tstat = "stopped" /\ Living /\ Inside /\ rip \in Starts
        /\ phaseBar = "stopped" /\ atBar = rip /\ bpsBar = BpAddrs /\ hitBar = bp_restore.addr
        /\ skipBar = FALSE /\ BpAddrs \subseteq Instructions
    BY <2>1, AtPrompt
  <2>3. BpAddrs' = BpAddrs \ {a}
    <3>1. /\ bp_vec \in Seq(Breakpoint) /\ Len(bp_vec) \in Nat
          /\ DOMAIN bp_vec = 1 .. Len(bp_vec) /\ i \in 1 .. Len(bp_vec) /\ UniqueBps
      BY LenProperties DEF AnyUser, ArmedInv, TypeInv, TypeOK
    <3>2. /\ DOMAIN bp_vec' = 1 .. Len(bp_vec) - 1
          /\ \A j \in 1 .. Len(bp_vec) - 1 : bp_vec'[j] = IF j < i THEN bp_vec[j] ELSE bp_vec[j + 1]
      BY <2>1, <3>1, RemoveAtProperties, LenProperties
    <3>3. ASSUME NEW j \in DOMAIN bp_vec'
          PROVE  \E k \in DOMAIN bp_vec : k # i /\ bp_vec'[j] = bp_vec[k]
      <4> DEFINE k == IF j < i THEN j ELSE j + 1
      <4>1. k \in DOMAIN bp_vec /\ k # i /\ bp_vec'[j] = bp_vec[k]
        BY <3>1, <3>2
      <4> QED BY <4>1
    <3>4. ASSUME NEW k \in DOMAIN bp_vec, k # i
          PROVE  \E j \in DOMAIN bp_vec' : bp_vec'[j] = bp_vec[k]
      <4>1. CASE k < i
        <5>1. k \in DOMAIN bp_vec' /\ bp_vec'[k] = bp_vec[k]
          BY <4>1, <3>1, <3>2
        <5> QED BY <5>1
      <4>2. CASE ~(k < i)
        <5>1. k - 1 \in DOMAIN bp_vec' /\ ~(k - 1 < i) /\ k - 1 + 1 = k
          BY <4>2, <3>1, <3>2, <3>4
        <5>2. bp_vec'[k - 1] = bp_vec[k]
          BY <5>1, <3>2
        <5> QED BY <5>1, <5>2
      <4> QED BY <4>1, <4>2
    <3> QED BY <3>1, <3>3, <3>4 DEF BpAddrs, UniqueBps
  <2>4. a \in BpAddrs
    BY DEF BpAddrs
  <2>5. Marked'
    <3>1. Instructions' = Instructions
      BY <2>1 DEF Instructions, Disassembled
    <3> QED BY <2>2, <2>3, <3>1 DEF Marked
  <2>6. CareInv'
    BY <2>1, <2>2, <2>5, CareStopped
  <2>7. /\ phaseBar' = "stopped" /\ atBar' = rip' /\ bpsBar' = BpAddrs'
        /\ hitBar' = bp_restore'.addr /\ skipBar' = FALSE
    BY <2>1, <2>2, AtPromptNext
  <2>8. bp_restore'.addr = IF bp_restore.addr = a THEN 0 ELSE bp_restore.addr
    BY <2>1 DEF RestoreAfter, NoRestore
  <2>9. Service!Delete(a)
    BY <2>1, <2>2, <2>3, <2>7, <2>8 DEF Service!Delete
  <2>10. a \in Starts
    BY <2>2, <2>4 DEF Instructions, Starts
  <2> HIDE DEF a
  <2> QED BY <2>2, <2>6, <2>9, <2>10, StartsOf DEF Shows, Service!Next
<1> QED BY <1>1, <1>2

LEMMA SimulateSetRip ==
  ASSUME AnyUser, CareInv, NEW v, SetRip(v), MovesToInstructions
  PROVE  CareInv' /\ Shows
<1>1. CASE Die
  BY <1>1, SimulateDie
<1>2. CASE ~Die
  <2>1. /\ pc = "prompt" /\ Stopped /\ pc' = "prompt" /\ tstat' = tstat /\ rip' = v
        /\ UNCHANGED <<tprog, derailed, bp_vec, bp_restore, orig_instructions>>
    BY <1>2 DEF SetRip, Command, sdbVars, infoVars
  <2>2. /\ tstat = "stopped" /\ Living /\ Inside /\ Inside' /\ rip \in Starts
        /\ phaseBar = "stopped" /\ atBar = rip /\ bpsBar = BpAddrs /\ hitBar = bp_restore.addr
        /\ skipBar = FALSE
    BY <2>1, AtPrompt DEF Inside
  <2>3. v \in Starts
    BY <2>1, <2>2 DEF MovesToInstructions, Starts
  <2>4. Marked' /\ BpAddrs' = BpAddrs
    BY <2>1, <2>2, MarkedKept
  <2>5. CareInv'
    BY <2>1, <2>2, <2>3, <2>4, CareStopped
  <2>6. /\ phaseBar' = "stopped" /\ atBar' = rip' /\ bpsBar' = BpAddrs'
        /\ hitBar' = bp_restore'.addr /\ skipBar' = FALSE
    BY <2>1, <2>2, AtPromptNext
  <2>7. Service!Move(v)
    BY <2>1, <2>2, <2>4, <2>6 DEF Service!Move
  <2> QED BY <2>2, <2>3, <2>5, <2>7, StartsOf DEF Shows, Service!Next
<1> QED BY <1>1, <1>2

-----------------------------------------------------------------------------
(* Every step.                                                             *)
LEMMA SimulateInit == Init => CareInv /\ Service!Init
<1> SUFFICES ASSUME Init PROVE CareInv /\ Service!Init
  OBVIOUS
<1>1. /\ tstat = "none" /\ rip = 0 /\ tprog = NoProg /\ derailed = FALSE /\ pc = "prompt"
      /\ bp_vec = << >> /\ bp_restore = NoRestore
  BY DEF Init, TraceeInit
<1>2. CareInv
  BY <1>1 DEF CareInv, Marked, Placed, Waits, OwnInstructions, Inside, Executing, Trapped
<1>3. phaseBar = "idle" /\ atBar = 0
  BY <1>1 DEF phaseBar, atBar, Over, Trapped
<1>4. bpsBar = {} /\ hitBar = 0
  BY <1>1 DEF bpsBar, BpAddrs, hitBar, Over, NoRestore
<1>5. skipBar = FALSE
  BY <1>1 DEF skipBar
<1> QED BY <1>1, <1>2, <1>3, <1>4, <1>5 DEF Service!Init

LEMMA SimulateStep ==
  ASSUME MaxSessions <= 1, AnyUser, CareInv, [Next /\ Careful]_vars
  PROVE  CareInv' /\ Shows
<1>1. CASE UNCHANGED vars
  <2>1. /\ UNCHANGED <<tstat, why, tprog, mem, rip, exitkill, derailed, pc, bp_vec, bp_restore,
                       orig_instructions>>
    BY <1>1 DEF vars, traceeVars, sdbVars, infoVars
  <2>2. Inside' = Inside /\ Trapped' = Trapped /\ Executing' = Executing /\ Over' = Over
    BY <2>1 DEF Inside, Trapped, Executing, Over
  <2>3. Marked' /\ BpAddrs' = BpAddrs
    BY <2>1, <2>2, MarkedKept
  <2>4. CareInv'
    BY <2>1, <2>2, <2>3 DEF CareInv, Placed, Waits, OwnInstructions, Starts
  <2>5. phaseBar' = phaseBar /\ atBar' = atBar
    BY <2>1, <2>2 DEF phaseBar, atBar
  <2>6. bpsBar' = bpsBar /\ hitBar' = hitBar /\ skipBar' = skipBar
    BY <2>1, <2>2, <2>3 DEF bpsBar, hitBar, skipBar
  <2> QED BY <2>1, <2>4, <2>5, <2>6, Unseen
<1>2. CASE TraceeNext /\ UNCHANGED sdbVars /\ Careful
  BY <1>2, SimulateTracee DEF Careful
<1>3. CASE Internal /\ Careful
  BY <1>3, SimulateStartReturns, SimulateDisassembly, SimulateStepsOver, SimulateResumes,
     SimulateStepReturns, SimulateHits, SimulateStops, SimulateReaped, SimulateSiReturns,
     SimulateDie
  DEF Internal, ContFails
<1>4. CASE UserCommand /\ Careful
  <2>1. ASSUME NEW p \in Programs, Load(p) PROVE CareInv' /\ Shows
    BY <2>1, SimulateLoad
  <2>2. ASSUME NEW c \in {"start", "run"}, Start(c) PROVE CareInv' /\ Shows
    BY <2>2, SimulateStart
  <2>3. CASE ContStepsOver \/ ContResumes
    BY <2>3, SimulateStepsOver, SimulateResumes
  <2>4. CASE LoadFails \/ ContFails \/ GetRegs \/ Quit
    BY <2>4, SimulateDie DEF LoadFails, ContFails, GetRegs, Quit
  <2>5. CASE Si
    BY <1>4, <2>5, SimulateSi DEF Careful
  <2>6. ASSUME Living PROVE tprog \in Programs
    BY <2>6, ProgramKnown
  <2>7. ASSUME NEW a \in BreakAddrs, SetBp(a) PROVE CareInv' /\ Shows
    <3>1. CASE Die
      BY <3>1, SimulateDie
    <3>2. CASE ~Die
      <4>1. Living
        BY <2>7, <3>2 DEF SetBp, Pokeable, Stopped, Living
      <4> QED BY <1>4, <2>6, <2>7, <4>1, SimulateBreak DEF Careful
    <3> QED BY <3>1, <3>2
  <2>8. ASSUME NEW i \in DOMAIN bp_vec, DelBp(i) PROVE CareInv' /\ Shows
    BY <2>8, SimulateDelete
  <2>9. ASSUME NEW v \in RipValues, SetRip(v) PROVE CareInv' /\ Shows
    <3>1. CASE Die
      BY <3>1, SimulateDie
    <3>2. CASE ~Die
      <4>1. Living
        BY <2>9, <3>2 DEF SetRip, Stopped, Living
      <4> QED BY <1>4, <2>6, <2>9, <4>1, SimulateSetRip DEF Careful
    <3> QED BY <3>1, <3>2
  <2> QED
    BY <1>4, <2>1, <2>2, <2>3, <2>4, <2>5, <2>7, <2>8, <2>9 DEF UserCommand
<1>5. CASE DebuggerKilled
  BY <1>5, SimulateDie DEF DebuggerKilled
<1> QED
  BY <1>1, <1>2, <1>3, <1>4, <1>5 DEF Next

LEMMA CareAlways ==
  ASSUME MaxSessions <= 1
  PROVE  CarefulSpec => []CareInv /\ []AnyUser
<1>1. [Next /\ Careful]_vars => [Next]_vars
  OBVIOUS
<1>2. CarefulSpec => []AnyUser
  <2>1. ArmedInv /\ SyncInv <=> AnyUser
    BY DEF AnyUser
  <2> QED BY <1>1, <2>1, ArmedInvariance, SyncInvariance, PTL DEF CarefulSpec, Spec
<1>3. Init => CareInv
  BY SimulateInit
<1>4. AnyUser /\ CareInv /\ [Next /\ Careful]_vars => CareInv'
  BY SimulateStep
<1> QED BY <1>2, <1>3, <1>4, PTL DEF CarefulSpec

(* A carefully used debugger is transparent: whatever its commands, its    *)
(* patches and its waits, each of its steps is a step of DebugService or   *)
(* invisible to the user.                                                  *)
THEOREM DebuggerIsTransparent ==
  ASSUME MaxSessions <= 1
  PROVE  CarefulSpec => ImplementsService
<1>1. Init => Service!Init
  BY SimulateInit
<1>2. AnyUser /\ CareInv /\ [Next /\ Careful]_vars => [Service!Next]_Service!vars
  BY SimulateStep DEF Shows
<1> QED
  BY <1>1, <1>2, CareAlways, PTL DEF CarefulSpec, ImplementsService, Service!Spec

(* No patched byte is ever executed as part of an instruction.             *)
THEOREM OnlyOwnInstructions ==
  ASSUME MaxSessions <= 1
  PROVE  CarefulSpec => []OwnInstructions
<1>1. CareInv => OwnInstructions
  BY DEF CareInv
<1> QED BY <1>1, CareAlways, PTL
=============================================================================
