----------------------------- MODULE SdbProofs -----------------------------
(***************************************************************************)
(* Proofs about the debugger, for any executables, commands, faults and    *)
(* number of sessions.                                                     *)
(***************************************************************************)
EXTENDS SdbHistory, SdbClaims, SequenceTheorems, TLAPS

(* erase of one element: one shorter, the elements before it stay, those   *)
(* behind it move down.                                                    *)
LEMMA RemoveAtProperties ==
  ASSUME NEW S, NEW s \in Seq(S), NEW i \in 1 .. Len(s)
  PROVE  /\ RemoveAt(s, i) \in Seq(S)
         /\ Len(RemoveAt(s, i)) = Len(s) - 1
         /\ \A j \in 1 .. Len(s) - 1 : RemoveAt(s, i)[j] = IF j < i THEN s[j] ELSE s[j + 1]
<1> DEFINE front == SubSeq(s, 1, i - 1)
           back  == SubSeq(s, i + 1, Len(s))
<1>0. Len(s) \in Nat /\ \A j \in 1 .. Len(s) : s[j] \in S
  BY LenProperties, ElementOfSeq
<1>1. /\ front \in Seq(S) /\ Len(front) = i - 1
      /\ \A j \in 1 .. i - 1 : front[j] = s[j]
  <2>1. \A j \in 1 .. i - 1 : s[j] \in S
    BY <1>0
  <2>2. /\ front \in Seq(S)
        /\ Len(front) = IF 1 <= i - 1 THEN (i - 1) - 1 + 1 ELSE 0
        /\ \A j \in 1 .. (i - 1) - 1 + 1 : front[j] = s[1 + j - 1]
    BY <2>1, SubSeqProperties, <1>0
  <2> QED BY <2>2, <1>0
<1>2. /\ back \in Seq(S) /\ Len(back) = Len(s) - i
      /\ \A j \in 1 .. Len(s) - i : back[j] = s[i + j]
  <2>1. \A j \in i + 1 .. Len(s) : s[j] \in S
    BY <1>0
  <2>2. /\ back \in Seq(S)
        /\ Len(back) = IF i + 1 <= Len(s) THEN Len(s) - (i + 1) + 1 ELSE 0
        /\ \A j \in 1 .. Len(s) - (i + 1) + 1 : back[j] = s[i + 1 + j - 1]
    BY <2>1, SubSeqProperties, <1>0
  <2> QED BY <2>2, <1>0
<1>3. /\ front \o back \in Seq(S)
      /\ Len(front \o back) = Len(front) + Len(back)
      /\ \A j \in 1 .. Len(front) + Len(back) :
           (front \o back)[j] = IF j <= Len(front) THEN front[j] ELSE back[j - Len(front)]
  BY <1>1, <1>2, ConcatProperties
<1> HIDE DEF front, back
<1>4. RemoveAt(s, i) = front \o back
  BY DEF RemoveAt, front, back
<1>5. ASSUME NEW j \in 1 .. Len(s) - 1
      PROVE  (front \o back)[j] = IF j < i THEN s[j] ELSE s[j + 1]
  <2>1. (front \o back)[j] = IF j <= i - 1 THEN front[j] ELSE back[j - (i - 1)]
    BY <1>0, <1>1, <1>2, <1>3
  <2>2. CASE j < i
    BY <2>1, <2>2, <1>0, <1>1
  <2>3. CASE ~(j < i)
    <3>1. j - (i - 1) \in 1 .. Len(s) - i
      BY <2>3, <1>0
    <3>2. back[j - (i - 1)] = s[i + (j - (i - 1))]
      BY <3>1, <1>2
    <3>3. i + (j - (i - 1)) = j + 1
      BY <1>0
    <3> QED BY <2>1, <2>3, <3>2, <3>3, <1>0
  <2> QED BY <2>2, <2>3
<1>6. Len(front \o back) = Len(s) - 1
  BY <1>0, <1>1, <1>2, <1>3
<1> QED BY <1>3, <1>4, <1>5, <1>6

(* So the elements left are those of the other indices, and all of them.   *)
LEMMA RemoveAtKeeps ==
  ASSUME NEW S, NEW s \in Seq(S), NEW i \in DOMAIN s
  PROVE  /\ \A j \in DOMAIN RemoveAt(s, i) :
              \E k \in DOMAIN s : k # i /\ RemoveAt(s, i)[j] = s[k]
         /\ \A k \in DOMAIN s :
              k # i => \E j \in DOMAIN RemoveAt(s, i) : RemoveAt(s, i)[j] = s[k]
<1> DEFINE r == RemoveAt(s, i)
<1>1. DOMAIN s = 1 .. Len(s) /\ Len(s) \in Nat /\ i \in 1 .. Len(s)
  BY LenProperties
<1>2. /\ DOMAIN r = 1 .. Len(s) - 1
      /\ \A j \in 1 .. Len(s) - 1 : r[j] = IF j < i THEN s[j] ELSE s[j + 1]
  BY <1>1, RemoveAtProperties, LenProperties
<1> HIDE DEF r
<1>3. ASSUME NEW j \in DOMAIN r PROVE \E k \in DOMAIN s : k # i /\ r[j] = s[k]
  <2>1. CASE j < i
    <3>1. j \in DOMAIN s /\ j # i /\ r[j] = s[j]
      BY <2>1, <1>1, <1>2
    <3> QED BY <3>1
  <2>2. CASE ~(j < i)
    <3>1. j + 1 \in DOMAIN s /\ j + 1 # i /\ r[j] = s[j + 1]
      BY <2>2, <1>1, <1>2
    <3> QED BY <3>1
  <2> QED BY <2>1, <2>2
<1>4. ASSUME NEW k \in DOMAIN s, k # i PROVE \E j \in DOMAIN r : r[j] = s[k]
  <2>1. CASE k < i
    <3>1. k \in DOMAIN r /\ r[k] = s[k]
      BY <2>1, <1>1, <1>2
    <3> QED BY <3>1
  <2>2. CASE ~(k < i)
    <3>1. k - 1 \in DOMAIN r /\ ~(k - 1 < i) /\ k - 1 + 1 = k
      BY <2>2, <1>1, <1>2, <1>4
    <3>2. r[k - 1] = s[k]
      BY <3>1, <1>2
    <3> QED BY <3>1, <3>2
  <2> QED BY <2>1, <2>2
<1> QED
  BY <1>3, <1>4 DEF r

-----------------------------------------------------------------------------
(* Type correctness.  path is an executable once one is loaded; start      *)
(* forks it only then.                                                     *)
PathKnown ==
  /\ state # "NOLOAD" => path \in Programs
  /\ pc = "wait_exec" => state = "LOADED"

TypeInv == TypeOK /\ PathKnown

LEMMA TypeInvInit == Init => TypeInv
<1> SUFFICES ASSUME Init PROVE TypeInv
  OBVIOUS
<1>1. exitkill \in BOOLEAN /\ derailed \in BOOLEAN /\ then_cont \in BOOLEAN
  BY DEF Init, TraceeInit
<1>2. mem \in [Addr -> Byte] /\ rip \in Rip
  BY TraceeAssumption DEF Init, TraceeInit, Rip
<1>3. tstat \in Status /\ why \in Reason /\ tprog \in Programs \union {NoProg}
  BY DEF Init, TraceeInit, Status, Reason
<1>4. bp_vec \in Seq(Breakpoint) /\ orig_instructions \in Seq(Instruction)
  BY EmptySeq DEF Init
<1>5. bp_restore \in Breakpoint /\ addr \in Nat /\ sessions \in 0 .. MaxSessions
  BY TraceeAssumption, SdbAssumption DEF Init, Breakpoint, NoRestore
<1>6. /\ pc = "prompt" /\ state = "NOLOAD" /\ path = NoProg
      /\ tstat = "none"
  BY DEF Init, TraceeInit
<1> QED
  BY <1>1, <1>2, <1>3, <1>4, <1>5, <1>6
  DEF TypeInv, TypeOK, TraceeTypeOK, PathKnown, Point

(* The end of the debugger, from any state.                                *)
LEMMA DieTypeInv == TypeInv /\ Die => TypeInv'
<1> QED
  BY DEF Die, TracerExit, Living, infoVars, TypeInv, TypeOK, TraceeTypeOK, PathKnown, Status, Point

LEMMA TraceeTypeInv ==
  TypeInv /\ TraceeNext /\ UNCHANGED sdbVars => TypeInv'
<1> SUFFICES ASSUME TypeInv, TraceeNext, UNCHANGED sdbVars
             PROVE  TypeInv'
  OBVIOUS
<1> USE DEF TypeInv, TypeOK, TraceeTypeOK, PathKnown, sdbVars, infoVars, Status, Reason,
            Executing, Stop
<1>1. CASE ExecOk
  BY <1>1, TraceeAssumption DEF ExecOk, ImageAssumption, Rip, Addr
<1>2. CASE ExecFails \/ Kill
  BY <1>2 DEF ExecFails, Kill
<1>3. CASE Insn
  BY <1>3, TraceeAssumption DEF Insn, StopIfStepping, ImageAssumption, Rip, Addr
<1>4. CASE ExitInsn
  BY <1>4 DEF ExitInsn
<1>5. CASE Trap
  BY <1>5, TraceeAssumption DEF Trap, Rip, Addr
<1>6. CASE Derail
  BY <1>6 DEF Derail, StopIfStepping
<1>7. CASE Segfault \/ Signal
  BY <1>7 DEF Segfault, Signal
<1> QED
  BY <1>1, <1>2, <1>3, <1>4, <1>5, <1>6, <1>7 DEF TraceeNext, Run

LEMMA SdbTypeInv ==
  TypeInv /\ (Internal \/ UserCommand \/ DebuggerKilled) => TypeInv'
<1> SUFFICES ASSUME TypeInv, Internal \/ UserCommand \/ DebuggerKilled
             PROVE  TypeInv'
  OBVIOUS
<1>0. CASE Die
  BY <1>0, DieTypeInv
<1> USE DEF TypeInv, TypeOK, TraceeTypeOK, PathKnown, traceeVars, infoVars, Status, Reason,
            Point, Command, Stopped, Pokeable, Resume
<1>1. ASSUME NEW p \in Programs, Load(p) PROVE TypeInv'
  BY <1>1 DEF Load
<1>2. ASSUME NEW c \in {"start", "run"}, Start(c) PROVE TypeInv'
  <2>1. exitkill' \in BOOLEAN /\ derailed' \in BOOLEAN /\ then_cont' \in BOOLEAN
    BY <1>2 DEF Start, Fork
  <2>2. mem' \in [Addr -> Byte] /\ rip' \in Rip
    BY <1>2, TraceeAssumption DEF Start, Fork, Rip
  <2>3. sessions' \in 0 .. MaxSessions
    BY <1>2, SdbAssumption DEF Start
  <2>4. /\ tstat' = "execing" /\ why' = "none" /\ tprog' = path /\ path \in Programs
        /\ pc' = "wait_exec" /\ state' = "LOADED"
        /\ UNCHANGED <<path, bp_vec, bp_restore, orig_instructions, addr>>
    BY <1>2 DEF Start, Startable, Fork
  <2> QED BY <2>1, <2>2, <2>3, <2>4
<1>3. CASE StartReturns
  <2>1. CASE ~Die
    <3>1. exitkill' \in BOOLEAN
      BY <1>3, <2>1 DEF StartReturns, SetOptions
    <3>2. addr' \in Nat
      BY <1>3, <2>1, TraceeAssumption DEF StartReturns, ImageAssumption, Addr
    <3>3. /\ state' = "RUNNING" /\ pc' = "sweep" /\ path \in Programs
          /\ UNCHANGED <<tstat, why, tprog, mem, rip, derailed, then_cont, path, bp_vec,
                         bp_restore, orig_instructions, sessions>>
      BY <1>3, <2>1 DEF StartReturns
    <3> QED BY <3>1, <3>2, <3>3
  <2> QED BY <2>1, <1>0
<1>4. CASE Sweep
  <2>1. Decoded(addr).prog \in Programs \union {NoProg} /\ Decoded(addr).len \in Nat
    BY TraceeAssumption DEF Decoded, ImageAssumption
  <2>2. [addr |-> addr, prog |-> Decoded(addr).prog] \in Instruction
    BY <2>1 DEF Instruction
  <2>3. orig_instructions' \in Seq(Instruction)
    BY <1>4, <2>2, AppendProperties DEF Sweep
  <2> QED BY <1>4, <2>1, <2>3 DEF Sweep
<1>5. CASE SweepDone
  <2>1. then_cont' \in BOOLEAN
    BY <1>5 DEF SweepDone
  <2>2. /\ pc' \in {"cont", "prompt"} /\ addr' \in Nat
        /\ UNCHANGED <<traceeVars, infoVars, bp_restore, orig_instructions, sessions>>
    BY <1>5 DEF SweepDone
  <2> QED BY <2>1, <2>2
<1>6. CASE ContStepsOver
  BY <1>6 DEF ContStepsOver, ContCalled, Breakpoint
<1>7. CASE ContResumes
  BY <1>7 DEF ContResumes, ContCalled
<1>8. CASE ContFails
  BY <1>8, <1>0 DEF ContFails
<1>9. CASE StepReturns
  BY <1>9, <1>0, TraceeAssumption DEF StepReturns, Rearmed, NoRestore, Breakpoint
<1>10. CASE ContHits
  <2>1. PICK i \in DOMAIN bp_vec : HitAt(i) /\ bp_restore' = bp_vec[i]
    BY <1>10 DEF ContHits
  <2>2. bp_vec[i] \in Breakpoint
    BY <2>1, LenProperties, ElementOfSeq
  <2>3. rip' \in Rip
    BY <1>10, <2>1, <2>2, TraceeAssumption DEF ContHits, Rewound, HitAt, Breakpoint, Rip
  <2> QED BY <1>10, <2>1, <2>2, <2>3 DEF ContHits
<1>11. CASE ContStops
  BY <1>11 DEF ContStops
<1>12. CASE ContExits
  BY <1>12 DEF ContExits, Reap
<1>13. CASE ContKilled
  BY <1>13, <1>0 DEF ContKilled, CommandOver, Reap
<1>14. CASE Si
  BY <1>14, <1>0 DEF Si
<1>15. CASE SiReturns
  BY <1>15 DEF SiReturns, Reap
<1>16. ASSUME NEW a \in BreakAddrs, SetBp(a) PROVE TypeInv'
  <2>1. CASE Pokeable(a) /\ ~Die
    <3>1. [addr |-> a, orig_patch |-> mem[a]] \in Breakpoint
      BY <2>1, SdbAssumption DEF Breakpoint
    <3>2. bp_vec' \in Seq(Breakpoint)
      <4>1. bp_vec' = Append(bp_vec, [addr |-> a, orig_patch |-> mem[a]])
        BY <1>16, <2>1 DEF SetBp
      <4> QED BY <4>1, <3>1, AppendProperties
    <3> QED BY <1>16, <2>1, <3>2, TraceeAssumption DEF SetBp
  <2> QED BY <1>16, <2>1, <1>0 DEF SetBp
<1>17. ASSUME NEW i \in DOMAIN bp_vec, DelBp(i) PROVE TypeInv'
  <2>1. i \in 1 .. Len(bp_vec) /\ bp_vec[i] \in Breakpoint
    BY LenProperties, ElementOfSeq
  <2>2. CASE Pokeable(bp_vec[i].addr) /\ ~Die
    <3>1. bp_vec' \in Seq(Breakpoint)
      BY <1>17, <2>1, <2>2, RemoveAtProperties DEF DelBp
    <3>2. mem' \in [Addr -> Byte]
      BY <1>17, <2>1, <2>2 DEF DelBp, Unpatched, Breakpoint
    <3>3. bp_restore' \in Breakpoint
      BY <1>17, <2>1, <2>2, TraceeAssumption DEF DelBp, RestoreAfter, NoRestore, Breakpoint
    <3> QED BY <1>17, <2>2, <3>1, <3>2, <3>3 DEF DelBp
  <2> QED BY <1>17, <2>2, <1>0 DEF DelBp
<1>18. ASSUME NEW v \in RipValues, SetRip(v) PROVE TypeInv'
  BY <1>18, <1>0, SdbAssumption DEF SetRip, sdbVars
<1>19. CASE LoadFails \/ GetRegs \/ Quit \/ DebuggerKilled
  BY <1>19, <1>0 DEF LoadFails, GetRegs, Quit, DebuggerKilled
<1> HIDE DEF TypeInv
<1> QED
  BY <1>1, <1>2, <1>3, <1>4, <1>5, <1>6, <1>7, <1>8, <1>9, <1>10, <1>11, <1>12, <1>13,
     <1>14, <1>15, <1>16, <1>17, <1>18, <1>19
  DEF Internal, UserCommand

LEMMA StutterTypeInv == TypeInv /\ UNCHANGED vars => TypeInv'
<1> QED
  BY DEF vars, sdbVars, infoVars, traceeVars, TypeInv, TypeOK, TraceeTypeOK, PathKnown

LEMMA TypeInvariance == Spec => []TypeInv
<1>1. TypeInv /\ [Next]_vars => TypeInv'
  BY TraceeTypeInv, SdbTypeInv, StutterTypeInv DEF Next
<1> QED
  BY <1>1, TypeInvInit, PTL DEF Spec

(* The state of the debugger and of the tracee keep their types: in        *)
(* particular a process is only ever forked for a loaded executable, and a *)
(* patch only ever writes a mapped address.                                *)
THEOREM TypeCorrect == Spec => []TypeOK
<1>1. TypeInv => TypeOK
  BY DEF TypeInv
<1> QED
  BY <1>1, TypeInvariance, PTL

-----------------------------------------------------------------------------
(* Breakpoints stay armed.  Armed is not inductive: an exec replaces the   *)
(* text, so it must find no breakpoint listed (Fresh); re-arming after the *)
(* step, and undoing one patch while the others stay, need the listed      *)
(* addresses to be mapped (BpMapped) and different (UniqueBps).            *)
BpMapped == \A i \in DOMAIN bp_vec : bp_vec[i].addr \in Addr

Fresh ==
  /\ state # "RUNNING" => bp_vec = << >>
  /\ tstat = "execing" => pc = "wait_exec"

Mortal == pc = "exit" => ~Living

ArmedInv == TypeInv /\ Armed /\ UniqueBps /\ BpMapped /\ Fresh /\ Mortal

LEMMA ArmedInvInit == Init => ArmedInv
<1> QED
  BY TypeInvInit, EmptySeq
  DEF Init, TraceeInit, ArmedInv, Armed, UniqueBps, BpMapped, Fresh, Mortal, Living

(* A step that leaves the list and the patches alone, and starts nothing.  *)
LEMMA SamePatches ==
  ASSUME ArmedInv, TypeInv',
         bp_vec' = bp_vec, mem' = mem, state' = state,
         Living' => Living,
         pc = "wait_step" => pc' = "wait_step" \/ ~Living',
         bp_restore' = bp_restore \/ pc # "wait_step",
         tstat' = "execing" => tstat = "execing" /\ pc' = pc,
         pc' = "exit" => ~Living'
  PROVE  ArmedInv'
<1>1. Armed'
  BY DEF ArmedInv, Armed, Disarmed
<1>2. UniqueBps' /\ BpMapped' /\ Fresh' /\ Mortal'
  BY DEF ArmedInv, UniqueBps, BpMapped, Fresh, Mortal
<1> QED
  BY <1>1, <1>2 DEF ArmedInv

LEMMA DieArmedInv == ArmedInv /\ Die => ArmedInv'
<1> SUFFICES ASSUME ArmedInv, Die PROVE ArmedInv'
  OBVIOUS
<1>1. TypeInv'
  BY DieTypeInv DEF ArmedInv
<1>2. ~Living' /\ tstat' # "execing"
  BY DEF Die, TracerExit, Living
<1>3. /\ bp_vec' = bp_vec /\ mem' = mem /\ state' = state
      /\ bp_restore' = bp_restore /\ pc' = "exit"
  BY DEF Die, TracerExit, infoVars
<1> QED
  BY <1>1, <1>2, <1>3, SamePatches

LEMMA TraceeArmedInv ==
  ArmedInv /\ TraceeNext /\ UNCHANGED sdbVars => ArmedInv'
<1> SUFFICES ASSUME ArmedInv, TraceeNext, UNCHANGED sdbVars
             PROVE  ArmedInv'
  OBVIOUS
<1>1. TypeInv'
  BY TraceeTypeInv DEF ArmedInv
<1>2. /\ bp_vec' = bp_vec /\ state' = state /\ pc' = pc /\ bp_restore' = bp_restore
  BY DEF sdbVars, infoVars
<1>3. CASE ExecOk
  <2>1. pc = "wait_exec" /\ bp_vec = << >>
    BY <1>3 DEF ExecOk, ArmedInv, Fresh, TypeInv, PathKnown
  <2>2. tstat' = "stopped"
    BY <1>3 DEF ExecOk, Stop
  <2>3. Armed' /\ UniqueBps' /\ BpMapped'
    BY <1>2, <2>1 DEF Armed, UniqueBps, BpMapped
  <2> QED
    BY <1>1, <1>2, <2>1, <2>2, <2>3 DEF ArmedInv, Fresh, Mortal
<1>4. CASE ~ExecOk
  <2>1. mem' = mem /\ (Living' => Living) /\ tstat' # "execing"
    BY <1>4
    DEF TraceeNext, Run, ExecFails, Kill, Insn, ExitInsn, Trap, Derail, Segfault, Signal,
        StopIfStepping, Stop, Executing, Living
  <2> QED
    BY <1>1, <1>2, <2>1, SamePatches DEF ArmedInv, Mortal
<1> QED
  BY <1>3, <1>4

LEMMA SdbArmedInv ==
  ArmedInv /\ (Internal \/ UserCommand \/ DebuggerKilled) => ArmedInv'
<1> SUFFICES ASSUME ArmedInv, Internal \/ UserCommand \/ DebuggerKilled
             PROVE  ArmedInv'
  OBVIOUS
<1>0. CASE Die
  BY <1>0, DieArmedInv
<1>t. TypeInv'
  BY SdbTypeInv DEF ArmedInv
<1> USE DEF Command, Stopped, Pokeable, Resume, traceeVars, infoVars
<1>1. ASSUME NEW p \in Programs, Load(p) PROVE ArmedInv'
  <2>1. bp_vec' = << >> /\ pc' = pc /\ UNCHANGED <<mem, tstat>>
    BY <1>1 DEF Load
  <2> QED
    BY <1>t, <2>1 DEF ArmedInv, Armed, UniqueBps, BpMapped, Fresh, Mortal, Living
<1>2. ASSUME NEW c \in {"start", "run"}, Start(c) PROVE ArmedInv'
  <2>1. bp_vec' = bp_vec /\ bp_vec = << >> /\ pc' = "wait_exec"
    BY <1>2 DEF Start, Startable, ArmedInv, Fresh
  <2> QED
    BY <1>t, <2>1 DEF ArmedInv, Armed, UniqueBps, BpMapped, Fresh, Mortal
<1>3. CASE StartReturns
  <2>1. CASE ~Die
    <3>1. /\ bp_vec' = bp_vec /\ bp_vec = << >> /\ pc' = "sweep" /\ tstat' = tstat
          /\ tstat # "execing"
      BY <1>3, <2>1 DEF StartReturns, ArmedInv, Fresh, TypeInv, PathKnown
    <3> QED
      BY <1>t, <3>1 DEF ArmedInv, Armed, UniqueBps, BpMapped, Fresh, Mortal
  <2> QED BY <2>1, <1>0
<1>4. CASE Sweep \/ SweepDone \/ ContStops
  <2>1. /\ pc # "wait_step" /\ pc' # "exit" /\ tstat # "execing"
        /\ UNCHANGED <<bp_vec, mem, state, tstat, bp_restore>>
    BY <1>4 DEF Sweep, SweepDone, ContStops, ArmedInv, Fresh
  <2> QED
    BY <2>1, <1>t, SamePatches DEF Living
<1>5. CASE ContStepsOver
  <2>1. /\ pc' = "wait_step" /\ bp_vec' = bp_vec /\ bp_restore' = bp_restore
        /\ state' = state /\ tstat' = "stepping" /\ Living
        /\ pc # "wait_step"
    BY <1>5 DEF ContStepsOver, ContCalled, Living
  <2>2. \A a \in Addr : a # bp_restore.addr => mem'[a] = mem[a]
    BY <1>5 DEF ContStepsOver, ArmedInv, TypeInv, TypeOK, TraceeTypeOK
  <2>3. Armed'
    BY <2>1, <2>2 DEF ArmedInv, Armed, Disarmed, BpMapped
  <2> QED
    BY <1>t, <2>1, <2>3 DEF ArmedInv, UniqueBps, BpMapped, Fresh, Mortal
<1>6. CASE ContResumes
  <2>1. Living /\ pc # "wait_step"
    BY <1>6 DEF ContResumes, ContCalled, Living
  <2> QED
    BY <1>6, <1>t, <2>1, SamePatches DEF ContResumes
<1>7. CASE ContFails
  BY <1>7, <1>0 DEF ContFails
<1>8. CASE StepReturns
  <2>1. CASE ~Die
    <3>1. /\ pc = "wait_step" /\ pc' = "wait_cont" /\ bp_vec' = bp_vec /\ state' = state
          /\ tstat' = "running" /\ Living
      BY <1>8, <2>1 DEF StepReturns, Living
    <3>2. \A a \in Addr : mem'[a] = IF a = bp_restore.addr THEN CC ELSE mem[a]
      BY <1>8, <2>1 DEF StepReturns, Rearmed, ArmedInv, TypeInv, TypeOK, TraceeTypeOK
    <3>3. Armed'
      BY <3>1, <3>2 DEF ArmedInv, Armed, Disarmed, BpMapped
    <3> QED
      BY <1>t, <3>1, <3>3 DEF ArmedInv, UniqueBps, BpMapped, Fresh, Mortal
  <2> QED BY <2>1, <1>0
<1>9. CASE ContHits
  BY <1>9, <1>t, SamePatches DEF ContHits, Living
<1>10. CASE ContExits
  <2>1. bp_vec' = << >> /\ pc' = "prompt" /\ tstat' = "gone"
    BY <1>10 DEF ContExits, Reap
  <2>2. Armed' /\ UniqueBps' /\ BpMapped' /\ Fresh' /\ Mortal'
    BY <2>1 DEF Armed, UniqueBps, BpMapped, Fresh, Mortal, Living
  <2> QED
    BY <1>t, <2>2 DEF ArmedInv
<1>11. CASE ContKilled
  <2>1. CASE ~Die
    BY <1>11, <1>t, <2>1, SamePatches DEF ContKilled, CommandOver, Reap, Living
  <2> QED BY <2>1, <1>0
<1>12. CASE Si
  <2>1. CASE ~Die
    BY <1>12, <1>t, <2>1, SamePatches DEF Si, Living
  <2> QED BY <2>1, <1>0
<1>13. CASE SiReturns
  BY <1>13, <1>t, SamePatches DEF SiReturns, Reap, Living, Waitable
<1>14. ASSUME NEW a \in BreakAddrs, SetBp(a) PROVE ArmedInv'
  <2>1. CASE ~Die
    <3> DEFINE bp == [addr |-> a, orig_patch |-> mem[a]]
    <3>0. /\ a \in Addr /\ mem \in [Addr -> Byte] /\ bp_vec \in Seq(Breakpoint)
          /\ bp \in Breakpoint
      BY <1>14, <2>1, SdbAssumption
      DEF SetBp, ArmedInv, TypeInv, TypeOK, TraceeTypeOK, Breakpoint
    <3>1. /\ bp_vec' = Append(bp_vec, bp)
          /\ mem' = [mem EXCEPT ![a] = CC]
          /\ pc = "prompt" /\ pc' = pc /\ tstat' = tstat /\ state = "RUNNING" /\ state' = state
          /\ tstat = "stopped"
      BY <1>14, <2>1 DEF SetBp
    <3> HIDE DEF bp
    <3>2. /\ DOMAIN bp_vec = 1 .. Len(bp_vec) /\ Len(bp_vec) \in Nat
          /\ DOMAIN bp_vec' = 1 .. Len(bp_vec) + 1
          /\ \A i \in DOMAIN bp_vec : bp_vec'[i] = bp_vec[i]
          /\ bp_vec'[Len(bp_vec) + 1] = bp
      BY <3>0, <3>1, AppendProperties, LenProperties
    <3>3. bp.addr = a /\ \A i \in DOMAIN bp_vec : bp_vec[i].addr # a
      BY <1>14 DEF SetBp, NewAddress, BpAddrs, bp
    <3>4. \A i \in DOMAIN bp_vec' : i \in DOMAIN bp_vec \/ i = Len(bp_vec) + 1
      BY <3>2
    <3>5. UniqueBps'
      BY <3>2, <3>3, <3>4 DEF ArmedInv, UniqueBps
    <3>6. BpMapped'
      BY <3>0, <3>2, <3>3, <3>4 DEF ArmedInv, BpMapped
    <3>7. Armed
      BY DEF ArmedInv
    <3>8. ASSUME NEW i \in DOMAIN bp_vec' PROVE mem'[bp_vec'[i].addr] = CC
      <4>1. CASE i = Len(bp_vec) + 1
        BY <4>1, <3>0, <3>1, <3>2, <3>3
      <4>2. CASE i \in DOMAIN bp_vec
        <5>1. bp_vec[i].addr \in Addr /\ mem[bp_vec[i].addr] = CC
          BY <4>2, <3>1, <3>7 DEF ArmedInv, BpMapped, Armed, Disarmed, Living
        <5> QED
          BY <5>1, <4>2, <3>0, <3>1, <3>2
      <4> QED BY <4>1, <4>2, <3>4
    <3> QED
      BY <1>t, <3>1, <3>5, <3>6, <3>8 DEF ArmedInv, Armed, Fresh, Mortal
  <2> QED BY <2>1, <1>0
<1>15. ASSUME NEW i \in DOMAIN bp_vec, DelBp(i) PROVE ArmedInv'
  <2>1. CASE ~Die
    <3>0. /\ bp_vec \in Seq(Breakpoint) /\ mem \in [Addr -> Byte]
          /\ i \in 1 .. Len(bp_vec) /\ Len(bp_vec) \in Nat /\ DOMAIN bp_vec = 1 .. Len(bp_vec)
      BY LenProperties DEF ArmedInv, TypeInv, TypeOK, TraceeTypeOK
    <3>1. /\ bp_vec' = RemoveAt(bp_vec, i)
          /\ mem' = [mem EXCEPT ![bp_vec[i].addr] = bp_vec[i].orig_patch]
          /\ pc = "prompt" /\ pc' = pc /\ tstat' = tstat /\ state' = state
          /\ tstat = "stopped"
      BY <1>15, <2>1 DEF DelBp, Unpatched
    <3>2. /\ DOMAIN bp_vec' = 1 .. Len(bp_vec) - 1
          /\ \A j \in 1 .. Len(bp_vec) - 1 : bp_vec'[j] = IF j < i THEN bp_vec[j] ELSE bp_vec[j + 1]
      BY <3>0, <3>1, RemoveAtProperties, LenProperties
    <3> DEFINE old(j) == IF j < i THEN j ELSE j + 1
    <3>3. \A j \in DOMAIN bp_vec' : /\ old(j) \in DOMAIN bp_vec /\ old(j) # i
                                    /\ bp_vec'[j] = bp_vec[old(j)]
      BY <3>0, <3>2
    <3>4. \A j, k \in DOMAIN bp_vec' : old(j) = old(k) => j = k
      BY <3>0, <3>2
    <3> HIDE DEF old
    <3>5. UniqueBps'
      BY <3>3, <3>4 DEF ArmedInv, UniqueBps
    <3>6. BpMapped'
      BY <3>3 DEF ArmedInv, BpMapped
    <3>7. ASSUME NEW j \in DOMAIN bp_vec' PROVE mem'[bp_vec'[j].addr] = CC
      <4>1. /\ mem[bp_vec[old(j)].addr] = CC /\ bp_vec[old(j)].addr \in Addr
            /\ bp_vec[old(j)].addr # bp_vec[i].addr
        BY <3>1, <3>3 DEF ArmedInv, Armed, Disarmed, BpMapped, UniqueBps, Living
      <4> QED
        BY <4>1, <3>0, <3>1, <3>3
    <3>8. Fresh'
      <4>1. state # "RUNNING" => FALSE
        BY <3>0 DEF ArmedInv, Fresh
      <4> QED BY <4>1, <3>1 DEF Fresh
    <3> QED
      BY <1>t, <3>1, <3>5, <3>6, <3>7, <3>8 DEF ArmedInv, Armed, Mortal
  <2> QED BY <2>1, <1>0
<1>16. ASSUME NEW v \in RipValues, SetRip(v) PROVE ArmedInv'
  <2>1. CASE ~Die
    <3>1. /\ bp_vec' = bp_vec /\ mem' = mem /\ state' = state /\ tstat' = tstat
          /\ pc = "prompt" /\ pc' = pc /\ bp_restore' = bp_restore
      BY <1>16, <2>1 DEF SetRip, sdbVars
    <3> QED
      BY <1>t, <3>1, SamePatches DEF Living
  <2> QED BY <2>1, <1>0
<1>17. CASE LoadFails \/ GetRegs \/ Quit \/ DebuggerKilled
  BY <1>17, <1>0 DEF LoadFails, GetRegs, Quit, DebuggerKilled
<1> QED
  BY <1>1, <1>2, <1>3, <1>4, <1>5, <1>6, <1>7, <1>8, <1>9, <1>10, <1>11, <1>12, <1>13,
     <1>14, <1>15, <1>16, <1>17
  DEF Internal, UserCommand

LEMMA StutterArmedInv == ArmedInv /\ UNCHANGED vars => ArmedInv'
<1> QED
  BY StutterTypeInv
  DEF vars, sdbVars, infoVars, traceeVars, ArmedInv, Armed, Disarmed, UniqueBps, BpMapped,
      Fresh, Mortal, Living

LEMMA ArmedInvariance == Spec => []ArmedInv
<1>1. ArmedInv /\ [Next]_vars => ArmedInv'
  BY TraceeArmedInv, SdbArmedInv, StutterArmedInv DEF Next
<1> QED
  BY <1>1, ArmedInvInit, PTL DEF Spec

(* Whatever commands the user gives and whatever happens to the tracee,    *)
(* every listed breakpoint of a living tracee is in its text, except while *)
(* cont steps over it.                                                     *)
THEOREM BreakpointsArmed == Spec => []Armed
<1>1. ArmedInv => Armed
  BY DEF ArmedInv
<1> QED
  BY <1>1, ArmedInvariance, PTL

(* No address is ever listed twice.                                        *)
THEOREM BreakpointsUnique == Spec => []UniqueBps
<1>1. ArmedInv => UniqueBps
  BY DEF ArmedInv
<1> QED
  BY <1>1, ArmedInvariance, PTL

-----------------------------------------------------------------------------
(* No tracee outlives the debugger.                                        *)
Guarded ==
  /\ Living /\ state = "RUNNING" => exitkill
  /\ tstat = "detached" => pc = "exit" /\ state # "RUNNING"

OrphanInv == TypeInv /\ Mortal /\ Fresh /\ Guarded

LEMMA DieOrphanInv == OrphanInv /\ Die => OrphanInv'
<1> SUFFICES ASSUME OrphanInv, Die PROVE OrphanInv'
  OBVIOUS
<1>1. TypeInv'
  BY DieTypeInv DEF OrphanInv
<1>2. pc' = "exit" /\ ~Living' /\ tstat' # "execing" /\ state' = state /\ bp_vec' = bp_vec
  BY DEF Die, TracerExit, Living, infoVars
<1>3. tstat' = "detached" => state # "RUNNING"
  BY DEF Die, TracerExit, OrphanInv, Guarded
<1> QED
  BY <1>1, <1>2, <1>3 DEF OrphanInv, Mortal, Fresh, Guarded

LEMMA OrphanInvariance == Spec => []OrphanInv
<1>1. Init => OrphanInv
  BY TypeInvInit DEF Init, TraceeInit, OrphanInv, Mortal, Fresh, Guarded, Living
<1>2. OrphanInv /\ ArmedInv /\ ArmedInv' /\ [Next]_vars => OrphanInv'
  <2> SUFFICES ASSUME OrphanInv, ArmedInv, ArmedInv', [Next]_vars PROVE OrphanInv'
    OBVIOUS
  <2>0. TypeInv' /\ Mortal' /\ Fresh'
    BY DEF ArmedInv
  <2>d. CASE Die
    BY <2>d, DieOrphanInv
  <2> SUFFICES ASSUME ~Die PROVE Guarded'
    BY <2>0, <2>d DEF OrphanInv
  <2> USE DEF OrphanInv, Guarded, traceeVars, sdbVars, infoVars, Command
  <2>1. CASE UNCHANGED vars
    BY <2>1 DEF vars, Living
  <2>2. CASE TraceeNext /\ UNCHANGED sdbVars
    BY <2>2
    DEF TraceeNext, Run, ExecOk, ExecFails, Kill, Insn, ExitInsn, Trap, Derail, Segfault,
        Signal, StopIfStepping, Stop, Executing, Living
  <2>3. ASSUME NEW p \in Programs, Load(p) PROVE Guarded'
    BY <2>3 DEF Load
  <2>4. ASSUME NEW c \in {"start", "run"}, Start(c) PROVE Guarded'
    BY <2>4 DEF Start, Startable, Fork
  <2>5. CASE StartReturns
    BY <2>5 DEF StartReturns, SetOptions, Stopped, Living
  <2>6. CASE Sweep \/ SweepDone \/ ContHits \/ ContStops
    BY <2>6 DEF Sweep, SweepDone, ContHits, ContStops, Living
  <2>7. CASE ContStepsOver \/ ContResumes \/ StepReturns
    BY <2>7
    DEF ContStepsOver, ContResumes, ContCalled, StepReturns, Resume, Stopped, Pokeable, Living
  <2>8. CASE ContExits \/ ContKilled \/ SiReturns
    BY <2>8 DEF ContExits, ContKilled, CommandOver, SiReturns, Reap, Stopped, Living
  <2>9. CASE Si
    BY <2>9 DEF Si, Resume, Stopped, Living
  <2>10. ASSUME NEW a \in BreakAddrs, SetBp(a) PROVE Guarded'
    BY <2>10 DEF SetBp, Living
  <2>11. ASSUME NEW i \in DOMAIN bp_vec, DelBp(i) PROVE Guarded'
    BY <2>11 DEF DelBp, Living
  <2>12. ASSUME NEW v \in RipValues, SetRip(v) PROVE Guarded'
    BY <2>12 DEF SetRip, Living
  <2>13. CASE ContFails \/ LoadFails \/ GetRegs \/ Quit \/ DebuggerKilled
    BY <2>13 DEF ContFails, LoadFails, GetRegs, Quit, DebuggerKilled
  <2> QED
    BY <2>1, <2>2, <2>3, <2>4, <2>5, <2>6, <2>7, <2>8, <2>9, <2>10, <2>11, <2>12, <2>13
    DEF Next, Internal, UserCommand
<1> QED
  BY <1>1, <1>2, ArmedInvariance, PTL DEF Spec

(* Once start has returned, however the debugger ends, its tracee does not *)
(* survive it.                                                             *)
THEOREM TraceeDiesWithDebugger == Spec => []NoOrphan
<1>1. OrphanInv => NoOrphan
  BY DEF OrphanInv, Mortal, Guarded, NoOrphan, Living
<1> QED
  BY <1>1, OrphanInvariance, PTL

-----------------------------------------------------------------------------
(* The text of the first session.  Stepping over writes back the byte that *)
(* bp_restore keeps, so that byte must be the program's: bp_restore must   *)
(* be a listed breakpoint (RestoreListed), or NoRestore before the first   *)
(* hit (Unstarted, Starting), and a wait of cont must belong to a program  *)
(* that runs (Phases).                                                     *)
Unstarted == sessions = 0 => tstat = "none" /\ bp_restore = NoRestore

Starting == sessions = 1 /\ pc = "wait_exec" => bp_restore = NoRestore

Phases ==
  /\ Living => state = "RUNNING" \/ pc = "wait_exec"
  /\ pc = "wait_step" => state = "RUNNING" /\ bp_restore.addr \in Addr
  /\ pc = "wait_cont" => state = "RUNNING"

SyncInv == TypeInv /\ Unstarted /\ Starting /\ Phases /\ RestoreListed /\ TextSync

LEMMA SyncInvInit == Init => SyncInv
<1> QED
  BY TypeInvInit
  DEF Init, TraceeInit, SyncInv, Unstarted, Starting, Phases, RestoreListed, TextSync, Living

(* A stopped or running tracee of the first session.                       *)
Synced == tstat \in {"stopped", "running", "stepping"} /\ sessions = 1

LEMMA SyncedText ==
  ASSUME SyncInv, Synced
  PROVE  /\ \A a \in Addr : mem[a] = IF Patched(a) THEN CC ELSE Image[tprog].text[a]
         /\ BytesSaved
<1> QED
  BY DEF SyncInv, Synced, TextSync, TextPatched

LEMMA TextSyncFrom ==
  ASSUME TypeInv',
         Synced' =>
           /\ \A a \in Addr : mem'[a] = IF Patched(a)' THEN CC ELSE Image[tprog'].text[a]
           /\ BytesSaved'
  PROVE  TextSync'
<1>1. mem' \in [Addr -> Byte]
  BY DEF TypeInv, TypeOK, TraceeTypeOK
<1> QED
  BY <1>1 DEF TextSync, Synced, TextPatched

(* A step that leaves the list, the patches and what is stepped over.      *)
LEMMA SameText ==
  ASSUME SyncInv, TypeInv', Phases', Unstarted', Starting',
         UNCHANGED <<bp_vec, mem, tprog, sessions, bp_restore, state>>,
         Synced' => Synced,
         pc = "wait_step" => pc' = "wait_step" \/ ~Synced',
         pc' = "wait_step" => pc = "wait_step"
  PROVE  SyncInv'
<1>1. RestoreListed'
  BY DEF SyncInv, RestoreListed
<1>2. Synced' => \A a \in Addr : Patched(a)' = Patched(a)
  BY DEF Patched, BpAddrs, Disarmed
<1>3. Synced' => BytesSaved'
  BY SyncedText DEF BytesSaved
<1>4. TextSync'
  BY <1>2, <1>3, SyncedText, TextSyncFrom
<1> QED
  BY <1>1, <1>4 DEF SyncInv

LEMMA DieSyncInv == SyncInv /\ Die => SyncInv'
<1> SUFFICES ASSUME SyncInv, Die PROVE SyncInv'
  OBVIOUS
<1>1. TypeInv'
  BY DieTypeInv DEF SyncInv
<1>2. /\ pc' = "exit" /\ ~Living' /\ (tstat = "none" => tstat' = "none")
      /\ UNCHANGED <<bp_vec, mem, tprog, sessions, bp_restore, state>>
  BY DEF Die, TracerExit, Living, infoVars
<1>3. ~Synced' /\ Phases' /\ Unstarted' /\ Starting'
  BY <1>2 DEF SyncInv, Synced, Living, Phases, Unstarted, Starting
<1> QED
  BY <1>1, <1>2, <1>3, SameText

LEMMA TraceeSyncInv ==
  SyncInv /\ ArmedInv /\ TraceeNext /\ UNCHANGED sdbVars => SyncInv'
<1> SUFFICES ASSUME SyncInv, ArmedInv, TraceeNext, UNCHANGED sdbVars
             PROVE  SyncInv'
  OBVIOUS
<1>1. TypeInv'
  BY TraceeTypeInv DEF SyncInv
<1>2. UNCHANGED <<bp_vec, sessions, bp_restore, state, pc>>
  BY DEF sdbVars, infoVars
<1>3. tstat # "none" /\ (Living' => Living) /\ tprog' = tprog
  BY DEF TraceeNext, Run, ExecOk, ExecFails, Kill, Insn, ExitInsn, Trap, Derail, Segfault, Signal,
         StopIfStepping, Stop, Executing, Living
<1>4. Phases' /\ Unstarted' /\ Starting'
  BY <1>2, <1>3 DEF SyncInv, Phases, Unstarted, Starting
<1>5. CASE ExecOk
  <2>1. bp_vec = << >> /\ pc = "wait_exec"
    BY <1>5 DEF ExecOk, ArmedInv, Fresh, TypeInv, PathKnown
  <2>2. BpAddrs' = {} /\ BytesSaved'
    BY <1>2, <2>1 DEF BpAddrs, BytesSaved
  <2>3. mem' = Image[tprog'].text
    BY <1>3, <1>5 DEF ExecOk
  <2>4. TextSync'
    BY <1>1, <2>2, <2>3, TextSyncFrom DEF Patched
  <2> QED
    BY <1>1, <1>2, <1>4, <2>4 DEF SyncInv, RestoreListed
<1>6. CASE ~ExecOk
  <2>1. mem' = mem /\ (Synced' => Synced)
    BY <1>2, <1>6
    DEF TraceeNext, Run, ExecFails, Kill, Insn, ExitInsn, Trap, Derail, Segfault, Signal,
        StopIfStepping, Stop, Executing, Synced
  <2> QED
    BY <1>1, <1>2, <1>3, <1>4, <2>1, SameText
<1> QED
  BY <1>5, <1>6

LEMMA SdbSyncInv ==
  SyncInv /\ ArmedInv /\ ArmedInv' /\ (Internal \/ UserCommand \/ DebuggerKilled) => SyncInv'
<1> SUFFICES ASSUME SyncInv, ArmedInv, ArmedInv', Internal \/ UserCommand \/ DebuggerKilled
             PROVE  SyncInv'
  OBVIOUS
<1>0. CASE Die
  BY <1>0, DieSyncInv
<1>t. TypeInv'
  BY DEF ArmedInv
<1>i. TypeInv
  BY DEF ArmedInv
<1>z. \A a \in Addr : a # 0
  BY DEF Addr
<1> USE DEF Command, Stopped, Pokeable, Resume, traceeVars, infoVars
<1>1. ASSUME NEW p \in Programs, Load(p) PROVE SyncInv'
  <2>1. /\ ~Living /\ pc = "prompt" /\ state' = "LOADED"
        /\ UNCHANGED <<tstat, pc, bp_restore, sessions>>
    BY <1>1 DEF Load, SyncInv, Phases
  <2>2. ~Living' /\ ~Synced'
    BY <2>1 DEF Living, Synced
  <2> QED
    BY <1>t, <2>1, <2>2
    DEF SyncInv, Unstarted, Starting, Phases, RestoreListed, TextSync, Synced
<1>2. ASSUME NEW c \in {"start", "run"}, Start(c) PROVE SyncInv'
  <2>1. /\ pc' = "wait_exec" /\ tstat' = "execing" /\ state' = "LOADED" /\ sessions' = sessions + 1
        /\ bp_restore' = bp_restore /\ sessions \in Nat
    BY <1>2, <1>i DEF Start, Startable, Fork, TypeInv, TypeOK
  <2>2. sessions' = 1 => bp_restore' = NoRestore
    BY <2>1 DEF SyncInv, Unstarted
  <2> QED
    BY <1>t, <2>1, <2>2
    DEF SyncInv, Unstarted, Starting, Phases, RestoreListed, TextSync
<1>3. CASE StartReturns
  <2>1. CASE ~Die
    <3>1. /\ pc = "wait_exec" /\ pc' = "sweep" /\ state' = "RUNNING"
          /\ UNCHANGED <<tstat, bp_vec, mem, tprog, sessions, bp_restore>>
          /\ tstat # "none"
      BY <1>3, <2>1 DEF StartReturns
    <3>2. RestoreListed'
      BY <3>1 DEF SyncInv, Starting, RestoreListed
    <3>3. TextSync'
      <4>1. Synced' => Synced /\ (\A a \in Addr : Patched(a)' = Patched(a)) /\ (BytesSaved => BytesSaved')
        BY <3>1 DEF Synced, Patched, BpAddrs, Disarmed, BytesSaved
      <4> QED BY <4>1, <3>1, <1>t, SyncedText, TextSyncFrom
    <3> QED
      BY <1>t, <3>1, <3>2, <3>3 DEF SyncInv, Unstarted, Starting, Phases
  <2> QED BY <2>1, <1>0
<1>4. CASE Sweep \/ SweepDone \/ ContStops
  <2>1. /\ pc \notin {"wait_step", "wait_exec"} /\ pc' \notin {"wait_step", "wait_exec", "wait_cont"}
        /\ UNCHANGED <<bp_vec, mem, tprog, sessions, bp_restore, state, tstat>>
    BY <1>4 DEF Sweep, SweepDone, ContStops
  <2> QED
    BY <2>1, <1>t, SameText DEF SyncInv, Synced, Unstarted, Starting, Phases, Living
<1>5. CASE ContStepsOver
  <2>1. /\ rip \in Addr /\ rip = bp_restore.addr /\ state = "RUNNING" /\ tstat = "stopped"
        /\ mem' = [mem EXCEPT ![rip] = bp_restore.orig_patch]
        /\ pc # "wait_step" /\ pc' = "wait_step" /\ tstat' = "stepping"
        /\ UNCHANGED <<tprog, bp_vec, sessions, bp_restore, state>>
    BY <1>5 DEF ContStepsOver, ContCalled
  <2>2. RestoreListed'
    BY <2>1 DEF SyncInv, RestoreListed
  <2>3. ASSUME Synced'
        PROVE  /\ \A a \in Addr : mem'[a] = IF Patched(a)' THEN CC ELSE Image[tprog'].text[a]
               /\ BytesSaved'
    <3>1. Synced
      BY <2>3, <2>1 DEF Synced
    <3>2. PICK i \in DOMAIN bp_vec : bp_vec[i] = bp_restore
      BY <2>1, <3>1, <1>z DEF SyncInv, RestoreListed, NoRestore, Synced
    <3>3. bp_restore.orig_patch = Image[tprog].text[rip]
      BY <3>1, <3>2, <2>1, SyncedText DEF BytesSaved
    <3>4. \A a \in Addr : mem'[a] = IF a = rip THEN bp_restore.orig_patch ELSE mem[a]
      BY <2>1, <1>i DEF TypeInv, TypeOK, TraceeTypeOK
    <3>5. \A a \in Addr : Patched(a)' <=> (Patched(a) /\ a # rip)
      BY <2>1 DEF Patched, BpAddrs, Disarmed
    <3> QED
      BY <3>1, <3>3, <3>4, <3>5, <2>1, SyncedText DEF BytesSaved
  <2>4. TextSync'
    BY <2>3, <1>t, TextSyncFrom
  <2> QED
    BY <1>t, <2>1, <2>2, <2>4 DEF SyncInv, Unstarted, Starting, Phases
<1>6. CASE ContResumes
  <2>1. /\ pc \in {"prompt", "cont"} /\ pc' = "wait_cont" /\ tstat = "stopped" /\ tstat' = "running"
        /\ state = "RUNNING"
        /\ UNCHANGED <<bp_vec, mem, tprog, sessions, bp_restore, state>>
    BY <1>6 DEF ContResumes, ContCalled
  <2> QED
    BY <2>1, <1>t, SameText DEF SyncInv, Synced, Unstarted, Starting, Phases, Living
<1>7. CASE StepReturns
  <2>1. CASE ~Die
    <3>1. /\ pc = "wait_step" /\ pc' = "wait_cont" /\ tstat = "stopped" /\ tstat' = "running"
          /\ mem' = [mem EXCEPT ![bp_restore.addr] = CC] /\ bp_restore' = NoRestore
          /\ state = "RUNNING" /\ bp_restore.addr \in Addr
          /\ UNCHANGED <<tprog, bp_vec, sessions, state>>
      BY <1>7, <2>1 DEF StepReturns, Rearmed, SyncInv, Phases
    <3>2. ASSUME Synced'
          PROVE  /\ \A a \in Addr : mem'[a] = IF Patched(a)' THEN CC ELSE Image[tprog'].text[a]
                 /\ BytesSaved'
      <4>1. Synced
        BY <3>1, <3>2 DEF Synced
      <4>2. PICK i \in DOMAIN bp_vec : bp_vec[i] = bp_restore
        BY <3>1, <4>1, <1>z DEF SyncInv, RestoreListed, NoRestore, Synced
      <4>3. bp_restore.addr \in BpAddrs
        BY <4>2 DEF BpAddrs
      <4>4. \A a \in Addr : mem'[a] = IF a = bp_restore.addr THEN CC ELSE mem[a]
        BY <3>1, <1>i DEF TypeInv, TypeOK, TraceeTypeOK
      <4>5. \A a \in Addr : Patched(a)' <=> (Patched(a) \/ a = bp_restore.addr)
        BY <3>1, <4>3 DEF Patched, BpAddrs, Disarmed
      <4> QED
        BY <4>1, <4>4, <4>5, <3>1, SyncedText DEF BytesSaved
    <3>3. TextSync'
      BY <3>2, <1>t, TextSyncFrom
    <3> QED
      BY <1>t, <3>1, <3>3 DEF SyncInv, Unstarted, Starting, Phases, RestoreListed
  <2> QED BY <2>1, <1>0
<1>8. CASE ContHits
  <2>1. /\ pc = "wait_cont" /\ pc' = "prompt" /\ tstat = "stopped" /\ state = "RUNNING"
        /\ \E i \in DOMAIN bp_vec : bp_restore' = bp_vec[i]
        /\ UNCHANGED <<tstat, mem, tprog, bp_vec, sessions, state>>
    BY <1>8 DEF ContHits, SyncInv, Phases
  <2>2. RestoreListed'
    BY <2>1 DEF RestoreListed
  <2>3. Synced' => Synced /\ (\A a \in Addr : Patched(a)' = Patched(a)) /\ (BytesSaved => BytesSaved')
    BY <2>1 DEF Synced, Patched, BpAddrs, Disarmed, BytesSaved
  <2>4. TextSync'
    BY <2>1, <2>3, <1>t, SyncedText, TextSyncFrom
  <2>5. sessions # 0
    BY <2>1 DEF SyncInv, Unstarted
  <2> QED
    BY <1>t, <2>1, <2>2, <2>4, <2>5 DEF SyncInv, Unstarted, Starting, Phases, Living
<1>9. CASE ContExits
  <2>1. pc' = "prompt" /\ tstat' = "gone" /\ state' = "NOLOAD" /\ tstat = "exited"
        /\ UNCHANGED <<bp_restore, sessions>>
    BY <1>9 DEF ContExits, Reap
  <2> QED
    BY <1>t, <2>1
    DEF SyncInv, Unstarted, Starting, Phases, RestoreListed, TextSync, Living
<1>10. CASE ContKilled \/ SiReturns
  <2>1. CASE ~Die
    <3>1. /\ pc \in {"wait_cont", "wait_si"} /\ pc' = "prompt"
          /\ tstat' = (IF tstat = "stopped" THEN "stopped" ELSE "gone") /\ tstat # "none"
          /\ UNCHANGED <<bp_vec, mem, tprog, sessions, bp_restore, state>>
      BY <1>10, <2>1 DEF ContKilled, CommandOver, SiReturns, Reap, Waitable
    <3> QED
      BY <3>1, <1>t, SameText DEF SyncInv, Synced, Unstarted, Starting, Phases, Living
  <2> QED BY <2>1, <1>0
<1>11. CASE Si
  <2>1. CASE ~Die
    <3>1. /\ pc = "prompt" /\ pc' = "wait_si" /\ tstat = "stopped" /\ tstat' = "stepping"
          /\ state = "RUNNING"
          /\ UNCHANGED <<bp_vec, mem, tprog, sessions, bp_restore, state>>
      BY <1>11, <2>1 DEF Si
    <3> QED
      BY <3>1, <1>t, SameText DEF SyncInv, Synced, Unstarted, Starting, Phases, Living
  <2> QED BY <2>1, <1>0
<1>12. ASSUME NEW a \in BreakAddrs, SetBp(a) PROVE SyncInv'
  <2>1. CASE ~Die
    <3> DEFINE bp == [addr |-> a, orig_patch |-> mem[a]]
    <3>0. /\ a \in Addr /\ mem \in [Addr -> Byte] /\ bp_vec \in Seq(Breakpoint)
          /\ bp \in Breakpoint
      BY <1>12, <2>1, <1>i, SdbAssumption
      DEF SetBp, TypeInv, TypeOK, TraceeTypeOK, Breakpoint
    <3>1. /\ bp_vec' = Append(bp_vec, bp) /\ mem' = [mem EXCEPT ![a] = CC]
          /\ pc = "prompt" /\ pc' = pc /\ state = "RUNNING"
          /\ UNCHANGED <<tstat, tprog, sessions, bp_restore, state>>
      BY <1>12, <2>1 DEF SetBp
    <3>2. bp.addr = a /\ bp.orig_patch = mem[a] /\ a \notin BpAddrs
      BY <1>12 DEF SetBp, NewAddress
    <3> HIDE DEF bp
    <3>3. /\ DOMAIN bp_vec = 1 .. Len(bp_vec) /\ Len(bp_vec) \in Nat
          /\ DOMAIN bp_vec' = 1 .. Len(bp_vec) + 1
          /\ \A i \in DOMAIN bp_vec : bp_vec'[i] = bp_vec[i]
          /\ bp_vec'[Len(bp_vec) + 1] = bp
      BY <3>0, <3>1, AppendProperties, LenProperties
    <3>4. /\ DOMAIN bp_vec \subseteq DOMAIN bp_vec' /\ Len(bp_vec) + 1 \in DOMAIN bp_vec'
          /\ \A i \in DOMAIN bp_vec' : i \in DOMAIN bp_vec \/ i = Len(bp_vec) + 1
      BY <3>3
    <3>5. BpAddrs' = BpAddrs \union {a}
      BY <3>2, <3>3, <3>4 DEF BpAddrs
    <3>6. RestoreListed'
      BY <3>1, <3>3, <3>4 DEF SyncInv, RestoreListed
    <3>7. ASSUME Synced'
          PROVE  /\ \A b \in Addr : mem'[b] = IF Patched(b)' THEN CC ELSE Image[tprog'].text[b]
                 /\ BytesSaved'
      <4>1. Synced
        BY <3>1, <3>7 DEF Synced
      <4>2. mem[a] = Image[tprog].text[a]
        BY <4>1, <3>0, <3>2, SyncedText DEF Patched
      <4>3. \A b \in Addr : Patched(b)' <=> (Patched(b) \/ b = a)
        BY <3>1, <3>5 DEF Patched, Disarmed
      <4>4. \A b \in Addr : mem'[b] = IF b = a THEN CC ELSE mem[b]
        BY <3>0, <3>1
      <4>5. BytesSaved'
        BY <4>1, <4>2, <3>1, <3>2, <3>3, <3>4, SyncedText DEF BytesSaved
      <4> QED
        BY <4>1, <4>3, <4>4, <4>5, <3>1, SyncedText
    <3>8. TextSync'
      BY <3>7, <1>t, TextSyncFrom
    <3> QED
      BY <1>t, <3>1, <3>6, <3>8 DEF SyncInv, Unstarted, Starting, Phases, Living
  <2> QED BY <2>1, <1>0
<1>13. ASSUME NEW i \in DOMAIN bp_vec, DelBp(i) PROVE SyncInv'
  <2>1. CASE ~Die
    <3>0. /\ bp_vec \in Seq(Breakpoint) /\ mem \in [Addr -> Byte]
          /\ i \in 1 .. Len(bp_vec) /\ Len(bp_vec) \in Nat /\ DOMAIN bp_vec = 1 .. Len(bp_vec)
          /\ UniqueBps
      BY LenProperties DEF ArmedInv, TypeInv, TypeOK, TraceeTypeOK
    <3>1. /\ bp_vec' = RemoveAt(bp_vec, i)
          /\ mem' = [mem EXCEPT ![bp_vec[i].addr] = bp_vec[i].orig_patch]
          /\ bp_restore' = RestoreAfter(i)
          /\ pc = "prompt" /\ pc' = pc /\ tstat = "stopped" /\ bp_vec[i].addr \in Addr
          /\ UNCHANGED <<tstat, tprog, sessions, state>>
      BY <1>13, <2>1 DEF DelBp, Unpatched
    <3>2. /\ \A j \in DOMAIN bp_vec' : \E k \in DOMAIN bp_vec : k # i /\ bp_vec'[j] = bp_vec[k]
          /\ \A k \in DOMAIN bp_vec : k # i => \E j \in DOMAIN bp_vec' : bp_vec'[j] = bp_vec[k]
      BY <3>0, <3>1, RemoveAtKeeps
    <3>5. BpAddrs' = BpAddrs \ {bp_vec[i].addr}
      BY <3>0, <3>2 DEF BpAddrs, UniqueBps
    <3>6. RestoreListed'
      <4>1. CASE bp_restore.addr = bp_vec[i].addr
        BY <4>1, <3>1 DEF RestoreAfter, RestoreListed
      <4>2. CASE bp_restore.addr # bp_vec[i].addr
        BY <4>2, <3>1, <3>2 DEF RestoreAfter, SyncInv, RestoreListed
      <4> QED BY <4>1, <4>2
    <3>7. ASSUME Synced'
          PROVE  /\ \A b \in Addr : mem'[b] = IF Patched(b)' THEN CC ELSE Image[tprog'].text[b]
                 /\ BytesSaved'
      <4>1. Synced
        BY <3>1, <3>7 DEF Synced
      <4>2. bp_vec[i].orig_patch = Image[tprog].text[bp_vec[i].addr]
        BY <4>1, SyncedText DEF BytesSaved
      <4>3. \A b \in Addr : Patched(b)' <=> (Patched(b) /\ b # bp_vec[i].addr)
        BY <3>1, <3>5 DEF Patched, Disarmed
      <4>4. \A b \in Addr :
              mem'[b] = IF b = bp_vec[i].addr THEN bp_vec[i].orig_patch ELSE mem[b]
        BY <3>0, <3>1
      <4>5. BytesSaved'
        BY <4>1, <3>1, <3>2, SyncedText DEF BytesSaved
      <4> QED
        BY <4>1, <4>2, <4>3, <4>4, <4>5, <3>1, SyncedText
    <3>8. TextSync'
      BY <3>7, <1>t, TextSyncFrom
    <3>9. sessions # 0
      BY <3>1 DEF SyncInv, Unstarted
    <3> QED
      BY <1>t, <3>1, <3>6, <3>8, <3>9 DEF SyncInv, Unstarted, Starting, Phases, Living
  <2> QED BY <2>1, <1>0
<1>14. ASSUME NEW v \in RipValues, SetRip(v) PROVE SyncInv'
  <2>1. CASE ~Die
    <3>1. /\ pc = "prompt" /\ pc' = pc /\ tstat = "stopped" /\ tstat' = tstat /\ state = "RUNNING"
          /\ UNCHANGED <<bp_vec, mem, tprog, sessions, bp_restore, state>>
      BY <1>14, <2>1 DEF SetRip, sdbVars
    <3> QED
      BY <3>1, <1>t, SameText DEF SyncInv, Synced, Unstarted, Starting, Phases, Living
  <2> QED BY <2>1, <1>0
<1>15. CASE ContFails \/ LoadFails \/ GetRegs \/ Quit \/ DebuggerKilled
  BY <1>15, <1>0 DEF ContFails, LoadFails, GetRegs, Quit, DebuggerKilled
<1> QED
  BY <1>1, <1>2, <1>3, <1>4, <1>5, <1>6, <1>7, <1>8, <1>9, <1>10, <1>11, <1>12, <1>13,
     <1>14, <1>15
  DEF Internal, UserCommand

LEMMA SyncInvariance == Spec => []SyncInv
<1>1. SyncInv /\ ArmedInv /\ ArmedInv' /\ [Next]_vars => SyncInv'
  <2>1. SyncInv /\ ArmedInv' /\ UNCHANGED vars => SyncInv'
    <3> SUFFICES ASSUME SyncInv, ArmedInv', UNCHANGED vars PROVE SyncInv'
      OBVIOUS
    <3>1. TypeInv' /\ UNCHANGED <<traceeVars, sdbVars>>
      BY DEF ArmedInv, vars
    <3>2. Phases' /\ Unstarted' /\ Starting'
      BY <3>1 DEF SyncInv, Phases, Unstarted, Starting, traceeVars, sdbVars, infoVars, Living
    <3> QED
      BY <3>1, <3>2, SameText DEF traceeVars, sdbVars, infoVars, Synced
  <2> QED
    BY <2>1, TraceeSyncInv, SdbSyncInv DEF Next
<1> QED
  BY <1>1, SyncInvInit, ArmedInvariance, PTL DEF Spec

(* In the first session the tracee's text is the program's, patched at the *)
(* listed breakpoints and nowhere else.                                    *)
THEOREM TextInSync == Spec => []TextSync
<1>1. SyncInv => TextSync
  BY DEF SyncInv
<1> QED
  BY <1>1, SyncInvariance, PTL

(* In the first session cont steps over listed breakpoints only.           *)
THEOREM RestoreIsListed == Spec => []RestoreListed
<1>1. SyncInv => RestoreListed
  BY DEF SyncInv
<1> QED
  BY <1>1, SyncInvariance, PTL

(* So the README's list of break points is right until a second start.     *)
THEOREM PatchesListedAtFirst ==
  ASSUME MaxSessions <= 1
  PROVE  Spec => []PatchesAreListed
<1>1. SyncInv => PatchesAreListed
  <2> SUFFICES ASSUME SyncInv, tstat = "stopped", NEW a \in Addr, mem[a] # Image[tprog].text[a]
               PROVE  a \in BpAddrs
    BY DEF PatchesAreListed
  <2>1. sessions \in 0 .. MaxSessions /\ sessions # 0
    BY DEF SyncInv, TypeInv, TypeOK, Unstarted
  <2>2. sessions = 1
    BY <2>1, SdbAssumption
  <2> QED BY <2>2, SyncedText DEF Synced, Patched
<1> QED
  BY <1>1, SyncInvariance, PTL

-----------------------------------------------------------------------------
(* Any session.  The address astray is the one inherited at the fork: that *)
(* of bp_restore, which nothing changes before the exec (Inherited).  Until*)
(* it is forgotten, bp_restore is that one or a listed breakpoint.         *)
Inside == tstat \in {"stopped", "running", "stepping"}

RestoreKnown(s) ==
  bp_restore.addr \in {0, s} \/ \E i \in DOMAIN bp_vec : bp_vec[i] = bp_restore

Stray(s) == SyncedBut(s) /\ RestoreKnown(s)

StepsOver == pc = "wait_step" => bp_restore.addr \in Addr

Inherited == tstat = "execing" => inherited = bp_restore.addr

StrayInv ==
  /\ StepsOver
  /\ bp_restore.addr \in Addr \union {0}
  /\ Inside => Stray(inherited)
  /\ Inherited

(* A step that leaves the list, the patches and what is stepped over.      *)
LEMMA SameStray ==
  ASSUME StrayInv,
         UNCHANGED <<bp_vec, mem, tprog, bp_restore, inherited>>,
         Inside' => Inside,
         tstat' = "execing" => tstat = "execing",
         pc = "wait_step" => pc' = "wait_step" \/ ~Inside',
         pc' = "wait_step" => pc = "wait_step"
  PROVE  StrayInv'
<1>1. StepsOver' /\ bp_restore'.addr \in Addr \union {0}
  BY DEF StrayInv, StepsOver
<1>2. ASSUME Inside' PROVE Stray(inherited)'
  <2>1. Stray(inherited)
    BY <1>2 DEF StrayInv
  <2>2. \A a \in Addr : Patched(a)' = Patched(a)
    BY <1>2 DEF Patched, BpAddrs, Disarmed
  <2> QED
    BY <2>1, <2>2 DEF Stray, SyncedBut, RestoreKnown
<1>3. Inherited'
  BY DEF StrayInv, Inherited
<1> QED
  BY <1>1, <1>2, <1>3 DEF StrayInv

LEMMA DieStray == StrayInv /\ Die /\ inherited' = inherited => StrayInv'
<1> SUFFICES ASSUME StrayInv, Die, inherited' = inherited PROVE StrayInv'
  OBVIOUS
<1>1. /\ pc' = "exit" /\ ~Inside' /\ UNCHANGED <<bp_vec, mem, tprog, bp_restore>>
      /\ tstat' # "execing"
  BY DEF Die, TracerExit, Living, Inside, infoVars
<1> QED
  BY <1>1, SameStray

LEMMA TraceeStray ==
  ASSUME ArmedInv, StrayInv, TraceeNext, UNCHANGED sdbVars, inherited' = inherited
  PROVE  StrayInv'
<1>1. UNCHANGED <<bp_vec, bp_restore, pc>>
  BY DEF sdbVars, infoVars
<1>2. CASE ExecOk
  <2>1. /\ bp_vec = << >> /\ pc = "wait_exec" /\ mem' = Image[tprog'].text
    BY <1>2 DEF ExecOk, ArmedInv, Fresh, TypeInv, PathKnown
  <2>2. tstat' # "execing" /\ inherited' = bp_restore'.addr
    BY <1>1, <1>2 DEF ExecOk, Stop, StrayInv, Inherited
  <2>3. BpAddrs' = {} /\ DOMAIN bp_vec' = {}
    BY <1>1, <2>1 DEF BpAddrs
  <2>4. Stray(inherited)'
    BY <1>1, <2>1, <2>2, <2>3 DEF Stray, SyncedBut, RestoreKnown, Patched
  <2> QED
    BY <1>1, <2>1, <2>2, <2>4 DEF StrayInv, StepsOver, Inherited
<1>3. CASE ~ExecOk
  <2>1. mem' = mem /\ tprog' = tprog /\ (Inside' => Inside) /\ tstat' # "execing"
    BY <1>1, <1>3
    DEF TraceeNext, Run, ExecFails, Kill, Insn, ExitInsn, Trap, Derail, Segfault, Signal,
        StopIfStepping, Stop, Executing, Inside
  <2> QED
    BY <1>1, <2>1, SameStray
<1> QED
  BY <1>2, <1>3

(* A step inside a session: the same address stays astray.                 *)
LEMMA StrayFrom ==
  ASSUME StepsOver', bp_restore'.addr \in Addr \union {0},
         NEW s, s = inherited, inherited' = inherited, tstat' # "execing",
         \A a \in Addr \ {s} : mem'[a] = IF Patched(a)' THEN CC ELSE Image[tprog'].text[a],
         \A i \in DOMAIN bp_vec' :
           bp_vec'[i].addr # s => bp_vec'[i].orig_patch = Image[tprog'].text[bp_vec'[i].addr],
         \/ bp_restore'.addr \in {0, s}
         \/ \E i \in DOMAIN bp_vec' : bp_vec'[i] = bp_restore'
  PROVE  StrayInv'
<1>1. Stray(inherited)'
  BY DEF Stray, SyncedBut, RestoreKnown
<1> QED
  BY <1>1 DEF StrayInv, Inherited

LEMMA StepStray ==
  ASSUME ArmedInv, SyncInv, StrayInv, ContStepsOver \/ StepReturns \/ ContHits, ~Die,
         inherited' = inherited
  PROVE  StrayInv'
<1> USE DEF Stopped, Pokeable, Resume, traceeVars, infoVars
<1>i. mem \in [Addr -> Byte]
  BY DEF ArmedInv, TypeInv, TypeOK, TraceeTypeOK
<1>j. Inside /\ tstat' # "execing"
  BY DEF ContStepsOver, StepReturns, ContHits, Inside
<1>k. PICK s : s = inherited /\ Stray(s)
  BY <1>j DEF StrayInv
<1>l. /\ \A a \in Addr \ {s} : mem[a] = IF Patched(a) THEN CC ELSE Image[tprog].text[a]
      /\ \A i \in DOMAIN bp_vec :
           bp_vec[i].addr # s => bp_vec[i].orig_patch = Image[tprog].text[bp_vec[i].addr]
      /\ bp_restore.addr \in {0, s} \/ \E i \in DOMAIN bp_vec : bp_vec[i] = bp_restore
  BY <1>k DEF Stray, SyncedBut, RestoreKnown
<1>z. \A a \in Addr : a # 0
  BY DEF Addr
<1>1. CASE ContStepsOver
  <2>1. /\ rip \in Addr /\ rip = bp_restore.addr
        /\ mem' = [mem EXCEPT ![rip] = bp_restore.orig_patch]
        /\ pc # "wait_step" /\ pc' = "wait_step"
        /\ UNCHANGED <<tprog, bp_vec, bp_restore>>
    BY <1>1 DEF ContStepsOver, ContCalled, Command
  <2>2. \A a \in Addr : mem'[a] = IF a = rip THEN bp_restore.orig_patch ELSE mem[a]
    BY <2>1, <1>i
  <2>3. \A a \in Addr : Patched(a)' <=> (Patched(a) /\ a # rip)
    BY <2>1 DEF Patched, BpAddrs, Disarmed
  <2>4. rip # s => bp_restore.orig_patch = Image[tprog].text[rip]
    BY <2>1, <1>l, <1>z
  <2>5. \A a \in Addr \ {s} : mem'[a] = IF Patched(a)' THEN CC ELSE Image[tprog'].text[a]
    BY <2>1, <2>2, <2>3, <2>4, <1>l
  <2>6. /\ StepsOver' /\ bp_restore'.addr \in Addr \union {0}
        /\ bp_restore'.addr \in {0, s} \/ \E i \in DOMAIN bp_vec' : bp_vec'[i] = bp_restore'
    BY <2>1, <1>l DEF StepsOver
  <2>7. \A i \in DOMAIN bp_vec' :
          bp_vec'[i].addr # s => bp_vec'[i].orig_patch = Image[tprog'].text[bp_vec'[i].addr]
    BY <2>1, <1>l
  <2> QED
    BY <2>5, <2>6, <2>7, <1>j, <1>k, StrayFrom
<1>2. CASE StepReturns
  <2>1. /\ pc = "wait_step" /\ pc' = "wait_cont" /\ bp_restore.addr \in Addr
        /\ mem' = [mem EXCEPT ![bp_restore.addr] = CC] /\ bp_restore' = NoRestore
        /\ UNCHANGED <<tprog, bp_vec>>
    BY <1>2 DEF StepReturns, Rearmed, StrayInv, StepsOver
  <2>2. \A a \in Addr : mem'[a] = IF a = bp_restore.addr THEN CC ELSE mem[a]
    BY <2>1, <1>i
  <2>3. bp_restore.addr # s => bp_restore.addr \in BpAddrs
    BY <2>1, <1>l, <1>z DEF BpAddrs
  <2>4. \A a \in Addr \ {s} : Patched(a)' <=> (Patched(a) \/ a = bp_restore.addr)
    BY <2>1, <2>3 DEF Patched, BpAddrs, Disarmed
  <2>5. \A a \in Addr \ {s} : mem'[a] = IF Patched(a)' THEN CC ELSE Image[tprog'].text[a]
    BY <2>1, <2>2, <2>4, <1>l
  <2>6. bp_restore'.addr = 0
    BY <2>1 DEF NoRestore
  <2> QED
    BY <2>1, <2>5, <2>6, <1>j, <1>k, <1>l, StrayFrom DEF StepsOver
<1>3. CASE ContHits
  <2>1. /\ pc = "wait_cont" /\ pc' = "prompt"
        /\ UNCHANGED <<mem, tprog, bp_vec>>
    BY <1>3 DEF ContHits
  <2>2. PICK i \in DOMAIN bp_vec : bp_restore' = bp_vec[i]
    BY <1>3 DEF ContHits
  <2>3. bp_restore'.addr \in Addr
    BY <2>2 DEF ArmedInv, BpMapped
  <2>4. \A a \in Addr : Patched(a)' <=> Patched(a)
    BY <2>1 DEF Patched, BpAddrs, Disarmed
  <2> QED
    BY <2>1, <2>2, <2>3, <2>4, <1>j, <1>k, <1>l, StrayFrom DEF StepsOver
<1> QED
  BY <1>1, <1>2, <1>3

LEMMA SetBpStray ==
  ASSUME ArmedInv, StrayInv, NEW b \in BreakAddrs, SetBp(b), ~Die,
         inherited' = inherited
  PROVE  StrayInv'
<1> DEFINE bp == [addr |-> b, orig_patch |-> mem[b]]
<1>0. /\ b \in Addr /\ mem \in [Addr -> Byte] /\ bp_vec \in Seq(Breakpoint)
      /\ bp \in Breakpoint
  BY SdbAssumption DEF SetBp, Pokeable, ArmedInv, TypeInv, TypeOK, TraceeTypeOK, Breakpoint
<1>1. /\ bp_vec' = Append(bp_vec, bp) /\ mem' = [mem EXCEPT ![b] = CC]
      /\ pc = "prompt" /\ pc' = pc /\ tstat = "stopped"
      /\ UNCHANGED <<tstat, tprog, bp_restore>>
  BY DEF SetBp, Command, Pokeable, Stopped
<1>2. bp.addr = b /\ bp.orig_patch = mem[b] /\ b \notin BpAddrs
  BY DEF SetBp, NewAddress
<1> HIDE DEF bp
<1>3. /\ DOMAIN bp_vec = 1 .. Len(bp_vec) /\ Len(bp_vec) \in Nat
      /\ DOMAIN bp_vec' = 1 .. Len(bp_vec) + 1
      /\ \A i \in DOMAIN bp_vec : bp_vec'[i] = bp_vec[i]
      /\ bp_vec'[Len(bp_vec) + 1] = bp
  BY <1>0, <1>1, AppendProperties, LenProperties
<1>4. /\ DOMAIN bp_vec \subseteq DOMAIN bp_vec' /\ Len(bp_vec) + 1 \in DOMAIN bp_vec'
      /\ \A i \in DOMAIN bp_vec' : i \in DOMAIN bp_vec \/ i = Len(bp_vec) + 1
  BY <1>3
<1>5. BpAddrs' = BpAddrs \union {b}
  BY <1>2, <1>3, <1>4 DEF BpAddrs
<1>6. PICK s : s = inherited /\ Stray(s)
  BY <1>1 DEF StrayInv, Inside
<1>7. /\ \A a \in Addr \ {s} : mem[a] = IF Patched(a) THEN CC ELSE Image[tprog].text[a]
      /\ \A i \in DOMAIN bp_vec :
           bp_vec[i].addr # s => bp_vec[i].orig_patch = Image[tprog].text[bp_vec[i].addr]
      /\ bp_restore.addr \in {0, s} \/ \E i \in DOMAIN bp_vec : bp_vec[i] = bp_restore
  BY <1>6 DEF Stray, SyncedBut, RestoreKnown
<1>8. b # s => mem[b] = Image[tprog].text[b]
  BY <1>0, <1>2, <1>7 DEF Patched
<1>9. \A a \in Addr : Patched(a)' <=> (Patched(a) \/ a = b)
  BY <1>1, <1>5 DEF Patched, Disarmed
<1>10. \A a \in Addr : mem'[a] = IF a = b THEN CC ELSE mem[a]
  BY <1>0, <1>1
<1>11. \A a \in Addr \ {s} : mem'[a] = IF Patched(a)' THEN CC ELSE Image[tprog'].text[a]
  BY <1>1, <1>7, <1>9, <1>10
<1>12. \A i \in DOMAIN bp_vec' :
         bp_vec'[i].addr # s => bp_vec'[i].orig_patch = Image[tprog'].text[bp_vec'[i].addr]
  BY <1>1, <1>2, <1>3, <1>4, <1>7, <1>8
<1>13. bp_restore'.addr \in {0, s} \/ \E i \in DOMAIN bp_vec' : bp_vec'[i] = bp_restore'
  BY <1>1, <1>3, <1>4, <1>7
<1>14. StepsOver' /\ bp_restore'.addr \in Addr \union {0}
  BY <1>1 DEF StrayInv, StepsOver
<1> QED
  BY <1>1, <1>6, <1>11, <1>12, <1>13, <1>14, StrayFrom

LEMMA DelBpStray ==
  ASSUME ArmedInv, StrayInv, NEW i \in DOMAIN bp_vec, DelBp(i), ~Die,
         inherited' = inherited
  PROVE  StrayInv'
<1>0. /\ bp_vec \in Seq(Breakpoint) /\ mem \in [Addr -> Byte]
      /\ i \in 1 .. Len(bp_vec) /\ Len(bp_vec) \in Nat /\ DOMAIN bp_vec = 1 .. Len(bp_vec)
      /\ UniqueBps
  BY LenProperties DEF ArmedInv, TypeInv, TypeOK, TraceeTypeOK
<1>1. /\ bp_vec' = RemoveAt(bp_vec, i)
      /\ mem' = [mem EXCEPT ![bp_vec[i].addr] = bp_vec[i].orig_patch]
      /\ bp_restore' = RestoreAfter(i)
      /\ pc = "prompt" /\ pc' = pc /\ tstat = "stopped" /\ bp_vec[i].addr \in Addr
      /\ UNCHANGED <<tstat, tprog>>
  BY DEF DelBp, Unpatched, Command, Pokeable, Stopped
<1>2. /\ \A j \in DOMAIN bp_vec' : \E k \in DOMAIN bp_vec : k # i /\ bp_vec'[j] = bp_vec[k]
      /\ \A k \in DOMAIN bp_vec : k # i => \E j \in DOMAIN bp_vec' : bp_vec'[j] = bp_vec[k]
  BY <1>0, <1>1, RemoveAtKeeps
<1>3. BpAddrs' = BpAddrs \ {bp_vec[i].addr}
  BY <1>0, <1>2 DEF BpAddrs, UniqueBps
<1>4. PICK s : s = inherited /\ Stray(s)
  BY <1>1 DEF StrayInv, Inside
<1>5. /\ \A a \in Addr \ {s} : mem[a] = IF Patched(a) THEN CC ELSE Image[tprog].text[a]
      /\ \A j \in DOMAIN bp_vec :
           bp_vec[j].addr # s => bp_vec[j].orig_patch = Image[tprog].text[bp_vec[j].addr]
      /\ bp_restore.addr \in {0, s} \/ \E j \in DOMAIN bp_vec : bp_vec[j] = bp_restore
  BY <1>4 DEF Stray, SyncedBut, RestoreKnown
<1>6. \A a \in Addr : Patched(a)' <=> (Patched(a) /\ a # bp_vec[i].addr)
  BY <1>1, <1>3 DEF Patched, Disarmed
<1>7. \A a \in Addr : mem'[a] = IF a = bp_vec[i].addr THEN bp_vec[i].orig_patch ELSE mem[a]
  BY <1>0, <1>1
<1>8. \A a \in Addr \ {s} : mem'[a] = IF Patched(a)' THEN CC ELSE Image[tprog'].text[a]
  BY <1>1, <1>5, <1>6, <1>7
<1>9. \A j \in DOMAIN bp_vec' :
        bp_vec'[j].addr # s => bp_vec'[j].orig_patch = Image[tprog'].text[bp_vec'[j].addr]
  BY <1>1, <1>2, <1>5
<1>10. CASE bp_restore.addr = bp_vec[i].addr
  <2>1. bp_restore'.addr = 0
    BY <1>1, <1>10 DEF RestoreAfter, NoRestore
  <2> QED
    BY <2>1, <1>1, <1>4, <1>8, <1>9, StrayFrom DEF StepsOver
<1>11. CASE bp_restore.addr # bp_vec[i].addr
  <2>1. bp_restore' = bp_restore
    BY <1>1, <1>11 DEF RestoreAfter
  <2>2. bp_restore'.addr \in {0, s} \/ \E j \in DOMAIN bp_vec' : bp_vec'[j] = bp_restore'
    BY <2>1, <1>2, <1>5, <1>11
  <2>3. StepsOver' /\ bp_restore'.addr \in Addr \union {0}
    BY <2>1, <1>1 DEF StrayInv, StepsOver
  <2> QED
    BY <2>2, <2>3, <1>1, <1>4, <1>8, <1>9, StrayFrom
<1> QED
  BY <1>10, <1>11

LEMMA SdbStray ==
  ASSUME ArmedInv, SyncInv, StrayInv, Internal \/ UserCommand \/ DebuggerKilled, Remember
  PROVE  StrayInv'
<1>0. CASE Die
  <2>1. inherited' = inherited
    BY <1>0 DEF Die, Remember, Forks
  <2> QED
    BY <1>0, <2>1, DieStray
<1> SUFFICES ASSUME ~Die PROVE StrayInv'
  BY <1>0
<1> USE DEF Command, Stopped, Pokeable, Resume, traceeVars, infoVars
<1>1. ASSUME NEW p \in Programs, Load(p) PROVE StrayInv'
  <2>1. ~Living /\ pc' = "prompt" /\ UNCHANGED <<tstat, bp_restore>>
    BY <1>1 DEF Load, SyncInv, Phases
  <2> QED
    BY <2>1 DEF StrayInv, StepsOver, Inside, Inherited, Living
<1>2. ASSUME NEW c \in {"start", "run"}, Start(c) PROVE StrayInv'
  <2>1. pc' = "wait_exec" /\ tstat' = "execing" /\ bp_restore' = bp_restore
    BY <1>2 DEF Start, Fork
  <2>2. sessions' = sessions + 1 /\ sessions \in Int
    BY <1>2 DEF Start, ArmedInv, TypeInv, TypeOK
  <2>3. inherited' = bp_restore'.addr
    BY <2>1, <2>2 DEF Remember, Forks
  <2> QED
    BY <2>1, <2>3 DEF StrayInv, StepsOver, Inside, Inherited
<1>k. ASSUME sessions' = sessions PROVE inherited' = inherited
  BY <1>k DEF Remember, Forks
<1>3. CASE StartReturns \/ Sweep \/ SweepDone \/ ContStops \/ ContResumes \/ Si \/ SiReturns \/ ContKilled
  <2>1. UNCHANGED <<bp_vec, mem, tprog, bp_restore>>
    BY <1>3 DEF StartReturns, Sweep, SweepDone, ContStops, ContResumes, Si, SiReturns, ContKilled, Reap
  <2>2. pc # "wait_step" /\ pc' # "wait_step"
    BY <1>3 DEF StartReturns, Sweep, SweepDone, ContStops, ContResumes, ContCalled, Si, SiReturns,
                ContKilled, CommandOver
  <2>3. (Inside' => Inside) /\ (tstat' = "execing" => tstat = "execing")
    BY <1>3 DEF StartReturns, Sweep, SweepDone, ContStops, ContResumes, Si, SiReturns, ContKilled,
                Reap, Inside
  <2>4. inherited' = inherited
    BY <1>3, <1>k DEF StartReturns, Sweep, SweepDone, ContStops, ContResumes, Si, SiReturns, ContKilled
  <2> QED
    BY <2>1, <2>2, <2>3, <2>4, SameStray
<1>4. CASE ContStepsOver \/ StepReturns \/ ContHits
  <2>1. inherited' = inherited
    BY <1>4, <1>k DEF ContStepsOver, StepReturns, ContHits
  <2> QED
    BY <1>4, <2>1, StepStray
<1>5. CASE ContExits
  <2>1. pc' = "prompt" /\ tstat' = "gone" /\ bp_restore' = bp_restore
    BY <1>5 DEF ContExits, Reap
  <2> QED
    BY <2>1 DEF StrayInv, StepsOver, Inside, Inherited
<1>6. ASSUME NEW a \in BreakAddrs, SetBp(a) PROVE StrayInv'
  <2>1. inherited' = inherited
    BY <1>6, <1>k DEF SetBp
  <2> QED
    BY <1>6, <2>1, SetBpStray
<1>7. ASSUME NEW i \in DOMAIN bp_vec, DelBp(i) PROVE StrayInv'
  <2>1. inherited' = inherited
    BY <1>7, <1>k DEF DelBp
  <2> QED
    BY <1>7, <2>1, DelBpStray
<1>8. ASSUME NEW v \in RipValues, SetRip(v) PROVE StrayInv'
  <2>1. UNCHANGED <<bp_vec, mem, tprog, bp_restore, tstat, pc, inherited>>
    BY <1>8, <1>k DEF SetRip, sdbVars
  <2> QED
    BY <2>1, SameStray DEF Inside
<1>9. CASE ContFails \/ LoadFails \/ GetRegs \/ Quit \/ DebuggerKilled
  BY <1>9 DEF ContFails, LoadFails, GetRegs, Quit, DebuggerKilled
<1> QED
  BY <1>1, <1>2, <1>3, <1>4, <1>5, <1>6, <1>7, <1>8, <1>9 DEF Internal, UserCommand

(* The history restricts no step and adds no initial state.                *)
LEMMA HistoryIsSpec == HSpec => Spec
<1>1. HInit => Init
  BY DEF HInit
<1>2. [HNext]_hvars => [Next]_vars
  BY DEF HNext, hvars
<1> QED
  BY <1>1, <1>2, PTL DEF HSpec, Spec

LEMMA StrayInvariance == HSpec => []StrayInv
<1>1. HInit => StrayInv
  BY DEF HInit, Init, TraceeInit, StrayInv, StepsOver, NoRestore, Inside, Inherited
<1>2. StrayInv /\ UNCHANGED hvars => StrayInv'
  BY SameStray DEF hvars, vars, traceeVars, sdbVars, infoVars, Inside
<1>3. ASSUME TraceeNext, UNCHANGED sdbVars, Remember PROVE inherited' = inherited
  BY <1>3 DEF sdbVars, Remember, Forks
<1>4. ArmedInv /\ SyncInv /\ StrayInv /\ [HNext]_hvars => StrayInv'
  BY <1>2, <1>3, TraceeStray, SdbStray DEF HNext, Next
<1> QED
  BY <1>1, <1>4, HistoryIsSpec, ArmedInvariance, SyncInvariance, PTL DEF HSpec

(* However many processes are started, the breakpoint that a process leaves*)
(* in bp_restore disturbs its own address in the next process, for as long *)
(* as that lives, and no other.                                            *)
THEOREM AtMostOneStray == HSpec => []OneStray
<1>1. StrayInv => OneStray
  BY DEF StrayInv, Stray, OneStray, Inside
<1> QED
  BY <1>1, StrayInvariance, PTL

-----------------------------------------------------------------------------
(* No wait is made in vain: WaitsAnswered is inductive.  A step of the     *)
(* kernel never takes a child back from the state its wait expects, and    *)
(* the waitpid that reaps a child is the last before the prompt.           *)
LEMMA TraceeAnswers ==
  ASSUME WaitsAnswered, TraceeNext, pc' = pc
  PROVE  WaitsAnswered'
<1> USE DEF WaitsAnswered, Waitable
<1>1. CASE ExecOk \/ ExecFails \/ Kill
  BY <1>1 DEF ExecOk, ExecFails, Kill, Stop, Living
<1>2. CASE Run
  BY <1>2 DEF Run, Insn, ExitInsn, Trap, Derail, Segfault, StopIfStepping, Stop, Executing
<1>3. CASE Signal
  BY <1>3 DEF Signal, Stop, Executing
<1> QED
  BY <1>1, <1>2, <1>3 DEF TraceeNext

LEMMA SdbAnswers ==
  ASSUME WaitsAnswered, Internal \/ UserCommand \/ DebuggerKilled
  PROVE  WaitsAnswered'
<1> USE DEF WaitsAnswered, Waitable, Command
<1>0. CASE Die
  BY <1>0 DEF Die
<1> SUFFICES ASSUME ~Die PROVE WaitsAnswered'
  BY <1>0
<1>1. CASE \/ \E p \in Programs : Load(p)
           \/ \E a \in BreakAddrs : SetBp(a)
           \/ \E i \in DOMAIN bp_vec : DelBp(i)
           \/ \E v \in RipValues : SetRip(v)
  <2>1. pc' = "prompt"
    BY <1>1 DEF Load, SetBp, DelBp, SetRip, sdbVars
  <2> QED BY <2>1
<1>2. CASE \E c \in {"start", "run"} : Start(c)
  BY <1>2 DEF Start, Fork
<1>3. CASE StartReturns \/ Sweep \/ SweepDone
  <2>1. pc' \in {"sweep", "cont", "prompt"}
    BY <1>3 DEF StartReturns, Sweep, SweepDone
  <2> QED BY <2>1
<1>4. CASE ContHits \/ ContStops \/ ContExits \/ ContKilled \/ SiReturns
  <2>1. pc' = "prompt"
    BY <1>4 DEF ContHits, ContStops, ContExits, ContKilled, CommandOver, SiReturns
  <2> QED BY <2>1
<1>5. CASE ContStepsOver \/ ContResumes \/ StepReturns \/ Si
  BY <1>5 DEF ContStepsOver, ContResumes, StepReturns, Si, Resume
<1>6. CASE ContFails \/ LoadFails \/ GetRegs \/ Quit \/ DebuggerKilled
  BY <1>6 DEF ContFails, LoadFails, GetRegs, Quit, DebuggerKilled
<1> QED
  BY <1>1, <1>2, <1>3, <1>4, <1>5, <1>6 DEF Internal, UserCommand

(* Whatever happened to the tracee before, the debugger waits only for a   *)
(* child that has stopped or ended or is about to.                         *)
THEOREM EveryWaitIsAnswered == Spec => []WaitsAnswered
<1>1. Init => WaitsAnswered
  BY DEF Init, WaitsAnswered
<1>2. WaitsAnswered /\ UNCHANGED vars => WaitsAnswered'
  BY DEF vars, traceeVars, sdbVars, WaitsAnswered, Waitable
<1>3. WaitsAnswered /\ [Next]_vars => WaitsAnswered'
  BY <1>2, TraceeAnswers, SdbAnswers DEF Next, sdbVars
<1> QED
  BY <1>1, <1>3, PTL DEF Spec

-----------------------------------------------------------------------------
(* What the next cont would step over was reported, or inherited; only the *)
(* single step itself uses the report up.                                  *)
RestoreReported ==
  (state = "RUNNING" \/ pc = "wait_exec") /\ pc # "exit" =>
    \/ bp_restore.addr \in {0} \union reported
    \/ pc = "wait_step" /\ tstat # "stepping"

(* The tracee passes a listed breakpoint only in the single step of cont.  *)
LEMMA PassIsStepOver ==
  ASSUME ArmedInv, SyncInv, WaitsAnswered, RestoreReported, Passes
  PROVE  /\ rip = bp_restore.addr /\ rip \in reported
         /\ pc = "wait_step" /\ tstat = "stepping"
<1>1. Living /\ Executing /\ rip \in Addr /\ mem[rip] # CC
  BY DEF Passes, Insn, ExitInsn, Derail, Executing, Living
<1>2. PICK i \in DOMAIN bp_vec : bp_vec[i].addr = rip
  BY DEF Passes, BpAddrs
<1>3. pc = "wait_step" /\ rip = bp_restore.addr
  BY <1>1, <1>2 DEF ArmedInv, Armed, Disarmed
<1>4. tstat = "stepping" /\ state = "RUNNING"
  BY <1>1, <1>3 DEF WaitsAnswered, Waitable, Executing, SyncInv, Phases
<1>5. rip # 0
  BY <1>1 DEF Addr
<1> QED
  BY <1>3, <1>4, <1>5 DEF RestoreReported

(* A step that passes nothing and unlists nothing.                         *)
LEMMA SameReports ==
  ASSUME Remember, ~Passes, ~Forks, BpAddrs \subseteq BpAddrs'
  PROVE  reported \subseteq reported'
<1> QED
  BY DEF Remember

LEMMA TraceeReported ==
  ASSUME ArmedInv, SyncInv, WaitsAnswered, RestoreReported, TraceeNext, UNCHANGED sdbVars, Remember
  PROVE  RestoreReported'
<1>1. UNCHANGED <<state, pc, bp_restore, bp_vec, sessions>>
  BY DEF sdbVars, infoVars
<1>2. CASE Passes
  <2>1. pc = "wait_step" /\ tstat = "stepping"
    BY <1>2, PassIsStepOver
  <2>2. tstat' # "stepping"
    BY <1>2, <2>1 DEF Passes, Insn, ExitInsn, Derail, StopIfStepping, Stop
  <2> QED
    BY <1>1, <2>1, <2>2 DEF RestoreReported
<1>3. CASE ~Passes
  <2>1. reported \subseteq reported'
    BY <1>1, <1>3, SameReports DEF Forks, BpAddrs
  <2>2. pc = "wait_step" /\ tstat # "stepping" => tstat' # "stepping"
    BY DEF TraceeNext, ExecOk, ExecFails, Run, Signal, Kill, Insn, ExitInsn, Trap, Derail, Segfault,
           StopIfStepping, Stop, Executing
  <2> QED
    BY <1>1, <2>1, <2>2 DEF RestoreReported
<1> QED
  BY <1>2, <1>3

(* A command or a return from a wait, but of the single step's, that       *)
(* unlists nothing.                                                        *)
LEMMA SameRestore ==
  ASSUME ArmedInv, SyncInv, WaitsAnswered, RestoreReported, Remember,
         pc # "wait_step", UNCHANGED <<bp_restore, sessions>>, BpAddrs \subseteq BpAddrs',
         state' = "RUNNING" => state = "RUNNING" \/ pc = "wait_exec",
         pc' # "wait_exec", pc # "exit"
  PROVE  RestoreReported'
<1>1. ~Passes /\ ~Forks
  BY PassIsStepOver DEF Forks
<1>2. reported \subseteq reported'
  BY <1>1, SameReports
<1> QED
  BY <1>2 DEF RestoreReported

LEMMA DelBpReported ==
  ASSUME ArmedInv, SyncInv, WaitsAnswered, RestoreReported, Remember,
         NEW i \in DOMAIN bp_vec, DelBp(i), ~Die
  PROVE  RestoreReported'
<1>0. /\ bp_vec \in Seq(Breakpoint) /\ i \in 1 .. Len(bp_vec)
      /\ DOMAIN bp_vec = 1 .. Len(bp_vec)
  BY LenProperties DEF ArmedInv, TypeInv, TypeOK
<1>1. /\ bp_vec' = RemoveAt(bp_vec, i) /\ bp_restore' = RestoreAfter(i)
      /\ pc = "prompt" /\ UNCHANGED <<pc, state, sessions>>
  BY DEF DelBp, Command
<1>2. \A a \in BpAddrs : a \in BpAddrs' \/ a = bp_vec[i].addr
  <2>1. \A k \in DOMAIN bp_vec : k # i => \E j \in DOMAIN bp_vec' : bp_vec'[j] = bp_vec[k]
    BY <1>0, <1>1, RemoveAtKeeps
  <2> QED
    BY <2>1 DEF BpAddrs
<1>3. CASE bp_restore.addr = bp_vec[i].addr
  BY <1>1, <1>3 DEF RestoreAfter, NoRestore, RestoreReported
<1>4. CASE bp_restore.addr # bp_vec[i].addr
  <2>1. bp_restore' = bp_restore
    BY <1>1, <1>4 DEF RestoreAfter
  <2>2. ~Passes /\ ~Forks
    BY <1>1, PassIsStepOver DEF Forks
  <2>3. bp_restore.addr \in reported => bp_restore.addr \in reported'
    BY <1>2, <1>4, <2>2 DEF Remember
  <2> QED
    BY <1>1, <2>1, <2>3 DEF RestoreReported
<1> QED
  BY <1>3, <1>4

LEMMA SdbReported ==
  ASSUME ArmedInv, SyncInv, WaitsAnswered, RestoreReported, Remember,
         Internal \/ UserCommand \/ DebuggerKilled
  PROVE  RestoreReported'
<1>0. CASE Die
  BY <1>0 DEF Die, RestoreReported
<1> SUFFICES ASSUME ~Die PROVE RestoreReported'
  BY <1>0
<1> USE DEF Command, infoVars
<1>1. ASSUME NEW p \in Programs, Load(p) PROVE RestoreReported'
  BY <1>1 DEF Load, RestoreReported
<1>2. ASSUME NEW c \in {"start", "run"}, Start(c) PROVE RestoreReported'
  <2>1. sessions' = sessions + 1 /\ sessions \in Int /\ UNCHANGED <<bp_vec, bp_restore>>
    BY <1>2 DEF Start, ArmedInv, TypeInv, TypeOK
  <2>2. bp_restore'.addr \in reported'
    BY <2>1 DEF Remember, Forks, BpAddrs
  <2> QED
    BY <2>2 DEF RestoreReported
<1>3. CASE StartReturns \/ Sweep \/ SweepDone \/ ContStops \/ ContResumes \/ ContStepsOver \/ Si
            \/ SiReturns \/ ContKilled
  <2>1. UNCHANGED <<bp_vec, bp_restore, sessions>> /\ (UNCHANGED state \/ pc = "wait_exec")
    BY <1>3 DEF StartReturns, Sweep, SweepDone, ContStops, ContResumes, ContStepsOver, Si,
                SiReturns, ContKilled
  <2>2. pc \notin {"wait_step", "exit"} /\ pc' # "wait_exec"
    BY <1>3 DEF StartReturns, Sweep, SweepDone, ContStops, ContResumes, ContCalled, ContStepsOver, Si,
                SiReturns, ContKilled, CommandOver
  <2> QED
    BY <2>1, <2>2, SameRestore DEF BpAddrs
<1>4. CASE StepReturns
  BY <1>4 DEF StepReturns, NoRestore, RestoreReported
<1>5. CASE ContHits
  <2>1. PICK i \in DOMAIN bp_vec : HitAt(i) /\ bp_restore' = bp_vec[i]
    BY <1>5 DEF ContHits
  <2>2. bp_vec' = bp_vec /\ bp_restore'.addr = rip'
    BY <1>5, <2>1 DEF ContHits, HitAt, Rewound
  <2>3. rip' \in reported'
    BY <1>5, <2>2 DEF Remember, BpAddrs
  <2> QED
    BY <2>2, <2>3 DEF RestoreReported
<1>6. CASE ContExits
  BY <1>6 DEF ContExits, RestoreReported
<1>7. ASSUME NEW a \in BreakAddrs, SetBp(a) PROVE RestoreReported'
  <2> DEFINE bp == [addr |-> a, orig_patch |-> mem[a]]
  <2>1. /\ UNCHANGED <<pc, state, bp_restore, sessions>> /\ pc = "prompt"
        /\ bp_vec' = Append(bp_vec, bp)
    BY <1>7 DEF SetBp
  <2>2. bp_vec \in Seq(Breakpoint) /\ bp \in Breakpoint
    BY <1>7, SdbAssumption DEF SetBp, Pokeable, ArmedInv, TypeInv, TypeOK, TraceeTypeOK, Breakpoint
  <2> HIDE DEF bp
  <2>3. \A i \in DOMAIN bp_vec : i \in DOMAIN bp_vec' /\ bp_vec'[i] = bp_vec[i]
    BY <2>1, <2>2, AppendProperties, LenProperties
  <2>4. BpAddrs \subseteq BpAddrs'
    BY <2>3 DEF BpAddrs
  <2> QED
    BY <2>1, <2>4, SameRestore
<1>8. ASSUME NEW i \in DOMAIN bp_vec, DelBp(i) PROVE RestoreReported'
  BY <1>8, DelBpReported
<1>9. ASSUME NEW v \in RipValues, SetRip(v) PROVE RestoreReported'
  <2>1. UNCHANGED <<bp_vec, bp_restore, sessions, state, pc>> /\ pc = "prompt"
    BY <1>9 DEF SetRip, sdbVars
  <2> QED
    BY <2>1, SameRestore DEF BpAddrs
<1>10. CASE ContFails \/ LoadFails \/ GetRegs \/ Quit \/ DebuggerKilled
  BY <1>10 DEF ContFails, LoadFails, GetRegs, Quit, DebuggerKilled
<1> QED
  BY <1>1, <1>2, <1>3, <1>4, <1>5, <1>6, <1>7, <1>8, <1>9, <1>10 DEF Internal, UserCommand

LEMMA ReportedInvariance == HSpec => []RestoreReported
<1>1. HInit => RestoreReported
  BY DEF HInit, Init, RestoreReported
<1>2. RestoreReported /\ UNCHANGED hvars => RestoreReported'
  BY DEF hvars, vars, traceeVars, sdbVars, infoVars, RestoreReported
<1>3. ArmedInv /\ SyncInv /\ WaitsAnswered /\ RestoreReported /\ [HNext]_hvars => RestoreReported'
  BY <1>2, TraceeReported, SdbReported DEF HNext, Next
<1> QED
  BY <1>1, <1>3, HistoryIsSpec, ArmedInvariance, SyncInvariance, EveryWaitIsAnswered, PTL DEF HSpec

(* Whatever the commands and the faults, in every process: no instruction  *)
(* at a listed breakpoint runs but once after each hit that cont reported, *)
(* or once for the breakpoint inherited from the process before.           *)
THEOREM PassesAreReported == HSpec => PassesReported
<1>1. ArmedInv /\ SyncInv /\ WaitsAnswered /\ RestoreReported => [Passes => rip \in reported]_hvars
  BY PassIsStepOver
<1> QED
  BY <1>1, HistoryIsSpec, ArmedInvariance, SyncInvariance, EveryWaitIsAnswered, ReportedInvariance, PTL
  DEF PassesReported

-----------------------------------------------------------------------------
(* Commands advance.  Only the sweep needs more than its stage: it runs    *)
(* over a program that is known, whose instructions have a length.  A      *)
(* child that runs is waited for by cont alone.                            *)
Sweeping == pc = "sweep" => path \in Programs

Held == pc \in {"sweep", "cont"} => ~Executing

SweptInv == TypeInv /\ WaitsAnswered /\ Sweeping /\ Held

LEMMA SweepingKept ==
  ASSUME SweptInv, [Next]_vars
  PROVE  Sweeping'
<1> SUFFICES ASSUME pc' = "sweep" PROVE path' \in Programs
  BY DEF Sweeping
<1>1. CASE pc = "sweep" /\ path' = path
  BY <1>1 DEF SweptInv, Sweeping
<1>2. CASE StartReturns
  BY <1>2 DEF StartReturns, SweptInv, TypeInv, PathKnown, Die
<1>3. CASE Sweep
  BY <1>3, <1>1 DEF Sweep, infoVars
<1>4. CASE \/ SweepDone \/ ContStepsOver \/ ContResumes \/ ContFails \/ StepReturns
           \/ ContHits \/ ContStops \/ ContExits \/ ContKilled \/ SiReturns
  <2>1. pc' # "sweep"
    BY <1>4 DEF SweepDone, ContStepsOver, ContResumes, ContFails, StepReturns, ContHits,
                ContStops, ContExits, ContKilled, CommandOver, SiReturns, Die
  <2> QED BY <2>1
<1>5. CASE UserCommand
  <2>1. CASE ContStepsOver \/ ContResumes \/ ContFails
    BY <2>1, <1>4
  <2>2. CASE pc = "prompt" /\ pc' \in {"prompt", "wait_exec", "wait_si", "exit"}
    BY <2>2
  <2> QED
    BY <1>5, <2>1, <2>2 DEF UserCommand, Command, Load, LoadFails, Start, Si, SetBp, DelBp,
                            SetRip, GetRegs, Quit, Die, sdbVars
<1>6. CASE DebuggerKilled
  BY <1>6 DEF DebuggerKilled, Die
<1>7. CASE UNCHANGED sdbVars
  BY <1>7, <1>1 DEF sdbVars
<1> QED
  BY <1>2, <1>3, <1>4, <1>5, <1>6, <1>7 DEF Next, Internal, vars

(* The sweep and cont begin with a child that is stopped or dead, and only *)
(* the debugger lets it go.                                                *)
LEMMA HeldKept ==
  ASSUME SweptInv, [Next]_vars
  PROVE  Held'
<1> SUFFICES ASSUME pc' \in {"sweep", "cont"} PROVE ~Executing'
  BY DEF Held
<1>1. CASE pc \in {"sweep", "cont"} /\ tstat' = tstat
  BY <1>1 DEF SweptInv, Held, Executing
<1>2. CASE StartReturns
  BY <1>2 DEF StartReturns, Die, Stopped, Executing
<1>3. CASE Sweep \/ SweepDone
  BY <1>3, <1>1 DEF Sweep, SweepDone, traceeVars
<1>4. CASE \/ ContStepsOver \/ ContResumes \/ ContFails \/ StepReturns
           \/ ContHits \/ ContStops \/ ContExits \/ ContKilled \/ SiReturns
  <2>1. pc' \notin {"sweep", "cont"}
    BY <1>4 DEF ContStepsOver, ContResumes, ContFails, StepReturns, ContHits,
                ContStops, ContExits, ContKilled, CommandOver, SiReturns, Die
  <2> QED BY <2>1
<1>5. CASE UserCommand
  <2>1. CASE ContStepsOver \/ ContResumes \/ ContFails
    BY <2>1, <1>4
  <2>2. CASE pc = "prompt" /\ pc' \in {"prompt", "wait_exec", "wait_si", "exit"}
    BY <2>2
  <2> QED
    BY <1>5, <2>1, <2>2 DEF UserCommand, Command, Load, LoadFails, Start, Si, SetBp, DelBp,
                            SetRip, GetRegs, Quit, Die, sdbVars
<1>6. CASE DebuggerKilled
  BY <1>6 DEF DebuggerKilled, Die
<1>7. CASE TraceeNext /\ UNCHANGED sdbVars
  <2>1. ~Executing
    BY <1>7 DEF SweptInv, Held, sdbVars
  <2>2. ExecOk \/ ExecFails \/ Kill
    BY <1>7, <2>1 DEF TraceeNext, Run, Insn, ExitInsn, Trap, Derail, Segfault, Signal
  <2> QED
    BY <2>2 DEF ExecOk, ExecFails, Kill, Stop, Executing
<1>8. CASE UNCHANGED vars
  BY <1>8, <1>1 DEF vars, traceeVars, sdbVars
<1> QED
  BY <1>2, <1>3, <1>4, <1>5, <1>6, <1>7, <1>8 DEF Next, Internal

LEMMA SweptInvariance == Spec => []SweptInv
<1>1. Init => Sweeping /\ Held
  BY DEF Init, Sweeping, Held
<1>2. SweptInv /\ [Next]_vars => Sweeping' /\ Held'
  BY SweepingKept, HeldKept
<1> QED
  BY <1>1, <1>2, TypeInvariance, EveryWaitIsAnswered, PTL DEF Spec, SweptInv

LEMMA StagesAreNaturals ==
  ASSUME NEW p \in Point
  PROVE  Stage[p] \in Nat
BY DEF Point, Stage

LEMMA AheadIsNatural ==
  ASSUME SweptInv
  PROVE  /\ Stage[pc] \in Nat /\ Unswept \in Nat /\ ChildAhead \in 0 .. 2
         /\ Ahead \in [1 .. 3 -> Nat]
<1>1. Stage[pc] \in Nat
  BY StagesAreNaturals DEF SweptInv, TypeInv, TypeOK
<1>2. Unswept \in Nat
  <2>1. CASE pc = "sweep" /\ addr < SweepEnd
    <3>1. SweepEnd \in Nat /\ addr \in Nat
      <4>1. path \in Programs /\ addr \in Nat
        BY <2>1 DEF SweptInv, Sweeping, TypeInv, TypeOK
      <4> QED BY <4>1, TraceeAssumption DEF ImageAssumption, SweepEnd, Addr
    <3> QED BY <2>1, <3>1 DEF Unswept
  <2> QED BY <2>1 DEF Unswept
<1>3. ChildAhead \in 0 .. 2
  BY DEF ChildAhead
<1> QED
  BY <1>1, <1>2, <1>3 DEF Ahead

(* What lowers the tuple: the stage, or the sweep, or the child.           *)
LEMMA NearerStage ==
  ASSUME Stage[pc'] < Stage[pc]
  PROVE  Nearer(Ahead', Ahead)
<1>1. Ahead'[1] < Ahead[1] /\ 1 \in DOMAIN Ahead'
  BY DEF Ahead
<1>2. \A m \in 1 .. 1 - 1 : Ahead'[m] = Ahead[m]
  OBVIOUS
<1> QED BY <1>1, <1>2 DEF Nearer

LEMMA NearerSweep ==
  ASSUME pc' = pc, Unswept' < Unswept
  PROVE  Nearer(Ahead', Ahead)
<1>1. Ahead'[2] < Ahead[2] /\ 2 \in DOMAIN Ahead'
  BY DEF Ahead
<1>2. \A m \in 1 .. 2 - 1 : Ahead'[m] = Ahead[m]
  BY DEF Ahead
<1> QED BY <1>1, <1>2 DEF Nearer

LEMMA NearerChild ==
  ASSUME UNCHANGED sdbVars, ChildAhead' < ChildAhead
  PROVE  Nearer(Ahead', Ahead)
<1>1. Ahead'[3] < Ahead[3] /\ 3 \in DOMAIN Ahead'
  BY DEF Ahead
<1>2. \A m \in 1 .. 3 - 1 : Ahead'[m] = Ahead[m]
  BY DEF Ahead, sdbVars, Unswept, SweepEnd
<1> QED BY <1>1, <1>2 DEF Nearer

(* A step of the kernel stops or ends the child, but an instruction of one *)
(* that runs, which only cont waits for.                                   *)
LEMMA TraceeAdvances ==
  ASSUME SweptInv, pc \notin {"prompt", "exit"}, TraceeNext, UNCHANGED sdbVars
  PROVE  \/ Nearer(Ahead', Ahead)
         \/ pc = "wait_cont" /\ tstat = "running" /\ UNCHANGED <<tstat, sdbVars>>
<1>1. ChildAhead' < ChildAhead \/ (tstat = "running" /\ tstat' = tstat)
  <2> USE DEF ChildAhead, Stopped, Executing, Living, Stop
  <2>1. CASE ExecOk \/ ExecFails \/ Kill
    BY <2>1 DEF ExecOk, ExecFails, Kill
  <2>2. CASE Insn \/ Derail
    BY <2>2 DEF Insn, Derail, StopIfStepping
  <2>3. CASE ExitInsn \/ Trap \/ Segfault \/ Signal
    BY <2>3 DEF ExitInsn, Trap, Segfault, Signal
  <2> QED
    BY <2>1, <2>2, <2>3 DEF TraceeNext, Run
<1>2. CASE ChildAhead' < ChildAhead
  BY <1>2, NearerChild
<1>3. CASE tstat = "running" /\ tstat' = tstat
  <2>1. pc \notin {"wait_exec", "wait_step", "wait_si", "sweep", "cont"}
    BY <1>3 DEF SweptInv, WaitsAnswered, Waitable, Held, Executing
  <2>2. pc \in Point
    BY DEF SweptInv, TypeInv, TypeOK
  <2> QED BY <2>1, <2>2, <1>3 DEF Point
<1> QED BY <1>1, <1>2, <1>3

(* The debugger goes on to a later stage, or to a later address.           *)
LEMMA SweepAdvances ==
  ASSUME SweptInv, SweptInv', Sweep
  PROVE  Nearer(Ahead', Ahead)
<1>1. path \in Programs /\ addr \in Nat /\ SweepEnd \in Nat
  <2>1. path \in Programs /\ addr \in Nat
    BY DEF Sweep, SweptInv, Sweeping, TypeInv, TypeOK
  <2> QED BY <2>1, TraceeAssumption DEF ImageAssumption, SweepEnd, Addr
<1>2. Decoded(addr).len \in Nat \ {0}
  <2>1. CASE Pokeable(addr)
    <3>1. tprog \in Programs
      BY <2>1 DEF SweptInv, TypeInv, TypeOK, TraceeTypeOK, Pokeable, Stopped
    <3> QED
      BY <2>1, <3>1, TraceeAssumption DEF Decoded, ImageAssumption, Pokeable
  <2> QED BY <2>1 DEF Decoded
<1>3. pc' = pc /\ SweepEnd' = SweepEnd /\ addr' = addr + Decoded(addr).len
  BY DEF Sweep, infoVars, SweepEnd
<1>4. Unswept = SweepEnd - addr
  BY DEF Sweep, Unswept
<1>5. Unswept' = IF addr' < SweepEnd THEN SweepEnd - addr' ELSE 0
  BY <1>3 DEF Sweep, Unswept
<1>6. Unswept' < Unswept
  <2> HIDE DEF Decoded
  <2> QED BY <1>1, <1>2, <1>3, <1>4, <1>5 DEF Sweep
<1> QED BY <1>3, <1>6, NearerSweep

LEMMA SdbAdvances ==
  ASSUME SweptInv, SweptInv', pc \notin {"prompt", "exit"},
         Internal \/ UserCommand \/ DebuggerKilled
  PROVE  Nearer(Ahead', Ahead)
<1>1. CASE Sweep
  BY <1>1, SweepAdvances
<1>2. CASE Stage[pc'] < Stage[pc]
  BY <1>2, NearerStage
<1>3. CASE pc' \in {"prompt", "exit"}
  <2>1. pc \in Point
    BY DEF SweptInv, TypeInv, TypeOK
  <2> QED BY <1>3, <2>1, <1>2 DEF Stage, Point
<1>4. CASE \/ LoadFails \/ ContFails \/ ContHits \/ ContStops \/ ContExits \/ ContKilled
           \/ SiReturns \/ GetRegs \/ Quit \/ DebuggerKilled
  BY <1>4, <1>3 DEF LoadFails, ContFails, ContHits, ContStops, ContExits, ContKilled,
     CommandOver, SiReturns, GetRegs, Quit, DebuggerKilled, Die
<1>5. CASE StartReturns \/ SweepDone
  BY <1>5, <1>2 DEF StartReturns, SweepDone, Die, Stage
<1>6. CASE ContStepsOver \/ ContResumes
  BY <1>6, <1>2 DEF ContStepsOver, ContResumes, ContCalled, Command, Stage
<1>7. CASE StepReturns
  BY <1>7, <1>2 DEF StepReturns, Die, Stage
<1> QED
  BY <1>1, <1>4, <1>5, <1>6, <1>7
     DEF Internal, UserCommand, Command, Load, Start, Si, SetBp, DelBp, SetRip

(* A command that was typed is over after finitely many steps, whoever     *)
(* makes them, unless cont waits for a tracee that runs on.                *)
THEOREM EveryCommandAdvances == Spec => CommandsAdvance
<1> DEFINE Counted == Ahead \in [1 .. 3 -> Nat]
           Runs == pc = "wait_cont" /\ tstat = "running" /\ UNCHANGED <<tstat, sdbVars>>
<1>1. SweptInv => Counted
  BY AheadIsNatural
<1>2. SweptInv' => Counted'
  BY <1>1, PTL
<1>3. ASSUME SweptInv, SweptInv', Next, pc \notin {"prompt", "exit"}
      PROVE  Nearer(Ahead', Ahead) \/ Runs
  <2>1. CASE TraceeNext /\ UNCHANGED sdbVars
    BY <2>1, <1>3, TraceeAdvances
  <2>2. CASE Internal \/ UserCommand \/ DebuggerKilled
    BY <2>2, <1>3, SdbAdvances
  <2> QED BY <2>1, <2>2, <1>3 DEF Next
<1>4. SweptInv /\ SweptInv' /\ [Next]_vars =>
        [pc \notin {"prompt", "exit"} =>
           /\ Ahead' \in [1 .. 3 -> Nat]
           /\ \/ Nearer(Ahead', Ahead)
              \/ pc = "wait_cont" /\ tstat = "running" /\ UNCHANGED <<tstat, sdbVars>>]_vars
  BY <1>2, <1>3
<1> QED
  BY <1>4, SweptInvariance, PTL DEF Spec, CommandsAdvance
=============================================================================
