------------------------- MODULE MiniProgramsProofs -------------------------
(***************************************************************************)
(* Proofs about the sample programs of hw3: what each of them reaches,     *)
(* whatever signals its machine has, whatever an uninitialised mask holds  *)
(* and whenever the user types ^C.                                         *)
(***************************************************************************)
EXTENDS MiniPrograms, LibMiniProofs

(* Where main of each program can be.                                      *)
Lines ==
  ({"alarm1"} \X {"alarm", "pause", "return"}) \union
  ({"alarm2"} \X {"block", "alarm", "sleep", "sigpending", "report", "return"}) \union
  ({"alarm3"} \X {"block", "ignore", "handle", "alarm", "pause", "sigpending", "report",
                  "return"}) \union
  ({"jmp1"} \X {"setjmp", "back", "fun", "longjmp", "return"})

PTypeOK ==
  /\ prog \in Progs
  /\ <<prog, line>> \in Lines
  /\ i \in 0 .. NumFuns
  /\ called \in Seq(1 .. NumFuns)
  /\ due \in BOOLEAN /\ reported \in BOOLEAN

(* Only alarm3 changes an action: it ignores SIGALRM and handles SIGINT.   *)
ActionsAsked ==
  \A s \in Sigs :
    \/ action[s].handler = SIG_DFL
    \/ prog = "alarm3" /\ s = SIGALRM /\ action[s].handler = SIG_IGN
    \/ /\ prog = "alarm3" /\ s = SIGINT /\ action[s].handler = handler
       /\ action[s].flags = {"SA_RESTORER"}

(* The calls that may be in progress, of main or under a handler.          *)
CallsOf(c, p, l) ==
  /\ c.fn \in {"user", "wrap", "sleep", "signal"}
  /\ c.fn = "sleep" => p = "alarm2" /\ l = "sigpending"
  /\ c.fn = "signal" =>
       /\ p = "alarm3" /\ c.flags = {"SA_RESTORER"}
       /\ \/ l = "handle" /\ c.sig = SIGALRM /\ c.handler = SIG_IGN
          \/ l = "alarm" /\ c.sig = SIGINT /\ c.handler = handler

InCalls ==
  /\ status = "sleeping" => prog = "alarm2" /\ line = "sigpending"
  /\ CallsOf(ctx, prog, line)
  /\ \A k \in 1 .. Len(frames) : CallsOf(frames[k].ctx, prog, line)

OnlyAlarm3Handles ==
  /\ frames # << >> => prog = "alarm3"
  /\ \A k \in 1 .. Len(frames) : "SA_RESTORER" \in frames[k].flags

(* From its first call on SIGALRM is blocked, here and where a handler     *)
(* will return.                                                            *)
AlarmBlocked ==
  prog \in {"alarm2", "alarm3"} /\ line # "block" =>
    /\ SIGALRM \in blocked
    /\ \A k \in 1 .. Len(frames) : SIGALRM \in frames[k].mask

(* Until the call of alarm nothing rings; then SIGALRM is pending exactly  *)
(* when the time is over, and stays so.                                    *)
AlarmPends ==
  /\ prog = "jmp1" => timer = 0 /\ SIGALRM \notin pending
  /\ prog \in {"alarm2", "alarm3"} =>
       IF line \in {"block", "ignore", "handle", "alarm"}
       THEN timer = 0 /\ SIGALRM \notin pending
       ELSE timer = 0 <=> SIGALRM \in pending

(* The alarm of alarm2 rings within its sleep.                             *)
AlarmBeforeWake ==
  prog = "alarm2" =>
    /\ timer <= 3
    /\ status \in {"running", "sleeping", "killed", "exited"}
    /\ status = "sleeping" => line = "sigpending" /\ timer <= wake
    /\ status = "running" /\ line \in {"sigpending", "report", "return"} => timer = 0
    /\ line \in {"report", "return"} => due

(* What sigpending stored, in the context of main, is what was due.        *)
MainCtx == IF frames = << >> THEN ctx ELSE frames[1].ctx

AnswerIsDue ==
  prog \in {"alarm2", "alarm3"} =>
    /\ line = "report" => (SIGALRM \in MainCtx.set <=> due)
    /\ line = "return" => reported = due

(* main exits by its return only, and that of alarm1 is never reached.     *)
EndsInReturn ==
  /\ status = "exited" => line = "return" /\ prog # "alarm1"
  /\ prog = "alarm1" /\ line = "return" => status \in {"pausing", "killed"}

(* The functions that jmp1 has called, at each point of its loop.          *)
CallsInOrder ==
  /\ \A k \in DOMAIN called : called[k] = k
  /\ prog # "jmp1" => called = << >>
  /\ prog = "jmp1" =>
       /\ line = "setjmp"  => i = 0 /\ Len(called) = 0
       /\ line = "back"    => /\ ctx.fn = "user" /\ i < NumFuns
                              /\ Len(called) = IF ctx.ret = 0 THEN i ELSE i + 1
       /\ line = "fun"     => i < NumFuns /\ Len(called) = i
       /\ line = "longjmp" => i < NumFuns /\ Len(called) = i + 1
       /\ line = "return"  => Len(called) = NumFuns

AlarmNoKiller == prog # "alarm1" => SIGALRM \notin killer

PInv ==
  /\ PTypeOK
  /\ ActionsAsked
  /\ InCalls
  /\ OnlyAlarm3Handles
  /\ AlarmBlocked
  /\ AlarmPends
  /\ AlarmBeforeWake
  /\ AnswerIsDue
  /\ EndsInReturn
  /\ CallsInOrder
  /\ AlarmNoKiller

-----------------------------------------------------------------------------
(* The bit of SIGALRM in a set stands for it and for no other signal.      *)
LEMMA BitOfSignal ==
  ASSUME NEW n \in Signals
  PROVE  Bit(n) = n - 1
<1>1. n - 1 \in 0 .. NSIG - 1 /\ NSIG \in Nat /\ NSIG > 0
  BY NSIGAssumption DEF Signals
<1>2. (n - 1) % NSIG = n - 1
  BY <1>1
<1> QED BY <1>2 DEF Bit

LEMMA AlarmBit ==
  /\ ToMask(sigaddset(sigemptyset, SIGALRM)) = {SIGALRM}
  /\ \A mask \in Mask : sigismember(FromMask(mask), SIGALRM) <=> SIGALRM \in mask
<1>1. SIGALRM \in Signals /\ SIGALRM \in Int /\ Sigs \subseteq Int
  BY KernelAssumption, ProgramsAssumption
<1>2. Bit(SIGALRM) = SIGALRM - 1
  BY <1>1, BitOfSignal
<1>3. ~OutOfRange(SIGALRM)
  BY <1>1, NSIGAssumption DEF OutOfRange, Signals
<1>4. sigaddset(sigemptyset, SIGALRM) = {SIGALRM - 1}
  BY <1>2, <1>3 DEF sigaddset, sigemptyset
<1>5. ToMask({SIGALRM - 1}) = {SIGALRM}
  <2>1. SIGALRM - 1 + 1 = SIGALRM
    BY <1>1
  <2> QED BY <2>1 DEF ToMask
<1>6. ASSUME NEW mask \in Mask
      PROVE  sigismember(FromMask(mask), SIGALRM) <=> SIGALRM \in mask
  <2>1. \A s \in mask : s \in Int
    BY <1>1 DEF Mask
  <2>2. \A s \in mask : s - 1 = SIGALRM - 1 <=> s = SIGALRM
    BY <1>1, <2>1
  <2> QED BY <1>2, <2>2 DEF sigismember, FromMask
<1> QED BY <1>4, <1>5, <1>6

(* Every step of a program is one of the steps that LibMini considers.     *)
LEMMA StepOfLibrary ==
  ASSUME CallsInOrder, PTypeOK, [PNext]_allVars
  PROVE  [Next]_vars
<1> USE DEF Next, Program, Main
<1>0. Seconds \in Nat /\ {1, 3, 5} \subseteq 0 .. Seconds
  BY KernelAssumption, ArgumentsAssumption
<1>1. CASE Alarm1 \/ Alarm2 \/ Alarm3
  <2>1. \/ Alarm(3) \/ Alarm(1) \/ Sleep(5) \/ Pause
        \/ Signal(SIGALRM, SIG_IGN) \/ Signal(SIGINT, handler)
    BY <1>1 DEF Alarm1, Alarm2, Alarm3
  <2>2. CASE Alarm(3) \/ Alarm(1) \/ Sleep(5) \/ Pause
    BY <1>0, <2>2
  <2>3. CASE Signal(SIGALRM, SIG_IGN) \/ Signal(SIGINT, handler)
    BY <2>3, ArgumentsAssumption
  <2> QED BY <2>1, <2>2, <2>3
<1>2. CASE Block
  BY <1>2, AlarmBit, ArgumentsAssumption DEF Block
<1>3. CASE AskPending \/ CallSetjmp \/ Return
  BY <1>3 DEF AskPending, CallSetjmp, Return
<1>4. CASE Report \/ Fun
  <2>1. Syscall(-0)
    BY <1>4 DEF Report, Fun
  <2> QED BY <2>1
<1>5. CASE Back
  BY <1>5 DEF Back
<1>6. CASE CallLongjmp
  <2>1. i + 1 \in 1 .. NumFuns
    BY <1>6 DEF CallLongjmp, CallsInOrder, PTypeOK, NumFuns
  <2> QED BY <1>6, <2>1, ArgumentsAssumption DEF CallLongjmp
<1>7. CASE System
  BY <1>7 DEF System, Environment
<1>8. CASE CtrlC
  BY <1>8, ProgramsAssumption DEF CtrlC, Environment
<1>9. CASE UNCHANGED allVars
  BY <1>9 DEF allVars
<1> QED
  BY <1>1, <1>2, <1>3, <1>4, <1>5, <1>6, <1>7, <1>8, <1>9 DEF PNext, MainStep

LEMMA PInvInit == PInit => PInv
<1> SUFFICES ASSUME PInit PROVE PInv
  OBVIOUS
<1>1. /\ status = "running" /\ blocked = {} /\ pending = {} /\ killer = {}
      /\ timer = 0 /\ frames = << >> /\ Len(frames) = 0
      /\ \A s \in Sigs : action[s].handler = SIG_DFL
      /\ ctx.fn = "user"
  BY DEF PInit, Init, KernelInit, User, HandlerContext
<1>2. <<prog, line>> \in {<<"alarm1", "alarm">>, <<"jmp1", "setjmp">>, <<"alarm2", "block">>,
                          <<"alarm3", "block">>}
  BY ProgramsAssumption DEF PInit
<1>3. i = 0 /\ called = << >> /\ Len(called) = 0 /\ due = FALSE /\ reported = FALSE
  BY DEF PInit
<1>4. PTypeOK
  <2>1. <<prog, line>> \in Lines
    BY <1>2 DEF Lines
  <2>2. called \in Seq(1 .. NumFuns)
    BY <1>3, EmptySeq
  <2>3. i \in 0 .. NumFuns
    BY <1>3 DEF NumFuns
  <2>4. due \in BOOLEAN /\ reported \in BOOLEAN
    BY <1>3
  <2> QED BY <2>1, <2>2, <2>3, <2>4 DEF PTypeOK, PInit
<1>5. ActionsAsked /\ InCalls /\ OnlyAlarm3Handles /\ AlarmNoKiller
  BY <1>1 DEF ActionsAsked, InCalls, CallsOf, OnlyAlarm3Handles, AlarmNoKiller
<1>6. AlarmBlocked /\ AlarmPends /\ AlarmBeforeWake /\ AnswerIsDue /\ EndsInReturn
  BY <1>1, <1>2 DEF AlarmBlocked, AlarmPends, AlarmBeforeWake, AnswerIsDue, EndsInReturn
<1>7. CallsInOrder
  BY <1>2, <1>3 DEF CallsInOrder
<1> QED BY <1>4, <1>5, <1>6, <1>7 DEF PInv

-----------------------------------------------------------------------------
(* Steps of the kernel and of the user.                                    *)

(* A step that leaves main, its stack, masks and actions where they are.   *)
LEMMA SameStackAndMain ==
  ASSUME PInv, UNCHANGED <<progVars, action, frames, blocked>>
  PROVE  /\ PTypeOK' /\ ActionsAsked' /\ OnlyAlarm3Handles' /\ AlarmBlocked'
         /\ ctx' = ctx => CallsInOrder' /\ AnswerIsDue'
         /\ ctx' = ctx /\ (status' = "sleeping" => status = "sleeping") => InCalls'
<1> USE DEF PInv, progVars
<1>1. PTypeOK'
  BY DEF PTypeOK
<1>2. ActionsAsked' /\ OnlyAlarm3Handles' /\ AlarmBlocked'
  BY DEF ActionsAsked, OnlyAlarm3Handles, AlarmBlocked
<1>3. ctx' = ctx => CallsInOrder'
  BY DEF CallsInOrder
<1>4. ctx' = ctx => AnswerIsDue'
  BY DEF AnswerIsDue, MainCtx
<1>5. ctx' = ctx /\ (status' = "sleeping" => status = "sleeping") => InCalls'
  BY DEF InCalls, CallsOf
<1> QED BY <1>1, <1>2, <1>3, <1>4, <1>5

LEMMA UserKeeps ==
  ASSUME TypeInv, PInv, CtrlC
  PROVE  PInv'
<1>1. UNCHANGED <<progVars, action, frames, blocked, ctx, status, timer, wake, killer>>
  BY DEF CtrlC, Post
<1>2. SIGALRM \in pending' <=> SIGALRM \in pending
  BY ProgramsAssumption DEF CtrlC, Post, PendingWith
<1>3. AlarmPends' /\ AlarmNoKiller' /\ EndsInReturn'
  BY <1>1, <1>2 DEF PInv, AlarmPends, AlarmNoKiller, EndsInReturn, progVars
<1>4. AlarmBeforeWake'
  BY <1>1 DEF PInv, AlarmBeforeWake, progVars
<1> QED BY <1>1, <1>3, <1>4, SameStackAndMain DEF PInv

LEMMA TickKeeps ==
  ASSUME TypeInv, PInv, Tick, UNCHANGED progVars
  PROVE  PInv'
<1>1. UNCHANGED <<progVars, action, frames, blocked, ctx, status, killer>>
  BY DEF Tick
<1>2. timer \in Nat /\ wake \in Nat
  BY KernelAssumption DEF TypeInv, TypeOK
<1>3. timer' = Less(timer) /\ wake' = Less(wake)
  BY DEF Tick
<1>4. AlarmNoKiller' /\ EndsInReturn'
  BY <1>1 DEF PInv, AlarmNoKiller, EndsInReturn, progVars
<1>5. AlarmBeforeWake'
  BY <1>1, <1>2, <1>3 DEF PInv, AlarmBeforeWake, progVars, Less
<1>6. AlarmPends'
  <2>1. CASE timer = 0
    <3>1. timer' = 0 /\ pending' = pending
      BY <1>2, <2>1 DEF Tick, Less
    <3> QED BY <1>1, <2>1, <3>1 DEF PInv, AlarmPends, progVars
  <2>2. CASE timer = 1
    <3>1. timer' = 0 /\ pending' = PendingWith(SIGALRM)
      BY <2>2 DEF Tick, Less
    <3>2. CASE prog \in {"alarm2", "alarm3"}
      <4>1. line \notin {"block", "ignore", "handle", "alarm"}
        BY <2>2, <3>2 DEF PInv, AlarmPends
      <4>2. SIGALRM \in blocked
        BY <3>2, <4>1 DEF PInv, AlarmBlocked
      <4>3. SIGALRM \in pending'
        BY <3>1, <4>2 DEF PendingWith
      <4> QED BY <1>1, <3>1, <3>2, <4>1, <4>3 DEF AlarmPends, progVars
    <3> QED BY <1>1, <2>2, <3>1, <3>2 DEF PInv, AlarmPends, progVars
  <2>3. CASE timer > 1
    <3>1. timer' > 0 /\ pending' = pending
      BY <1>2, <2>3 DEF Tick, Less
    <3> QED BY <1>1, <1>2, <2>3, <3>1 DEF PInv, AlarmPends, progVars
  <2> QED BY <1>2, <2>1, <2>2, <2>3
<1> QED BY <1>1, <1>4, <1>5, <1>6, SameStackAndMain DEF PInv

LEMMA SleepEndsKeeps ==
  ASSUME TypeInv, PInv, SleepEnds, UNCHANGED progVars
  PROVE  PInv'
<1>1. UNCHANGED <<progVars, action, frames, blocked, pending, timer, wake, killer>>
  BY DEF SleepEnds
<1>2. prog = "alarm2" /\ line = "sigpending" /\ status' = "running" /\ wake = 0
  BY DEF PInv, InCalls, SleepEnds
<1>3. timer \in Nat /\ ctx \in Context
  BY KernelAssumption DEF TypeInv, TypeOK
<1>4. timer = 0 /\ timer <= 3
  BY <1>2, <1>3 DEF PInv, AlarmBeforeWake, SleepEnds
<1>5. AlarmPends' /\ AlarmNoKiller' /\ EndsInReturn' /\ CallsInOrder'
  BY <1>1, <1>2 DEF PInv, AlarmPends, AlarmNoKiller, EndsInReturn, CallsInOrder, progVars
<1>6. AlarmBeforeWake'
  BY <1>1, <1>2, <1>4 DEF PInv, AlarmBeforeWake, progVars
<1>7. AnswerIsDue'
  BY <1>1, <1>2 DEF AnswerIsDue, progVars
<1>8. InCalls'
  <2>1. ctx'.fn = ctx.fn
    BY <1>3 DEF SleepEnds, Context
  <2>2. CallsOf(ctx', prog, line)
    BY <1>1, <1>2, <2>1 DEF PInv, InCalls, CallsOf, progVars
  <2> QED BY <1>1, <1>2, <2>2 DEF PInv, InCalls, CallsOf, progVars
<1> QED BY <1>1, <1>5, <1>6, <1>7, <1>8, SameStackAndMain DEF PInv

(* What is delivered to alarm2 and alarm3 is never SIGALRM, and no program *)
(* but alarm3 survives a delivery.                                         *)
LEMMA Delivered ==
  ASSUME TypeInv, PInv, NEW s \in Sigs, Deliver(s)
  PROVE  /\ prog # "alarm1" => s # SIGALRM
         /\ ~Ignore(s)
         /\ ~NoFrame(s)
         /\ Handle(s) => /\ prog = "alarm3" /\ s = SIGINT
                         /\ action[s].flags = {"SA_RESTORER"}
         /\ prog # "alarm1" => (SIGALRM \in pending' <=> SIGALRM \in pending)
         /\ Alive /\ pending' = pending \ {s}
         /\ UNCHANGED <<action, timer>>
<1>1. s \in pending /\ s \notin blocked /\ Alive /\ pending' = pending \ {s}
      /\ timer' = timer
  BY DEF Deliver
<1>2. <<prog, line>> \in Lines
  BY DEF PInv, PTypeOK
<1>3. prog # "alarm1" => s # SIGALRM
  <2>1. CASE prog = "jmp1"
    BY <1>1, <2>1 DEF PInv, AlarmPends
  <2>2. CASE prog \in {"alarm2", "alarm3"}
    BY <1>1, <2>2 DEF PInv, AlarmPends, AlarmBlocked
  <2> QED BY <1>2, <2>1, <2>2 DEF Lines
<1>4. ~Ignore(s)
  <2>1. SIG_IGN \notin Handlers /\ SIG_DFL # SIG_IGN /\ handler # SIG_IGN
    BY KernelAssumption, ProgramsAssumption DEF SIG_IGN, SIG_DFL
  <2> QED BY <1>3, <2>1 DEF PInv, ActionsAsked, Ignore
<1>5. action[s].handler \in Handlers =>
        prog = "alarm3" /\ s = SIGINT /\ action[s].flags = {"SA_RESTORER"}
  <2>1. SIG_IGN \notin Handlers /\ SIG_DFL \notin Handlers
    BY KernelAssumption
  <2> QED BY <2>1 DEF PInv, ActionsAsked
<1>6. ~NoFrame(s)
  BY <1>5 DEF NoFrame
<1>7. action' = action
  <2>1. Die(s) \/ Handle(s)
    BY <1>4, <1>6 DEF Deliver
  <2>2. CASE Handle(s)
    <3>1. "SA_RESETHAND" \notin action[s].flags
      BY <1>5, <2>2 DEF Handle
    <3> QED BY <2>2, <3>1 DEF Handle
  <2> QED BY <2>1, <2>2 DEF Die
<1> QED BY <1>1, <1>3, <1>4, <1>5, <1>6, <1>7 DEF Handle

LEMMA DieKeeps ==
  ASSUME TypeInv, PInv, NEW s \in Sigs, Deliver(s), Die(s), UNCHANGED progVars
  PROVE  PInv'
<1>1. UNCHANGED <<progVars, action, frames, blocked, ctx, timer, wake>>
  BY Delivered DEF Die
<1>2. status' = "killed" /\ killer' = killer \union {s}
  BY DEF Die
<1>3. AlarmNoKiller'
  BY <1>1, <1>2, Delivered DEF PInv, AlarmNoKiller, progVars
<1>4. AlarmPends'
  BY <1>1, Delivered DEF PInv, AlarmPends, progVars
<1>5. AlarmBeforeWake' /\ EndsInReturn'
  BY <1>1, <1>2 DEF PInv, AlarmBeforeWake, EndsInReturn, progVars
<1> QED BY <1>1, <1>2, <1>3, <1>4, <1>5, SameStackAndMain DEF PInv

LEMMA HandleKeeps ==
  ASSUME TypeInv, PInv, NEW s \in Sigs, Deliver(s), Handle(s), UNCHANGED progVars
  PROVE  PInv'
<1>1. UNCHANGED <<progVars, action, timer, killer>>
  BY Delivered DEF Handle
<1>2. /\ prog = "alarm3" /\ s = SIGINT /\ status' = "running"
      /\ blocked \subseteq blocked' /\ ctx' = HandlerContext
  BY Delivered DEF Handle
<1>3. PICK r \in SecondsLeft :
        frames' = Append(frames, [sig |-> s, mask |-> blocked, flags |-> action[s].flags,
                                  ctx |-> [ctx EXCEPT !.rem = r]])
  BY DEF Handle
<1> DEFINE c == [ctx EXCEPT !.rem = r]
           f == [sig |-> s, mask |-> blocked, flags |-> action[s].flags, ctx |-> c]
<1>4. /\ ctx \in Context /\ frames \in Seq(Frame) /\ Len(frames) \in Nat
      /\ wake \in Nat
  BY LenProperties, KernelAssumption DEF TypeInv, TypeOK, Frame
<1>5. r \in Int
  BY <1>4 DEF SecondsLeft
<1>6. f \in Frame
  <2>1. action[s].flags \in SUBSET Flags /\ blocked \in Mask
    BY DEF TypeInv, TypeOK, Action
  <2>2. c \in Context
    BY <1>4, <1>5, ContextWith
  <2> QED BY <2>1, <2>2 DEF Frame
<1>7. /\ Len(frames') = Len(frames) + 1 /\ frames' \in Seq(Frame)
      /\ \A k \in 1 .. Len(frames) : frames'[k] = frames[k]
      /\ frames'[Len(frames) + 1] = f
  BY <1>3, <1>4, <1>6, AppendFrame
<1>8. /\ f.ctx = c /\ f.mask = blocked
      /\ c.fn = ctx.fn /\ c.sig = ctx.sig /\ c.handler = ctx.handler /\ c.set = ctx.set
      /\ c.flags = ctx.flags
  BY <1>4 DEF Context
<1> HIDE DEF c, f
<1>9. PTypeOK' /\ ActionsAsked' /\ AlarmNoKiller'
  BY <1>1, <1>2 DEF PInv, PTypeOK, ActionsAsked, AlarmNoKiller, progVars
<1>15. OnlyAlarm3Handles'
  <2>1. f.flags = {"SA_RESTORER"}
    BY Delivered DEF f
  <2>2. ASSUME NEW k \in 1 .. Len(frames') PROVE "SA_RESTORER" \in frames'[k].flags
    <3>1. CASE k = Len(frames) + 1
      BY <1>7, <2>1, <3>1
    <3>2. CASE k \in 1 .. Len(frames)
      BY <1>7, <3>2 DEF PInv, OnlyAlarm3Handles
    <3> QED BY <1>4, <1>7, <3>1, <3>2
  <2> QED BY <1>1, <1>2, <2>2 DEF OnlyAlarm3Handles, progVars
<1>10. AlarmPends'
  BY <1>1, <1>2, Delivered DEF PInv, AlarmPends, progVars
<1>11. AlarmBeforeWake' /\ EndsInReturn' /\ CallsInOrder'
  BY <1>1, <1>2, Delivered DEF PInv, AlarmBeforeWake, EndsInReturn, CallsInOrder, progVars, Alive
<1>12. InCalls'
  <2>1. CallsOf(ctx', prog, line)
    BY <1>2 DEF CallsOf, HandlerContext
  <2>2. CallsOf(c, prog, line)
    BY <1>1, <1>8 DEF PInv, InCalls, CallsOf, progVars
  <2>3. ASSUME NEW k \in 1 .. Len(frames') PROVE CallsOf(frames'[k].ctx, prog, line)
    <3>1. CASE k = Len(frames) + 1
      BY <1>7, <1>8, <2>2, <3>1
    <3>2. CASE k \in 1 .. Len(frames)
      BY <1>1, <1>7, <3>2 DEF PInv, InCalls, CallsOf, progVars
    <3> QED BY <1>4, <1>7, <3>1, <3>2
  <2> QED BY <1>1, <1>2, <2>1, <2>3 DEF InCalls, progVars
<1>13. AlarmBlocked'
  <2> SUFFICES ASSUME line # "block"
               PROVE  /\ SIGALRM \in blocked'
                      /\ \A k \in 1 .. Len(frames') : SIGALRM \in frames'[k].mask
    BY <1>1 DEF AlarmBlocked, progVars
  <2>1. SIGALRM \in blocked /\ \A k \in 1 .. Len(frames) : SIGALRM \in frames[k].mask
    BY <1>2 DEF PInv, AlarmBlocked
  <2>2. ASSUME NEW k \in 1 .. Len(frames') PROVE SIGALRM \in frames'[k].mask
    <3>1. k = Len(frames) + 1 \/ k \in 1 .. Len(frames)
      BY <1>4, <1>7
    <3> QED BY <1>7, <1>8, <2>1, <3>1
  <2> QED BY <1>2, <2>1, <2>2
<1>14. AnswerIsDue'
  <2>1. frames' # << >> /\ MainCtx' = frames'[1].ctx
    BY <1>4, <1>7, EmptySeq DEF MainCtx
  <2>2. frames'[1].ctx.set = MainCtx.set
    <3>1. CASE frames = << >>
      BY <1>7, <1>8, <3>1 DEF MainCtx
    <3>2. CASE frames # << >>
      <4>1. 1 \in 1 .. Len(frames)
        BY <1>4, <3>2, EmptySeq
      <4> QED BY <1>7, <3>2, <4>1 DEF MainCtx
    <3> QED BY <3>1, <3>2
  <2> QED BY <1>1, <1>2, <2>1, <2>2 DEF PInv, AnswerIsDue, progVars
<1> QED BY <1>9, <1>10, <1>11, <1>12, <1>13, <1>14, <1>15 DEF PInv

LEMMA KernelKeeps ==
  ASSUME TypeInv, PInv, KernelNext, UNCHANGED progVars
  PROVE  PInv'
<1>1. ASSUME NEW s \in Sigs, Deliver(s) PROVE PInv'
  <2>1. Die(s) \/ Handle(s)
    BY <1>1, Delivered DEF Deliver
  <2> QED BY <1>1, <2>1, DieKeeps, HandleKeeps
<1> QED BY <1>1, TickKeeps, SleepEndsKeeps DEF KernelNext

-----------------------------------------------------------------------------
(* Steps of the library and of handlers.                                   *)

(* A step of a call in progress: where it is not main that gets an answer. *)
LEMMA CallGoesOn ==
  ASSUME TypeInv, PInv, UNCHANGED <<progVars, status, blocked, frames, timer, wake, killer>>,
         ctx.fn # "user", CallsOf(ctx', prog, line),
         prog \in {"alarm2", "alarm3"} /\ line = "report" => ctx'.set = ctx.set
  PROVE  /\ PTypeOK' /\ InCalls' /\ OnlyAlarm3Handles' /\ AlarmBlocked' /\ AlarmBeforeWake'
         /\ AnswerIsDue' /\ EndsInReturn' /\ CallsInOrder' /\ AlarmNoKiller'
<1> USE DEF PInv, progVars
<1>1. PTypeOK' /\ OnlyAlarm3Handles' /\ AlarmBlocked' /\ AlarmNoKiller'
  BY DEF PTypeOK, OnlyAlarm3Handles, AlarmBlocked, AlarmNoKiller
<1>2. InCalls'
  BY DEF InCalls
<1>3. AlarmBeforeWake' /\ EndsInReturn'
  BY DEF AlarmBeforeWake, EndsInReturn
<1>4. CallsInOrder'
  BY DEF CallsInOrder
<1>5. AnswerIsDue'
  BY DEF AnswerIsDue, MainCtx
<1> QED BY <1>1, <1>2, <1>3, <1>4, <1>5

LEMMA LibraryKeeps ==
  ASSUME TypeInv, PInv, Library, UNCHANGED progVars
  PROVE  PInv'
<1>0. ctx \in Context /\ CallsOf(ctx, prog, line)
  BY DEF TypeInv, TypeOK, PInv, InCalls
<1>1. CASE WrapReturns
  <2>1. ctx.fn = "wrap" /\ ctx'.fn = "user" /\ ctx'.set = ctx.set
    BY <1>0, <1>1 DEF WrapReturns, At, Context
  <2>2. UNCHANGED <<status, blocked, frames, timer, wake, killer, action, pending>>
    BY <1>1 DEF WrapReturns
  <2>3. CallsOf(ctx', prog, line)
    BY <2>1 DEF CallsOf
  <2>4. ActionsAsked' /\ AlarmPends'
    BY <2>2 DEF PInv, ActionsAsked, AlarmPends, progVars
  <2> QED BY <2>1, <2>2, <2>3, <2>4, CallGoesOn DEF PInv
<1>2. CASE SleepReturns
  <2>1. ctx.fn = "sleep" /\ ctx'.fn = "user"
    BY <1>2 DEF SleepReturns, At, User, HandlerContext
  <2>2. UNCHANGED <<status, blocked, frames, timer, wake, killer, action, pending>>
    BY <1>2 DEF SleepReturns
  <2>3. CallsOf(ctx', prog, line) /\ line = "sigpending"
    BY <1>0, <2>1 DEF CallsOf
  <2>4. ActionsAsked' /\ AlarmPends'
    BY <2>2 DEF PInv, ActionsAsked, AlarmPends, progVars
  <2> QED BY <2>1, <2>2, <2>3, <2>4, CallGoesOn DEF PInv
<1>3. CASE SignalInstalls
  <2>1. /\ ctx.fn = "signal" /\ ctx'.fn = "user"
        /\ RtSigaction(ctx.sig,
                       [handler |-> ctx.handler, mask |-> ctx.kmask, flags |-> ctx.flags])
        /\ UNCHANGED <<status, blocked, frames, timer, wake, killer>>
    BY <1>3 DEF SignalInstalls, At, User, HandlerContext
  <2>2. /\ prog = "alarm3" /\ ctx.flags = {"SA_RESTORER"}
        /\ \/ line = "handle" /\ ctx.sig = SIGALRM /\ ctx.handler = SIG_IGN
           \/ line = "alarm" /\ ctx.sig = SIGINT /\ ctx.handler = handler
    BY <1>0, <2>1 DEF CallsOf
  <2>3. CallsOf(ctx', prog, line)
    BY <2>1 DEF CallsOf
  <2>4. SIGALRM \notin pending /\ pending' \subseteq pending
    BY <2>1, <2>2 DEF PInv, AlarmPends, RtSigaction
  <2>5. AlarmPends'
    BY <2>1, <2>2, <2>4 DEF PInv, AlarmPends, progVars
  <2>6. \A s \in Sigs :
          IF Settable(ctx.sig) /\ s = ctx.sig
          THEN action'[s].handler = ctx.handler /\ action'[s].flags = ctx.flags
          ELSE action'[s] = action[s]
    BY <2>1 DEF RtSigaction, TypeInv, TypeOK, Action
  <2>7. ActionsAsked'
    BY <2>2, <2>6 DEF PInv, ActionsAsked, progVars
  <2> QED BY <2>1, <2>2, <2>3, <2>5, <2>7, CallGoesOn DEF PInv
<1>4. CASE SigactionInstalls \/ PerrorPrints
  <2>1. ctx.fn = "sigaction" \/ ctx.fn = "perror"
    BY <1>4 DEF SigactionInstalls, PerrorPrints, At
  <2> QED BY <1>0, <2>1 DEF CallsOf
<1> QED BY <1>1, <1>2, <1>3, <1>4 DEF Library

LEMMA HandlerReturnKeeps ==
  ASSUME TypeInv, PInv, HandlerReturns, UNCHANGED progVars
  PROVE  PInv'
<1> DEFINE n == Len(frames)
<1>1. /\ frames # << >> /\ frames' = SubSeq(frames, 1, n - 1)
      /\ ctx' = frames[n].ctx /\ blocked' = frames[n].mask
      /\ UNCHANGED <<status, pending, action, timer, wake, killer>>
  <2>1. CASE Sigreturn
    BY <2>1 DEF Sigreturn
  <2>2. CASE ReturnsAstray
    <3>1. frames # << >> /\ frames \in Seq(Frame)
      BY <2>2 DEF ReturnsAstray, TypeInv, TypeOK, Frame
    <3>2. n \in 1 .. n
      BY <3>1, TopFrame
    <3> QED BY <2>2, <3>2 DEF ReturnsAstray, PInv, OnlyAlarm3Handles
  <2> QED BY <2>1, <2>2 DEF HandlerReturns
<1>2. /\ n \in Nat /\ n >= 1 /\ frames' \in Seq(Frame) /\ Len(frames') = n - 1
      /\ \A k \in 1 .. n - 1 : frames'[k] = frames[k]
  BY <1>1, TopFrame DEF TypeInv, TypeOK, Frame
<1>3. prog = "alarm3"
  BY <1>1 DEF PInv, OnlyAlarm3Handles
<1>4. n \in 1 .. n /\ \A k \in 1 .. n - 1 : k \in 1 .. n
  BY <1>2
<1>5. PTypeOK' /\ ActionsAsked' /\ OnlyAlarm3Handles' /\ AlarmNoKiller' /\ AlarmPends'
  BY <1>1, <1>3 DEF PInv, PTypeOK, ActionsAsked, OnlyAlarm3Handles, AlarmNoKiller, AlarmPends,
                    progVars
<1>6. AlarmBeforeWake' /\ EndsInReturn' /\ CallsInOrder'
  BY <1>1, <1>3 DEF PInv, AlarmBeforeWake, EndsInReturn, CallsInOrder, progVars
<1>7. InCalls'
  BY <1>1, <1>2, <1>4 DEF PInv, InCalls, progVars
<1>8. AlarmBlocked'
  BY <1>1, <1>2, <1>4 DEF PInv, AlarmBlocked, progVars
<1>9. MainCtx' = MainCtx
  <2>1. CASE n = 1
    <3>1. frames' = << >>
      BY <1>2, <2>1, EmptySeq
    <3> QED BY <1>1, <2>1, <3>1 DEF MainCtx
  <2>2. CASE n > 1
    <3>1. frames' # << >> /\ 1 \in 1 .. n - 1
      BY <1>2, <2>2, EmptySeq
    <3> QED BY <1>1, <1>2, <3>1 DEF MainCtx
  <2> QED BY <1>2, <2>1, <2>2
<1>10. AnswerIsDue'
  BY <1>9 DEF PInv, AnswerIsDue, progVars
<1> QED BY <1>5, <1>6, <1>7, <1>8, <1>10 DEF PInv

-----------------------------------------------------------------------------
(* Steps of main, which executes when no handler does.                     *)
LEMMA NoFrames ==
  ASSUME frames = << >>, frames' = << >>
  PROVE  /\ OnlyAlarm3Handles' /\ MainCtx = ctx /\ MainCtx' = ctx'
         /\ 1 .. Len(frames) = {} /\ 1 .. Len(frames') = {}
  BY DEF OnlyAlarm3Handles, MainCtx

(* A step of alarm1, alarm2 or alarm3 that goes to another line.           *)
LEMMA AlarmGoto ==
  ASSUME PInv, Unchanged, frames = << >>, frames' = << >>, prog' = prog, prog # "jmp1",
         <<prog, line'>> \in Lines, line' # "report"
  PROVE  /\ PTypeOK' /\ CallsInOrder' /\ OnlyAlarm3Handles'
         /\ UNCHANGED action => ActionsAsked'
         /\ UNCHANGED killer => AlarmNoKiller'
         /\ InCalls' <=> /\ status' = "sleeping" => prog = "alarm2" /\ line' = "sigpending"
                         /\ CallsOf(ctx', prog, line')
         /\ AlarmBlocked' <=> (prog \in {"alarm2", "alarm3"} /\ line' # "block"
                                 => SIGALRM \in blocked')
<1> USE NoFrames DEF PInv, Unchanged
<1>1. PTypeOK'
  BY DEF PTypeOK
<1>2. CallsInOrder'
  BY DEF CallsInOrder
<1>3. UNCHANGED action => ActionsAsked'
  BY DEF ActionsAsked
<1>4. UNCHANGED killer => AlarmNoKiller'
  BY DEF AlarmNoKiller
<1>5. InCalls' <=> /\ status' = "sleeping" => prog = "alarm2" /\ line' = "sigpending"
                  /\ CallsOf(ctx', prog, line')
  BY DEF InCalls
<1>6. AlarmBlocked' <=> (prog \in {"alarm2", "alarm3"} /\ line' # "block"
                           => SIGALRM \in blocked')
  BY DEF AlarmBlocked
<1> QED BY <1>1, <1>2, <1>3, <1>4, <1>5, <1>6

LEMMA Alarm1Keeps ==
  ASSUME TypeInv, PInv, Alarm1
  PROVE  PInv'
<1>1. CASE Main({"alarm1"}, "alarm") /\ Alarm(3) /\ Goto("pause")
  <2>1. /\ prog = "alarm1" /\ prog' = "alarm1" /\ line' = "pause" /\ frames = << >>
        /\ UNCHANGED <<status, blocked, pending, action, frames, wake, killer>>
        /\ status = "running" /\ ctx'.fn = "wrap"
    BY <1>1 DEF Main, Goto, Alarm, Call, Running, Wrap, HandlerContext
  <2>2. <<prog, line'>> \in Lines /\ CallsOf(ctx', prog, line')
    BY <2>1 DEF Lines, CallsOf
  <2>3. AlarmPends' /\ AlarmBeforeWake' /\ AnswerIsDue' /\ EndsInReturn'
    BY <2>1 DEF AlarmPends, AlarmBeforeWake, AnswerIsDue, EndsInReturn
  <2> QED BY <2>1, <2>2, <2>3, AlarmGoto DEF Alarm1, PInv
<1>2. CASE Main({"alarm1"}, "pause") /\ Pause /\ Goto("return")
  <2>1. /\ prog = "alarm1" /\ prog' = "alarm1" /\ line' = "return" /\ frames = << >>
        /\ UNCHANGED <<blocked, pending, action, frames, timer, wake, killer>>
        /\ status' = "pausing" /\ ctx'.fn = "wrap"
    BY <1>2 DEF Main, Goto, Pause, Call, Running, Wrap, HandlerContext
  <2>2. <<prog, line'>> \in Lines /\ CallsOf(ctx', prog, line')
    BY <2>1 DEF Lines, CallsOf
  <2>3. AlarmPends' /\ AlarmBeforeWake' /\ AnswerIsDue' /\ EndsInReturn'
    BY <2>1 DEF AlarmPends, AlarmBeforeWake, AnswerIsDue, EndsInReturn
  <2> QED BY <2>1, <2>2, <2>3, AlarmGoto DEF Alarm1, PInv
<1> QED BY <1>1, <1>2 DEF Alarm1

LEMMA BlockKeeps ==
  ASSUME TypeInv, PInv, Block
  PROVE  PInv'
<1>1. /\ prog \in {"alarm2", "alarm3"} /\ prog' = prog /\ line = "block"
      /\ line' = IF prog = "alarm2" THEN "alarm" ELSE "ignore"
      /\ frames = << >> /\ status = "running" /\ ctx'.fn = "wrap"
      /\ blocked' = MaskAfter(SIG_BLOCK, {SIGALRM}, 8)
      /\ UNCHANGED <<status, pending, action, frames, timer, wake, killer>>
  BY AlarmBit DEF Block, Main, Goto, SigProcMask, Call, Running, Wrap, HandlerContext
<1>2. SIGALRM \in blocked'
  <2>1. MaskAfter(SIG_BLOCK, {SIGALRM}, 8) = (blocked \union {SIGALRM}) \ Forced
    BY DEF MaskAfter, SIG_BLOCK, SIG_UNBLOCK, SIG_SETMASK
  <2> QED BY <1>1, <2>1, KernelAssumption
<1>3. <<prog, line'>> \in Lines /\ CallsOf(ctx', prog, line')
  BY <1>1 DEF Lines, CallsOf
<1>4. AlarmPends' /\ AlarmBeforeWake' /\ AnswerIsDue' /\ EndsInReturn'
  BY <1>1 DEF PInv, AlarmPends, AlarmBeforeWake, AnswerIsDue, EndsInReturn
<1>5. Unchanged
  BY DEF Block
<1> QED BY <1>1, <1>2, <1>3, <1>4, <1>5, AlarmGoto DEF PInv

LEMMA Alarm2Keeps ==
  ASSUME TypeInv, PInv, Alarm2
  PROVE  PInv'
<1>1. CASE Main({"alarm2"}, "alarm") /\ Alarm(3) /\ Goto("sleep")
  <2>1. /\ prog = "alarm2" /\ prog' = "alarm2" /\ line = "alarm" /\ line' = "sleep"
        /\ frames = << >> /\ timer' = 3
        /\ UNCHANGED <<status, blocked, pending, action, frames, wake, killer>>
        /\ status = "running" /\ ctx'.fn = "wrap"
    BY <1>1 DEF Main, Goto, Alarm, TimerSet, Call, Running, Wrap, HandlerContext
  <2>2. <<prog, line'>> \in Lines /\ CallsOf(ctx', prog, line') /\ SIGALRM \in blocked'
    BY <2>1 DEF Lines, CallsOf, PInv, AlarmBlocked
  <2>3. AlarmPends' /\ AlarmBeforeWake' /\ AnswerIsDue' /\ EndsInReturn'
    BY <2>1 DEF PInv, AlarmPends, AlarmBeforeWake, AnswerIsDue, EndsInReturn
  <2> QED BY <2>1, <2>2, <2>3, AlarmGoto DEF Alarm2, PInv
<1>2. CASE Main({"alarm2"}, "sleep") /\ Sleep(5) /\ Goto("sigpending")
  <2>1. /\ prog = "alarm2" /\ prog' = "alarm2" /\ line = "sleep" /\ line' = "sigpending"
        /\ frames = << >> /\ wake' = 5
        /\ UNCHANGED <<blocked, pending, action, frames, timer, killer>>
        /\ status' = "sleeping" /\ ctx'.fn = "sleep"
    BY <1>2 DEF Main, Goto, Sleep, Call, Running, HandlerContext
  <2>2. <<prog, line'>> \in Lines /\ CallsOf(ctx', prog, line') /\ SIGALRM \in blocked'
    BY <2>1 DEF Lines, CallsOf, PInv, AlarmBlocked
  <2>3. timer' <= wake'
    BY <2>1, KernelAssumption DEF PInv, AlarmBeforeWake, TypeInv, TypeOK
  <2>4. AlarmPends' /\ AlarmBeforeWake' /\ AnswerIsDue' /\ EndsInReturn'
    BY <2>1, <2>3 DEF PInv, AlarmPends, AlarmBeforeWake, AnswerIsDue, EndsInReturn
  <2> QED BY <2>1, <2>2, <2>4, AlarmGoto DEF Alarm2, PInv
<1> QED BY <1>1, <1>2 DEF Alarm2

LEMMA Alarm3Keeps ==
  ASSUME TypeInv, PInv, Alarm3
  PROVE  PInv'
<1>1. ASSUME NEW s, NEW h, NEW to, Signal(s, h), Goto(to), prog = "alarm3", frames = << >>,
             \/ line = "ignore" /\ to = "handle" /\ s = SIGALRM /\ h = SIG_IGN
             \/ line = "handle" /\ to = "alarm" /\ s = SIGINT /\ h = handler
      PROVE  PInv'
  <2>1. PICK set \in Garbage : SigactionBegins("signal", s, h, set, {})
    BY <1>1 DEF Signal
  <2>2. /\ prog' = "alarm3" /\ line' = to /\ status = "running" /\ frames' = << >>
        /\ UNCHANGED <<status, pending, action, frames, timer, wake, killer>>
        /\ ctx'.fn = "signal" /\ ctx'.sig = s /\ ctx'.handler = h
        /\ ctx'.flags = {"SA_RESTORER"}
        /\ blocked' = MaskExtended(set)
    BY <1>1, <2>1 DEF SigactionBegins, Goto, Signal, Call, Running, HandlerContext
  <2>3. <<prog, line'>> \in Lines /\ CallsOf(ctx', prog, line') /\ line' # "report"
    BY <1>1, <2>2 DEF Lines, CallsOf
  <2>4. SIGALRM \in blocked'
    <3>1. MaskExtended(set) = (blocked \union set) \ Forced
      BY DEF MaskExtended, MaskAfter, SIG_BLOCK, SIG_UNBLOCK, SIG_SETMASK
    <3>2. SIGALRM \in blocked
      BY <1>1 DEF PInv, AlarmBlocked
    <3> QED BY <2>2, <3>1, <3>2, KernelAssumption
  <2>5. AlarmPends' /\ AlarmBeforeWake' /\ AnswerIsDue' /\ EndsInReturn'
    BY <1>1, <2>2 DEF PInv, AlarmPends, AlarmBeforeWake, AnswerIsDue, EndsInReturn
  <2> QED BY <1>1, <2>2, <2>3, <2>4, <2>5, AlarmGoto DEF Alarm3, PInv
<1>2. CASE Main({"alarm3"}, "alarm") /\ Alarm(1) /\ Goto("pause")
  <2>1. /\ prog = "alarm3" /\ prog' = "alarm3" /\ line = "alarm" /\ line' = "pause"
        /\ frames = << >> /\ timer' = 1
        /\ UNCHANGED <<status, blocked, pending, action, frames, wake, killer>>
        /\ status = "running" /\ ctx'.fn = "wrap"
    BY <1>2 DEF Main, Goto, Alarm, TimerSet, Call, Running, Wrap, HandlerContext
  <2>2. <<prog, line'>> \in Lines /\ CallsOf(ctx', prog, line') /\ SIGALRM \in blocked'
    BY <2>1 DEF Lines, CallsOf, PInv, AlarmBlocked
  <2>3. AlarmPends' /\ AlarmBeforeWake' /\ AnswerIsDue' /\ EndsInReturn'
    BY <2>1 DEF PInv, AlarmPends, AlarmBeforeWake, AnswerIsDue, EndsInReturn
  <2> QED BY <2>1, <2>2, <2>3, AlarmGoto DEF Alarm3, PInv
<1>3. CASE Main({"alarm3"}, "pause") /\ Pause /\ Goto("sigpending")
  <2>1. /\ prog = "alarm3" /\ prog' = "alarm3" /\ line = "pause" /\ line' = "sigpending"
        /\ frames = << >>
        /\ UNCHANGED <<blocked, pending, action, frames, timer, wake, killer>>
        /\ status' = "pausing" /\ ctx'.fn = "wrap"
    BY <1>3 DEF Main, Goto, Pause, Call, Running, Wrap, HandlerContext
  <2>2. <<prog, line'>> \in Lines /\ CallsOf(ctx', prog, line') /\ SIGALRM \in blocked'
    BY <2>1 DEF Lines, CallsOf, PInv, AlarmBlocked
  <2>3. AlarmPends' /\ AlarmBeforeWake' /\ AnswerIsDue' /\ EndsInReturn'
    BY <2>1 DEF PInv, AlarmPends, AlarmBeforeWake, AnswerIsDue, EndsInReturn
  <2> QED BY <2>1, <2>2, <2>3, AlarmGoto DEF Alarm3, PInv
<1> QED BY <1>1, <1>2, <1>3 DEF Alarm3, Main

(* The report: sigpending is asked when the alarm is over or not, and what *)
(* it stored is what sigismember looks at.                                 *)
LEMMA AskPendingKeeps ==
  ASSUME TypeInv, PInv, AskPending
  PROVE  PInv'
<1>1. /\ prog \in {"alarm2", "alarm3"} /\ prog' = prog /\ line = "sigpending"
      /\ line' = "report" /\ frames = << >> /\ frames' = << >> /\ status = "running"
      /\ ctx'.fn = "wrap" /\ ctx'.set = pending \intersect blocked
      /\ UNCHANGED <<status, blocked, pending, action, frames, timer, wake, killer>>
      /\ UNCHANGED <<i, called, reported>>
  BY DEF AskPending, Main, Goto, SigPending, RtSigpending, Call, Running, HandlerContext
<1>2. due' = (timer = 0)
  BY DEF AskPending
<1>3. SIGALRM \in blocked /\ (timer = 0 <=> SIGALRM \in pending)
  BY <1>1 DEF PInv, AlarmBlocked, AlarmPends
<1>4. prog = "alarm2" => timer = 0
  BY <1>1 DEF PInv, AlarmBeforeWake
<1>5. PTypeOK'
  <2>1. <<prog', line'>> \in Lines
    BY <1>1 DEF Lines
  <2>2. due' \in BOOLEAN
    BY <1>2
  <2> QED BY <1>1, <2>1, <2>2 DEF PInv, PTypeOK
<1>6. ActionsAsked' /\ InCalls' /\ OnlyAlarm3Handles' /\ AlarmBlocked' /\ AlarmNoKiller'
  BY <1>1, <1>3, NoFrames
  DEF PInv, ActionsAsked, InCalls, CallsOf, AlarmBlocked, AlarmNoKiller
<1>7. AlarmPends' /\ EndsInReturn' /\ CallsInOrder'
  BY <1>1, <1>3 DEF PInv, AlarmPends, EndsInReturn, CallsInOrder
<1>8. AlarmBeforeWake'
  BY <1>1, <1>2, <1>4 DEF PInv, AlarmBeforeWake
<1>9. AnswerIsDue'
  BY <1>1, <1>2, <1>3, NoFrames DEF AnswerIsDue
<1> QED BY <1>5, <1>6, <1>7, <1>8, <1>9 DEF PInv

LEMMA ReportKeeps ==
  ASSUME TypeInv, PInv, Report
  PROVE  PInv'
<1>1. /\ prog \in {"alarm2", "alarm3"} /\ prog' = prog /\ line = "report"
      /\ line' = "return" /\ frames = << >> /\ frames' = << >> /\ status = "running"
      /\ ctx'.fn = "wrap"
      /\ UNCHANGED <<status, blocked, pending, action, frames, timer, wake, killer>>
      /\ UNCHANGED <<i, called, due>>
  BY DEF Report, Main, Goto, Syscall, Wrap, Call, Running, HandlerContext
<1>2. reported' = (SIGALRM \in ctx.set)
  <2>1. ctx.set \in Mask
    BY DEF TypeInv, TypeOK, Context
  <2>2. sigismember(FromMask(ctx.set), SIGALRM) = (SIGALRM \in ctx.set)
    BY <2>1, AlarmBit DEF sigismember
  <2> QED BY <2>2 DEF Report
<1>3. SIGALRM \in ctx.set <=> due
  BY <1>1, NoFrames DEF PInv, AnswerIsDue
<1>4. due \in BOOLEAN /\ reported' = due
  BY <1>2, <1>3 DEF PInv, PTypeOK
<1>5. PTypeOK'
  <2>1. <<prog', line'>> \in Lines
    BY <1>1 DEF Lines
  <2> QED BY <1>1, <1>4, <2>1 DEF PInv, PTypeOK
<1>6. ActionsAsked' /\ InCalls' /\ OnlyAlarm3Handles' /\ AlarmBlocked' /\ AlarmNoKiller'
  BY <1>1, NoFrames
  DEF PInv, ActionsAsked, InCalls, CallsOf, AlarmBlocked, AlarmNoKiller
<1>7. AlarmPends' /\ EndsInReturn' /\ CallsInOrder'
  BY <1>1 DEF PInv, AlarmPends, EndsInReturn, CallsInOrder
<1>8. AlarmBeforeWake'
  BY <1>1 DEF PInv, AlarmBeforeWake
<1>9. AnswerIsDue'
  BY <1>1, <1>4 DEF AnswerIsDue
<1> QED BY <1>5, <1>6, <1>7, <1>8, <1>9 DEF PInv

(* A step of main in jmp1: only where it is, i and called matter.          *)
LEMMA JmpGoto ==
  ASSUME PInv, prog = "jmp1", prog' = "jmp1", frames = << >>, frames' = << >>,
         line' \in {"back", "fun", "longjmp", "return"}, status = "running",
         ctx'.fn \in {"user", "wrap"}, i' \in 0 .. NumFuns, called' \in Seq(1 .. NumFuns),
         UNCHANGED <<status, pending, action, timer, killer, due, reported>>,
         CallsInOrder'
  PROVE  PInv'
<1>1. <<prog', line'>> \in Lines
  BY DEF Lines
<1>2. PTypeOK'
  BY <1>1 DEF PInv, PTypeOK
<1>3. ActionsAsked' /\ InCalls' /\ OnlyAlarm3Handles' /\ AlarmNoKiller'
  BY NoFrames DEF PInv, ActionsAsked, InCalls, CallsOf, AlarmNoKiller
<1>4. AlarmBlocked' /\ AlarmPends' /\ AlarmBeforeWake' /\ AnswerIsDue' /\ EndsInReturn'
  BY DEF PInv, AlarmBlocked, AlarmPends, AlarmBeforeWake, AnswerIsDue, EndsInReturn
<1> QED BY <1>2, <1>3, <1>4 DEF PInv

LEMMA JmpKeeps ==
  ASSUME TypeInv, PInv, CallSetjmp \/ Back \/ Fun \/ CallLongjmp
  PROVE  PInv'
<1>0. /\ i \in 0 .. NumFuns /\ called \in Seq(1 .. NumFuns) /\ Len(called) \in Nat
      /\ DOMAIN called = 1 .. Len(called) /\ \A k \in DOMAIN called : called[k] = k
  BY LenProperties DEF PInv, PTypeOK, CallsInOrder
<1>1. CASE CallSetjmp
  <2>1. /\ prog = "jmp1" /\ prog' = "jmp1" /\ line = "setjmp" /\ line' = "back"
        /\ frames = << >> /\ frames' = << >> /\ status = "running"
        /\ ctx'.fn = "user" /\ ctx'.ret = 0
        /\ UNCHANGED <<status, pending, action, timer, killer, i, called, due, reported>>
    BY <1>1
    DEF CallSetjmp, Main, Goto, SetJmp, Call, Running, User, HandlerContext, Unchanged
  <2>2. i = 0 /\ Len(called) = 0
    BY <2>1 DEF PInv, CallsInOrder
  <2>3. CallsInOrder'
    BY <1>0, <2>1, <2>2 DEF CallsInOrder, NumFuns
  <2> QED BY <1>0, <2>1, <2>3, JmpGoto
<1>2. CASE Back
  <2>1. /\ prog = "jmp1" /\ prog' = "jmp1" /\ line = "back" /\ status = "running"
        /\ frames = << >> /\ frames' = << >> /\ ctx' = ctx /\ ctx.fn = "user"
        /\ i' = IF ctx.ret # 0 THEN i + 1 ELSE i
        /\ line' = IF i' < NumFuns THEN "fun" ELSE "return"
        /\ UNCHANGED <<status, pending, action, timer, killer, called, due, reported>>
    BY <1>2 DEF Back, Main, Goto, At, Running, vars, kernelVars
  <2>2. i < NumFuns /\ Len(called) = i'
    BY <2>1 DEF PInv, CallsInOrder
  <2>3. i' \in 0 .. NumFuns /\ (i' < NumFuns \/ i' = NumFuns)
    BY <1>0, <2>1, <2>2 DEF NumFuns
  <2>4. CallsInOrder'
    BY <1>0, <2>1, <2>2, <2>3 DEF CallsInOrder
  <2> QED BY <1>0, <2>1, <2>3, <2>4, JmpGoto
<1>3. CASE Fun
  <2>1. /\ prog = "jmp1" /\ prog' = "jmp1" /\ line = "fun" /\ line' = "longjmp"
        /\ frames = << >> /\ frames' = << >> /\ status = "running" /\ ctx'.fn = "wrap"
        /\ called' = Append(called, i + 1)
        /\ UNCHANGED <<status, pending, action, timer, killer, i, due, reported>>
    BY <1>3 DEF Fun, Main, Goto, Syscall, Wrap, Call, Running, HandlerContext
  <2>2. i < NumFuns /\ Len(called) = i
    BY <2>1 DEF PInv, CallsInOrder
  <2>3. i + 1 \in 1 .. NumFuns
    BY <1>0, <2>2 DEF NumFuns
  <2>4. /\ called' \in Seq(1 .. NumFuns) /\ Len(called') = i + 1
        /\ \A k \in 1 .. Len(called) : called'[k] = called[k]
        /\ called'[Len(called) + 1] = i + 1
    BY <1>0, <2>1, <2>2, <2>3, AppendFrame
  <2>5. \A k \in DOMAIN called' : called'[k] = k
    <3>1. DOMAIN called' = 1 .. i + 1
      BY <2>4, LenProperties
    <3>2. \A k \in 1 .. i + 1 : k = i + 1 \/ k \in 1 .. i
      BY <1>0
    <3> QED BY <1>0, <2>2, <2>4, <3>1, <3>2
  <2>6. CallsInOrder'
    BY <1>0, <2>1, <2>2, <2>4, <2>5 DEF CallsInOrder
  <2> QED BY <1>0, <2>1, <2>4, <2>6, JmpGoto
<1>4. CASE CallLongjmp
  <2>1. /\ prog = "jmp1" /\ prog' = "jmp1" /\ line = "longjmp" /\ line' = "back"
        /\ frames = << >> /\ status = "running" /\ jb # NoJump
        /\ frames' = SubSeq(frames, 1, jb.depth) /\ ctx' = User(i + 1)
        /\ UNCHANGED <<status, pending, action, timer, killer, i, called, due, reported>>
    BY <1>4
    DEF CallLongjmp, Main, Goto, LongJmp, FramesLeft, JumpReturns, Call, Running, Unchanged
  <2>2. i < NumFuns /\ Len(called) = i + 1
    BY <2>1 DEF PInv, CallsInOrder
  <2>3. ctx'.fn = "user" /\ ctx'.ret = i + 1 /\ i + 1 # 0
    BY <1>0, <2>1 DEF User, HandlerContext
  <2>4. frames' = << >>
    <3>1. jb.depth \in 0 .. Len(frames) /\ frames \in Seq(Frame) /\ Len(frames) = 0
      BY <2>1 DEF TypeInv, TypeOK, JumpsToFrame, Frame
    <3>2. frames' \in Seq(Frame) /\ Len(frames') = 0
      BY <2>1, <3>1, CutFrames
    <3> QED BY <3>2, EmptySeq
  <2>5. CallsInOrder'
    BY <1>0, <2>1, <2>2, <2>3 DEF CallsInOrder
  <2> QED BY <1>0, <2>1, <2>3, <2>4, <2>5, JmpGoto
<1> QED BY <1>1, <1>2, <1>3, <1>4

LEMMA ReturnKeeps ==
  ASSUME TypeInv, PInv, Return
  PROVE  PInv'
<1>1. /\ line = "return" /\ status = "running" /\ status' = "exited"
      /\ UNCHANGED <<progVars, blocked, pending, action, frames, ctx, timer, wake, killer>>
  BY DEF Return, Main, Exit, Call, Running
<1>2. prog # "alarm1"
  BY <1>1 DEF PInv, EndsInReturn
<1>3. AlarmPends' /\ AlarmBeforeWake' /\ EndsInReturn' /\ AlarmNoKiller'
  BY <1>1, <1>2
  DEF PInv, AlarmPends, AlarmBeforeWake, EndsInReturn, AlarmNoKiller, progVars
<1> QED BY <1>1, <1>3, SameStackAndMain DEF PInv

-----------------------------------------------------------------------------
LEMMA PInvNext == TypeInv /\ PInv /\ [PNext]_allVars => TypeInv' /\ PInv'
<1> SUFFICES ASSUME TypeInv, PInv, [PNext]_allVars PROVE TypeInv' /\ PInv'
  OBVIOUS
<1>1. TypeInv'
  BY StepOfLibrary, TypeInvNext DEF PInv
<1>2. ASSUME MainStep PROVE PInv'
  BY <1>2, Alarm1Keeps, BlockKeeps, Alarm2Keeps, Alarm3Keeps, AskPendingKeeps, ReportKeeps,
     JmpKeeps, ReturnKeeps DEF MainStep
<1>3. ASSUME System PROVE PInv'
  BY <1>3, KernelKeeps, LibraryKeeps, HandlerReturnKeeps DEF System
<1>4. ASSUME UNCHANGED allVars PROVE PInv'
  <2>1. UNCHANGED <<progVars, status, blocked, pending, action, frames, ctx, timer, wake, killer>>
    BY <1>4 DEF allVars, vars, kernelVars
  <2>2. AlarmPends' /\ AlarmBeforeWake' /\ EndsInReturn' /\ AlarmNoKiller'
    BY <2>1 DEF PInv, AlarmPends, AlarmBeforeWake, EndsInReturn, AlarmNoKiller, progVars
  <2> QED BY <2>1, <2>2, SameStackAndMain DEF PInv
<1> QED BY <1>1, <1>2, <1>3, <1>4, UserKeeps DEF PNext

LEMMA PInvAlways == PSpec => [](TypeInv /\ PInv)
<1>1. PInit => TypeInv /\ PInv
  BY TypeInvInit, PInvInit DEF PInit
<1> QED BY <1>1, PInvNext, PTL DEF PSpec

(* The programs use the library as LibMini says any program may: with the  *)
(* assumptions on their arguments, what is proved of Spec holds of them.   *)
THEOREM ProgramsUseLibrary == PSpec => Spec
<1>1. PInv /\ [PNext]_allVars => [Next]_vars
  BY StepOfLibrary DEF PInv
<1>2. PInit => Init
  BY DEF PInit
<1> QED BY <1>1, <1>2, PInvAlways, PTL DEF PSpec, Spec

(* alarm1 never returns from its pause, and the alarm kills neither alarm2 *)
(* nor alarm3, which block it, nor jmp1, whenever the user types ^C.       *)
THEOREM AlarmKillsOnlyAlarm1 == PSpec => []DeathByAlarm
<1>1. PInv => DeathByAlarm
  BY DEF PInv, EndsInReturn, AlarmNoKiller, DeathByAlarm
<1> QED BY <1>1, PInvAlways, PTL

(* alarm2 and alarm3 say that SIGALRM is pending exactly if the alarm had  *)
(* rung when they asked, and the alarm of alarm2 always had.               *)
THEOREM ReportsAreRight == PSpec => []PendingReported
<1>1. PInv => PendingReported
  BY DEF PInv, EndsInReturn, AnswerIsDue, AlarmBeforeWake, PendingReported
<1> QED BY <1>1, PInvAlways, PTL

(* Ten jumps back to the one setjmp call the ten functions in their order. *)
THEOREM JumpsGoThrough == PSpec => []JumpsInOrder
<1>1. PInv => JumpsInOrder
  BY DEF PInv, EndsInReturn, CallsInOrder, JumpsInOrder
<1> QED BY <1>1, PInvAlways, PTL

-----------------------------------------------------------------------------
(* The programs and the standard C library.  alarm1, alarm2 and jmp1 set   *)
(* no action, only jmp1 has a jmp_buf, and it never blocks a signal.       *)
JumpMask ==
  /\ prog # "jmp1" => jb = NoJump
  /\ prog = "jmp1" => blocked = {} /\ asked = {}

LEMMA JumpMaskNext ==
  ASSUME TypeInv, PInv, JumpMask, [PNext]_allVars
  PROVE  JumpMask'
<1> USE DEF JumpMask
<1>1. CASE Alarm1 \/ Alarm2 \/ Alarm3 \/ Block \/ AskPending \/ Report
  <2>1. prog # "jmp1" /\ prog' = prog /\ jb' = jb
    BY <1>1
    DEF Alarm1, Alarm2, Alarm3, Block, AskPending, Report, Main, Goto, Alarm, Sleep, Pause,
        Signal, SigactionBegins, SigProcMask, SigPending, Syscall, libVars
  <2> QED BY <2>1
<1>2. CASE CallSetjmp \/ CallLongjmp
  <2>1. \A how, set : MaskAfter(how, set, 32) = blocked
    BY DEF MaskAfter
  <2>2. CASE CallSetjmp
    BY <2>1, <2>2 DEF CallSetjmp, Main, Goto, SetJmp
  <2>3. CASE CallLongjmp
    BY <2>1, <2>3 DEF CallLongjmp, Main, Goto, LongJmp, libVars
  <2> QED BY <1>2, <2>2, <2>3
<1>3. CASE Back \/ Fun \/ Return
  BY <1>3
  DEF Back, Fun, Return, Main, Goto, Syscall, Exit, vars, kernelVars, libVars, progVars
<1>4. CASE CtrlC \/ UNCHANGED allVars
  BY <1>4 DEF CtrlC, Post, allVars, vars, kernelVars, libVars, progVars
<1>5. CASE KernelNext /\ UNCHANGED libVars /\ UNCHANGED progVars
  <2>1. ASSUME NEW s \in Sigs, Deliver(s), prog = "jmp1" PROVE blocked' = blocked
    <3>1. Die(s)
      BY <2>1, Delivered DEF Deliver
    <3> QED BY <3>1 DEF Die
  <2> QED BY <1>5, <2>1 DEF KernelNext, Tick, SleepEnds, libVars, progVars
<1>6. CASE Library /\ UNCHANGED progVars
  <2>1. UNCHANGED <<blocked, jb, asked>>
    BY <1>6
    DEF Library, WrapReturns, SleepReturns, SigactionInstalls, SignalInstalls, PerrorPrints,
        libVars
  <2> QED BY <1>6, <2>1 DEF progVars
<1>7. CASE HandlerReturns /\ UNCHANGED progVars
  <2>1. prog # "jmp1"
    BY <1>7 DEF HandlerReturns, Sigreturn, ReturnsAstray, PInv, OnlyAlarm3Handles
  <2> QED BY <1>7, <2>1 DEF HandlerReturns, progVars
<1> QED
  BY <1>1, <1>2, <1>3, <1>4, <1>5, <1>6, <1>7 DEF PNext, MainStep, System

LEMMA ProgramsAreCareful ==
  ASSUME "alarm3" \notin Progs
  PROVE  PSpec => CarefulSpec
<1>1. PInit => TypeInv /\ PInv /\ JumpMask
  BY TypeInvInit, PInvInit DEF PInit, Init, KernelInit, JumpMask
<1>2. TypeInv /\ PInv /\ JumpMask /\ [PNext]_allVars => TypeInv' /\ PInv' /\ JumpMask'
  BY PInvNext, JumpMaskNext
<1>3. TypeInv /\ PInv /\ PInv' /\ JumpMask /\ [PNext]_allVars
        => [Next /\ Careful]_vars
  <2> SUFFICES ASSUME PInv, PInv', JumpMask, [PNext]_allVars, Next
               PROVE  Careful
    BY StepOfLibrary DEF PInv
  <2>1. ctx'.fn \notin {"sigaction", "signal"}
    BY DEF PInv, PTypeOK, InCalls, CallsOf
  <2>2. AsksForItsMask
    BY <2>1 DEF AsksForItsMask
  <2>3. NeverQueries
    <3> SUFFICES ASSUME NEW s \in SigArgs, SigActionQuery(s) PROVE FALSE
      BY DEF NeverQueries
    <3>1. ctx'.fn = "sigaction"
      BY DEF SigActionQuery, HandlerContext
    <3> QED BY <2>1, <3>1
  <2>4. JumpsUnderItsMask
    BY DEF JumpsUnderItsMask, LongJmp, JumpMask
  <2> QED BY <2>2, <2>3, <2>4 DEF Careful
<1>4. PInit => Init
  BY DEF PInit
<1> QED BY <1>1, <1>2, <1>3, <1>4, PTL DEF PSpec, CarefulSpec

(* alarm1, alarm2 and jmp1 cannot tell libmini from the standard library;  *)
(* alarm3 can: its signal blocks what happens to be in an uninitialised    *)
(* mask.                                                                   *)
THEOREM ProgramsSeePosix ==
  ASSUME "alarm3" \notin Progs, HandlerArgs \subseteq Handlers \union {SIG_DFL, SIG_IGN}
  PROVE  PSpec => ImplementsPosix
BY ProgramsAreCareful, LibraryIsPosix
=============================================================================
