--------------------------- MODULE LibMiniProofs ---------------------------
(***************************************************************************)
(* Proofs about the signal calls of libmini, for any signals, handlers,    *)
(* arguments, errors and depth of nesting: types, what a handler finds     *)
(* blocked, and that the library used with care is PosixSignals.           *)
(***************************************************************************)
EXTENDS LibMiniRefinement, SequenceTheorems, TLAPS

(* Adding a frame.                                                         *)
LEMMA AppendFrame ==
  ASSUME NEW S, NEW s \in Seq(S), NEW e \in S
  PROVE  /\ Append(s, e) \in Seq(S)
         /\ Len(Append(s, e)) = Len(s) + 1
         /\ \A i \in 1 .. Len(s) : Append(s, e)[i] = s[i]
         /\ Append(s, e)[Len(s) + 1] = e
  OBVIOUS

(* Cutting the stack back to a depth.                                      *)
LEMMA CutFrames ==
  ASSUME NEW S, NEW s \in Seq(S), NEW d \in 0 .. Len(s)
  PROVE  /\ SubSeq(s, 1, d) \in Seq(S)
         /\ Len(SubSeq(s, 1, d)) = d
         /\ \A i \in 1 .. d : SubSeq(s, 1, d)[i] = s[i]
<1>0. Len(s) \in Nat /\ \A i \in 1 .. Len(s) : s[i] \in S
  BY LenProperties, ElementOfSeq
<1>1. d \in Int /\ \A i \in 1 .. d : s[i] \in S
  BY <1>0
<1>2. /\ SubSeq(s, 1, d) \in Seq(S)
      /\ Len(SubSeq(s, 1, d)) = IF 1 <= d THEN d - 1 + 1 ELSE 0
      /\ \A i \in 1 .. d - 1 + 1 : SubSeq(s, 1, d)[i] = s[1 + i - 1]
  BY <1>1, SubSeqProperties
<1> QED BY <1>0, <1>1, <1>2

(* Taking the last frame off.                                              *)
LEMMA TopFrame ==
  ASSUME NEW S, NEW s \in Seq(S), s # << >>
  PROVE  /\ Len(s) \in Nat /\ Len(s) >= 1
         /\ s[Len(s)] \in S
         /\ SubSeq(s, 1, Len(s) - 1) \in Seq(S)
         /\ Len(SubSeq(s, 1, Len(s) - 1)) = Len(s) - 1
         /\ \A i \in 1 .. Len(s) - 1 : SubSeq(s, 1, Len(s) - 1)[i] = s[i]
<1>1. Len(s) \in Nat /\ Len(s) # 0
  BY EmptySeq, LenProperties
<1>2. Len(s) >= 1
  BY <1>1
<1>3. s[Len(s)] \in S
  BY <1>1, <1>2, ElementOfSeq
<1>4. Len(s) - 1 \in 0 .. Len(s)
  BY <1>1, <1>2
<1> QED BY <1>1, <1>2, <1>3, <1>4, CutFrames

-----------------------------------------------------------------------------
(* Type correctness.  A jmp_buf that is set names a frame on the stack:    *)
(* longjmp never goes to a handler that has returned.                      *)
Frame == [sig : Sigs, mask : Mask, flags : SUBSET Flags, ctx : Context]

JumpsToFrame == jb = NoJump \/ jb.depth \in 0 .. Len(frames)

TypeInv == TypeOK /\ JumpsToFrame

LEMMA UserContext ==
  /\ HandlerContext \in Context
  /\ \A ret \in Int : User(ret) \in Context
BY DEF HandlerContext, Context, User, Mask, SIG_DFL

LEMMA ContextWith ==
  ASSUME NEW c \in Context, NEW r \in Int
  PROVE  [c EXCEPT !.ret = r] \in Context /\ [c EXCEPT !.rem = r] \in Context
BY DEF Context

LEMMA WrapContext ==
  ASSUME NEW ret \in Int, Wrap(ret)
  PROVE  ctx' \in Context
BY UserContext DEF Wrap, Context

LEMMA MaskAfterType ==
  ASSUME TypeOK, NEW how, NEW set \in Mask, NEW size
  PROVE  MaskAfter(how, set, size) \in Mask
BY DEF TypeOK, MaskAfter, Mask

LEMMA TypeInvInit == Init => TypeInv
<1> SUFFICES ASSUME Init PROVE TypeInv
  OBVIOUS
<1>1. ctx \in Context
  BY UserContext DEF Init
<1>2. /\ blocked \in Mask /\ pending \in Mask /\ killer \in Mask /\ asked \in Mask
      /\ action \in [Sigs -> Action]
  BY DEF Init, KernelInit, Mask, Action, SIG_DFL
<1>3. /\ timer \in 0 .. Seconds /\ wake \in 0 .. Seconds /\ errno \in Nat
  BY KernelAssumption DEF Init, KernelInit
<1>4. /\ jb = NoJump /\ jb \in [depth : Nat \union {-1}, mask : Mask]
  BY DEF Init, NoJump, Mask
<1>5. frames \in Seq(Frame)
  BY EmptySeq DEF Init, KernelInit
<1>6. status \in {"running", "pausing", "sleeping", "killed", "exited"}
  BY DEF Init, KernelInit
<1> QED BY <1>1, <1>2, <1>3, <1>4, <1>5, <1>6 DEF TypeInv, TypeOK, JumpsToFrame, Frame

(* Steps that leave the stack and the jmp_buf alone.                       *)
LEMMA SameStack ==
  ASSUME TypeInv, UNCHANGED <<frames, jb>>
  PROVE  /\ JumpsToFrame'
         /\ frames' \in Seq([sig : Sigs, mask : Mask, flags : SUBSET Flags, ctx : Context])
         /\ jb' \in [depth : Nat \union {-1}, mask : Mask]
BY DEF TypeInv, TypeOK, JumpsToFrame

(* A delivery changes at most the handler of its signal, to the default.   *)
LEMMA HandlerReset ==
  ASSUME TypeOK, NEW s \in Sigs, Handle(s)
  PROVE  /\ action' \in [Sigs -> Action]
         /\ \A t \in Sigs : /\ action'[t].mask = action[t].mask
                           /\ action'[t].flags = action[t].flags
                           /\ action'[t].handler \in {action[t].handler, SIG_DFL}
<1>1. CASE "SA_RESETHAND" \in action[s].flags
  <2>1. action' = [action EXCEPT ![s] = [@ EXCEPT !.handler = SIG_DFL]]
    BY <1>1 DEF Handle
  <2> QED BY <2>1 DEF TypeOK, Action, SIG_DFL
<1>2. CASE "SA_RESETHAND" \notin action[s].flags
  <2>1. action' = action
    BY <1>2 DEF Handle
  <2> QED BY <2>1 DEF TypeOK
<1> QED BY <1>1, <1>2

LEMMA KernelTypeInv ==
  ASSUME TypeInv, Environment, UNCHANGED libVars
  PROVE  TypeInv'
<1> USE DEF TypeInv, TypeOK, libVars
<1>1. ASSUME NEW s \in Sigs, Post(s) PROVE TypeInv'
  <2>1. pending' \in Mask
    BY <1>1 DEF Post, PendingWith, Mask
  <2> QED BY <1>1, <2>1, SameStack DEF Post
<1>2. ASSUME NEW s \in Sigs, Deliver(s) PROVE TypeInv'
  <2>0. pending' \in Mask /\ timer' = timer
    BY <1>2 DEF Deliver, Mask
  <2>1. CASE Ignore(s)
    BY <2>0, <2>1, SameStack DEF Ignore
  <2>2. CASE Die(s)
    <3>1. killer' \in Mask
      BY <2>2 DEF Die, Mask
    <3> QED BY <2>0, <2>2, <3>1, SameStack DEF Die
  <2>4. CASE NoFrame(s)
    BY <2>0, <2>4, SameStack DEF NoFrame
  <2>3. CASE Handle(s)
    <3>1. PICK r \in SecondsLeft :
            frames' = Append(frames, [sig |-> s, mask |-> blocked, flags |-> action[s].flags,
                                      ctx |-> [ctx EXCEPT !.rem = r]])
      BY <2>3 DEF Handle
    <3>2. r \in Int
      BY KernelAssumption DEF SecondsLeft
    <3>3. [ctx EXCEPT !.rem = r] \in Context
      BY <3>2, ContextWith
    <3>4. [sig |-> s, mask |-> blocked, flags |-> action[s].flags,
           ctx |-> [ctx EXCEPT !.rem = r]] \in Frame
      BY <3>3 DEF Frame, Action
    <3>5. frames' \in Seq(Frame) /\ Len(frames') = Len(frames) + 1 /\ Len(frames) \in Nat
      BY <3>1, <3>4, AppendFrame, LenProperties DEF Frame
    <3>6. JumpsToFrame'
      BY <3>5 DEF JumpsToFrame
    <3>7. blocked' \in Mask
      BY <2>3 DEF Handle, Mask, Action, OwnSignal
    <3>8. ctx' \in Context /\ status' = "running" /\ wake' = 0 /\ killer' = killer
      BY <2>3, UserContext DEF Handle
    <3>9. wake' \in 0 .. Seconds
      BY <3>8, KernelAssumption
    <3>10. action' \in [Sigs -> Action]
      BY <2>3, HandlerReset
    <3> QED BY <2>0, <3>5, <3>6, <3>7, <3>8, <3>9, <3>10 DEF Frame
  <2> QED BY <1>2, <2>1, <2>2, <2>3, <2>4 DEF Deliver
<1>3. CASE Tick
  <2>1. timer' \in 0 .. Seconds /\ wake' \in 0 .. Seconds
    BY <1>3, KernelAssumption DEF Tick, Less
  <2>2. pending' \in Mask
    BY <1>3, KernelAssumption DEF Tick, PendingWith, Mask
  <2> QED BY <1>3, <2>1, <2>2, SameStack DEF Tick
<1>4. CASE SleepEnds
  <2>1. ctx' \in Context
    <3>1. ctx' = [ctx EXCEPT !.ret = 0]
      BY <1>4 DEF SleepEnds
    <3>2. ctx \in Context /\ 0 \in Int
      OBVIOUS
    <3> HIDE DEF TypeInv, TypeOK
    <3>3. [ctx EXCEPT !.ret = 0] \in Context
      BY ONLY <3>2, ContextWith
    <3> QED BY <3>1, <3>3
  <2>2. /\ status' = "running" /\ jb' = jb
        /\ UNCHANGED <<blocked, pending, action, frames, timer, wake, killer, errno, asked>>
    BY <1>4 DEF SleepEnds
  <2> QED BY <2>1, <2>2, SameStack
<1> QED BY <1>1, <1>2, <1>3, <1>4 DEF Environment, KernelNext

LEMMA LibraryTypeInv ==
  ASSUME TypeInv, Library
  PROVE  TypeInv'
<1> USE DEF TypeInv, TypeOK, At
<1>0. /\ ctx.ret \in Int /\ ctx.rem \in Int /\ ctx.kmask \in Mask /\ ctx.handler \in Int
      /\ ctx.flags \in SUBSET Flags
  BY DEF Context
<1>1. CASE WrapReturns
  <2>1. errno' \in Nat
    BY <1>0, <1>1 DEF WrapReturns, ErrnoAfter
  <2>2. ctx' \in Context
    <3>1. ctx' = [ctx EXCEPT !.fn = "user", !.ret = Result(ctx.ret)]
      BY <1>1 DEF WrapReturns
    <3>2. Result(ctx.ret) \in Int
      BY <1>0 DEF Result
    <3> QED BY <3>1, <3>2 DEF Context
  <2>3. UNCHANGED <<status, blocked, pending, action, frames, timer, wake, killer, jb, asked>>
    BY <1>1 DEF WrapReturns
  <2> QED BY <2>1, <2>2, <2>3, SameStack
<1>2. CASE SleepReturns
  <2>1. ctx' \in Context
    BY <1>0, <1>2, UserContext DEF SleepReturns
  <2> QED BY <1>2, <2>1, SameStack DEF SleepReturns, libVars
<1>3. ASSUME RtSigaction(ctx.sig,
                         [handler |-> ctx.handler, mask |-> ctx.kmask, flags |-> ctx.flags])
      PROVE  action' \in [Sigs -> Action] /\ pending' \in Mask
  <2>1. [[handler |-> ctx.handler, mask |-> ctx.kmask, flags |-> ctx.flags]
           EXCEPT !.mask = @ \ Forced] \in Action
    BY <1>0 DEF Action, Mask
  <2>2. pending \ {ctx.sig} \in Mask
    BY DEF Mask
  <2> QED BY <1>3, <2>1, <2>2 DEF RtSigaction
<1>4. CASE SigactionInstalls
  <2>1. ctx' \in Context
    BY <1>4, WrapContext DEF SigactionInstalls, ActionResult, EINVAL
  <2>2. errno' = 0 /\ UNCHANGED <<status, blocked, frames, timer, wake, killer, jb, asked>>
    BY <1>4 DEF SigactionInstalls
  <2>3. action' \in [Sigs -> Action] /\ pending' \in Mask
    BY <1>3, <1>4 DEF SigactionInstalls
  <2> QED BY <2>1, <2>2, <2>3, SameStack
<1>5. CASE SignalInstalls
  <2>1. ctx' \in Context
    BY <1>5, UserContext, LibMiniAssumption DEF SignalInstalls, SIG_ERR
  <2>2. errno' \in Nat
    BY <1>5 DEF SignalInstalls, ErrnoAfter, ActionResult, EINVAL
  <2>3. UNCHANGED <<status, blocked, frames, timer, wake, killer, jb, asked>>
    BY <1>5 DEF SignalInstalls
  <2>4. action' \in [Sigs -> Action] /\ pending' \in Mask
    BY <1>3, <1>5 DEF SignalInstalls
  <2> QED BY <2>1, <2>2, <2>3, <2>4, SameStack
<1>6. CASE PerrorPrints
  <2>1. ctx' \in Context
    BY <1>6, UserContext DEF PerrorPrints
  <2>2. errno' \in Nat
    BY <1>6, LibMiniAssumption DEF PerrorPrints, WriteErrno
  <2>3. UNCHANGED <<status, blocked, pending, action, frames, timer, wake, killer, jb, asked>>
    BY <1>6 DEF PerrorPrints
  <2> QED BY <2>1, <2>2, <2>3, SameStack
<1> QED BY <1>1, <1>2, <1>4, <1>5, <1>6 DEF Library

(* A call that only puts the context in progress, with some fields set.    *)
LEMMA SigactionContext ==
  ASSUME TypeOK,
         NEW fn \in {"sigaction", "signal"}, NEW s \in Nat, NEW h \in Int,
         NEW set \in Mask, NEW kmask \in Mask, NEW flags \in SUBSET Flags
  PROVE  [HandlerContext EXCEPT !.fn = fn, !.sig = s, !.handler = h, !.set = set,
                                !.kmask = kmask, !.flags = flags] \in Context
<1>1. HandlerContext \in Context
  BY UserContext
<1> QED BY <1>1 DEF Context

LEMMA ProgramTypeInv ==
  ASSUME TypeInv, Program
  PROVE  TypeInv'
<1> USE DEF TypeInv, TypeOK, libVars
<1>a. HandlerContext \in Context
  BY UserContext
<1>b. {} \in Mask
  BY DEF Mask
<1>1. ASSUME NEW e \in {0} \union Errors, Syscall(-e) PROVE TypeInv'
  <2>1. ctx' \in Context
    BY <1>1, WrapContext, LibMiniAssumption DEF Syscall
  <2> QED BY <1>1, <2>1, SameStack DEF Syscall
<1>2. ASSUME NEW how \in Hows, NEW set \in Masks, SigProcMask(how, set) PROVE TypeInv'
  <2>1. ctx' \in Context
    BY <1>2, WrapContext DEF SigProcMask, MaskResult, EINVAL
  <2>2. blocked' \in Mask
    BY <1>2, MaskAfterType, LibMiniAssumption DEF SigProcMask
  <2>3. UNCHANGED <<status, pending, action, frames, timer, wake, killer, errno, jb, asked>>
    BY <1>2 DEF SigProcMask
  <2> QED BY <2>1, <2>2, <2>3, SameStack
<1>3. CASE SigPending
  <2>1. RtSigpending \in Mask
    BY DEF RtSigpending, Mask
  <2>2. ctx' \in Context
    BY <1>a, <1>3, <2>1 DEF SigPending, Context
  <2> QED BY <1>3, <2>2, SameStack DEF SigPending
<1>4. ASSUME NEW n \in 0 .. Seconds, Alarm(n) PROVE TypeInv'
  <2>1. ctx' \in Context
    BY <1>4, WrapContext, KernelAssumption DEF Alarm
  <2> QED BY <1>4, <2>1, SameStack DEF Alarm, TimerSet
<1>5. ASSUME NEW n \in 0 .. Seconds, Sleep(n) PROVE TypeInv'
  <2>1. -EINTR \in Int
    BY DEF EINTR
  <2>2. ctx' \in Context
    BY <1>a, <1>5, <2>1 DEF Sleep, Context
  <2> QED BY <1>5, <2>2, SameStack DEF Sleep
<1>6. CASE Pause
  <2>1. ctx' \in Context
    BY <1>6, WrapContext DEF Pause, EINTR
  <2> QED BY <1>6, <2>1, SameStack DEF Pause
<1>7. ASSUME NEW fn \in {"sigaction", "signal"}, NEW s \in SigArgs, NEW h \in HandlerArgs,
             NEW set \in Mask, NEW flags \in SUBSET Flags, SigactionBegins(fn, s, h, set, flags)
      PROVE  TypeInv'
  <2>1. blocked' \in Mask
    BY <1>7, MaskAfterType DEF SigactionBegins, MaskExtended
  <2>2. /\ HandlerMask \in Mask /\ s \in Nat /\ h \in Int
        /\ flags \union {"SA_RESTORER"} \in SUBSET Flags
    BY LibMiniAssumption DEF HandlerMask, Flags
  <2>3. ctx' = [HandlerContext EXCEPT !.fn = fn, !.sig = s, !.handler = h, !.set = set,
                                      !.kmask = HandlerMask,
                                      !.flags = flags \union {"SA_RESTORER"}]
    BY <1>7 DEF SigactionBegins
  <2>4. ctx' \in Context
    BY <2>2, <2>3, SigactionContext
  <2>5. UNCHANGED <<status, pending, action, frames, timer, wake, killer, errno, jb, asked>>
    BY <1>7 DEF SigactionBegins
  <2> QED BY <2>1, <2>4, <2>5, SameStack
<1>8. ASSUME NEW s \in SigArgs, NEW h \in HandlerArgs, Signal(s, h) PROVE TypeInv'
  <2>1. PICK set \in Garbage : SigactionBegins("signal", s, h, set, {})
    BY <1>8 DEF Signal
  <2>2. set \in Mask /\ {} \in SUBSET Flags
    BY LibMiniAssumption
  <2> QED BY <1>7, <2>1, <2>2
<1>9. ASSUME NEW s \in SigArgs, NEW h \in HandlerArgs, NEW set \in Masks, NEW flags \in FlagArgs,
             SigAction(s, h, set, flags)
      PROVE  TypeInv'
  <2>1. /\ set \in Mask /\ SigactionBegins("sigaction", s, h, set, flags)
        /\ flags \in SUBSET Flags
    BY <1>9, LibMiniAssumption DEF SigAction, Flags
  <2> QED BY <1>7, <2>1
<1>10. ASSUME NEW s \in SigArgs, SigActionQuery(s) PROVE TypeInv'
  <2>1. PICK h \in GarbageHandlers, mask \in Garbage, flags \in GarbageFlags :
          ctx' = [HandlerContext EXCEPT !.fn = "sigaction", !.sig = s, !.handler = h,
                                        !.kmask = mask, !.flags = flags]
    BY <1>10 DEF SigActionQuery
  <2>2. s \in Nat /\ h \in Int /\ mask \in Mask /\ flags \in SUBSET Flags
    BY LibMiniAssumption
  <2>3. ctx' \in Context
    BY <1>a, <2>1, <2>2 DEF Context
  <2>4. UNCHANGED <<status, blocked, pending, action, frames, timer, wake, killer, errno, jb, asked>>
    BY <1>10 DEF SigActionQuery
  <2> QED BY <2>3, <2>4, SameStack
<1>11. CASE SetJmp
  <2>1. /\ jb' = [depth |-> Len(frames), mask |-> {}]
        /\ frames' = frames /\ asked' = blocked
        /\ UNCHANGED <<status, pending, action, timer, wake, killer, errno>>
    BY <1>11 DEF SetJmp
  <2>2. Len(frames) \in Nat
    BY LenProperties
  <2>3. JumpsToFrame' /\ jb' \in [depth : Nat \union {-1}, mask : Mask]
    BY <1>b, <2>1, <2>2 DEF JumpsToFrame
  <2>4. ctx' \in Context
    BY <1>11, UserContext DEF SetJmp
  <2>5. blocked' \in Mask
    BY <1>11, <1>b, MaskAfterType DEF SetJmp
  <2> QED BY <2>1, <2>3, <2>4, <2>5
<1>12. ASSUME NEW v \in JumpValues, LongJmp(v) PROVE TypeInv'
  <2>1. /\ frames' = SubSeq(frames, 1, jb.depth) /\ jb # NoJump
        /\ UNCHANGED <<status, pending, action, timer, wake, killer, errno, jb, asked>>
    BY <1>12 DEF LongJmp, FramesLeft
  <2>2. jb.depth \in 0 .. Len(frames)
    BY <2>1 DEF JumpsToFrame
  <2>3. frames' \in Seq(Frame) /\ Len(frames') = jb.depth
    BY <2>1, <2>2, CutFrames DEF Frame
  <2>4. JumpsToFrame'
    BY <2>1, <2>2, <2>3 DEF JumpsToFrame
  <2>5. ctx' \in Context
    BY <1>12, UserContext, LibMiniAssumption DEF LongJmp, JumpReturns
  <2>6. blocked' \in Mask
    BY <1>12, MaskAfterType DEF LongJmp
  <2> QED BY <2>1, <2>3, <2>4, <2>5, <2>6 DEF Frame
<1>16. CASE ReturnsAstray /\ UNCHANGED <<jb, errno, asked>>
  BY <1>16, SameStack DEF ReturnsAstray
<1>13. CASE Sigreturn /\ jb' = (IF jb.depth = Len(frames) THEN NoJump ELSE jb)
            /\ UNCHANGED <<errno, asked>>
  <2>1. /\ Sigreturn
        /\ jb' = IF jb.depth = Len(frames) THEN NoJump ELSE jb
        /\ UNCHANGED <<errno, asked>>
    BY <1>13
  <2>2. /\ frames # << >>
        /\ ctx' = frames[Len(frames)].ctx /\ blocked' = frames[Len(frames)].mask
        /\ frames' = SubSeq(frames, 1, Len(frames) - 1)
        /\ UNCHANGED <<status, pending, action, timer, wake, killer>>
    BY <2>1 DEF Sigreturn
  <2>3. /\ Len(frames) \in Nat /\ Len(frames) >= 1
        /\ frames[Len(frames)] \in Frame
        /\ frames' \in Seq(Frame) /\ Len(frames') = Len(frames) - 1
    <3>1. frames \in Seq(Frame)
      BY DEF Frame
    <3> QED BY <2>2, <3>1, TopFrame
  <2>6. JumpsToFrame' /\ jb' \in [depth : Nat \union {-1}, mask : Mask]
    <3>1. CASE jb.depth = Len(frames)
      BY <1>b, <2>1, <3>1 DEF JumpsToFrame, NoJump
    <3>2. CASE jb.depth # Len(frames)
      <4>1. jb' = jb
        BY <2>1, <3>2
      <4>2. jb = NoJump \/ jb.depth \in 0 .. Len(frames) - 1
        BY <2>3, <3>2 DEF JumpsToFrame
      <4> QED BY <2>3, <4>1, <4>2 DEF JumpsToFrame
    <3> QED BY <3>1, <3>2
  <2> QED BY <2>1, <2>2, <2>3, <2>6 DEF Frame
<1>14. ASSUME NEW prefix \in BOOLEAN, Perror(prefix) PROVE TypeInv'
  <2>1. errno' \in Nat
    BY <1>14, LibMiniAssumption DEF Perror, WriteErrno
  <2>2. ctx' \in Context
    <3>1. ctx' = [HandlerContext EXCEPT !.fn = "perror", !.ret = errno] /\ errno \in Int
      BY <1>14 DEF Perror
    <3> QED BY <1>a, <3>1 DEF Context
  <2>3. UNCHANGED <<status, blocked, pending, action, frames, timer, wake, killer, jb, asked>>
    BY <1>14 DEF Perror
  <2> QED BY <2>1, <2>2, <2>3, SameStack
<1>15. CASE Exit
  BY <1>15, SameStack DEF Exit
<1>17. CASE HandlerReturns
  BY <1>13, <1>16, <1>17 DEF HandlerReturns
<1> QED
  BY <1>1, <1>2, <1>3, <1>4, <1>5, <1>6, <1>8, <1>9, <1>10, <1>11, <1>12, <1>14, <1>15, <1>17
  DEF Program

LEMMA TypeInvNext == TypeInv /\ [Next]_vars => TypeInv'
<1> SUFFICES ASSUME TypeInv, [Next]_vars PROVE TypeInv'
  OBVIOUS
<1>1. CASE Environment /\ UNCHANGED libVars
  BY <1>1, KernelTypeInv
<1>2. CASE Library
  BY <1>2, LibraryTypeInv
<1>3. CASE Program
  BY <1>3, ProgramTypeInv
<1>4. CASE UNCHANGED vars
  BY <1>4 DEF vars, kernelVars, libVars, TypeInv, TypeOK, JumpsToFrame
<1> QED BY <1>1, <1>2, <1>3, <1>4 DEF Next

(* Every variable keeps its type; errno is never negative, and what a      *)
(* frame saves is a context that can be resumed.                           *)
THEOREM TypeCorrect == Spec => []TypeOK
<1>1. Spec => []TypeInv
  BY TypeInvInit, TypeInvNext, PTL DEF Spec
<1> QED BY <1>1, PTL DEF TypeInv

-----------------------------------------------------------------------------
(* Masks nest.  MasksNest relates neighbours on the stack; a longjmp cuts  *)
(* the stack anywhere and leaves the mask alone, so the invariant that is  *)
(* inductive relates every frame to every later one and to the mask.  A    *)
(* signal that cannot be blocked is never handled, so it is in no frame.   *)
Own(f) == IF "SA_NODEFER" \in f.flags THEN {} ELSE {f.sig}

Saved(f) == f.mask \union Own(f)

Nested(fr, m) ==
  /\ \A i \in 1 .. Len(fr) :
       /\ fr[i].sig \notin fr[i].mask
       /\ Saved(fr[i]) \intersect Forced = {}
       /\ Saved(fr[i]) \subseteq m
  /\ \A i, j \in 1 .. Len(fr) : i < j => Saved(fr[i]) \subseteq fr[j].mask

ForcedFree ==
  /\ blocked \intersect Forced = {}
  /\ \A s \in Sigs : action[s].mask \intersect Forced = {}
  /\ \A s \in Forced : action[s].handler = SIG_DFL

NestInv == ForcedFree /\ Nested(frames, blocked)

LEMMA NestedGrows ==
  ASSUME NEW fr, NEW m, NEW n, Nested(fr, m), m \subseteq n
  PROVE  Nested(fr, n)
BY DEF Nested

LEMMA NestedAppend ==
  ASSUME NEW fr \in Seq(Frame), NEW m, NEW n, Nested(fr, m), m \intersect Forced = {},
         NEW f \in Frame, f.mask = m, f.sig \notin m, f.sig \notin Forced,
         Saved(f) \subseteq n
  PROVE  Nested(Append(fr, f), n)
<1>0. m \subseteq n
  BY DEF Saved
<1> DEFINE new == Append(fr, f)
<1>1. /\ Len(fr) \in Nat /\ Len(new) = Len(fr) + 1
      /\ \A i \in 1 .. Len(fr) : new[i] = fr[i]
      /\ new[Len(fr) + 1] = f
  BY AppendFrame, LenProperties
<1> HIDE DEF new
<1>2. ASSUME NEW i \in 1 .. Len(new)
      PROVE  /\ new[i].sig \notin new[i].mask
             /\ Saved(new[i]) \intersect Forced = {}
             /\ Saved(new[i]) \subseteq n
  <2>1. CASE i \in 1 .. Len(fr)
    BY <1>0, <1>1, <2>1 DEF Nested
  <2>2. CASE i = Len(fr) + 1
    BY <1>1, <2>2 DEF Saved, Own
  <2> QED BY <1>1, <2>1, <2>2
<1>3. ASSUME NEW i \in 1 .. Len(new), NEW j \in 1 .. Len(new), i < j
      PROVE  Saved(new[i]) \subseteq new[j].mask
  <2>1. i \in 1 .. Len(fr) /\ new[i] = fr[i]
    BY <1>1, <1>3
  <2>2. CASE j \in 1 .. Len(fr)
    BY <1>1, <1>3, <2>1, <2>2 DEF Nested
  <2>3. CASE j = Len(fr) + 1
    BY <1>1, <2>1, <2>3 DEF Nested
  <2> QED BY <1>1, <2>2, <2>3
<1>4. Nested(new, n)
  BY <1>2, <1>3 DEF Nested
<1> QED BY <1>4 DEF new

LEMMA NestedCut ==
  ASSUME NEW fr \in Seq(Frame), NEW m, Nested(fr, m), NEW d \in 0 .. Len(fr)
  PROVE  Nested(SubSeq(fr, 1, d), m)
<1> DEFINE cut == SubSeq(fr, 1, d)
<1>1. /\ Len(fr) \in Nat /\ Len(cut) = d
      /\ \A i \in 1 .. d : cut[i] = fr[i]
  BY CutFrames, LenProperties
<1> HIDE DEF cut
<1>2. \A i \in 1 .. Len(cut) : i \in 1 .. Len(fr) /\ cut[i] = fr[i]
  BY <1>1
<1>3. Nested(cut, m)
  BY <1>2 DEF Nested
<1> QED BY <1>3 DEF cut

LEMMA NestedTop ==
  ASSUME NEW fr \in Seq(Frame), NEW m, Nested(fr, m), fr # << >>
  PROVE  Nested(SubSeq(fr, 1, Len(fr) - 1), fr[Len(fr)].mask)
<1> DEFINE cut == SubSeq(fr, 1, Len(fr) - 1)
<1>1. /\ Len(fr) \in Nat /\ Len(fr) >= 1 /\ Len(cut) = Len(fr) - 1
      /\ \A i \in 1 .. Len(fr) - 1 : cut[i] = fr[i]
  BY TopFrame
<1> HIDE DEF cut
<1>2. \A i \in 1 .. Len(cut) : i \in 1 .. Len(fr) /\ i < Len(fr) /\ cut[i] = fr[i]
  BY <1>1
<1>3. Len(fr) \in 1 .. Len(fr)
  BY <1>1
<1>4. \A i \in 1 .. Len(cut) : Saved(cut[i]) \subseteq fr[Len(fr)].mask
  BY <1>2, <1>3 DEF Nested
<1>5. Nested(cut, fr[Len(fr)].mask)
  BY <1>2, <1>4 DEF Nested
<1> QED BY <1>5 DEF cut

-----------------------------------------------------------------------------
LEMMA NestInit == Init => NestInv
<1> SUFFICES ASSUME Init PROVE NestInv
  OBVIOUS
<1>1. ForcedFree
  BY KernelAssumption DEF Init, KernelInit, ForcedFree
<1>2. Len(frames) = 0
  BY EmptySeq DEF Init, KernelInit
<1> QED BY <1>1, <1>2 DEF NestInv, Nested

(* Steps that keep stack and actions and only add to the mask.             *)
LEMMA MaskGrows ==
  ASSUME NestInv, frames' = frames, action' = action,
         blocked \subseteq blocked', blocked' \intersect Forced = {}
  PROVE  NestInv'
BY NestedGrows DEF NestInv, ForcedFree, Nested

LEMMA MaskSame ==
  ASSUME NestInv, UNCHANGED <<frames, action, blocked>>
  PROVE  NestInv'
BY DEF NestInv, ForcedFree, Nested

(* Delivery keeps SIGKILL out of masks and at its default action.          *)
LEMMA HandlerForced ==
  ASSUME TypeOK, ForcedFree, NEW s \in Sigs \ Forced, Handle(s)
  PROVE  ForcedFree'
<1>1. blocked' = blocked \union action[s].mask \union OwnSignal(s)
  BY DEF Handle
<1>2. blocked' \intersect Forced = {}
  BY <1>1 DEF ForcedFree, OwnSignal
<1>3. \A t \in Sigs : /\ action'[t].mask = action[t].mask
                     /\ action'[t].handler \in {action[t].handler, SIG_DFL}
  BY HandlerReset
<1> QED BY <1>2, <1>3, KernelAssumption DEF ForcedFree

LEMMA KernelNest ==
  ASSUME TypeInv, NestInv, Environment
  PROVE  NestInv'
<1>1. ASSUME NEW s \in Sigs, Post(s) PROVE NestInv'
  BY <1>1, MaskSame DEF Post
<1>2. ASSUME NEW s \in Sigs, Deliver(s) PROVE NestInv'
  <2>1. CASE Ignore(s) \/ Die(s) \/ NoFrame(s)
    BY <2>1, MaskSame DEF Ignore, Die, NoFrame
  <2>2. CASE Handle(s)
    <3>1. PICK r \in SecondsLeft :
            frames' = Append(frames, [sig |-> s, mask |-> blocked, flags |-> action[s].flags,
                                      ctx |-> [ctx EXCEPT !.rem = r]])
      BY <2>2 DEF Handle
    <3> DEFINE f == [sig |-> s, mask |-> blocked, flags |-> action[s].flags,
                     ctx |-> [ctx EXCEPT !.rem = r]]
    <3>2. f \in Frame
      <4>1. r \in Int
        BY KernelAssumption DEF SecondsLeft, TypeInv, TypeOK
      <4>2. ctx \in Context /\ blocked \in Mask
        BY DEF TypeInv, TypeOK
      <4>3. [ctx EXCEPT !.rem = r] \in Context
        BY <4>1, <4>2, ContextWith
      <4>4. action[s].flags \in SUBSET Flags
        BY DEF TypeInv, TypeOK, Action
      <4> QED BY <4>2, <4>3, <4>4 DEF Frame
    <3>3. s \notin Forced
      BY <2>2, KernelAssumption DEF Handle, NestInv, ForcedFree
    <3>4. s \notin blocked
      BY <1>2 DEF Deliver
    <3>5. /\ f.mask = blocked /\ f.sig = s /\ f.flags = action[s].flags
          /\ frames' = Append(frames, f)
      BY <3>1
    <3>6. blocked' = blocked \union action[s].mask \union OwnSignal(s)
      BY <2>2 DEF Handle
    <3>7. Nested(frames, blocked) /\ blocked \intersect Forced = {} /\ frames \in Seq(Frame)
      BY DEF NestInv, ForcedFree, TypeInv, TypeOK, Frame
    <3> HIDE DEF f
    <3>8. Nested(Append(frames, f), blocked')
      <4>1. f.sig \notin blocked /\ f.sig \notin Forced
        BY <3>3, <3>4, <3>5
      <4>2. Saved(f) \subseteq blocked'
        BY <3>5, <3>6 DEF Saved, Own, OwnSignal
      <4> QED BY <3>2, <3>5, <3>7, <4>1, <4>2, NestedAppend
    <3>9. ForcedFree'
      BY <2>2, <3>3, <3>6, HandlerForced DEF NestInv, TypeInv
    <3>10. Nested(frames', blocked')
      BY <3>5, <3>8
    <3> QED BY <3>9, <3>10 DEF NestInv, Nested
  <2> QED BY <1>2, <2>1, <2>2 DEF Deliver
<1>3. CASE Tick \/ SleepEnds
  <2>1. UNCHANGED <<frames, action, blocked>>
    BY <1>3 DEF Tick, SleepEnds
  <2> QED BY <2>1, MaskSame
<1> QED BY <1>1, <1>2, <1>3 DEF Environment, KernelNext

(* The sigaction of the kernel: SIGKILL keeps its default action, and no   *)
(* mask it stores holds it.                                                *)
LEMMA InstallNest ==
  ASSUME TypeInv, NestInv, UNCHANGED <<frames, blocked>>, NEW s, NEW h, NEW m, NEW fl,
         RtSigaction(s, [handler |-> h, mask |-> m, flags |-> fl])
  PROVE  NestInv'
<1>1. CASE Settable(s)
  <2>1. action' = [action EXCEPT ![s] = [handler |-> h, mask |-> m \ Forced, flags |-> fl]]
    BY <1>1 DEF RtSigaction
  <2>2. s \in Sigs \ Forced /\ DOMAIN action = Sigs
    BY <1>1 DEF Settable, TypeInv, TypeOK
  <2>3. ForcedFree'
    BY <2>1, <2>2, KernelAssumption DEF NestInv, ForcedFree
  <2> QED BY <2>3 DEF NestInv, Nested
<1>2. CASE ~Settable(s)
  BY <1>2, MaskSame DEF RtSigaction
<1> QED BY <1>1, <1>2

LEMMA LibraryNest ==
  ASSUME TypeInv, NestInv, Library
  PROVE  NestInv'
<1>1. CASE WrapReturns \/ SleepReturns \/ PerrorPrints
  <2>1. UNCHANGED <<frames, action, blocked>>
    BY <1>1 DEF WrapReturns, SleepReturns, PerrorPrints
  <2> QED BY <2>1, MaskSame
<1>2. CASE SigactionInstalls
  BY <1>2, InstallNest DEF SigactionInstalls
<1>3. CASE SignalInstalls
  BY <1>3, InstallNest DEF SignalInstalls
<1> QED BY <1>1, <1>2, <1>3 DEF Library

LEMMA ProgramNest ==
  ASSUME TypeInv, NestInv, Hows \subseteq {SIG_BLOCK}, Program
  PROVE  NestInv'
<1>0. blocked \intersect Forced = {}
  BY DEF NestInv, ForcedFree
<1>1. ASSUME NEW set
      PROVE  /\ blocked \subseteq MaskAfter(SIG_BLOCK, set, 8)
             /\ MaskAfter(SIG_BLOCK, set, 8) \intersect Forced = {}
  BY <1>0 DEF MaskAfter, SIG_BLOCK, SIG_UNBLOCK, SIG_SETMASK
<1>2. ASSUME NEW how, NEW set
      PROVE  MaskAfter(how, set, 32) = blocked
  BY DEF MaskAfter
<1>3. ASSUME NEW how \in Hows, NEW set \in Masks, SigProcMask(how, set) PROVE NestInv'
  <2>1. how = SIG_BLOCK
    OBVIOUS
  <2> QED BY <1>1, <1>3, <2>1, MaskGrows DEF SigProcMask
<1>4. ASSUME NEW fn, NEW s, NEW h, NEW set, NEW fl, SigactionBegins(fn, s, h, set, fl)
      PROVE  NestInv'
  BY <1>1, <1>4, MaskGrows DEF SigactionBegins, MaskExtended
<1>5. ASSUME NEW s \in SigArgs, NEW h \in HandlerArgs,
             Signal(s, h) \/ \E set \in Masks, fl \in FlagArgs : SigAction(s, h, set, fl)
      PROVE  NestInv'
  BY <1>4, <1>5 DEF Signal, SigAction
<1>6. CASE SetJmp
  BY <1>2, <1>6, MaskSame DEF SetJmp
<1>7. ASSUME NEW v \in JumpValues, LongJmp(v) PROVE NestInv'
  <2>1. /\ frames' = SubSeq(frames, 1, jb.depth) /\ jb # NoJump
        /\ action' = action /\ blocked' = blocked
    BY <1>2, <1>7 DEF LongJmp, FramesLeft
  <2>2. jb.depth \in 0 .. Len(frames) /\ frames \in Seq(Frame)
    BY <2>1 DEF TypeInv, TypeOK, JumpsToFrame, Frame
  <2>3. Nested(SubSeq(frames, 1, jb.depth), blocked)
    BY <2>2, NestedCut DEF NestInv
  <2>4. Nested(frames', blocked')
    BY <2>1, <2>3
  <2>5. ForcedFree'
    BY <2>1 DEF NestInv, ForcedFree
  <2> QED BY <2>4, <2>5 DEF NestInv, Nested
<1>12. CASE ReturnsAstray
  BY <1>12, MaskSame DEF ReturnsAstray
<1>8. CASE Sigreturn
  <2>1. /\ frames # << >>
        /\ blocked' = frames[Len(frames)].mask
        /\ frames' = SubSeq(frames, 1, Len(frames) - 1)
        /\ action' = action
    BY <1>8 DEF Sigreturn
  <2>2. frames \in Seq(Frame) /\ Nested(frames, blocked)
    BY DEF TypeInv, TypeOK, Frame, NestInv
  <2>3. Nested(frames', blocked')
    BY <2>1, <2>2, NestedTop
  <2>4. Len(frames) \in 1 .. Len(frames)
    BY <2>1, <2>2, TopFrame
  <2>5. blocked' \intersect Forced = {}
    BY <2>1, <2>2, <2>4 DEF Nested, Saved
  <2> QED BY <2>1, <2>3, <2>5 DEF NestInv, ForcedFree, Nested
<1>9. CASE SigPending \/ Pause \/ Exit
  <2>1. UNCHANGED <<frames, action, blocked>>
    BY <1>9 DEF SigPending, Pause, Exit
  <2> QED BY <2>1, MaskSame
<1>10. ASSUME NEW n, Alarm(n) \/ Sleep(n) \/ Syscall(n) \/ SigActionQuery(n) \/ Perror(n)
       PROVE  NestInv'
  <2>1. UNCHANGED <<frames, action, blocked>>
    BY <1>10 DEF Alarm, Sleep, Syscall, SigActionQuery, Perror
  <2> QED BY <2>1, MaskSame
<1>11. CASE \E e \in {0} \union Errors : Syscall(-e)
  <2>1. PICK e \in {0} \union Errors : Syscall(-e)
    BY <1>11
  <2> QED BY <2>1, <1>10
<1> QED
  BY <1>3, <1>5, <1>6, <1>7, <1>8, <1>9, <1>10, <1>11, <1>12 DEF Program, HandlerReturns

LEMMA NestAlways ==
  ASSUME Hows \subseteq {SIG_BLOCK}
  PROVE  Spec => [](TypeInv /\ NestInv)
<1>1. Init => TypeInv /\ NestInv
  BY TypeInvInit, NestInit
<1>2. TypeInv /\ NestInv /\ [Next]_vars => (TypeInv /\ NestInv)'
  <2> SUFFICES ASSUME TypeInv, NestInv, [Next]_vars PROVE TypeInv' /\ NestInv'
    OBVIOUS
  <2>1. TypeInv'
    BY TypeInvNext
  <2>2. CASE Environment
    BY <2>1, <2>2, KernelNest
  <2>3. CASE Library
    BY <2>1, <2>3, LibraryNest
  <2>4. CASE Program
    BY <2>1, <2>4, ProgramNest
  <2>5. CASE UNCHANGED vars
    BY <2>1, <2>5, MaskSame DEF vars, kernelVars
  <2> QED BY <2>1, <2>2, <2>3, <2>4, <2>5 DEF Next
<1> QED BY <1>1, <1>2, PTL DEF Spec

(* In a program that only blocks signals, each handler runs with all that  *)
(* the code it interrupted had blocked, and its own signal unless it was   *)
(* installed with SA_NODEFER.                                              *)
THEOREM HandlersKeepMasks ==
  ASSUME Hows \subseteq {SIG_BLOCK}
  PROVE  Spec => []MasksNest
<1>1. TypeInv /\ NestInv => MasksNest
  <2> SUFFICES ASSUME TypeInv, NestInv, NEW i \in DOMAIN frames
               PROVE  Saved(frames[i]) \subseteq MaskAt(i + 1)
    BY DEF MasksNest, Saved, Own
  <2>1. i \in 1 .. Len(frames) /\ Len(frames) \in Nat /\ DOMAIN frames = 1 .. Len(frames)
    BY LenProperties DEF TypeInv, TypeOK
  <2>2. CASE i + 1 \in DOMAIN frames
    BY <2>1, <2>2 DEF NestInv, Nested, MaskAt
  <2>3. CASE i + 1 \notin DOMAIN frames
    BY <2>1, <2>3 DEF NestInv, Nested, MaskAt
  <2> QED BY <2>2, <2>3
<1> QED BY <1>1, NestAlways, PTL

(* In such a program no handler installed without SA_NODEFER is entered    *)
(* again, directly or through other handlers, before it has returned or    *)
(* has been jumped out of.                                                 *)
THEOREM HandlersNotReentered ==
  ASSUME Hows \subseteq {SIG_BLOCK}
  PROVE  Spec => []NoReentry
<1>1. TypeInv /\ NestInv => NoReentry
  <2> SUFFICES ASSUME TypeInv, NestInv, NEW i \in DOMAIN frames, NEW j \in DOMAIN frames,
                      i < j, frames[i].sig = frames[j].sig, "SA_NODEFER" \notin frames[i].flags
               PROVE  FALSE
    BY DEF NoReentry
  <2>1. i \in 1 .. Len(frames) /\ j \in 1 .. Len(frames) /\ Len(frames) \in Nat
    BY LenProperties DEF TypeInv, TypeOK
  <2>2. frames[i].sig \in frames[j].mask
    BY <2>1 DEF NestInv, Nested, Saved, Own
  <2>3. frames[j].sig \notin frames[j].mask
    BY <2>1 DEF NestInv, Nested
  <2> QED BY <2>2, <2>3
<1> QED BY <1>1, NestAlways, PTL

-----------------------------------------------------------------------------
(* The library used with care.                                             *)
(* What a careful program keeps true.  No mask that is or will be in force *)
(* has SIGKILL, actions are known ones and handlers have a restorer, and a *)
(* sigaction in progress, here or under a handler, installs the mask it    *)
(* was asked for.                                                          *)
Known == Handlers \union {SIG_DFL, SIG_IGN}

KnownAction(a) == a.handler \in Known /\ (a.handler \in Handlers => "SA_RESTORER" \in a.flags)

InstallsAsAsked(c) ==
  c.fn \in {"sigaction", "signal"} =>
    c.kmask = c.set /\ c.handler \in Known /\ "SA_RESTORER" \in c.flags

FramesCareful(fr) ==
  \A i \in 1 .. Len(fr) :
    /\ fr[i].mask \intersect Forced = {}
    /\ InstallsAsAsked(fr[i].ctx)
    /\ "SA_RESTORER" \in fr[i].flags

CareInv ==
  /\ TypeInv
  /\ ForcedFree
  /\ \A s \in Sigs : KnownAction(action[s])
  /\ InstallsAsAsked(ctx)
  /\ FramesCareful(frames)

LEMMA FramesSeq ==
  ASSUME TypeInv
  PROVE  frames \in Seq(Frame) /\ Len(frames) \in Nat /\ DOMAIN frames = 1 .. Len(frames)
BY LenProperties DEF TypeInv, TypeOK, Frame

(* User code and the calls that are no sigaction ask for nothing.          *)
LEMMA OtherContext ==
  ASSUME NEW c, c.fn \notin {"sigaction", "signal"}
  PROVE  InstallsAsAsked(c) /\ Request(c) = Posix!NoRequest
BY DEF InstallsAsAsked, Request, Posix!NoRequest

LEMMA UserFn ==
  /\ HandlerContext.fn = "user"
  /\ \A ret : User(ret).fn = "user"
BY DEF HandlerContext, User

LEMMA WrapFn ==
  ASSUME NEW ret, Wrap(ret)
  PROVE  ctx'.fn = "wrap"
BY DEF Wrap, HandlerContext

LEMMA CareInit == Init => CareInv
<1> SUFFICES ASSUME Init PROVE CareInv
  OBVIOUS
<1>1. TypeInv /\ ForcedFree
  BY TypeInvInit, NestInit DEF NestInv
<1>2. InstallsAsAsked(ctx)
  BY UserFn, OtherContext DEF Init
<1>3. Len(frames) = 0
  BY EmptySeq DEF Init, KernelInit
<1>4. \A s \in Sigs : KnownAction(action[s])
  BY KernelAssumption DEF Init, KernelInit, Known, KnownAction
<1> QED BY <1>1, <1>2, <1>3, <1>4 DEF CareInv, FramesCareful

(* The masks that the system calls compute.                                *)
LEMMA MasksFree ==
  ASSUME ForcedFree, NEW how, NEW set, NEW size
  PROVE  MaskAfter(how, set, size) \intersect Forced = {}
BY DEF ForcedFree, MaskAfter

(* Steps that leave stack and actions alone.                               *)
LEMMA CareKept ==
  ASSUME CareInv, TypeInv', UNCHANGED <<frames, action>>,
         blocked' \intersect Forced = {}, InstallsAsAsked(ctx')
  PROVE  CareInv'
<1>1. ForcedFree'
  BY DEF CareInv, ForcedFree
<1>2. InstallsAsAsked(ctx)' /\ FramesCareful(frames)'
  BY DEF CareInv, FramesCareful, InstallsAsAsked
<1>3. \A s \in Sigs : KnownAction(action[s])'
  BY DEF CareInv
<1> QED BY <1>1, <1>2, <1>3 DEF CareInv

LEMMA CareMask == CareInv => blocked \intersect Forced = {}
BY DEF CareInv, ForcedFree

LEMMA CareKernel ==
  ASSUME CareInv, TypeInv', Environment
  PROVE  CareInv'
<1>1. ASSUME UNCHANGED <<frames, action, blocked, ctx>> PROVE CareInv'
  BY <1>1, CareKept, CareMask DEF CareInv
<1>2. ASSUME NEW s \in Sigs, Post(s) PROVE CareInv'
  BY <1>1, <1>2 DEF Post
<1>3. CASE Tick
  BY <1>1, <1>3 DEF Tick
<1>4. CASE SleepEnds
  <2>1. UNCHANGED <<frames, action, blocked>> /\ ctx' = [ctx EXCEPT !.ret = 0]
    BY <1>4 DEF SleepEnds
  <2>2. ctx \in Context /\ InstallsAsAsked(ctx)
    BY DEF CareInv, TypeInv, TypeOK
  <2>3. InstallsAsAsked(ctx')
    BY <2>1, <2>2 DEF Context, InstallsAsAsked
  <2> QED BY <2>1, <2>3, CareKept, CareMask
<1>5. ASSUME NEW s \in Sigs, Deliver(s) PROVE CareInv'
  <2>0. TypeOK
    BY DEF CareInv, TypeInv
  <2>1. CASE Ignore(s) \/ Die(s) \/ NoFrame(s)
    <3>1. UNCHANGED <<frames, action, blocked, ctx>>
      BY <2>1 DEF Ignore, Die, NoFrame
    <3> QED BY <1>1, <3>1
  <2>2. CASE Handle(s)
    <3>1. PICK r \in SecondsLeft :
            frames' = Append(frames, [sig |-> s, mask |-> blocked, flags |-> action[s].flags,
                                      ctx |-> [ctx EXCEPT !.rem = r]])
      BY <2>2 DEF Handle
    <3> DEFINE f == [sig |-> s, mask |-> blocked, flags |-> action[s].flags,
                     ctx |-> [ctx EXCEPT !.rem = r]]
    <3>2. /\ f \in Frame /\ InstallsAsAsked(f.ctx) /\ f.mask \intersect Forced = {}
          /\ "SA_RESTORER" \in f.flags
      <4>1. r \in Int
        BY KernelAssumption DEF SecondsLeft, CareInv, TypeInv, TypeOK
      <4>2. ctx \in Context /\ blocked \in Mask /\ InstallsAsAsked(ctx)
        BY DEF CareInv, TypeInv, TypeOK
      <4>3. [ctx EXCEPT !.rem = r] \in Context
        BY <4>1, <4>2, ContextWith
      <4>4. InstallsAsAsked([ctx EXCEPT !.rem = r])
        BY <4>2 DEF InstallsAsAsked, Context
      <4>5. action[s].flags \in SUBSET Flags
        BY <2>0 DEF TypeOK, Action
      <4>6. "SA_RESTORER" \in action[s].flags
        BY <2>2 DEF Handle, CareInv, KnownAction
      <4> QED BY <4>2, <4>3, <4>4, <4>5, <4>6, CareMask DEF Frame
    <3>3. frames' = Append(frames, f)
      BY <3>1
    <3> HIDE DEF f
    <3>4. /\ Len(frames) \in Nat /\ Len(frames') = Len(frames) + 1
          /\ \A i \in 1 .. Len(frames) : frames'[i] = frames[i]
          /\ frames'[Len(frames) + 1] = f
      <4>1. frames \in Seq(Frame) /\ Len(frames) \in Nat
        BY FramesSeq DEF CareInv
      <4> QED BY <3>2, <3>3, <4>1, AppendFrame
    <3>5. ASSUME NEW i \in 1 .. Len(frames')
          PROVE  /\ frames'[i].mask \intersect Forced = {}
                 /\ InstallsAsAsked(frames'[i].ctx)
                 /\ "SA_RESTORER" \in frames'[i].flags
      <4>1. CASE i \in 1 .. Len(frames)
        BY <3>4, <4>1 DEF CareInv, FramesCareful
      <4>2. CASE i = Len(frames) + 1
        BY <3>2, <3>4, <4>2
      <4> QED BY <3>4, <4>1, <4>2
    <3>6. s \notin Forced
      BY <2>2, KernelAssumption DEF Handle, CareInv, ForcedFree
    <3>7. ForcedFree'
      BY <2>0, <2>2, <3>6, HandlerForced DEF CareInv
    <3>8. InstallsAsAsked(ctx')
      BY <2>2, UserFn, OtherContext DEF Handle
    <3>9. ASSUME NEW q \in Sigs PROVE KnownAction(action[q])'
      <4>1. /\ action'[q].flags = action[q].flags
            /\ action'[q].handler \in {action[q].handler, SIG_DFL}
        BY <2>0, <2>2, HandlerReset
      <4> QED BY <4>1, KernelAssumption DEF CareInv, KnownAction, Known
    <3>10. FramesCareful(frames)'
      BY <3>5 DEF FramesCareful, InstallsAsAsked
    <3> QED BY <3>7, <3>8, <3>9, <3>10 DEF CareInv, InstallsAsAsked
  <2> QED BY <1>5, <2>1, <2>2 DEF Deliver
<1> QED BY <1>2, <1>3, <1>4, <1>5 DEF Environment, KernelNext

LEMMA CareInstall ==
  ASSUME CareInv, TypeInv', UNCHANGED <<frames, blocked>>, InstallsAsAsked(ctx'),
         NEW s, NEW h \in Known, NEW m, NEW fl, "SA_RESTORER" \in fl,
         RtSigaction(s, [handler |-> h, mask |-> m, flags |-> fl])
  PROVE  CareInv'
<1>1. CASE Settable(s)
  <2>1. action' = [action EXCEPT ![s] = [handler |-> h, mask |-> m \ Forced, flags |-> fl]]
    BY <1>1 DEF RtSigaction
  <2>2. s \in Sigs \ Forced /\ DOMAIN action = Sigs
    BY <1>1 DEF Settable, CareInv, TypeInv, TypeOK
  <2>3. ForcedFree'
    BY <2>1, <2>2, KernelAssumption DEF CareInv, ForcedFree
  <2>4. \A q \in Sigs : KnownAction(action[q])'
    BY <2>1, <2>2 DEF CareInv, KnownAction
  <2>5. FramesCareful(frames)' /\ InstallsAsAsked(ctx)'
    BY DEF CareInv, FramesCareful, InstallsAsAsked
  <2> QED BY <2>3, <2>4, <2>5 DEF CareInv
<1>2. CASE ~Settable(s)
  BY <1>2, CareKept, CareMask DEF RtSigaction
<1> QED BY <1>1, <1>2

LEMMA CareLibrary ==
  ASSUME CareInv, TypeInv', Library
  PROVE  CareInv'
<1>1. CASE WrapReturns \/ SleepReturns \/ PerrorPrints
  <2>1. UNCHANGED <<frames, action, blocked>>
    BY <1>1 DEF WrapReturns, SleepReturns, PerrorPrints
  <2>2. ctx'.fn = "user"
    BY <1>1, UserFn DEF WrapReturns, SleepReturns, PerrorPrints, CareInv, TypeInv, TypeOK, Context
  <2> QED BY <2>1, <2>2, OtherContext, CareKept, CareMask
<1>2. CASE SigactionInstalls
  <2>1. ctx'.fn = "wrap"
    BY <1>2, WrapFn DEF SigactionInstalls
  <2>2. ctx.handler \in Known /\ "SA_RESTORER" \in ctx.flags
    BY <1>2 DEF SigactionInstalls, At, CareInv, InstallsAsAsked
  <2>3. /\ RtSigaction(ctx.sig, [handler |-> ctx.handler, mask |-> ctx.kmask, flags |-> ctx.flags])
        /\ UNCHANGED <<frames, blocked>>
    BY <1>2 DEF SigactionInstalls
  <2> QED BY <2>1, <2>2, <2>3, OtherContext, CareInstall
<1>3. CASE SignalInstalls
  <2>1. ctx'.fn = "user"
    BY <1>3, UserFn DEF SignalInstalls
  <2>2. ctx.handler \in Known /\ "SA_RESTORER" \in ctx.flags
    BY <1>3 DEF SignalInstalls, At, CareInv, InstallsAsAsked
  <2>3. /\ RtSigaction(ctx.sig, [handler |-> ctx.handler, mask |-> ctx.kmask, flags |-> ctx.flags])
        /\ UNCHANGED <<frames, blocked>>
    BY <1>3 DEF SignalInstalls
  <2> QED BY <2>1, <2>2, <2>3, OtherContext, CareInstall
<1> QED BY <1>1, <1>2, <1>3 DEF Library

(* What a sigaction that is careful begins with: the mask of its caller.   *)
LEMMA Begins ==
  ASSUME CareInv, AsksForItsMask, NEW fn \in {"sigaction", "signal"}, NEW s, NEW h, NEW set,
         NEW fl, Call(fn), SigactionBegins(fn, s, h, set, fl)
  PROVE  /\ set = blocked /\ blocked' = blocked /\ ctx.fn = "user"
         /\ ctx'.fn = fn /\ ctx'.sig = s /\ ctx'.handler = h /\ ctx'.set = blocked
         /\ ctx'.kmask = blocked /\ ctx'.flags = fl \union {"SA_RESTORER"}
<1>1. /\ blocked' = MaskExtended(set) /\ frames' = frames
      /\ ctx' = [HandlerContext EXCEPT !.fn = fn, !.sig = s, !.handler = h, !.set = set,
                                       !.kmask = HandlerMask,
                                       !.flags = fl \union {"SA_RESTORER"}]
  BY DEF SigactionBegins
<1>2. /\ ctx'.fn = fn /\ ctx'.sig = s /\ ctx'.handler = h /\ ctx'.set = set
      /\ ctx'.kmask = blocked /\ ctx'.flags = fl \union {"SA_RESTORER"}
  BY <1>1 DEF HandlerContext, HandlerMask
<1>3. ctx.fn = "user"
  BY DEF Call
<1>4. set = blocked
  BY <1>1, <1>2, <1>3 DEF AsksForItsMask
<1>5. blocked' = blocked
  <2>1. MaskExtended(set) = (blocked \union set) \ Forced
    BY DEF MaskExtended, MaskAfter, SIG_BLOCK, SIG_UNBLOCK, SIG_SETMASK
  <2> QED BY <1>1, <1>4, <2>1, CareMask
<1> QED BY <1>2, <1>3, <1>4, <1>5

(* A careful program's handlers all have a restorer to return through.     *)
LEMMA NeverAstray == CareInv => ~ReturnsAstray
<1> SUFFICES ASSUME CareInv, frames # << >>
             PROVE  "SA_RESTORER" \in frames[Len(frames)].flags
  BY DEF ReturnsAstray
<1>1. frames \in Seq(Frame)
  BY FramesSeq DEF CareInv
<1>2. Len(frames) \in 1 .. Len(frames)
  BY <1>1, TopFrame
<1> QED BY <1>2 DEF CareInv, FramesCareful

LEMMA CareProgram ==
  ASSUME CareInv, TypeInv', Program, Careful, HandlerArgs \subseteq Known
  PROVE  CareInv'
<1>1. ASSUME UNCHANGED <<frames, action>>, blocked' \intersect Forced = {},
             ctx'.fn \notin {"sigaction", "signal"}
      PROVE  CareInv'
  BY <1>1, OtherContext, CareKept
<1>2. ASSUME NEW n, Syscall(n) \/ Alarm(n) \/ Sleep(n) \/ Perror(n) PROVE CareInv'
  <2>1. UNCHANGED <<frames, action, blocked>>
    BY <1>2 DEF Syscall, Alarm, Sleep, Perror
  <2>2. ctx'.fn \in {"wrap", "sleep", "perror"}
    BY <1>2, WrapFn DEF Syscall, Alarm, Sleep, Perror, HandlerContext
  <2> QED BY <1>1, <2>1, <2>2, CareMask
<1>3. CASE SigPending \/ Pause
  <2>1. UNCHANGED <<frames, action, blocked>>
    BY <1>3 DEF SigPending, Pause
  <2>2. ctx'.fn = "wrap"
    BY <1>3, WrapFn DEF SigPending, Pause, HandlerContext
  <2> QED BY <1>1, <2>1, <2>2, CareMask
<1>4. ASSUME NEW how, NEW set, SigProcMask(how, set) PROVE CareInv'
  <2>1. UNCHANGED <<frames, action>> /\ ctx'.fn = "wrap" /\ blocked' = MaskAfter(how, set, 8)
    BY <1>4, WrapFn DEF SigProcMask
  <2>2. blocked' \intersect Forced = {}
    BY <2>1, MasksFree DEF CareInv
  <2> QED BY <1>1, <2>1, <2>2
<1>5. ASSUME NEW fn \in {"sigaction", "signal"}, NEW s, NEW h \in HandlerArgs, NEW set,
             NEW fl, Call(fn), SigactionBegins(fn, s, h, set, fl)
      PROVE  CareInv'
  <2>1. /\ blocked' = blocked /\ ctx'.kmask = ctx'.set /\ ctx'.handler \in Known
        /\ "SA_RESTORER" \in ctx'.flags
    BY <1>5, Begins DEF Careful
  <2>2. UNCHANGED <<frames, action>>
    BY <1>5 DEF SigactionBegins
  <2> QED BY <2>1, <2>2, CareKept, CareMask DEF InstallsAsAsked
<1>6. ASSUME NEW s \in SigArgs, NEW h \in HandlerArgs,
             Signal(s, h) \/ \E set \in Masks, fl \in FlagArgs : SigAction(s, h, set, fl)
      PROVE  CareInv'
  BY <1>5, <1>6 DEF Signal, SigAction
<1>7. CASE \E s \in SigArgs : SigActionQuery(s)
  BY <1>7 DEF Careful, NeverQueries
<1>8. CASE SetJmp
  <2>1. UNCHANGED <<frames, action>> /\ blocked' = MaskAfter(SIG_BLOCK, {}, 32) /\ ctx'.fn = "user"
    BY <1>8, UserFn DEF SetJmp
  <2> QED BY <1>1, <2>1, MasksFree DEF CareInv
<1>9. ASSUME NEW v \in JumpValues, LongJmp(v) PROVE CareInv'
  <2>1. /\ frames' = SubSeq(frames, 1, jb.depth) /\ jb # NoJump /\ action' = action
        /\ blocked' = MaskAfter(SIG_UNBLOCK, jb.mask, 32) /\ ctx'.fn = "user"
    BY <1>9, UserFn DEF LongJmp, FramesLeft
  <2>2. jb.depth \in 0 .. Len(frames) /\ frames \in Seq(Frame) /\ Len(frames) \in Nat
    BY <2>1, FramesSeq DEF CareInv, TypeInv, JumpsToFrame
  <2>3. Len(frames') = jb.depth /\ \A i \in 1 .. jb.depth : frames'[i] = frames[i]
    BY <2>1, <2>2, CutFrames
  <2>4. FramesCareful(frames')
    BY <2>2, <2>3 DEF CareInv, FramesCareful
  <2>5. blocked' \intersect Forced = {}
    BY <2>1, MasksFree DEF CareInv
  <2>6. ForcedFree' /\ \A s \in Sigs : KnownAction(action'[s])
    BY <2>1, <2>5 DEF CareInv, ForcedFree
  <2>7. InstallsAsAsked(ctx') 
    BY <2>1, OtherContext
  <2> QED BY <2>4, <2>6, <2>7 DEF CareInv, FramesCareful, InstallsAsAsked, KnownAction
<1>18. CASE ReturnsAstray
  BY <1>18, NeverAstray
<1>10. CASE Sigreturn
  <2>1. /\ frames # << >> /\ action' = action
        /\ ctx' = frames[Len(frames)].ctx /\ blocked' = frames[Len(frames)].mask
        /\ frames' = SubSeq(frames, 1, Len(frames) - 1)
    BY <1>10 DEF Sigreturn
  <2>2. frames \in Seq(Frame) /\ Len(frames) \in Nat
    BY FramesSeq DEF CareInv
  <2>3. /\ Len(frames) >= 1 /\ Len(frames') = Len(frames) - 1
        /\ \A i \in 1 .. Len(frames) - 1 : frames'[i] = frames[i]
    BY <2>1, <2>2, TopFrame
  <2>4. FramesCareful(frames')
    BY <2>2, <2>3 DEF CareInv, FramesCareful
  <2>5. blocked' \intersect Forced = {} /\ InstallsAsAsked(ctx')
    BY <2>1, <2>2, <2>3 DEF CareInv, FramesCareful
  <2>6. ForcedFree' /\ \A s \in Sigs : KnownAction(action'[s])
    BY <2>1, <2>5 DEF CareInv, ForcedFree
  <2> QED BY <2>4, <2>5, <2>6 DEF CareInv, FramesCareful, InstallsAsAsked, KnownAction
<1>11. CASE Exit
  <2>1. UNCHANGED <<frames, action, blocked, ctx>>
    BY <1>11 DEF Exit
  <2> QED BY <2>1, CareKept, CareMask DEF CareInv
<1>12. CASE \E e \in {0} \union Errors : Syscall(-e)
  BY <1>2, <1>12
<1>13. CASE \E n \in 0 .. Seconds : Alarm(n) \/ Sleep(n)
  BY <1>2, <1>13
<1>14. CASE \E how \in Hows, set \in Masks : SigProcMask(how, set)
  BY <1>4, <1>14
<1>15. CASE \E prefix \in BOOLEAN : Perror(prefix)
  BY <1>2, <1>15
<1>16. CASE \E s \in SigArgs, h \in HandlerArgs :
              Signal(s, h) \/ \E set \in Masks, fl \in FlagArgs : SigAction(s, h, set, fl)
  BY <1>6, <1>16
<1>17. CASE \E v \in JumpValues : LongJmp(v)
  BY <1>9, <1>17
<1> QED
  BY <1>3, <1>7, <1>8, <1>10, <1>11, <1>12, <1>13, <1>14, <1>15, <1>16, <1>17, <1>18
  DEF Program, HandlerReturns

LEMMA CareAlways ==
  ASSUME HandlerArgs \subseteq Known
  PROVE  CarefulSpec => []CareInv
<1>1. CareInv /\ [Next /\ Careful]_vars => CareInv'
  <2> SUFFICES ASSUME CareInv, [Next /\ Careful]_vars PROVE CareInv'
    OBVIOUS
  <2>1. TypeInv'
    BY TypeInvNext DEF CareInv
  <2>2. CASE UNCHANGED vars
    <3>1. UNCHANGED <<frames, action, blocked, ctx>>
      BY <2>2 DEF vars, kernelVars
    <3> QED BY <2>1, <3>1, CareKept, CareMask DEF CareInv
  <2> QED BY <2>1, <2>2, CareKernel, CareLibrary, CareProgram DEF Next
<1> QED BY <1>1, CareInit, PTL DEF CarefulSpec

-----------------------------------------------------------------------------
(* The stack of PosixSignals follows the frames.                           *)
Asked == [sig : Nat, handler : Int, mask : Mask, flags : SUBSET Flags]

Entry == [sig : Sigs, mask : Mask, request : Asked]

LEMMA SavesType ==
  ASSUME NEW f \in Frame
  PROVE  Saves(f) \in Entry
<1>1. f.sig \in Sigs /\ f.mask \in Mask /\ f.ctx \in Context
  BY DEF Frame
<1>2. Request(f.ctx) \in Asked
  BY <1>1 DEF Asked, Request, Context, Mask, SIG_DFL
<1> QED BY <1>1, <1>2 DEF Saves, Entry

LEMMA SameInterval ==
  ASSUME NEW a \in Nat, NEW b \in Nat, 1 .. a = 1 .. b
  PROVE  a = b
<1>1. CASE a < b
  <2>1. b \in 1 .. b /\ b \notin 1 .. a
    BY <1>1
  <2> QED BY <2>1
<1>2. CASE b < a
  <2>1. a \in 1 .. a /\ a \notin 1 .. b
    BY <1>2
  <2> QED BY <2>1
<1> QED BY <1>1, <1>2

LEMMA StackIs ==
  ASSUME NEW fr \in Seq(Frame)
  PROVE  /\ StackOf(fr) \in Seq(Entry)
         /\ Len(StackOf(fr)) = Len(fr) /\ Len(fr) \in Nat
         /\ \A i \in 1 .. Len(fr) : StackOf(fr)[i] = Saves(fr[i])
<1>1. Len(fr) \in Nat /\ DOMAIN fr = 1 .. Len(fr) /\ \A i \in 1 .. Len(fr) : fr[i] \in Frame
  BY LenProperties, ElementOfSeq
<1>2. StackOf(fr) = [i \in 1 .. Len(fr) |-> Saves(fr[i])]
  BY <1>1 DEF StackOf
<1>3. StackOf(fr) \in [1 .. Len(fr) -> Entry]
  BY <1>1, <1>2, SavesType
<1>4. StackOf(fr) \in Seq(Entry)
  BY <1>1, <1>3, SeqDef
<1>5. Len(StackOf(fr)) \in Nat /\ DOMAIN StackOf(fr) = 1 .. Len(StackOf(fr)) /\ DOMAIN StackOf(fr) = 1 .. Len(fr)
  BY <1>2, <1>4, LenProperties
<1>6. Len(StackOf(fr)) = Len(fr)
  BY <1>1, <1>5, SameInterval
<1> QED BY <1>1, <1>2, <1>4, <1>6

LEMMA StackAppend ==
  ASSUME NEW fr \in Seq(Frame), NEW f \in Frame
  PROVE  StackOf(Append(fr, f)) = Append(StackOf(fr), Saves(f))
<1> DEFINE new == Append(fr, f)
           a   == StackOf(new)
           b   == Append(StackOf(fr), Saves(f))
<1>1. /\ new \in Seq(Frame) /\ Len(new) = Len(fr) + 1 /\ Len(fr) \in Nat
      /\ \A i \in 1 .. Len(fr) : new[i] = fr[i]
      /\ new[Len(fr) + 1] = f
  BY AppendFrame, LenProperties
<1>2. /\ StackOf(fr) \in Seq(Entry) /\ Len(StackOf(fr)) = Len(fr)
      /\ \A i \in 1 .. Len(fr) : StackOf(fr)[i] = Saves(fr[i])
  BY StackIs
<1> HIDE DEF new
<1>3. /\ a \in Seq(Entry) /\ Len(a) = Len(fr) + 1
      /\ \A i \in 1 .. Len(fr) + 1 : a[i] = Saves(new[i])
  BY <1>1, StackIs
<1>4. /\ b \in Seq(Entry) /\ Len(b) = Len(fr) + 1
      /\ \A i \in 1 .. Len(fr) : b[i] = StackOf(fr)[i]
      /\ b[Len(fr) + 1] = Saves(f)
  BY <1>2, SavesType, AppendFrame
<1> HIDE DEF a, b
<1>5. \A i \in 1 .. Len(a) : a[i] = b[i]
  <2> SUFFICES ASSUME NEW i \in 1 .. Len(a) PROVE a[i] = b[i]
    OBVIOUS
  <2>1. CASE i \in 1 .. Len(fr)
    BY <1>1, <1>2, <1>3, <1>4, <2>1
  <2>2. CASE i = Len(fr) + 1
    BY <1>1, <1>3, <1>4, <2>2
  <2> QED BY <1>1, <1>3, <2>1, <2>2
<1>6. a = b
  BY <1>3, <1>4, <1>5, SeqEqual
<1> QED BY <1>6 DEF a, b, new

LEMMA StackCut ==
  ASSUME NEW fr \in Seq(Frame), NEW d \in 0 .. Len(fr)
  PROVE  StackOf(SubSeq(fr, 1, d)) = SubSeq(StackOf(fr), 1, d)
<1> DEFINE new == SubSeq(fr, 1, d)
           a   == StackOf(new)
           b   == SubSeq(StackOf(fr), 1, d)
<1>1. /\ new \in Seq(Frame) /\ Len(new) = d /\ d \in Nat /\ Len(fr) \in Nat
      /\ \A i \in 1 .. d : new[i] = fr[i]
  BY CutFrames, LenProperties
<1>2. /\ StackOf(fr) \in Seq(Entry) /\ Len(StackOf(fr)) = Len(fr)
      /\ \A i \in 1 .. Len(fr) : StackOf(fr)[i] = Saves(fr[i])
  BY StackIs
<1> HIDE DEF new
<1>3. a \in Seq(Entry) /\ Len(a) = d /\ \A i \in 1 .. d : a[i] = Saves(new[i])
  BY <1>1, StackIs
<1>4. b \in Seq(Entry) /\ Len(b) = d /\ \A i \in 1 .. d : b[i] = StackOf(fr)[i]
  BY <1>2, CutFrames
<1> HIDE DEF a, b
<1>5. \A i \in 1 .. Len(a) : a[i] = b[i]
  BY <1>1, <1>2, <1>3, <1>4
<1>6. a = b
  BY <1>3, <1>4, <1>5, SeqEqual
<1> QED BY <1>6 DEF a, b, new

-----------------------------------------------------------------------------
(* Steps that PosixSignals does not see.                                   *)
LEMMA Stutters ==
  ASSUME UNCHANGED <<blocked, pending, action, frames, jb, asked>>,
         phaseBar' = phaseBar, requestBar' = requestBar
  PROVE  UNCHANGED Posix!vars
<1>1. stackBar' = stackBar /\ envBar' = envBar
  BY DEF stackBar, envBar
<1> QED BY <1>1 DEF Posix!vars

LEMMA NotAsking ==
  /\ ctx.fn \notin {"sigaction", "signal"} => requestBar = Posix!NoRequest
  /\ ctx'.fn \notin {"sigaction", "signal"} => requestBar' = Posix!NoRequest
BY DEF requestBar, Request, Posix!NoRequest

LEMMA AliveIs ==
  /\ Alive => phaseBar = "alive"
  /\ Running => Alive
  /\ status' = status => phaseBar' = phaseBar
  /\ status' \in {"running", "pausing", "sleeping"} => phaseBar' = "alive"
BY DEF phaseBar, Alive, Running

LEMMA SimulateInit == Init => Posix!Init
<1> SUFFICES ASSUME Init PROVE Posix!Init
  OBVIOUS
<1>1. phaseBar = "alive" /\ requestBar = Posix!NoRequest
  BY UserFn, NotAsking DEF Init, KernelInit, phaseBar, Alive
<1>2. envBar = Posix!NoEnv
  BY DEF Init, NoJump, envBar, Posix!NoEnv
<1>3. stackBar = << >>
  BY EmptySeq, StackIs DEF Init, KernelInit, stackBar
<1> QED BY <1>1, <1>2, <1>3 DEF Init, KernelInit, Posix!Init

LEMMA SimulatePost ==
  ASSUME NEW s \in Sigs, Alive, pending' \in {pending, pending \union {s}},
         UNCHANGED <<status, blocked, action, frames, jb, asked>>, requestBar' = requestBar
  PROVE  Posix!Next \/ UNCHANGED Posix!vars
<1>1. phaseBar = "alive" /\ phaseBar' = phaseBar
  BY AliveIs
<1>2. stackBar' = stackBar /\ envBar' = envBar
  BY DEF stackBar, envBar
<1>3. CASE pending' = pending
  BY <1>1, <1>3, Stutters
<1>4. CASE pending' = pending \union {s}
  <2>1. Posix!Post(s)
    BY <1>1, <1>2, <1>4 DEF Posix!Post
  <2> QED BY <2>1 DEF Posix!Next
<1> QED BY <1>3, <1>4

LEMMA SimulateDeliver ==
  ASSUME CareInv, NEW s \in Sigs, Deliver(s), UNCHANGED libVars
  PROVE  Posix!Next
<1>0. /\ phaseBar = "alive" /\ s \in pending \ blocked /\ pending' = pending \ {s}
      /\ jb' = jb /\ asked' = asked
  BY AliveIs DEF Deliver, libVars
<1>1. envBar' = envBar
  BY <1>0 DEF envBar
<1>2. CASE Ignore(s)
  <2>1. UNCHANGED <<status, blocked, action, frames, ctx>> /\ action[s].handler = SIG_IGN
    BY <1>2 DEF Ignore
  <2>2. phaseBar' = phaseBar /\ stackBar' = stackBar /\ requestBar' = requestBar
    BY <2>1, AliveIs DEF stackBar, requestBar
  <2>3. Posix!Drop(s)
    BY <1>0, <1>1, <2>1, <2>2 DEF Posix!Drop
  <2> QED BY <2>3 DEF Posix!Next
<1>3. CASE Die(s)
  <2>1. /\ UNCHANGED <<blocked, action, frames, ctx>> /\ status' = "killed"
        /\ action[s].handler = SIG_DFL
    BY <1>3 DEF Die, CareInv, Known, KnownAction
  <2>2. phaseBar' = "killed" /\ stackBar' = stackBar /\ requestBar' = requestBar
    BY <2>1 DEF stackBar, requestBar, phaseBar, Alive
  <2>3. Posix!Kill(s)
    BY <1>0, <1>1, <2>1, <2>2 DEF Posix!Kill
  <2> QED BY <2>3 DEF Posix!Next
<1>5. CASE NoFrame(s)
  BY <1>5 DEF NoFrame, CareInv, KnownAction
<1>4. CASE Handle(s)
  <2>1. PICK r \in SecondsLeft :
          frames' = Append(frames, [sig |-> s, mask |-> blocked, flags |-> action[s].flags,
                                    ctx |-> [ctx EXCEPT !.rem = r]])
    BY <1>4 DEF Handle
  <2> DEFINE f == [sig |-> s, mask |-> blocked, flags |-> action[s].flags,
                   ctx |-> [ctx EXCEPT !.rem = r]]
  <2>2. f \in Frame /\ Saves(f) = [sig |-> s, mask |-> blocked, request |-> requestBar]
    <3>1. r \in Int
      BY KernelAssumption DEF SecondsLeft, CareInv, TypeInv, TypeOK
    <3>2. ctx \in Context /\ blocked \in Mask
      BY DEF CareInv, TypeInv, TypeOK
    <3>3. [ctx EXCEPT !.rem = r] \in Context
      BY <3>1, <3>2, ContextWith
    <3>4. Request([ctx EXCEPT !.rem = r]) = requestBar
      BY <3>2 DEF Request, requestBar, Context
    <3>5. action[s].flags \in SUBSET Flags
      BY DEF CareInv, TypeInv, TypeOK, Action
    <3> QED BY <3>2, <3>3, <3>4, <3>5 DEF Frame, Saves
  <2>3. frames' = Append(frames, f)
    BY <2>1
  <2> HIDE DEF f
  <2>4. stackBar' = Append(stackBar, [sig |-> s, mask |-> blocked, request |-> requestBar])
    <3>1. frames \in Seq(Frame)
      BY FramesSeq DEF CareInv
    <3>2. stackBar' = StackOf(frames')
      BY DEF stackBar
    <3> QED BY <2>2, <2>3, <3>1, <3>2, StackAppend DEF stackBar
  <2>5. requestBar' = Posix!NoRequest
    BY <1>4, UserFn, NotAsking DEF Handle
  <2>6. /\ phaseBar' = phaseBar /\ action[s].handler \in Handlers
        /\ blocked' = blocked \union action[s].mask \union Posix!OwnSignal(s)
        /\ action' = Posix!AfterDelivery(s)
    BY <1>0, <1>4, AliveIs DEF Handle, OwnSignal, Posix!OwnSignal, Posix!AfterDelivery
  <2>7. Posix!Handle(s)
    BY <1>0, <1>1, <2>4, <2>5, <2>6 DEF Posix!Handle
  <2> QED BY <2>7 DEF Posix!Next
<1> QED BY <1>2, <1>3, <1>4, <1>5 DEF Deliver

LEMMA SimulateKernel ==
  ASSUME CareInv, Environment, UNCHANGED libVars
  PROVE  Posix!Next \/ UNCHANGED Posix!vars
<1>0. jb' = jb /\ asked' = asked
  BY DEF libVars
<1>1. ASSUME NEW s \in Sigs, Post(s) PROVE Posix!Next \/ UNCHANGED Posix!vars
  <2>1. /\ Alive /\ pending' \in {pending, pending \union {s}}
        /\ UNCHANGED <<status, blocked, action, frames, ctx>>
    BY <1>1 DEF Post, PendingWith
  <2>2. requestBar' = requestBar
    BY <2>1 DEF requestBar
  <2> QED BY <1>0, <2>1, <2>2, SimulatePost
<1>2. CASE Tick
  <2>1. /\ Alive /\ pending' \in {pending, pending \union {SIGALRM}}
        /\ UNCHANGED <<status, blocked, action, frames, ctx>>
    BY <1>2 DEF Tick, PendingWith
  <2>2. requestBar' = requestBar
    BY <2>1 DEF requestBar
  <2>3. SIGALRM \in Sigs
    BY KernelAssumption
  <2> QED BY <1>0, <2>1, <2>2, <2>3, SimulatePost
<1>3. CASE SleepEnds
  <2>1. /\ status = "sleeping" /\ status' = "running" /\ ctx' = [ctx EXCEPT !.ret = 0]
        /\ UNCHANGED <<blocked, pending, action, frames>>
    BY <1>3 DEF SleepEnds
  <2>2. phaseBar' = phaseBar
    BY <2>1 DEF phaseBar, Alive
  <2>3. requestBar' = requestBar
    <3>1. ctx \in Context
      BY DEF CareInv, TypeInv, TypeOK
    <3> QED BY <2>1, <3>1 DEF requestBar, Request, Context
  <2> QED BY <1>0, <2>1, <2>2, <2>3, Stutters
<1> QED BY <1>1, <1>2, <1>3, SimulateDeliver DEF Environment, KernelNext

(* The second system call of sigaction.                                    *)
LEMMA SimulateInstalls ==
  ASSUME CareInv, Running, ctx.fn \in {"sigaction", "signal"},
         RtSigaction(ctx.sig, [handler |-> ctx.handler, mask |-> ctx.kmask, flags |-> ctx.flags]),
         UNCHANGED <<status, blocked, frames, jb, asked>>,
         ctx'.fn \notin {"sigaction", "signal"}
  PROVE  Posix!Next
<1>1. phaseBar = "alive" /\ phaseBar' = phaseBar
  BY AliveIs
<1>2. requestBar = [sig |-> ctx.sig, handler |-> ctx.handler, mask |-> ctx.kmask,
                     flags |-> ctx.flags]
  BY DEF requestBar, Request, CareInv, InstallsAsAsked
<1>3. requestBar' = Posix!NoRequest
  BY NotAsking
<1>4. stackBar' = stackBar /\ envBar' = envBar
  BY DEF stackBar, envBar
<1>5. CASE Settable(ctx.sig)
  <2>1. /\ action' = [action EXCEPT ![ctx.sig] =
                        [handler |-> ctx.handler, mask |-> ctx.kmask \ Forced, flags |-> ctx.flags]]
        /\ pending' = IF ctx.handler = SIG_IGN THEN pending \ {ctx.sig} ELSE pending
    BY <1>5 DEF RtSigaction
  <2>2. Posix!Install
    BY <1>1, <1>2, <1>3, <1>4, <1>5, <2>1 DEF Posix!Install, Settable
  <2> QED BY <2>2 DEF Posix!Next
<1>6. CASE ~Settable(ctx.sig)
  <2>1. action' = action /\ pending' = pending
    BY <1>6 DEF RtSigaction
  <2>2. Posix!Refuse
    BY <1>1, <1>2, <1>3, <1>4, <1>6, <2>1 DEF Posix!Refuse, Settable
  <2> QED BY <2>2 DEF Posix!Next
<1> QED BY <1>5, <1>6

LEMMA SimulateLibrary ==
  ASSUME CareInv, Library
  PROVE  Posix!Next \/ UNCHANGED Posix!vars
<1>1. CASE WrapReturns \/ SleepReturns \/ PerrorPrints
  <2>1. UNCHANGED <<status, blocked, pending, action, frames, jb, asked>>
    BY <1>1 DEF WrapReturns, SleepReturns, PerrorPrints, libVars
  <2>2. ctx.fn \in {"wrap", "sleep", "perror"} /\ ctx'.fn = "user"
    BY <1>1, UserFn DEF WrapReturns, SleepReturns, PerrorPrints, At, CareInv, TypeInv, TypeOK, Context
  <2>3. phaseBar' = phaseBar /\ requestBar' = requestBar
    BY <2>1, <2>2, AliveIs, NotAsking
  <2> QED BY <2>1, <2>3, Stutters
<1>2. CASE SigactionInstalls
  <2>1. ctx'.fn = "wrap"
    BY <1>2, WrapFn DEF SigactionInstalls
  <2> QED BY <1>2, <2>1, SimulateInstalls DEF SigactionInstalls, At
<1>3. CASE SignalInstalls
  <2>1. ctx'.fn = "user"
    BY <1>3, UserFn DEF SignalInstalls
  <2> QED BY <1>3, <2>1, SimulateInstalls DEF SignalInstalls, At
<1> QED BY <1>1, <1>2, <1>3 DEF Library

(* The calls of a careful program.                                         *)
LEMMA SimulateProgram ==
  ASSUME CareInv, CareInv', Program, Careful, HandlerArgs \subseteq Known
  PROVE  Posix!Next \/ UNCHANGED Posix!vars
<1>1. ASSUME UNCHANGED <<blocked, pending, action, frames, jb, asked>>, Running, ctx.fn = "user",
             status' \in {"running", "pausing", "sleeping"}, ctx'.fn \notin {"sigaction", "signal"}
      PROVE  UNCHANGED Posix!vars
  BY <1>1, Stutters, AliveIs, NotAsking
<1>2. ASSUME NEW n, Syscall(n) \/ Alarm(n) \/ Sleep(n) \/ Perror(n) PROVE UNCHANGED Posix!vars
  <2>1. UNCHANGED <<blocked, pending, action, frames, jb, asked>> /\ Running /\ ctx.fn = "user"
    BY <1>2 DEF Syscall, Alarm, Sleep, Perror, Call, libVars
  <2>2. status' \in {"running", "pausing", "sleeping"}
    BY <1>2 DEF Syscall, Alarm, Sleep, Perror, Call, Running
  <2>3. ctx'.fn \in {"wrap", "sleep", "perror"}
    BY <1>2, WrapFn DEF Syscall, Alarm, Sleep, Perror, HandlerContext
  <2> QED BY <1>1, <2>1, <2>2, <2>3
<1>3. CASE SigPending \/ Pause
  <2>1. UNCHANGED <<blocked, pending, action, frames, jb, asked>> /\ Running /\ ctx.fn = "user"
    BY <1>3 DEF SigPending, Pause, Call, libVars
  <2>2. status' \in {"running", "pausing"}
    BY <1>3 DEF SigPending, Pause, Call, Running
  <2>3. ctx'.fn = "wrap"
    BY <1>3, WrapFn DEF SigPending, Pause, HandlerContext
  <2> QED BY <1>1, <2>1, <2>2, <2>3
<1>4. ASSUME NEW how, NEW set, SigProcMask(how, set) PROVE Posix!Next
  <2>1. /\ UNCHANGED <<status, pending, action, frames, jb, asked>> /\ Running /\ ctx.fn = "user"
        /\ ctx'.fn = "wrap"
    BY <1>4, WrapFn DEF SigProcMask, Call, libVars
  <2>2. phaseBar = "alive" /\ phaseBar' = phaseBar
    BY <2>1, AliveIs
  <2>3. requestBar = Posix!NoRequest /\ requestBar' = requestBar
    BY <2>1, NotAsking
  <2>4. stackBar' = stackBar /\ envBar' = envBar
    BY <2>1 DEF stackBar, envBar
  <2>5. blocked' \in SUBSET (Sigs \ Forced)
    BY DEF CareInv, ForcedFree, TypeInv, TypeOK, Mask
  <2>6. Posix!SetMask
    BY <2>1, <2>2, <2>3, <2>4, <2>5 DEF Posix!SetMask
  <2> QED BY <2>6 DEF Posix!Next
<1>5. ASSUME NEW fn \in {"sigaction", "signal"}, NEW s \in SigArgs, NEW h \in HandlerArgs, NEW set,
             NEW fl \in SUBSET Flags, Call(fn), SigactionBegins(fn, s, h, set, fl)
      PROVE  Posix!Next
  <2>0. fl \union {"SA_RESTORER"} \in SUBSET Flags
    BY DEF Flags
  <2>1. /\ set = blocked /\ blocked' = blocked /\ ctx.fn = "user"
        /\ ctx'.fn = fn /\ ctx'.sig = s /\ ctx'.handler = h /\ ctx'.set = blocked
        /\ ctx'.flags = fl \union {"SA_RESTORER"}
    BY <1>5, Begins DEF Careful
  <2>2. UNCHANGED <<status, pending, action, frames, jb, asked>> /\ Running
    BY <1>5 DEF SigactionBegins, Call, libVars
  <2>3. phaseBar = "alive" /\ phaseBar' = phaseBar
    BY <2>2, AliveIs
  <2>4. requestBar = Posix!NoRequest
    BY <2>1, NotAsking
  <2>5. requestBar' = [sig |-> s, handler |-> h, mask |-> blocked,
                       flags |-> fl \union {"SA_RESTORER"}]
    BY <2>1 DEF requestBar, Request
  <2>6. stackBar' = stackBar /\ envBar' = envBar
    BY <2>2 DEF stackBar, envBar
  <2>7. h \in Handlers \union {SIG_DFL, SIG_IGN} /\ blocked \in SUBSET Sigs
    BY DEF Known, CareInv, TypeInv, TypeOK, Mask
  <2>8. requestBar' \in [sig : SigArgs, handler : Handlers \union {SIG_DFL, SIG_IGN},
                         mask : SUBSET Sigs, flags : SUBSET Flags]
    BY <2>0, <2>5, <2>7
  <2>9. Posix!Ask
    BY <2>1, <2>2, <2>3, <2>4, <2>6, <2>8 DEF Posix!Ask
  <2> QED BY <2>9 DEF Posix!Next
<1>6. ASSUME NEW s \in SigArgs, NEW h \in HandlerArgs,
             Signal(s, h) \/ \E set \in Masks, fl \in FlagArgs : SigAction(s, h, set, fl)
      PROVE  Posix!Next
  <2>1. {} \in SUBSET Flags /\ FlagArgs \subseteq SUBSET Flags
    BY LibMiniAssumption DEF Flags
  <2> QED BY <1>5, <1>6, <2>1 DEF Signal, SigAction
<1>7. CASE \E s \in SigArgs : SigActionQuery(s)
  BY <1>7 DEF Careful, NeverQueries
<1>8. CASE SetJmp
  <2>1. /\ jb' = [depth |-> Len(frames), mask |-> {}] /\ asked' = blocked
        /\ blocked' = blocked /\ ctx'.fn = "user" /\ Running /\ ctx.fn = "user"
        /\ UNCHANGED <<status, pending, action, frames>>
    BY <1>8, UserFn DEF SetJmp, MaskAfter, Call
  <2>2. phaseBar = "alive" /\ phaseBar' = phaseBar
    BY <2>1, AliveIs
  <2>3. requestBar = Posix!NoRequest /\ requestBar' = requestBar
    BY <2>1, NotAsking
  <2>4. Len(stackBar) = Len(frames) /\ Len(frames) \in Nat
    BY FramesSeq, StackIs DEF CareInv, stackBar
  <2>5. jb' # NoJump
    BY <2>1, <2>4 DEF NoJump
  <2>6. envBar' = [depth |-> Len(stackBar), mask |-> blocked]
    BY <2>1, <2>4, <2>5 DEF envBar
  <2>7. stackBar' = stackBar
    BY <2>1 DEF stackBar
  <2>8. Posix!SetJump
    BY <2>1, <2>2, <2>3, <2>6, <2>7 DEF Posix!SetJump
  <2> QED BY <2>8 DEF Posix!Next
<1>9. ASSUME NEW v \in JumpValues, LongJmp(v) PROVE Posix!Next
  <2>1. /\ frames' = SubSeq(frames, 1, jb.depth) /\ jb # NoJump
        /\ blocked' = blocked /\ ctx'.fn = "user" /\ Running /\ ctx.fn = "user"
        /\ UNCHANGED <<status, pending, action, jb, asked>>
    BY <1>9, UserFn DEF LongJmp, FramesLeft, MaskAfter, Call, libVars
  <2>2. blocked = asked
    BY <1>9 DEF Careful, JumpsUnderItsMask
  <2>3. jb.depth \in 0 .. Len(frames) /\ frames \in Seq(Frame) /\ Len(frames) \in Nat
    BY <2>1, FramesSeq DEF CareInv, TypeInv, JumpsToFrame
  <2>4. phaseBar = "alive" /\ phaseBar' = phaseBar
    BY <2>1, AliveIs
  <2>5. requestBar = Posix!NoRequest /\ requestBar' = requestBar
    BY <2>1, NotAsking
  <2>6. envBar = [depth |-> jb.depth, mask |-> asked] /\ envBar' = envBar
    BY <2>1 DEF envBar
  <2>7. envBar # Posix!NoEnv /\ envBar.depth = jb.depth /\ envBar.mask = asked
    BY <2>3, <2>6 DEF Posix!NoEnv
  <2>8. stackBar' = SubSeq(stackBar, 1, jb.depth)
    <3>1. stackBar' = StackOf(frames')
      BY DEF stackBar
    <3> QED BY <2>1, <2>3, <3>1, StackCut DEF stackBar
  <2>9. Posix!Jump
    BY <2>1, <2>2, <2>4, <2>5, <2>6, <2>7, <2>8 DEF Posix!Jump
  <2> QED BY <2>9 DEF Posix!Next
<1>18. CASE ReturnsAstray
  BY <1>18, NeverAstray
<1>10. CASE At("user") /\ Sigreturn /\ jb' = (IF jb.depth = Len(frames) THEN NoJump ELSE jb)
            /\ UNCHANGED <<errno, asked>>
  <2>1. /\ frames # << >> /\ ctx' = frames[Len(frames)].ctx /\ blocked' = frames[Len(frames)].mask
        /\ frames' = SubSeq(frames, 1, Len(frames) - 1)
        /\ jb' = IF jb.depth = Len(frames) THEN NoJump ELSE jb
        /\ Running /\ ctx.fn = "user"
        /\ UNCHANGED <<status, pending, action, asked>>
    BY <1>10 DEF Sigreturn, At
  <2>2. frames \in Seq(Frame) /\ Len(frames) \in Nat /\ Len(frames) >= 1
    BY <2>1, FramesSeq, TopFrame DEF CareInv
  <2>3. phaseBar = "alive" /\ phaseBar' = phaseBar
    BY <2>1, AliveIs
  <2>4. requestBar = Posix!NoRequest
    BY <2>1, NotAsking
  <2>5. /\ Len(stackBar) = Len(frames) /\ stackBar \in Seq(Entry)
        /\ stackBar[Len(frames)] = Saves(frames[Len(frames)])
    BY <2>2, StackIs DEF stackBar
  <2>6. stackBar # << >>
    BY <2>2, <2>5, EmptySeq
  <2>7. /\ blocked' = stackBar[Len(stackBar)].mask
        /\ requestBar' = stackBar[Len(stackBar)].request
    <3>1. requestBar' = Request(ctx')
      BY DEF requestBar
    <3> QED BY <2>1, <2>5, <3>1 DEF Saves
  <2>8. stackBar' = SubSeq(stackBar, 1, Len(stackBar) - 1)
    <3>1. stackBar' = StackOf(frames')
      BY DEF stackBar
    <3>2. Len(frames) - 1 \in 0 .. Len(frames)
      BY <2>2
    <3> QED BY <2>1, <2>2, <2>5, <3>1, <3>2, StackCut DEF stackBar
  <2>9. envBar' = IF envBar.depth = Len(stackBar) THEN Posix!NoEnv ELSE envBar
    BY <2>1, <2>5 DEF envBar, NoJump, Posix!NoEnv
  <2>10. Posix!Return
    BY <2>1, <2>3, <2>4, <2>6, <2>7, <2>8, <2>9 DEF Posix!Return
  <2> QED BY <2>10 DEF Posix!Next
<1>11. CASE Exit
  <2>1. /\ status' = "exited" /\ Running /\ ctx.fn = "user"
        /\ UNCHANGED <<blocked, pending, action, frames, ctx, jb, asked>>
    BY <1>11 DEF Exit, Call, libVars
  <2>2. phaseBar = "alive" /\ phaseBar' = "exited"
    BY <2>1, AliveIs DEF phaseBar, Alive
  <2>3. requestBar = Posix!NoRequest /\ requestBar' = requestBar
    BY <2>1, NotAsking DEF requestBar
  <2>4. stackBar' = stackBar /\ envBar' = envBar
    BY <2>1 DEF stackBar, envBar
  <2>5. Posix!Exit
    BY <2>1, <2>2, <2>3, <2>4 DEF Posix!Exit
  <2> QED BY <2>5 DEF Posix!Next
<1>12. CASE \E e \in {0} \union Errors : Syscall(-e)
  BY <1>2, <1>12
<1>13. CASE \E n \in 0 .. Seconds : Alarm(n) \/ Sleep(n)
  BY <1>2, <1>13
<1>14. CASE \E how \in Hows, set \in Masks : SigProcMask(how, set)
  BY <1>4, <1>14
<1>15. CASE \E prefix \in BOOLEAN : Perror(prefix)
  BY <1>2, <1>15
<1>16. CASE \E s \in SigArgs, h \in HandlerArgs :
              Signal(s, h) \/ \E set \in Masks, fl \in FlagArgs : SigAction(s, h, set, fl)
  BY <1>6, <1>16
<1>17. CASE \E v \in JumpValues : LongJmp(v)
  BY <1>9, <1>17
<1> QED
  BY <1>3, <1>7, <1>8, <1>10, <1>11, <1>12, <1>13, <1>14, <1>15, <1>16, <1>17, <1>18
  DEF Program, HandlerReturns

LEMMA SimulateStep ==
  ASSUME HandlerArgs \subseteq Known
  PROVE  CareInv /\ CareInv' /\ [Next /\ Careful]_vars => [Posix!Next]_Posix!vars
<1> SUFFICES ASSUME CareInv, CareInv', [Next /\ Careful]_vars
             PROVE  Posix!Next \/ UNCHANGED Posix!vars
  OBVIOUS
<1>1. CASE UNCHANGED vars
  <2>1. UNCHANGED <<status, blocked, pending, action, frames, ctx, jb, asked>>
    BY <1>1 DEF vars, kernelVars, libVars
  <2>2. requestBar' = requestBar /\ phaseBar' = phaseBar
    BY <2>1 DEF requestBar, phaseBar, Alive
  <2> QED BY <2>1, <2>2, Stutters
<1> QED BY <1>1, SimulateKernel, SimulateLibrary, SimulateProgram DEF Next

(* A careful program cannot tell libmini from the standard C library's     *)
(* signals, whatever its handlers interrupt and call, at any depth.        *)
THEOREM LibraryIsPosix ==
  ASSUME HandlerArgs \subseteq Handlers \union {SIG_DFL, SIG_IGN}
  PROVE  CarefulSpec => ImplementsPosix
<1>1. HandlerArgs \subseteq Known
  BY DEF Known
<1>2. CareInv /\ CareInv' /\ [Next /\ Careful]_vars => [Posix!Next]_Posix!vars
  BY <1>1, SimulateStep
<1>3. CarefulSpec => []CareInv
  BY <1>1, CareAlways
<1> QED BY <1>2, <1>3, SimulateInit, PTL DEF CarefulSpec, ImplementsPosix, Posix!Spec
=============================================================================
