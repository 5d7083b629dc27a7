------------------------------ MODULE LibMini ------------------------------
(***************************************************************************)
(* The signal calls of the C library hw3/libmini: libmini.c and            *)
(* libmini64.asm, called in any order by a program and by its handlers.    *)
(*                                                                         *)
(* A library function that makes several system calls, or a system call    *)
(* and then something visible, is interrupted by handlers in between; ctx  *)
(* says which call is in progress and with what local variables.           *)
(***************************************************************************)
EXTENDS KernelSignals

CONSTANTS
  Calls,       \* the functions the program and its handlers call
  Hows,        \* arguments of sigprocmask
  Masks,       \* signal sets passed to sigprocmask and sigaction
  SigArgs,     \* signal numbers passed to sigaction and signal
  HandlerArgs, \* handlers passed to them
  FlagArgs,    \* flags passed to sigaction
  Garbage,     \* what an uninitialised sigset_t may hold
  GarbageHandlers,  \* what an uninitialised sa_handler may hold
  GarbageFlags,     \* and sa_flags with sa_restorer
  Errors,      \* errors of the other system calls
  JumpValues   \* second arguments of longjmp

ASSUME LibMiniAssumption ==
  /\ Hows \subseteq Nat
  /\ Masks \subseteq Mask /\ Garbage \subseteq Mask
  /\ SigArgs \subseteq Nat
  /\ HandlerArgs \subseteq Int /\ GarbageHandlers \subseteq Int
  /\ FlagArgs \subseteq SUBSET {"SA_NODEFER", "SA_RESETHAND"}
  /\ GarbageFlags \subseteq SUBSET Flags
  /\ Errors \subseteq Nat \ {0}
  /\ JumpValues \subseteq Int

VARIABLES
  errno,
  jb,       \* the jmp_buf: depth of the frame of the caller of setjmp, saved mask
  asked     \* history: the mask when setjmp was called

libVars == <<errno, jb, asked>>
vars    == <<kernelVars, libVars>>

(* The context: user code with the result of its last call, or a call in   *)
(* progress with its parameters and locals.                                *)
Context == [fn : {"user", "wrap", "sigaction", "signal", "sleep", "perror"},
            sig : Nat, handler : Int, set : Mask, kmask : Mask, flags : SUBSET Flags,
            ret : Int, rem : Int]

NoJump == [depth |-> -1, mask |-> {}]

TypeOK ==
  /\ status \in {"running", "pausing", "sleeping", "killed", "exited"}
  /\ blocked \in Mask /\ pending \in Mask
  /\ action \in [Sigs -> Action]
  /\ frames \in Seq([sig : Sigs, mask : Mask, flags : SUBSET Flags, ctx : Context])
  /\ ctx \in Context
  /\ timer \in 0 .. Seconds /\ wake \in 0 .. Seconds
  /\ killer \in Mask
  /\ errno \in Nat
  /\ jb \in [depth : Nat \union {-1}, mask : Mask]
  /\ asked \in Mask

User(ret) == [HandlerContext EXCEPT !.ret = ret]

Init ==
  /\ KernelInit
  /\ ctx = User(0)
  /\ errno = 0
  /\ jb = NoJump
  /\ asked = {}

-----------------------------------------------------------------------------
Call(f) == Running /\ ctx.fn = "user" /\ f \in Calls
At(f)   == Running /\ ctx.fn = f

(* The macros WRAPPER_RETval: errno and the result of a system call.       *)
Wrap(ret) == ctx' = [HandlerContext EXCEPT !.fn = "wrap", !.ret = ret]

Result(ret) == IF ret < 0 THEN -1 ELSE ret

ErrnoNotNegated(ret) == IF ret < 0 THEN ret ELSE 0

ErrnoAfter(ret) == IF ret < 0 THEN -ret ELSE 0

WrapReturns ==
  /\ At("wrap")
  /\ errno' = ErrnoAfter(ctx.ret)
  /\ ctx' = [ctx EXCEPT !.fn = "user", !.ret = Result(ctx.ret)]
  /\ UNCHANGED <<status, blocked, pending, action, frames, timer, wake, killer, jb, asked>>

(* read, write, open and the other wrappers of a system call.              *)
Syscall(ret) ==
  /\ Call("syscall")
  /\ Wrap(ret)
  /\ UNCHANGED <<status, blocked, pending, action, frames, timer, wake, killer, libVars>>

SigProcMask(how, set) ==
  /\ Call("sigprocmask")
  /\ blocked' = MaskAfter(how, set, 8)
  /\ Wrap(MaskResult(how, 8))
  /\ UNCHANGED <<status, pending, action, frames, timer, wake, killer, libVars>>

SigPending ==
  /\ Call("sigpending")
  /\ ctx' = [HandlerContext EXCEPT !.fn = "wrap", !.set = RtSigpending]
  /\ UNCHANGED <<status, blocked, pending, action, frames, timer, wake, killer, libVars>>

TimerNotSet(n) == timer

TimerSet(n) == n

Alarm(n) ==
  /\ Call("alarm")
  /\ timer' = TimerSet(n)
  /\ Wrap(timer)
  /\ UNCHANGED <<status, blocked, pending, action, frames, wake, killer, libVars>>

Pause ==
  /\ Call("pause")
  /\ status' = "pausing"
  /\ Wrap(-EINTR)
  /\ UNCHANGED <<blocked, pending, action, frames, timer, wake, killer, libVars>>

(* sleep does not touch errno.                                             *)
Sleep(n) ==
  /\ Call("sleep")
  /\ status' = "sleeping"
  /\ wake' = n
  /\ ctx' = [HandlerContext EXCEPT !.fn = "sleep", !.ret = -EINTR]
  /\ UNCHANGED <<blocked, pending, action, frames, timer, killer, libVars>>

SleepReturns ==
  /\ At("sleep")
  /\ ctx' = User(IF ctx.ret >= 0 THEN ctx.ret ELSE ctx.rem)
  /\ UNCHANGED <<status, blocked, pending, action, frames, timer, wake, killer, libVars>>

-----------------------------------------------------------------------------
(* sigaction makes two system calls.  The first one gets the old mask into *)
(* kact by blocking sa_mask in the process itself.                         *)
MaskReplaced(set) == MaskAfter(SIG_SETMASK, set, 8)

MaskExtended(set) == MaskAfter(SIG_BLOCK, set, 8)

NoHandlerMask == {}

HandlerMask == blocked

SigactionBegins(fn, s, handler, set, flags) ==
  /\ blocked' = MaskExtended(set)
  /\ ctx' = [HandlerContext EXCEPT !.fn = fn, !.sig = s, !.handler = handler, !.set = set,
                                   !.kmask = HandlerMask,
                                   !.flags = flags \union {"SA_RESTORER"}]
  /\ UNCHANGED <<status, pending, action, frames, timer, wake, killer, libVars>>

SigAction(s, handler, set, flags) ==
  Call("sigaction") /\ SigactionBegins("sigaction", s, handler, set, flags)

(* signal leaves sa_mask uninitialised.                                    *)
Signal(s, handler) ==
  Call("signal") /\ \E set \in Garbage : SigactionBegins("signal", s, handler, set, {})

(* Without a new action kact stays uninitialised, and is installed.        *)
SigActionQuery(s) ==
  /\ Call("sigquery")
  /\ \E handler \in GarbageHandlers, mask \in Garbage, flags \in GarbageFlags :
       ctx' = [HandlerContext EXCEPT !.fn = "sigaction", !.sig = s, !.handler = handler,
                                     !.kmask = mask, !.flags = flags]
  /\ UNCHANGED <<status, blocked, pending, action, frames, timer, wake, killer, libVars>>

(* The second system call; nothing is stored in the caller's oact, and     *)
(* signal returns the handler it finds in its own, uninitialised one.      *)
SigactionInstalls ==
  /\ At("sigaction")
  /\ RtSigaction(ctx.sig, [handler |-> ctx.handler, mask |-> ctx.kmask, flags |-> ctx.flags])
  /\ errno' = 0
  /\ Wrap(ActionResult(ctx.sig))
  /\ UNCHANGED <<status, blocked, frames, timer, wake, killer, jb, asked>>

SignalInstalls ==
  /\ At("signal")
  /\ RtSigaction(ctx.sig, [handler |-> ctx.handler, mask |-> ctx.kmask, flags |-> ctx.flags])
  /\ errno' = ErrnoAfter(ActionResult(ctx.sig))
  /\ \E old \in GarbageHandlers :
       ctx' = User(IF Settable(ctx.sig) THEN old ELSE SIG_ERR)
  /\ UNCHANGED <<status, blocked, frames, timer, wake, killer, jb, asked>>

-----------------------------------------------------------------------------
(* setjmp and longjmp make their system calls with a size of 32: both fail *)
(* and the failure is not looked at.  What setjmp stores as the mask is 0. *)
SetJmp ==
  /\ Call("setjmp")
  /\ jb' = [depth |-> Len(frames), mask |-> {}]
  /\ asked' = blocked
  /\ blocked' = MaskAfter(SIG_BLOCK, {}, 32)
  /\ ctx' = User(0)
  /\ UNCHANGED <<status, pending, action, frames, timer, wake, killer, errno>>

(* The stack pointer goes back to the frame of the caller of setjmp; the   *)
(* handlers above it never return.                                         *)
JumpReturnsZero(val) == 0

JumpReturns(val) == val

FramesKept == frames

FramesLeft == SubSeq(frames, 1, jb.depth)

LongJmp(val) ==
  /\ Call("longjmp")
  /\ jb # NoJump
  /\ frames' = FramesLeft
  /\ blocked' = MaskAfter(SIG_UNBLOCK, jb.mask, 32)
  /\ ctx' = User(JumpReturns(val))
  /\ UNCHANGED <<status, pending, action, timer, wake, killer, libVars>>

(* A handler returns; a jmp_buf filled in it is dead.                      *)
HandlerReturns ==
  /\ At("user")
  /\ \/ /\ Sigreturn
        /\ jb' = IF jb.depth = Len(frames) THEN NoJump ELSE jb
     \/ ReturnsAstray /\ UNCHANGED jb
  /\ UNCHANGED <<errno, asked>>

(* perror keeps errno in backup, but its own writes set errno, and errno   *)
(* is what it compares with the bounds of the table.                       *)
WriteErrno == {0} \union Errors

Perror(prefix) ==
  /\ Call("perror")
  /\ ctx' = [HandlerContext EXCEPT !.fn = "perror", !.ret = errno]
  /\ IF prefix THEN errno' \in WriteErrno ELSE UNCHANGED errno
  /\ UNCHANGED <<status, blocked, pending, action, frames, timer, wake, killer, jb, asked>>

PerrorPrints ==
  /\ At("perror")
  /\ errno' \in WriteErrno
  /\ ctx' = User(0)
  /\ UNCHANGED <<status, blocked, pending, action, frames, timer, wake, killer, jb, asked>>

Exit ==
  /\ Call("exit")
  /\ status' = "exited"
  /\ UNCHANGED <<blocked, pending, action, frames, ctx, timer, wake, killer, libVars>>

-----------------------------------------------------------------------------
Library ==
  \/ WrapReturns \/ SleepReturns
  \/ SigactionInstalls \/ SignalInstalls
  \/ PerrorPrints

Program ==
  \/ \E e \in {0} \union Errors : Syscall(-e)
  \/ \E how \in Hows, set \in Masks : SigProcMask(how, set)
  \/ SigPending
  \/ \E n \in 0 .. Seconds : Alarm(n) \/ Sleep(n)
  \/ Pause
  \/ \E s \in SigArgs, h \in HandlerArgs :
       Signal(s, h) \/ \E set \in Masks, f \in FlagArgs : SigAction(s, h, set, f)
  \/ \E s \in SigArgs : SigActionQuery(s)
  \/ SetJmp
  \/ \E v \in JumpValues : LongJmp(v)
  \/ HandlerReturns
  \/ \E prefix \in BOOLEAN : Perror(prefix)
  \/ Exit

Environment == KernelNext \/ \E s \in Sigs : Post(s)

Next ==
  \/ Environment /\ UNCHANGED libVars
  \/ Library
  \/ Program

Spec == Init /\ [][Next]_vars

-----------------------------------------------------------------------------
(* Safety of the masks, for programs that only ever block signals: Hows is *)
(* {SIG_BLOCK}.                                                            *)
MaskAt(i) == IF i \in DOMAIN frames THEN frames[i].mask ELSE blocked

(* Each handler runs with all blocked that the code it interrupted had     *)
(* blocked, and with its own signal unless SA_NODEFER was asked for, or is *)
(* what an uninitialised sa_flags held: no library call, and no jump out   *)
(* of a handler, takes a signal off the mask behind the program's back.    *)
MasksNest ==
  \A i \in DOMAIN frames :
    /\ frames[i].mask \subseteq MaskAt(i + 1)
    /\ "SA_NODEFER" \notin frames[i].flags => frames[i].sig \in MaskAt(i + 1)

(* So no signal interrupts its own handler, at whatever nesting and after  *)
(* whatever jumps, but one that was installed with SA_NODEFER (libmini.c:  *)
(* 360 hands sa_flags on).                                                 *)
NoReentry ==
  \A i, j \in DOMAIN frames :
    i < j /\ frames[i].sig = frames[j].sig => "SA_NODEFER" \in frames[i].flags
=============================================================================
