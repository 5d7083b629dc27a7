--------------------------- MODULE KernelSignals ---------------------------
(***************************************************************************)
(* Signals of one process as the system calls of hw3/libmini64.asm see     *)
(* them: the kernel's side of rt_sigprocmask, rt_sigaction, rt_sigpending, *)
(* pause, nanosleep, alarm and sigreturn, and the delivery of signals.     *)
(* The default action of every signal here ends the process.               *)
(*                                                                         *)
(* A delivered signal interrupts the process between any two of its steps, *)
(* or in a blocking call: its context is saved in a frame on the stack,    *)
(* with the mask in force, and the handler starts in a new context.        *)
(***************************************************************************)
EXTENDS Integers, Sequences, FiniteSets

CONSTANTS
  Sigs,      \* the signals, by number, SIGSEGV not among them
  Forced,    \* those that can be neither blocked nor handled, SIGKILL
  SIGALRM,   \* the signal of the alarm timer
  Handlers,  \* the addresses of the program's handler functions
  Seconds,   \* bound on the arguments of alarm and sleep
  MaxDepth   \* bound on frames and pending signals together

SIG_DFL == 0
SIG_IGN == 1
SIG_ERR == -1
EINTR   == 4
EINVAL  == 22

SIG_BLOCK   == 0
SIG_UNBLOCK == 1
SIG_SETMASK == 2

ASSUME KernelAssumption ==
  /\ Sigs \subseteq Nat \ {0}
  /\ Forced \subseteq Sigs
  /\ SIGALRM \in Sigs \ Forced
  /\ Handlers \subseteq Nat \ {SIG_DFL, SIG_IGN}
  /\ Seconds \in Nat
  /\ MaxDepth \in Nat

VARIABLES
  status,   \* what the process does
  blocked,  \* its signal mask
  pending,  \* signals posted and not delivered
  action,   \* handler, handler mask and flags of each signal
  frames,   \* the signal frames on its stack, innermost last
  ctx,      \* the context it executes in, see LibMini
  timer,    \* seconds to the alarm, 0 if none
  wake,     \* seconds of sleep left
  killer    \* the signals that ended it

kernelVars == <<status, blocked, pending, action, frames, ctx, timer, wake, killer>>

Mask   == SUBSET Sigs

(* The flags that tell these calls apart.  SA_RESTORER stands for the flag *)
(* together with a restorer that calls sigreturn.                          *)
Flags  == {"SA_NODEFER", "SA_RESETHAND", "SA_RESTORER"}
Action == [handler : Int, mask : Mask, flags : SUBSET Flags]

KernelInit ==
  /\ status = "running"
  /\ blocked = {} /\ pending = {}
  /\ action = [s \in Sigs |-> [handler |-> SIG_DFL, mask |-> {}, flags |-> {}]]
  /\ frames = << >>
  /\ timer = 0 /\ wake = 0
  /\ killer = {}

Alive   == status \in {"running", "pausing", "sleeping"}
Running == status = "running" /\ pending \subseteq blocked   \* no signal to deliver first

-----------------------------------------------------------------------------
(* The values that system calls compute.                                   *)

(* rt_sigprocmask: the new mask.  The size of a sigset_t must be 8.        *)
MaskAfter(how, set, size) ==
  IF size # 8 THEN blocked
  ELSE CASE how = SIG_BLOCK   -> (blocked \union set) \ Forced
         [] how = SIG_UNBLOCK -> blocked \ set
         [] how = SIG_SETMASK -> set \ Forced
         [] OTHER             -> blocked

MaskResult(how, size) ==
  IF size = 8 /\ how \in {SIG_BLOCK, SIG_UNBLOCK, SIG_SETMASK} THEN 0 ELSE -EINVAL

(* rt_sigaction: installing SIG_IGN discards the signal if it is pending.  *)
Settable(s) == s \in Sigs \ Forced

RtSigaction(s, act) ==
  IF Settable(s)
  THEN /\ action' = [action EXCEPT ![s] = [act EXCEPT !.mask = @ \ Forced]]
       /\ pending' = IF act.handler = SIG_IGN THEN pending \ {s} ELSE pending
  ELSE UNCHANGED <<action, pending>>

ActionResult(s) == IF Settable(s) THEN 0 ELSE -EINVAL

RtSigpending == pending \intersect blocked

-----------------------------------------------------------------------------
(* Posting.  An ignored signal is dropped, but not while it is blocked.    *)
PendingWith(s) ==
  IF action[s].handler = SIG_IGN /\ s \notin blocked THEN pending ELSE pending \union {s}

Roomy(s) == Len(frames) + Cardinality(pending \union {s}) <= MaxDepth

Post(s) ==
  /\ Alive /\ Roomy(s)
  /\ pending' = PendingWith(s)
  /\ UNCHANGED <<status, blocked, action, frames, ctx, timer, wake, killer>>

(* Delivery.  A blocking call that a handler interrupts will return EINTR, *)
(* nanosleep also tells the whole seconds that were left.                  *)
Ignore(s) ==
  /\ action[s].handler = SIG_IGN
  /\ UNCHANGED <<status, blocked, action, frames, ctx, wake, killer>>

Die(s) ==
  /\ action[s].handler \notin Handlers \union {SIG_IGN}
  /\ status' = "killed"
  /\ killer' = killer \union {s}
  /\ UNCHANGED <<blocked, action, frames, ctx, wake>>

(* Without the flag SA_RESTORER no signal frame can be made, and SIGSEGV   *)
(* ends the process; with the flag and a stray restorer the handler runs.  *)
NoFrame(s) ==
  /\ action[s].handler \in Handlers
  /\ "SA_RESTORER" \notin action[s].flags
  /\ status' = "killed"
  /\ UNCHANGED <<blocked, action, frames, ctx, wake, killer>>

HandlerContext == [fn |-> "user", sig |-> 0, handler |-> SIG_DFL, set |-> {}, kmask |-> {},
                   flags |-> {}, ret |-> 0, rem |-> 0]

SecondsLeft == IF wake = 0 THEN {0} ELSE {wake - 1, wake}

OwnSignal(s) == IF "SA_NODEFER" \in action[s].flags THEN {} ELSE {s}

Handle(s) ==
  /\ action[s].handler \in Handlers
  /\ \E r \in SecondsLeft :
       frames' = Append(frames, [sig |-> s, mask |-> blocked, flags |-> action[s].flags,
                                 ctx |-> [ctx EXCEPT !.rem = r]])
  /\ blocked' = blocked \union action[s].mask \union OwnSignal(s)
  /\ action' = IF "SA_RESETHAND" \in action[s].flags
               THEN [action EXCEPT ![s] = [@ EXCEPT !.handler = SIG_DFL]] ELSE action
  /\ ctx' = HandlerContext
  /\ status' = "running"
  /\ wake' = 0
  /\ UNCHANGED killer

Deliver(s) ==
  /\ Alive
  /\ s \in pending \ blocked
  /\ pending' = pending \ {s}
  /\ Ignore(s) \/ Die(s) \/ NoFrame(s) \/ Handle(s)
  /\ UNCHANGED timer

(* sigreturn, called by the restorer when a handler returns.  A stray      *)
(* restorer ends the process.                                              *)
Sigreturn ==
  LET f == frames[Len(frames)] IN
    /\ frames # << >> /\ "SA_RESTORER" \in f.flags
    /\ ctx' = f.ctx
    /\ blocked' = f.mask
    /\ frames' = SubSeq(frames, 1, Len(frames) - 1)
    /\ UNCHANGED <<status, pending, action, timer, wake, killer>>

ReturnsAstray ==
  /\ frames # << >> /\ "SA_RESTORER" \notin frames[Len(frames)].flags
  /\ status' = "killed"
  /\ UNCHANGED <<blocked, pending, action, frames, ctx, timer, wake, killer>>

-----------------------------------------------------------------------------
(* Time.                                                                   *)
Less(n) == IF n = 0 THEN 0 ELSE n - 1

Tick ==
  /\ Alive
  /\ timer > 0 \/ wake > 0
  /\ timer = 1 => Roomy(SIGALRM)
  /\ timer' = Less(timer)
  /\ wake' = Less(wake)
  /\ pending' = IF timer = 1 THEN PendingWith(SIGALRM) ELSE pending
  /\ UNCHANGED <<status, blocked, action, frames, ctx, killer>>

SleepEnds ==
  /\ status = "sleeping" /\ wake = 0
  /\ status' = "running"
  /\ ctx' = [ctx EXCEPT !.ret = 0]
  /\ UNCHANGED <<blocked, pending, action, frames, timer, wake, killer>>

KernelNext ==
  \/ \E s \in Sigs : Deliver(s)
  \/ Tick
  \/ SleepEnds
=============================================================================
