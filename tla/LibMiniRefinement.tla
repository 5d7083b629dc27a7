------------------------- MODULE LibMiniRefinement -------------------------
(***************************************************************************)
(* When the signal calls of hw3/libmini do what PosixSignals says: a       *)
(* program that asks, for the mask of a handler, the mask it has, that     *)
(* jumps only where the mask is the one setjmp was called with, and that   *)
(* never passes a null action, cannot tell the two apart.                  *)
(***************************************************************************)
EXTENDS LibMini

AsksForItsMask ==
  ctx.fn = "user" /\ ctx'.fn \in {"sigaction", "signal"} /\ frames' = frames =>
    ctx'.set = blocked

NeverQueries == \A s \in SigArgs : ~SigActionQuery(s)

JumpsUnderItsMask == (\E v \in JumpValues : LongJmp(v)) => blocked = asked

Careful == AsksForItsMask /\ NeverQueries /\ JumpsUnderItsMask

CarefulSpec == Init /\ [][Next /\ Careful]_vars

-----------------------------------------------------------------------------
(* The refinement mapping.  A sigaction is in progress between its two     *)
(* system calls; a handler that runs there finds it on the stack.          *)
Request(c) ==
  IF c.fn \in {"sigaction", "signal"}
  THEN [sig |-> c.sig, handler |-> c.handler, mask |-> c.set, flags |-> c.flags]
  ELSE [sig |-> 0, handler |-> SIG_DFL, mask |-> {}, flags |-> {}]

Saves(f) == [sig |-> f.sig, mask |-> f.mask, request |-> Request(f.ctx)]

StackOf(fr) == [i \in DOMAIN fr |-> Saves(fr[i])]

phaseBar   == IF Alive THEN "alive" ELSE status
requestBar == Request(ctx)
stackBar   == StackOf(frames)
envBar     == [depth |-> jb.depth, mask |-> IF jb = NoJump THEN {} ELSE asked]

Posix == INSTANCE PosixSignals WITH
  Default <- SIG_DFL,
  Ignored <- SIG_IGN,
  NoFlags <- {},
  phase   <- phaseBar,
  mask    <- blocked,
  pend    <- pending,
  acts    <- action,
  request <- requestBar,
  stack   <- stackBar,
  env     <- envBar

(* Every step of the library is one of PosixSignals or invisible: handlers *)
(* that run between the two system calls of sigaction, that call the       *)
(* library themselves or that jump out of it do not show in masks, actions *)
(* or the stack.                                                           *)
ImplementsPosix == Posix!Spec
-----------------------------------------------------------------------------
(* README of hw3: "The saved signal mask must be restored by the longjmp   *)
(* function".  setjmp and longjmp pass a size that the kernel refuses: for *)
(* programs that are not Careful, a jump out of a handler leaves the       *)
(* handler's signal blocked for ever.                                      *)
LongjmpRestoresMask ==
  [][(\E v \in JumpValues : LongJmp(v)) => blocked' = asked]_vars
=============================================================================
