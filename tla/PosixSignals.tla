---------------------------- MODULE PosixSignals ----------------------------
(***************************************************************************)
(* What hw3 promises of the signal calls, as the API of the standard C     *)
(* library has it: sigaction changes the action of one signal, with the    *)
(* mask and the flags that were asked for, and nothing else; setjmp        *)
(* preserves the mask and longjmp restores it; a handler's return restores *)
(* what it interrupted.  System calls, contexts and time do not exist.     *)
(***************************************************************************)
EXTENDS Integers, Sequences

CONSTANTS
  Sigs,      \* the signals
  SigArgs,   \* the numbers sigaction is called with
  Forced,    \* those that can be neither blocked nor handled
  Default,   \* the default action
  Ignored,   \* the action of an ignored signal
  Flags,     \* the flags of an action
  NoFlags,   \* those of the default actions
  Handlers   \* the handlers

VARIABLES
  phase,    \* "alive", "killed", "exited"
  mask,     \* the signal mask
  pend,     \* the pending signals
  acts,     \* handler, mask and flags of each signal
  request,  \* the sigaction in progress, NoRequest if none
  stack,    \* what the running handlers interrupted
  env       \* where longjmp goes to, and the mask it restores

vars == <<phase, mask, pend, acts, request, stack, env>>

NoRequest == [sig |-> 0, handler |-> Default, mask |-> {}, flags |-> NoFlags]
NoEnv     == [depth |-> -1, mask |-> {}]

Init ==
  /\ phase = "alive"
  /\ mask = {} /\ pend = {}
  /\ acts = [s \in Sigs |-> [handler |-> Default, mask |-> {}, flags |-> NoFlags]]
  /\ request = NoRequest
  /\ stack = << >>
  /\ env = NoEnv

Post(s) ==
  /\ phase = "alive"
  /\ pend' = pend \union {s}
  /\ UNCHANGED <<phase, mask, acts, request, stack, env>>

Drop(s) ==
  /\ phase = "alive" /\ s \in pend \ mask
  /\ acts[s].handler = Ignored
  /\ pend' = pend \ {s}
  /\ UNCHANGED <<phase, mask, acts, request, stack, env>>

Kill(s) ==
  /\ phase = "alive" /\ s \in pend \ mask
  /\ acts[s].handler = Default
  /\ phase' = "killed"
  /\ pend' = pend \ {s}
  /\ UNCHANGED <<mask, acts, request, stack, env>>

(* SA_NODEFER and SA_RESETHAND.                                            *)
OwnSignal(s) == IF "SA_NODEFER" \in acts[s].flags THEN {} ELSE {s}

AfterDelivery(s) ==
  IF "SA_RESETHAND" \in acts[s].flags
  THEN [acts EXCEPT ![s] = [@ EXCEPT !.handler = Default]] ELSE acts

Handle(s) ==
  /\ phase = "alive" /\ s \in pend \ mask
  /\ acts[s].handler \in Handlers
  /\ pend' = pend \ {s}
  /\ stack' = Append(stack, [sig |-> s, mask |-> mask, request |-> request])
  /\ mask' = mask \union acts[s].mask \union OwnSignal(s)
  /\ acts' = AfterDelivery(s)
  /\ request' = NoRequest
  /\ UNCHANGED <<phase, env>>

Return ==
  LET top == stack[Len(stack)] IN
    /\ phase = "alive" /\ stack # << >> /\ request = NoRequest
    /\ mask' = top.mask
    /\ request' = top.request
    /\ stack' = SubSeq(stack, 1, Len(stack) - 1)
    /\ env' = IF env.depth = Len(stack) THEN NoEnv ELSE env
    /\ UNCHANGED <<phase, pend, acts>>

SetMask ==
  /\ phase = "alive" /\ request = NoRequest
  /\ mask' \in SUBSET (Sigs \ Forced)
  /\ UNCHANGED <<phase, pend, acts, request, stack, env>>

Ask ==
  /\ phase = "alive" /\ request = NoRequest
  /\ request' \in [sig : SigArgs, handler : Handlers \union {Default, Ignored},
                   mask : SUBSET Sigs, flags : SUBSET Flags]
  /\ UNCHANGED <<phase, mask, pend, acts, stack, env>>

Install ==
  /\ phase = "alive" /\ request.sig \in Sigs \ Forced
  /\ acts' = [acts EXCEPT ![request.sig] =
                [handler |-> request.handler, mask |-> request.mask \ Forced,
                 flags |-> request.flags]]
  /\ pend' = IF request.handler = Ignored THEN pend \ {request.sig} ELSE pend
  /\ request' = NoRequest
  /\ UNCHANGED <<phase, mask, stack, env>>

Refuse ==
  /\ phase = "alive" /\ request.sig \notin Sigs \ Forced
  /\ request' = NoRequest
  /\ UNCHANGED <<phase, mask, pend, acts, stack, env>>

SetJump ==
  /\ phase = "alive" /\ request = NoRequest
  /\ env' = [depth |-> Len(stack), mask |-> mask]
  /\ UNCHANGED <<phase, mask, pend, acts, request, stack>>

Jump ==
  /\ phase = "alive" /\ request = NoRequest
  /\ env # NoEnv
  /\ stack' = SubSeq(stack, 1, env.depth)
  /\ mask' = env.mask
  /\ UNCHANGED <<phase, pend, acts, request, env>>

Exit ==
  /\ phase = "alive" /\ request = NoRequest
  /\ phase' = "exited"
  /\ UNCHANGED <<mask, pend, acts, request, stack, env>>

Next ==
  \/ \E s \in Sigs : Post(s) \/ Drop(s) \/ Kill(s) \/ Handle(s)
  \/ Return
  \/ SetMask
  \/ Ask
  \/ Install \/ Refuse
  \/ SetJump \/ Jump
  \/ Exit

Spec == Init /\ [][Next]_vars
=============================================================================
