------------------------------ MODULE FileCalls ------------------------------
(***************************************************************************)
(* What monitoring a program should mean: the program makes its file calls *)
(* as it would alone, each takes effect at one moment and returns what the *)
(* kernel answers, and a log outside the program's files gets one line per *)
(* call when the call returns, with its result.  Where there can be no log *)
(* there is no line at all.                                                *)
(***************************************************************************)
EXTENDS FileSystem

CONSTANTS
  Threads,
  LogName   \* the argument of -o

VARIABLES
  phase,    \* before the program, the program, or no program
  logging,  \* it is logged
  call,     \* of each thread, its call in progress or its last one
  log

vars == <<fsVars, phase, logging, call, log>>

Idle == [pc |-> "idle", call |-> FdCall("close", -1, 0), ret |-> 0]

Init ==
  /\ phase = "launcher" /\ logging = FALSE
  /\ call = [t \in Threads |-> Idle]
  /\ log = << >>
  /\ streams = {}
  /\ dir \in [Names -> Files \union {NoFile}]
  /\ fdt \in [Fd -> Files \union {NoFile}]
  /\ content = [f \in Files |-> Blank]

(* The program starts or does not; it inherits its descriptors and, if it  *)
(* is logged, one more.                                                    *)
Start ==
  /\ phase = "launcher"
  /\ phase' \in {"program", "ended"}
  /\ logging' \in BOOLEAN
  /\ \/ UNCHANGED <<dir, fdt>>
     \/ \E fd \in Fd, f \in Files :
          /\ fdt[fd] = NoFile
          /\ fdt' = [fdt EXCEPT ![fd] = f]
          /\ dir' \in {dir, [dir EXCEPT ![LogName] = f]}
  /\ UNCHANGED <<content, streams, call, log>>

Enter(t, c) ==
  /\ phase = "program"
  /\ call[t].pc = "idle"
  /\ call' = [call EXCEPT ![t] = [pc |-> "called", call |-> c, ret |-> 0]]
  /\ UNCHANGED <<fsVars, phase, logging, log>>

Do(t) ==
  /\ call[t].pc = "called"
  /\ \E ret \in Results(call[t].call), err \in Errnos :
       /\ Does(call[t].call, ret, err)
       /\ call' = [call EXCEPT ![t].pc = "done", ![t].ret = ret]
  /\ UNCHANGED <<phase, logging, log>>

Leave(t) ==
  /\ call[t].pc = "done"
  /\ call' = [call EXCEPT ![t].pc = "idle"]
  /\ log' = IF logging THEN Append(log, [by |-> t, fn |-> call[t].call.fn, ret |-> call[t].ret])
            ELSE log
  /\ UNCHANGED <<fsVars, phase, logging>>

Next ==
  \/ Start
  \/ \E t \in Threads :
       \/ \E c \in Calls : Enter(t, c)
       \/ Do(t)
       \/ Leave(t)

Spec == Init /\ [][Next]_vars
=============================================================================
