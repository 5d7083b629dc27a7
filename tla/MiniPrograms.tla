---------------------------- MODULE MiniPrograms ----------------------------
(***************************************************************************)
(* The programs of hw3 that use the signal calls of the library: alarm1,   *)
(* alarm2, alarm3 and jmp1, each the main function of the one process.     *)
(* line names the next call of main; main executes when no handler does.   *)
(* The user may type ^C at any moment; only alarm3 handles it.             *)
(***************************************************************************)
EXTENDS LibMini, SigSetOps

CONSTANTS
  Progs,   \* the programs to run
  SIGINT,
  handler  \* the handler of alarm3, which does nothing

NumFuns == 10   \* the length of funs

ASSUME ProgramsAssumption ==
  /\ Progs \subseteq {"alarm1", "alarm2", "alarm3", "jmp1"}
  /\ Sigs \subseteq Signals
  /\ SIGINT \in Sigs \ {SIGALRM}
  /\ handler \in Handlers

(* What the programs pass is among the arguments that LibMini considers.   *)
ASSUME ArgumentsAssumption ==
  /\ Seconds >= 5
  /\ SIG_BLOCK \in Hows /\ {SIGALRM} \in Masks
  /\ {SIGALRM, SIGINT} \subseteq SigArgs
  /\ {SIG_IGN, handler} \subseteq HandlerArgs
  /\ 1 .. NumFuns \subseteq JumpValues

VARIABLES
  prog,      \* the program
  line,      \* where main is
  i,         \* main's volatile i, in jmp1
  called,    \* history: the functions that jmp1 has called
  due,       \* history: the alarm had rung when sigpending was called
  reported   \* the message says that SIGALRM is pending

progVars == <<prog, line, i, called, due, reported>>
allVars  == <<vars, progVars>>

PInit ==
  /\ Init
  /\ prog \in Progs
  /\ line = CASE prog = "alarm1" -> "alarm" [] prog = "jmp1" -> "setjmp" [] OTHER -> "block"
  /\ i = 0 /\ called = << >>
  /\ due = FALSE /\ reported = FALSE

Main(p, l) == prog \in p /\ line = l /\ frames = << >>
Goto(l)    == line' = l /\ UNCHANGED prog

Unchanged == UNCHANGED <<i, called, due, reported>>

ToMask(bits)   == {b + 1 : b \in bits}
FromMask(mask) == {s - 1 : s \in mask}

-----------------------------------------------------------------------------
(* alarm1: alarm(3); pause();                                              *)
Alarm1 ==
  /\ Unchanged
  /\ \/ Main({"alarm1"}, "alarm") /\ Alarm(3) /\ Goto("pause")
     \/ Main({"alarm1"}, "pause") /\ Pause /\ Goto("return")

(* alarm2: block SIGALRM; alarm(3); sleep(5); and the report below.        *)
Block ==
  /\ Main({"alarm2", "alarm3"}, "block")
  /\ SigProcMask(SIG_BLOCK, ToMask(sigaddset(sigemptyset, SIGALRM)))
  /\ Goto(IF prog = "alarm2" THEN "alarm" ELSE "ignore")
  /\ Unchanged

Alarm2 ==
  /\ Unchanged
  /\ \/ Main({"alarm2"}, "alarm") /\ Alarm(3) /\ Goto("sleep")
     \/ Main({"alarm2"}, "sleep") /\ Sleep(5) /\ Goto("sigpending")

(* alarm3: block SIGALRM, ignore it too, handle SIGINT; alarm(1); pause(); *)
Alarm3 ==
  /\ Unchanged
  /\ \/ Main({"alarm3"}, "ignore") /\ Signal(SIGALRM, SIG_IGN) /\ Goto("handle")
     \/ Main({"alarm3"}, "handle") /\ Signal(SIGINT, handler) /\ Goto("alarm")
     \/ Main({"alarm3"}, "alarm") /\ Alarm(1) /\ Goto("pause")
     \/ Main({"alarm3"}, "pause") /\ Pause /\ Goto("sigpending")

(* sigpending(&s); if (sigismember(&s, SIGALRM)) ...                       *)
AskPending ==
  /\ Main({"alarm2", "alarm3"}, "sigpending")
  /\ SigPending
  /\ due' = (timer = 0)
  /\ Goto("report")
  /\ UNCHANGED <<i, called, reported>>

Report ==
  /\ Main({"alarm2", "alarm3"}, "report")
  /\ reported' = sigismember(FromMask(ctx.set), SIGALRM)
  /\ Syscall(0)
  /\ Goto("return")
  /\ UNCHANGED <<i, called, due>>

-----------------------------------------------------------------------------
(* jmp1: a function jumps back to the setjmp, which then goes to the next. *)
CallSetjmp ==
  /\ Main({"jmp1"}, "setjmp")
  /\ SetJmp
  /\ Goto("back")
  /\ Unchanged

Back ==
  /\ Main({"jmp1"}, "back")
  /\ At("user")
  /\ i' = IF ctx.ret # 0 THEN i + 1 ELSE i
  /\ Goto(IF i' < NumFuns THEN "fun" ELSE "return")
  /\ UNCHANGED <<vars, called, due, reported>>

Fun ==
  /\ Main({"jmp1"}, "fun")
  /\ called' = Append(called, i + 1)
  /\ Syscall(0)
  /\ Goto("longjmp")
  /\ UNCHANGED <<i, due, reported>>

CallLongjmp ==
  /\ Main({"jmp1"}, "longjmp")
  /\ LongJmp(i + 1)
  /\ Goto("back")
  /\ Unchanged

(* The return of main: start.asm calls exit.                               *)
Return ==
  /\ Main(Progs, "return")
  /\ Exit
  /\ UNCHANGED progVars

-----------------------------------------------------------------------------
MainStep ==
  \/ Alarm1 \/ Block \/ Alarm2 \/ Alarm3 \/ AskPending \/ Report
  \/ CallSetjmp \/ Back \/ Fun \/ CallLongjmp
  \/ Return

System ==
  /\ (KernelNext /\ UNCHANGED libVars) \/ Library \/ HandlerReturns
  /\ UNCHANGED progVars

CtrlC == Post(SIGINT) /\ UNCHANGED <<libVars, progVars>>

PNext == MainStep \/ System \/ CtrlC

PSpec == PInit /\ [][PNext]_allVars

(* The processor runs the program, the kernel delivers, time passes.       *)
PFairSpec == PSpec /\ WF_allVars(MainStep) /\ WF_allVars(System)

Ended == status \in {"killed", "exited"}

-----------------------------------------------------------------------------
(* alarm1 never comes back from its pause, the alarm kills it; alarm2 and  *)
(* alarm3, which block SIGALRM, are never killed by it.                    *)
DeathByAlarm ==
  IF prog = "alarm1" THEN status # "exited" ELSE SIGALRM \notin killer

(* alarm2 and alarm3 report SIGALRM pending exactly if the alarm had rung, *)
(* alarm2 always: a blocked signal does not cut its sleep short.  In       *)
(* alarm3 the signal is ignored as well, but blocked first.                *)
PendingReported ==
  prog \in {"alarm2", "alarm3"} /\ status = "exited" =>
    /\ reported = due
    /\ prog = "alarm2" => reported

(* jmp1 calls its functions in order, each once, and all before it ends.   *)
JumpsInOrder ==
  /\ \A k \in DOMAIN called : called[k] = k
  /\ prog = "jmp1" /\ status = "exited" => Len(called) = NumFuns

(* All but alarm3 end whatever the user types; alarm3 does if a ^C that is *)
(* not blocked reaches its pause and the user does not type ^C for ever.   *)
(* (The mask that signal leaves unset may block it: the pause never ends.) *)
ProgramsEnd ==
  /\ prog # "alarm3" ~> Ended
  /\ \/ []<><<CtrlC>>_allVars
     \/ status = "pausing" /\ SIGINT \in pending \ blocked ~> Ended
=============================================================================
