SPECIFICATION Spec
CONSTANTS
  Sigs = {2, 14}
  Forced = {}
  SIGALRM = 14
  Handlers = {100}
  Seconds = 0
  MaxDepth = 2
  Calls = {"syscall", "sigpending", "sleep", "sigprocmask", "alarm", "pause", "sigaction", "signal", "sigquery", "setjmp", "longjmp", "perror", "exit"}
  Hows = {0}
  Masks <- MCMasks
  SigArgs = {2, 14}
  HandlerArgs = {100}
  GarbageHandlers = {100}
  Garbage <- MCGarbage
  FlagArgs <- MCFlagArgs
  GarbageFlags <- MCGarbageFlags
  Errors = {}
  JumpValues = {1}
INVARIANTS TypeOK MasksNest NoReentry
CHECK_DEADLOCK FALSE
