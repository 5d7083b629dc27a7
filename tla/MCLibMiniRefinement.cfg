SPECIFICATION CarefulSpec
CONSTANTS
  Sigs = {2, 14}
  Forced = {}
  SIGALRM = 14
  Handlers = {100}
  Seconds = 0
  MaxDepth = 2
  Calls = {"syscall", "sigpending", "sleep", "sigprocmask", "sigaction", "signal", "setjmp", "longjmp"}
  Hows = {2}
  Masks <- MCMasks
  SigArgs = {2, 65}
  HandlerArgs = {1, 100}
  GarbageHandlers = {0}
  Garbage = {{}}
  FlagArgs <- MCFlagArgs
  GarbageFlags = {{}}
  Errors = {36}
  JumpValues = {0}
PROPERTIES ImplementsPosix
CHECK_DEADLOCK FALSE
