SPECIFICATION PFairSpec
CONSTANTS
  NSIG = 64
  Sigs = {2, 14}
  Forced = {}
  SIGALRM = 14
  SIGINT = 2
  Handlers = {100}
  handler = 100
  Seconds = 5
  MaxDepth = 3
  Calls = {"syscall", "sigprocmask", "sigpending", "alarm", "pause", "sleep", "signal", "setjmp", "longjmp", "exit"}
  Hows = {0}
  Masks <- MCMasks
  SigArgs = {2, 14}
  HandlerArgs = {1, 100}
  GarbageHandlers = {0}
  Garbage <- MCGarbage
  FlagArgs = {}
  GarbageFlags = {}
  Errors = {}
  JumpValues <- MCJumpValues
  Progs = {"alarm1", "alarm2", "alarm3", "jmp1"}
INVARIANTS DeathByAlarm PendingReported JumpsInOrder
PROPERTIES ProgramsEnd
CHECK_DEADLOCK FALSE
