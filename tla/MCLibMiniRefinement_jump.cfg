SPECIFICATION Spec
CONSTANTS
  Sigs = {2, 14}
  Forced = {}
  SIGALRM = 14
  Handlers = {100}
  Seconds = 0
  MaxDepth = 1
  Calls = {"signal", "setjmp", "longjmp"}
  Hows = {0}
  Masks <- MCMasks
  SigArgs = {2}
  HandlerArgs = {100}
  GarbageHandlers = {1}
  Garbage = {{}}
  FlagArgs = {{}}
  GarbageFlags = {{}}
  Errors = {36}
  JumpValues = {1}
PROPERTY LongjmpRestoresMask
CHECK_DEADLOCK FALSE
