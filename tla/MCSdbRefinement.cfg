SPECIFICATION CarefulSpec
CONSTANTS
  MaxAddr = 4
  Byte <- MCByte
  CC = 204
  Programs = {"p", "q"}
  NoProg = "none"
  Image <- MCImage
  Faults = {"signal", "kill", "execfail", "die"}
  Commands = {"load", "start", "run", "cont", "si", "break", "delete", "set", "getregs", "exit"}
  BreakAddrs = {1, 2, 3, 4}
  RipValues = {1, 2, 3, 4}
  MaxSessions = 1
INVARIANTS OwnInstructions
PROPERTIES ImplementsService
CHECK_DEADLOCK FALSE
