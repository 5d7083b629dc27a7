SPECIFICATION Spec
CONSTANTS
  MaxAddr = 4
  Byte <- MCByte
  CC = 204
  Programs = {"p", "q"}
  NoProg = "none"
  Image <- MCImage
  Faults = {}
  Commands = {"load", "start", "run", "cont", "break", "set"}
  BreakAddrs = {1, 2}
  RipValues = {3, 4}
  MaxSessions = 2
INVARIANT PatchesAreListed
CHECK_DEADLOCK FALSE
