SPECIFICATION HFairSpec
CONSTANTS
  MaxAddr = 4
  Byte <- MCByte
  CC = 204
  Programs = {"p", "q"}
  NoProg = "none"
  Image <- MCImage
  Faults = {"signal", "kill", "execfail", "die"}
  Commands = {"load", "start", "run", "cont", "si", "break", "delete", "set", "getregs", "exit"}
  BreakAddrs = {1, 2, 4, 6}
  RipValues = {0, 1, 2, 3}
  MaxSessions = 2
INVARIANTS TypeOK Armed UniqueBps TextSync RestoreListed OneStray WaitsAnswered NoOrphan
PROPERTIES PassesReported CommandsAdvance SweepEnds NeverStuck
CHECK_DEADLOCK FALSE
