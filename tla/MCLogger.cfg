SPECIFICATION CarefulSpec
CONSTANTS
  Names = {"a", "b", "log"}
  NoName = "-"
  Files = {tty, f1, f2, f3}
  NoFile = nofile
  MaxFd = 5
  Calls <- MCCalls
  t1 = t1 t2 = t2 f1 = f1 f2 = f2 f3 = f3
  Threads = {t1, t2}
  LogName = "log"
  Terminal = tty
  Inherited <- MCInherited
  IntMax = 1
  MaxCalls = 3
INVARIANTS TypeOK NamesTrue ErrnoKept
PROPERTIES ImplementsFileCalls
SYMMETRY MCSymmetry
CHECK_DEADLOCK FALSE
