SPECIFICATION Spec
CONSTANTS
  Pids = {"1", "2", "3"}
  Gone = Gone
  Processes <- MCProcesses
  bin = bin
  lib = lib
  tty = tty
  log = log
  tmp = tmp
  x = x
  Files <- MCFiles
  Kind <- MCKind
  Node <- MCNode
  Descriptors = {"0", "1"}
  Addresses = {"a1", "a2", "a3"}
  NotOpen = NotOpen
  NotMapped = NotMapped
  Anonymous = Anonymous
  MaxChanges = 1
  Rank <- MCRank
  Users <- MCUsers
  Words <- MCWords
  WordsIn <- MCWordsIn
  Garbage = Garbage
  Invalid = Invalid
  MaxDirs = 2
  CommArgs <- MCCommArgs
  TypeArgs <- MCTypeArgs
  FileArgs <- MCFileArgs
INVARIANT MemNodes
CHECK_DEADLOCK FALSE
