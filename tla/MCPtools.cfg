SPECIFICATION Spec
CONSTANTS
  MaxAddress = 7
  MaxLong = 5
  prog = prog
  deleted = deleted
  stack = stack
  vsyscall = vsyscall
  MapNames = {prog, deleted, stack, vsyscall}
  FirstWord <- MCFirstWord
  NoMapName = NoMapName
  Garbage = Garbage
  Perms = {"r-x", "rw-"}
  Memories <- MCMemories
  ElfFiles <- MCElfFiles
  MaxFiles = 2
INVARIANTS TypeOK EntryPerLine UndefinedNeedsCause
CHECK_DEADLOCK FALSE
