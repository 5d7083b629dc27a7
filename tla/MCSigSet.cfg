SPECIFICATION Spec
CONSTANTS
  NSIG = 8
  AddNos <- MCAddNos
  DelNos <- MCSignals
INVARIANT MembersAgree
