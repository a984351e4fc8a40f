SPECIFICATION Spec
CONSTANTS
  Tid <- TwoTids
  Uid <- TwoUids
  Comm <- TwoComms
  Sysno <- Sysnos
  Self = 0
  NoPid = NoPid
  NoRegs = NoRegs
  NoCall = NoCall
  CloneCalls <- Clones
  ExitCalls <- Exits
  ForgetCalls <- Forgets
  Points <- Sysnos
  EnterFilters <- Filtered
  ExitFilters <- ExitFiltered
  Options <- ChangingOptions
  InitLive <- Live12
  InitPid <- Own2
  MaxRegs = 1
  MaxChildren = 2
INVARIANTS FilteredCallSilent
CHECK_DEADLOCK FALSE
