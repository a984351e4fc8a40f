SPECIFICATION StableSpec
CONSTANTS
  Tid <- ThreeTids
  Uid <- AppOnly
  Comm <- OneComm
  Sysno <- Sysnos
  Self = 0
  NoPid = NoPid
  NoRegs = NoRegs
  NoCall = NoCall
  CloneCalls <- Clones
  ExitCalls <- Exits
  ForgetCalls <- Forgets
  Points <- Sysnos
  EnterFilters <- Filtered
  ExitFilters <- ExitFiltered
  Options <- PidOptions
  InitLive <- Live12
  InitPid <- Threads12
  MaxRegs = 3
  MaxChildren = 3
INVARIANTS DescendantsTraced
CHECK_DEADLOCK FALSE
