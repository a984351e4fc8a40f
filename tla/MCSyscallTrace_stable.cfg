SPECIFICATION StableSpec
CONSTANTS
  Tid <- ThreeTids
  Uid <- AppOnly
  Comm <- OneComm
  Sysno <- Sysnos
  Self = 0
  NoPid = NoPid
  NoRegs = NoRegs
  NoCall = NoCall
  CloneCalls <- Clones
  ExitCalls <- Exits
  ForgetCalls <- Forgets
  Points <- Sysnos
  EnterFilters <- Filtered
  ExitFilters <- ExitFiltered
  Options <- StableOptions
  InitLive <- Live1
  InitPid <- Own3
  MaxRegs = 3
  MaxChildren = 3
INVARIANTS TypeOK PairedExit OneGeneration
PROPERTIES ExitReported StopAnnounced ImplementsCallReports
CHECK_DEADLOCK FALSE
