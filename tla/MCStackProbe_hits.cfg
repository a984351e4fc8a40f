SPECIFICATION Spec
CONSTANTS
  Tid <- MCTid
  Uid <- MCUid
  Comm <- MCComm
  Sysno = {}
  Self = 0
  NoPid = NoPid
  Options <- MCOptions
  Hooks <- MCHooks
  InitLive <- MCLive
  InitPid <- MCPid
  MaxDepth = 2
  MaxRegs = 1
INVARIANTS TypeOK HitsReported OwnPoint
PROPERTIES StopAnnounced
CHECK_DEADLOCK FALSE
