SPECIFICATION RunSpec
CONSTANTS
  Tid <- Tids
  Uid <- Uids
  Comm <- Comms
  Sysno <- Calls
  Self = 0
  NoPid = NoPid
  Options <- AnyOptions
  Points <- Calls
  Tasks <- SomeTasks
  Children <- ChildIds
  Forkers <- ForkingThreads
  Processor <- Cpus
  MaxInFlight = 1
  Cpu <- Cpus
  LateCpu <- Late
  Room = 2
  Event <- Verdicts
  MaxEvents <- Bounds
  Closed = Closed
  AttachNames <- LoaderNames
  Objects <- AnyObject
INVARIANTS OnlyFilteredTasksFire FiresWanted ChildrenFollowed GapsAnnounced PrintedIsWanted
PROPERTIES EventsPrinted
CHECK_DEADLOCK FALSE
