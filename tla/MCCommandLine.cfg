SPECIFICATION LineSpec
CONSTANTS
  Tid <- Tids
  Uid <- Users
  Comm <- Names
  Sysno <- Calls3
  Self = 2
  NoPid = NoPid
  Stride = 4
  Width = 40
  Options <- AnyOptions
  Lines <- SomeLines
  Table <- Calls3
  Members <- SomeMembers
  ArgsOf <- SomeArgs
  ForkLists <- SomeForkLists
  Tasks <- SomeTasks
INVARIANTS
  FirstLevelDecides
  BlacklistsOnlyRemove
  WhitelistsOnlyAdd
  BlacklistsAloneTraceNothing
  KeysMeanLists
  SelectionDecides
  FiltersSitWhereNamed
