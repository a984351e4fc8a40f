--------------------------- MODULE MCSyscallTrace ---------------------------
(***************************************************************************)
(* Small instances of SyscallTrace: three task ids, openat, a clone, an    *)
(* exit call and rt_sigreturn, two names and two users.                    *)
(***************************************************************************)
EXTENDS SyscallTrace

NoFilter ==
  [tidWhite |-> {}, tidBlack |-> {}, pidWhite |-> {}, pidBlack |-> {},
   uidWhite |-> {}, uidBlack |-> {}, commWhite |-> {}, commBlack |-> {},
   defaultCommBlack |-> {"hwui"}, uidGroups |-> {},
   sysWhite |-> {"openat", "clone", "exit", "sigreturn"}, sysBlack |-> {},
   traceAll |-> FALSE, signal |-> FALSE, tsignal |-> FALSE]

(* -p 1 --kill SIGSTOP: one process and its children.                      *)
ByPid == [NoFilter EXCEPT !.defaultCommBlack = {}, !.pidWhite = {1}, !.signal = TRUE]

(* A uid filter, trace-all with a blacklisted call, a thread signal.       *)
ByUid == [NoFilter EXCEPT !.uidWhite = {"app"}, !.traceAll = TRUE,
                          !.sysWhite = {"openat", "clone", "exit"},
                          !.sysBlack = {"sigreturn"}, !.tsignal = TRUE]

ByPidQuiet == [ByPid EXCEPT !.signal = FALSE]

StableOptions == {ByPid}
ChangingOptions == {ByUid}
PidOptions == {ByPidQuiet}

TwoTids == {1, 2}
ThreeTids == {1, 2, 3}
Sysnos == {"openat", "clone", "exit", "sigreturn"}
AppOnly == {"app"}
TwoUids == {"app", "root"}
OneComm == {"main"}
TwoComms == {"main", "hwui"}
Clones == {"clone"}
Exits == {"exit"}
Forgets == {"sigreturn"}
Filtered == {"openat", "clone"}   \* -s openat:f0, a filter of the table on clone
ExitFiltered == {"clone"}
Live1 == {1}
Live12 == {1, 2}
Own3 == [t \in ThreeTids |-> t]
Own2 == [t \in TwoTids |-> t]
Threads12 == [t \in ThreeTids |-> IF t = 3 THEN 3 ELSE 1]
=============================================================================
