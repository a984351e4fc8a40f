---------------------------- MODULE MCSyscallRun ----------------------------
(***************************************************************************)
(* Two tasks of two users, one more process that the first may fork, two   *)
(* calls; two CPUs, of which the first submits four events and the second  *)
(* one.  (A CPU without a ring, the case of a late one, is met before the  *)
(* rings are open.)                                                        *)
(***************************************************************************)
EXTENDS SyscallRun

Base ==
  [tidWhite |-> {}, tidBlack |-> {}, pidWhite |-> {}, pidBlack |-> {},
   uidWhite |-> {}, uidBlack |-> {}, commWhite |-> {}, commBlack |-> {},
   defaultCommBlack |-> {"hwui"}, uidGroups |-> {},
   sysWhite |-> {"open"}, sysBlack |-> {},
   traceAll |-> FALSE, signal |-> TRUE, tsignal |-> FALSE]

(* -p 1,3 --no-tid 1,3 -s open (the child has an entry, and is left out);  *)
(* -u app,root --no-tname main -s all --no-syscall exit;                   *)
(* -n app --no-pid 2 --tname main,hwui -s open --no-syscall exit.          *)
AnyOptions ==
  {[Base EXCEPT !.tidBlack = {1, 3}, !.pidWhite = {1, 3}],
   [Base EXCEPT !.uidWhite = {"app", "root"}, !.commBlack = {"main"}, !.sysBlack = {"exit"},
                !.traceAll = TRUE],
   [Base EXCEPT !.uidGroups = {"app"}, !.pidBlack = {2}, !.commWhite = {"main", "hwui"},
                !.sysBlack = {"exit"}]}

SomeTasks == {[tid |-> 1, pid |-> 1, uid |-> "app", comm |-> "main"],
              [tid |-> 2, pid |-> 2, uid |-> "root", comm |-> "worker"]}

ChildIds == {3}
ForkingThreads == {1}
Tids == {1, 2, 3}
Uids == {"app", "root"}
Comms == {"main", "worker", "hwui"}
Calls == {"open", "exit"}

LoaderNames == <<"raw_tracepoint__sys_enter", "raw_tracepoint__sys_exit",
                 "raw_tracepoint__sched_process_fork">>
SourceNames == {"raw_syscalls_sys_enter", "raw_syscalls_sys_exit",
                "tracepoint__sched__sched_process_fork"}
NamesAlike == {LoaderNames[i] : i \in 1..3}
Verdicts == {TRUE, FALSE}
Bounds == ("c1" :> 4) @@ ("c2" :> 1)
Cpus == {"c1", "c2"}
Late == {}
AnyObject == {SourceNames, NamesAlike}
=============================================================================
