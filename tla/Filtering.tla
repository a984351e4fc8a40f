----------------------------- MODULE Filtering -----------------------------
(***************************************************************************)
(* The task filter of the eBPF programs: should_trace() of                 *)
(* ebpf/common/filtering.h, the maps it reads, and what the user side      *)
(* writes into those maps for the options of a run.                        *)
(*                                                                         *)
(* A task is a record [tid, pid, uid, comm].  The maps are a record whose  *)
(* fields are the segments of common_list (one set per segment), the       *)
(* thread_filter map (two sets, by value), and the fields of common_filter *)
(* and base_config that the kernel programs read.                          *)
(***************************************************************************)
EXTENDS Integers

CONSTANTS Tid,      \* task ids; a process id is the tid of its main thread
          Uid,      \* user ids
          Comm,     \* thread names
          Sysno,    \* syscall numbers
          Self,     \* the process id of the tracer
          NoPid     \* an absent entry of child_parent_map

ASSUME FilteringAssumption == NoPid \notin Tid

(***************************************************************************)
(* The filter state the kernel programs see.  filterSet says whether       *)
(* common_filter has its one entry; enterPoints and exitPoints are the     *)
(* keys of the two point-args maps; traceAll is trace_mode = TRACE_ALL;    *)
(* uidGroups is the set of uids that the trace_uid_group mask covers.      *)
(***************************************************************************)
MapsType ==
  [tidWhite : SUBSET Tid, tidBlack : SUBSET Tid,
   pidWhite : SUBSET Tid, pidBlack : SUBSET Tid,
   uidWhite : SUBSET Uid, uidBlack : SUBSET Uid,
   sysWhite : SUBSET Sysno, sysBlack : SUBSET Sysno,
   commWhite : SUBSET Comm, commBlack : SUBSET Comm,
   threadWhitelist : BOOLEAN, filterSet : BOOLEAN, traceAll : BOOLEAN,
   uidGroups : SUBSET Uid, noFilterAllow : BOOLEAN,
   signal : BOOLEAN, tsignal : BOOLEAN,
   enterPoints : SUBSET Sysno, exitPoints : SUBSET Sysno]

(* Faulty: the pid whitelist is asked before the tid lists.                *)
ShouldTracePidFirst(m, forks, task) ==
  /\ task.pid # Self
  /\ m.threadWhitelist => task.comm \in m.commWhite
  /\ task.comm \notin m.commBlack
  /\ \/ task.comm \in m.commWhite
     \/ task.pid \in m.pidWhite
     \/ /\ task.tid \notin m.tidBlack
        /\ \/ task.tid \in m.tidWhite
           \/ /\ task.pid \notin m.pidBlack
              /\ \/ forks[task.pid] # NoPid
                 \/ /\ task.uid \notin m.uidBlack
                    /\ \/ task.uid \in m.uidWhite
                       \/ /\ m.filterSet
                          /\ task.uid \in m.uidGroups \/ m.noFilterAllow

(* Faulty: a tid whitelist is exclusive, as a thread-name whitelist is.    *)
ShouldTraceTidExclusive(m, forks, task) ==
  /\ task.pid # Self
  /\ task.comm \notin m.commBlack
  /\ \/ task.comm \in m.commWhite
     \/ task.tid \in m.tidWhite
     \/ /\ m.tidWhite = {}
        /\ \/ task.pid \in m.pidWhite
           \/ forks[task.pid] # NoPid
           \/ task.uid \in m.uidWhite

(***************************************************************************)
(* should_trace(): the checks in the order of the code, each one returning *)
(* before the next is reached.  forks is child_parent_map, looked up with  *)
(* the process id of the task.                                             *)
(***************************************************************************)
ShouldTrace(m, forks, task) ==
  /\ task.pid # Self
  /\ m.threadWhitelist => task.comm \in m.commWhite \cup m.commBlack
  /\ task.comm \notin m.commBlack
  /\ \/ task.comm \in m.commWhite
     \/ /\ task.tid \notin m.tidBlack
        /\ \/ task.tid \in m.tidWhite
           \/ /\ task.pid \notin m.pidBlack
              /\ \/ task.pid \in m.pidWhite
                 \/ forks[task.pid] # NoPid
                 \/ /\ task.uid \notin m.uidBlack
                    /\ \/ task.uid \in m.uidWhite
                       \/ /\ m.filterSet
                          /\ task.uid \in m.uidGroups \/ m.noFilterAllow

(* The syscall-number filter of both handlers: the whitelist only in       *)
(* TRACE_COMMON mode, the blacklist in both.                               *)
SysnoAdmitted(m, s) ==
  /\ m.traceAll \/ s \in m.sysWhite
  /\ s \notin m.sysBlack

-----------------------------------------------------------------------------
(***************************************************************************)
(* The user side: the options of a run and the maps they become.  opts has *)
(* the eight id lists, the two thread-name lists, the default thread-name  *)
(* blacklist in force, the uid groups, the trace mode and the signals.     *)
(***************************************************************************)
(* Faulty: the permissive default stays on with blacklists only.           *)
HasNoUserWhitelist(opts) ==
  /\ opts.uidWhite = {} /\ opts.pidWhite = {} /\ opts.tidWhite = {}
  /\ opts.commWhite = {} /\ opts.uidGroups = {}

HasNoUserFilter(opts) ==
  /\ opts.uidWhite = {} /\ opts.uidBlack = {}
  /\ opts.pidWhite = {} /\ opts.pidBlack = {}
  /\ opts.tidWhite = {} /\ opts.tidBlack = {}
  /\ opts.commWhite = {} /\ opts.commBlack = {}
  /\ opts.uidGroups = {}

(* Faulty: a blacklist of the user replaces the defaults.                  *)
ThreadFilterBlackReplaced(opts) ==
  (IF opts.commBlack = {} THEN opts.defaultCommBlack ELSE opts.commBlack)
    \ opts.commWhite

(* update_thread_filter: defaults, then the user's blacklist, then the     *)
(* whitelist, each write replacing an earlier value of the same name.      *)
ThreadFilterBlack(opts) ==
  (opts.defaultCommBlack \cup opts.commBlack) \ opts.commWhite

MapsOf(opts, points) ==
  [tidWhite |-> opts.tidWhite, tidBlack |-> opts.tidBlack,
   pidWhite |-> opts.pidWhite, pidBlack |-> opts.pidBlack,
   uidWhite |-> opts.uidWhite, uidBlack |-> opts.uidBlack,
   sysWhite |-> opts.sysWhite, sysBlack |-> opts.sysBlack,
   commWhite |-> opts.commWhite, commBlack |-> ThreadFilterBlack(opts),
   threadWhitelist |-> opts.commWhite # {}, filterSet |-> TRUE,
   traceAll |-> opts.traceAll,
   uidGroups |-> opts.uidGroups, noFilterAllow |-> HasNoUserFilter(opts),
   signal |-> opts.signal, tsignal |-> opts.tsignal,
   enterPoints |-> points, exitPoints |-> points]

(* update_child_parent: every pid of the whitelist is its own parent.      *)
ForkRoots(opts) == [p \in Tid |-> IF p \in opts.pidWhite THEN p ELSE NoPid]

OptionsType ==
  [tidWhite : SUBSET Tid, tidBlack : SUBSET Tid,
   pidWhite : SUBSET Tid, pidBlack : SUBSET Tid,
   uidWhite : SUBSET Uid, uidBlack : SUBSET Uid,
   commWhite : SUBSET Comm, commBlack : SUBSET Comm,
   defaultCommBlack : SUBSET Comm, uidGroups : SUBSET Uid,
   sysWhite : SUBSET Sysno, sysBlack : SUBSET Sysno, traceAll : BOOLEAN,
   signal : BOOLEAN, tsignal : BOOLEAN]
=============================================================================
