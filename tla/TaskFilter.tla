----------------------------- MODULE TaskFilter -----------------------------
(***************************************************************************)
(* What the task filter of a run promises its user, stated over every      *)
(* combination of options, fork list and task: one state per combination.  *)
(***************************************************************************)
EXTENDS Filtering, CommonList, FiniteSetsExt

CONSTANTS Options,    \* the option records a run may be started with
          ForkLists,  \* contents of child_parent_map
          Tasks       \* the tasks asked about

ASSUME TaskFilterAssumption ==
  /\ Options \subseteq OptionsType
  /\ ForkLists \subseteq [Tid -> Tid \cup {NoPid}]
  /\ Tasks \subseteq [tid : Tid, pid : Tid, uid : Uid, comm : Comm]
  /\ Tid \cup Uid \cup Sysno \subseteq 0..(Width - 1)

VARIABLES opts, forks, task

vars == <<opts, forks, task>>

Init == opts \in Options /\ forks \in ForkLists /\ task \in Tasks
Next == UNCHANGED vars
Spec == Init /\ [][Next]_vars

TracedWith(o, f) == ShouldTrace(MapsOf(o, {}), f, task)

-----------------------------------------------------------------------------
(* The levels of the filter, first to last: the tracer itself, thread      *)
(* name, tid, pid, fork list, uid, and the two defaults of common_filter.  *)
Levels(m, f) ==
  << [black |-> task.pid = Self, white |-> FALSE],
     [black |-> \/ task.comm \in m.commBlack
                \/ m.threadWhitelist /\ task.comm \notin m.commWhite,
      white |-> task.comm \in m.commWhite],
     [black |-> task.tid \in m.tidBlack, white |-> task.tid \in m.tidWhite],
     [black |-> task.pid \in m.pidBlack, white |-> task.pid \in m.pidWhite],
     [black |-> FALSE, white |-> f[task.pid] # NoPid],
     [black |-> task.uid \in m.uidBlack, white |-> task.uid \in m.uidWhite],
     [black |-> FALSE, white |-> m.filterSet /\ task.uid \in m.uidGroups],
     [black |-> ~m.noFilterAllow, white |-> m.filterSet] >>

(* The first level that has an opinion decides, a blacklist before the     *)
(* whitelist of the same level (the comment of should_trace: "blacklist    *)
(* first, then thread_name tid pid uid trace_uid_group in turn").          *)
FirstLevelDecides ==
  LET levels == Levels(MapsOf(opts, {}), forks)
      decided == {i \in 1..8 : levels[i].black \/ levels[i].white}
  IN TracedWith(opts, forks) <=>
       decided # {} /\ ~levels[Min(decided)].black

(* One more entry in any blacklist never makes the filter admit a task it  *)
(* did not admit: blacklists of different levels never work against each   *)
(* other, and replacing the first user filter by the default deny never    *)
(* widens the trace.                                                       *)
BlacklistsOnlyRemove ==
  \A o \in {[opts EXCEPT !.tidBlack = @ \cup {x}] : x \in Tid}
           \cup {[opts EXCEPT !.pidBlack = @ \cup {x}] : x \in Tid}
           \cup {[opts EXCEPT !.uidBlack = @ \cup {x}] : x \in Uid}
           \cup {[opts EXCEPT !.commBlack = @ \cup {x}] : x \in Comm} :
    TracedWith(o, forks) => TracedWith(opts, forks)

(* Once the user has asked for some task, one more id in a tid, pid or uid *)
(* whitelist never takes a traced task out of the trace (thread names are  *)
(* different: a first name makes the list exclusive); nor does the fork    *)
(* handler ever, which adds entries while the trace runs.                  *)
WhitelistsOnlyAdd ==
  /\ opts.tidWhite \cup opts.pidWhite # {} \/ opts.uidWhite \cup opts.uidGroups # {} =>
       \A o \in {[opts EXCEPT !.tidWhite = @ \cup {x}] : x \in Tid}
                \cup {[opts EXCEPT !.pidWhite = @ \cup {x}] : x \in Tid}
                \cup {[opts EXCEPT !.uidWhite = @ \cup {x}] : x \in Uid} :
         TracedWith(opts, forks) => TracedWith(o, forks)
  /\ \A c, p \in Tid :
       TracedWith(opts, forks) => TracedWith(opts, [forks EXCEPT ![c] = p])

(* A run with blacklists only traces nothing: every blacklist switches the *)
(* permissive default off and none of them admits a task.                  *)
BlacklistsAloneTraceNothing ==
  /\ opts.tidBlack \cup opts.pidBlack # {} \/ opts.uidBlack # {} \/ opts.commBlack # {}
  /\ opts.tidWhite \cup opts.pidWhite = {} /\ opts.uidWhite \cup opts.uidGroups = {}
  /\ opts.commWhite = {}
  /\ forks[task.pid] = NoPid
  => ~TracedWith(opts, forks)

(* The lists of the user are the lists of the kernel in the stack module,  *)
(* which refuses a number that would be seen in the next list, a           *)
(* blacklist; in the syscall module only if every number stands below the  *)
(* stride: one above it strays into one other list or none, and no number  *)
(* below it ever does.                                                     *)
KeysMeanLists == MeansLists(opts)
=============================================================================
