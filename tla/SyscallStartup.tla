--------------------------- MODULE SyscallStartup ---------------------------
(***************************************************************************)
(* SyscallTracepointModule::run() of src/module/syscall_tracepoint.rs: the *)
(* programs are attached first, the maps are written one entry after the   *)
(* other, the perf buffer is opened last.  Meanwhile the programs already  *)
(* run on every system call of the machine and see the maps half written.  *)
(*                                                                         *)
(* Of the programs, this module models sys_enter, map lookup by map        *)
(* lookup, up to what it submits and signals, and the fork program; tasks  *)
(* fork but do not change otherwise.  A program runs to its end on its     *)
(* CPU, so that each CPU has at most one call in flight, while user space  *)
(* writes on another.  SyscallRun adds the perf buffer and the poll loop.  *)
(***************************************************************************)
EXTENDS Filtering, SequencesExt

CONSTANTS Options,       \* the option records a run may be started with
          Points,        \* the calls of the point table
          Tasks,         \* the tasks of the machine at the start
          Children,      \* ids of processes that may be forked
          Forkers,       \* bound: the threads that may fork
          Processor,     \* the CPUs
          MaxInFlight,   \* bound: calls in flight at the same time
          AttachNames,   \* the programs run() asks for, in order
          Objects        \* what syscall.o may hold: sets of program names

ASSUME SyscallStartupAssumption ==
  /\ Options \subseteq OptionsType
  /\ \A o \in Options : o.sysWhite \cap o.sysBlack = {}
  /\ Points \subseteq Sysno
  /\ Tasks \subseteq [tid : Tid, pid : Tid, uid : Uid, comm : Comm]
  /\ Children \subseteq Tid

VARIABLES opts,       \* the options
          programs,   \* the programs in syscall.o
          result,     \* of run(): "starting", "polling", or an error
          attached,   \* how many programs are attached
          todo,       \* the maps still to be written, the first one in part
          maps,       \* the filter maps as far as they are written
          roots,      \* child_parent_map
          seeded,     \* the named pids that run() has put there
          born,       \* the tasks forked since the start
          followed,   \* those forked by processes named and running at the start,
                      \* while run() polls
          op_list,    \* the calls all of whose operations are in op_list
          calls,      \* per CPU: the call in flight, if any
          fired       \* the call that sys_enter submitted in this step, if any

written == <<maps, roots, seeded, op_list>>
machine == <<born, followed>>
vars == <<opts, programs, result, attached, todo, written, machine, calls, fired>>

(* A call in flight: its task, the next step of sys_enter, its number once *)
(* that is looked up, whether a number or buffer filter rejects it, and    *)
(* (history) how far the maps were written when it began.                  *)
NoCall == [task |-> NoPid, at |-> 0, no |-> NoPid, rejected |-> FALSE, since |-> "never"]

(* The maps that run() writes in the end, and the empty ones.              *)
Final == MapsOf(opts, Points)

EmptyMaps ==
  [tidWhite |-> {}, tidBlack |-> {}, pidWhite |-> {}, pidBlack |-> {},
   uidWhite |-> {}, uidBlack |-> {}, sysWhite |-> {}, sysBlack |-> {},
   commWhite |-> {}, commBlack |-> {}, threadWhitelist |-> FALSE,
   filterSet |-> FALSE, traceAll |-> FALSE, uidGroups |-> {},
   noFilterAllow |-> FALSE, signal |-> FALSE, tsignal |-> FALSE,
   enterPoints |-> {}, exitPoints |-> {}]

(* Faulty orders: thread_filter after the point args, op_list after the    *)
(* lists of common_list, child_parent_map not at all.                      *)
WritesThreadsLate ==
  <<"base_config",
    "uidWhite", "uidBlack", "pidWhite", "pidBlack", "tidWhite", "tidBlack",
    "common_filter", "child_parent_map", "arg_filter",
    "enterPoints", "exitPoints", "commBlack", "commWhite", "op_list", "sysWhite", "sysBlack">>

WritesOpsLate ==
  <<"base_config",
    "uidWhite", "uidBlack", "pidWhite", "pidBlack", "tidWhite", "tidBlack",
    "common_filter", "child_parent_map", "commBlack", "commWhite", "arg_filter",
    "enterPoints", "exitPoints", "sysWhite", "sysBlack", "op_list">>

WritesNoRoots ==
  <<"base_config",
    "uidWhite", "uidBlack", "pidWhite", "pidBlack", "tidWhite", "tidBlack",
    "common_filter", "commBlack", "commWhite", "arg_filter",
    "enterPoints", "exitPoints", "op_list", "sysWhite", "sysBlack">>

(* update_all_maps: the maps, in order; common_list by its segments,       *)
(* thread_filter by the names it lists as black, then as white.            *)
Writes == <<"base_config",
            "uidWhite", "uidBlack", "pidWhite", "pidBlack", "tidWhite", "tidBlack",
            "common_filter", "child_parent_map", "commBlack", "commWhite", "arg_filter",
            "enterPoints", "exitPoints", "op_list", "sysWhite", "sysBlack">>

(* The segments of common_list, and the two point-args maps.               *)
Lists == {"uidWhite", "uidBlack", "pidWhite", "pidBlack", "tidWhite", "tidBlack",
          "enterPoints", "exitPoints", "sysWhite", "sysBlack"}

Init ==
  /\ opts \in Options
  /\ programs \in Objects
  /\ result = "starting"
  /\ attached = 0
  /\ todo = Writes
  /\ maps = EmptyMaps
  /\ roots = [p \in Tid |-> NoPid]
  /\ seeded = {}
  /\ op_list = {}
  /\ born = {}
  /\ followed = {}
  /\ calls = [c \in Processor |-> NoCall]
  /\ fired = NoCall

-----------------------------------------------------------------------------
(* attach_tracepoints: the next program is looked up by its name.          *)
Attach ==
  /\ result = "starting"
  /\ attached < Len(AttachNames)
  /\ AttachNames[attached + 1] \in programs
  /\ attached' = attached + 1
  /\ fired' = NoCall
  /\ UNCHANGED <<opts, programs, result, todo, written, machine, calls>>

ProgramNotFound ==
  /\ result = "starting"
  /\ attached < Len(AttachNames)
  /\ AttachNames[attached + 1] \notin programs
  /\ result' = "program not found"
  /\ attached' = 0
  /\ fired' = NoCall
  /\ UNCHANGED <<opts, programs, todo, written, machine, calls>>

(* run() is about to write the map w.                                      *)
Writing(w) ==
  /\ result = "starting"
  /\ attached = Len(AttachNames)
  /\ todo # <<>>
  /\ Head(todo) = w
  /\ fired' = NoCall
  /\ UNCHANGED <<opts, programs, result, attached, machine, calls>>

(* One more entry of a list.                                               *)
WriteEntry(list) ==
  /\ Writing(list)
  /\ \E x \in Final[list] \ maps[list] : maps' = [maps EXCEPT ![list] = @ \cup {x}]
  /\ UNCHANGED <<todo, roots, seeded, op_list>>

(* update_thread_filter: the names of the blacklist and those blocked by   *)
(* default; then those of the whitelist, each over what there is of it.    *)
BlackNames == opts.defaultCommBlack \cup opts.commBlack

WriteBlackName ==
  /\ Writing("commBlack")
  /\ \E n \in BlackNames \ maps.commBlack : maps' = [maps EXCEPT !.commBlack = @ \cup {n}]
  /\ UNCHANGED <<todo, roots, seeded, op_list>>

WriteWhiteName ==
  /\ Writing("commWhite")
  /\ \E n \in opts.commWhite \ maps.commWhite :
       maps' = [maps EXCEPT !.commWhite = @ \cup {n}, !.commBlack = @ \ {n}]
  /\ UNCHANGED <<todo, roots, seeded, op_list>>

WriteOps ==
  /\ Writing("op_list")
  /\ \E s \in Points \ op_list : op_list' = op_list \cup {s}
  /\ UNCHANGED <<todo, maps, roots, seeded>>

(* update_child_parent: a pid may be there already, as a child of an       *)
(* earlier one, and may become one again once it is written.               *)
WriteRoot ==
  /\ Writing("child_parent_map")
  /\ \E p \in opts.pidWhite \ seeded :
       /\ seeded' = seeded \cup {p}
       /\ roots' = [roots EXCEPT ![p] = p]
  /\ UNCHANGED <<todo, maps, op_list>>

(* All entries of a list are written.                                      *)
Written(list) ==
  CASE list = "op_list" -> op_list = Points
    [] list = "child_parent_map" -> seeded = opts.pidWhite
    [] list = "commBlack" -> maps.commBlack = BlackNames
    [] OTHER -> maps[list] = Final[list]

ListWritten(list) ==
  /\ Writing(list)
  /\ Written(list)
  /\ todo' = Tail(todo)
  /\ UNCHANGED written

(* The maps that have a single entry, and arg_filter, which no program     *)
(* looks up before op_list has an entry.                                   *)
Values(w) ==
  CASE w = "base_config" -> {"threadWhitelist"}
    [] w = "common_filter" ->
         {"filterSet", "traceAll", "uidGroups", "noFilterAllow", "signal", "tsignal"}
    [] OTHER -> {}

WriteValue(w) ==
  /\ Writing(w)
  /\ todo' = Tail(todo)
  /\ maps' = [f \in DOMAIN maps |-> IF f \in Values(w) THEN Final[f] ELSE maps[f]]
  /\ UNCHANGED <<roots, seeded, op_list>>

(* An update fails (the map is full, a thread name is too long): run()     *)
(* returns the error, which detaches the programs.                         *)
WriteFails ==
  /\ result = "starting"
  /\ attached = Len(AttachNames)
  /\ todo # <<>>
  /\ result' = "failed"
  /\ attached' = 0
  /\ fired' = NoCall
  /\ UNCHANGED <<opts, programs, todo, written, machine, calls>>

(* All maps are written and the perf buffer is open: the poll loop begins. *)
Poll ==
  /\ result = "starting"
  /\ attached = Len(AttachNames)
  /\ todo = <<>>
  /\ result' = "polling"
  /\ fired' = NoCall
  /\ UNCHANGED <<opts, programs, attached, todo, written, machine, calls>>

-----------------------------------------------------------------------------
Alive == Tasks \cup born

(* w is still to be written, at least in part.                             *)
Pending(w) == \E i \in 1..Len(todo) : todo[i] = w

(* What should_trace() looks at, in its order, and the rest of sys_enter.  *)
Checks == <<"config", "names", "tidBlack", "tidWhite", "pidBlack", "pidWhite",
            "forks", "uidBlack", "uidWhite", "groups">>

Steps == Checks \o <<"point", "sysWhite", "sysBlack", "args", "submit">>

At(c, step) == calls[c].at # 0 /\ Steps[calls[c].at] = step

(* Where a check of should_trace() returns 0, and where it returns 1.      *)
Rejects(check, task) ==
  \/ check = "config" /\ ~Pending("base_config") /\ task.pid = Self
  \/ check = "names" /\ \/ task.comm \in maps.commBlack
                        \/ maps.threadWhitelist /\ task.comm \notin maps.commWhite
  \/ check = "tidBlack" /\ task.tid \in maps.tidBlack
  \/ check = "pidBlack" /\ task.pid \in maps.pidBlack
  \/ check = "uidBlack" /\ task.uid \in maps.uidBlack
  \/ check = "groups" /\ ~(maps.filterSet /\ (task.uid \in maps.uidGroups \/ maps.noFilterAllow))

Admits(check, task) ==
  \/ check = "names" /\ task.comm \in maps.commWhite
  \/ check = "tidWhite" /\ task.tid \in maps.tidWhite
  \/ check = "pidWhite" /\ task.pid \in maps.pidWhite
  \/ check = "forks" /\ roots[task.pid] # NoPid
  \/ check = "uidWhite" /\ task.uid \in maps.uidWhite
  \/ check = "groups"

(* A step of the call on c: it goes on as call, or ends as NoCall.         *)
Goes(c, call) ==
  /\ calls' = [calls EXCEPT ![c] = call]
  /\ UNCHANGED <<opts, programs, result, attached, todo, written, machine>>

Passes(c) == [calls[c] EXCEPT !.at = @ + 1]

(* A task makes a system call.                                             *)
Since == IF todo = <<>> THEN "complete" ELSE IF maps.enterPoints = {} THEN "blind" ELSE "points"

Enter(c, task) ==
  /\ attached > 0
  /\ calls[c] = NoCall
  /\ \A k \in Processor : calls[k].task # task
  /\ Cardinality({k \in Processor : calls[k] # NoCall}) < MaxInFlight
  /\ Goes(c, [task |-> task, at |-> 1, no |-> NoPid, rejected |-> FALSE, since |-> Since])
  /\ fired' = NoCall

TakeCheck(c, check) ==
  /\ At(c, check)
  /\ \/ Rejects(check, calls[c].task) /\ Goes(c, NoCall)
     \/ /\ ~Rejects(check, calls[c].task)
        /\ Admits(check, calls[c].task)
        /\ Goes(c, [calls[c] EXCEPT !.at = Len(Checks) + 1])
     \/ /\ ~Rejects(check, calls[c].task)
        /\ ~Admits(check, calls[c].task)
        /\ Goes(c, Passes(c))
  /\ fired' = NoCall

(* The call has the number s: does it have point arguments?                *)
LookUpPoint(c, s) ==
  /\ At(c, "point")
  /\ Goes(c, IF s \in maps.enterPoints THEN [Passes(c) EXCEPT !.no = s] ELSE NoCall)
  /\ fired' = NoCall

LookUpWhite(c) ==
  /\ At(c, "sysWhite")
  /\ Goes(c, IF maps.filterSet /\ (maps.traceAll \/ calls[c].no \in maps.sysWhite)
             THEN Passes(c) ELSE NoCall)
  /\ fired' = NoCall

LookUpBlack(c) ==
  /\ At(c, "sysBlack")
  /\ Goes(c, IF calls[c].no \in maps.sysBlack THEN NoCall ELSE Passes(c))
  /\ fired' = NoCall

(* read_args: the number and buffer filters of the user reject the call or *)
(* not.  It returns without skipping at the first operation it does not    *)
(* find, unless what came before was enough.  (What a text filter rejects  *)
(* may be submitted all the same, see StringMatch, and counts as kept.)    *)
ReadArgs(c, rejected) ==
  /\ At(c, "args")
  /\ \/ (rejected => calls[c].no \notin op_list) /\ Goes(c, [Passes(c) EXCEPT !.rejected = rejected])
     \/ Goes(c, NoCall)
  /\ fired' = NoCall

(* The call is submitted, and its task signalled if the user asked for it. *)
SubmitCall(c) ==
  /\ At(c, "submit")
  /\ Goes(c, NoCall)
  /\ fired' = calls[c]

(* A task forks a process.  The fork program, attached last, looks for the *)
(* forking thread among the roots.                                         *)
Fork(parent, child) ==
  /\ parent.tid \in Forkers
  /\ \A task \in Alive : task.tid # child
  /\ born' = born \cup {[parent EXCEPT !.tid = child, !.pid = child]}
  /\ roots' = IF attached = Len(AttachNames) /\ roots[parent.tid] = parent.tid
              THEN [roots EXCEPT ![child] = parent.tid] ELSE roots
  /\ followed' = IF /\ result = "polling" /\ parent \in Tasks
                    /\ parent.tid = parent.pid /\ parent.pid \in opts.pidWhite
                 THEN followed \cup {child} ELSE followed
  /\ fired' = NoCall
  /\ UNCHANGED <<opts, programs, result, attached, todo, maps, seeded, op_list, calls>>

Entries == Lists \cup {"commBlack", "commWhite", "op_list", "child_parent_map"}

WriteMaps ==
  \/ \E list \in Lists : WriteEntry(list)
  \/ WriteBlackName \/ WriteWhiteName \/ WriteOps \/ WriteRoot
  \/ \E list \in Entries : ListWritten(list)
  \/ \E w \in Range(Writes) \ Entries : WriteValue(w)
  \/ WriteFails

(* sys_enter up to the submission.                                         *)
SysEnter(c) ==
  \/ \E task \in Alive : Enter(c, task)
  \/ \E check \in Range(Checks) : TakeCheck(c, check)
  \/ \E s \in Sysno : LookUpPoint(c, s)
  \/ LookUpWhite(c) \/ LookUpBlack(c)
  \/ \E rejected \in BOOLEAN : ReadArgs(c, rejected)

Next ==
  \/ Attach \/ ProgramNotFound \/ WriteMaps \/ Poll
  \/ \E c \in Processor : SysEnter(c) \/ SubmitCall(c)
  \/ \E parent \in Alive, child \in Children : Fork(parent, child)

Spec == Init /\ [][Next]_vars

-----------------------------------------------------------------------------
Fired == fired # NoCall

(* child_parent_map as the complete filters mean it: the pids that -p      *)
(* names, and the children followed up to now.                             *)
Rooted == [p \in Tid |-> IF p \in opts.pidWhite THEN p ELSE roots[p]]

(* The complete filters trace the task.                                    *)
Traced(task) == ShouldTrace(Final, Rooted, task)

(* From the first point argument on (thread_filter, the last map of the    *)
(* task filter, is whole before), no call that begins is submitted or      *)
(* signalled for a task that the complete filters do not trace: no         *)
(* half-written list admits more tasks than the whole one.  What began     *)
(* earlier may have read half of the lists and find its point afterwards,  *)
(* at most one call on each CPU.                                           *)
OnlyFilteredTasksFire == Fired /\ fired.since # "blind" => Traced(fired.task)

(* The user asked for the call, and no number or buffer filter rejects it. *)
Wanted(s, rejected) == SysnoAdmitted(Final, s) /\ ~rejected

(* No unwanted call is submitted or signalled: with -s <names> not even    *)
(* while the maps are written, the whitelist coming last but for the       *)
(* blacklist, which it does not meet, however a call in flight and the     *)
(* writes interleave; with -s all among the calls that begin once all maps *)
(* are written.                                                            *)
FiresWanted ==
  Fired /\ (opts.traceAll => fired.since = "complete") => Wanted(fired.no, fired.rejected)

(* Once run() polls, every process that the main thread of a process named *)
(* and running at the start forks is in the trace, whatever was forked     *)
(* while the maps were written.  (A named pid that a followed process      *)
(* forks later is entered as its child, over its own entry.)               *)
ChildrenFollowed == \A child \in followed : roots[child] # NoPid
=============================================================================
