---------------------------- MODULE SyscallTrace ----------------------------
(***************************************************************************)
(* The three raw-tracepoint programs of ebpf/syscall.c and the tasks whose *)
(* system calls they watch: sys_enter saves the registers of a call and    *)
(* submits an enter event, sys_exit loads them back and submits the exit   *)
(* event, sched_process_fork extends child_parent_map.                     *)
(*                                                                         *)
(* A program runs to its end on its CPU, but programs of different threads *)
(* run on different CPUs and share the maps.  sys_enter is split where the *)
(* other CPUs can tell: after its first save_regs.                         *)
(***************************************************************************)
EXTENDS Filtering, FiniteSets

CONSTANTS CloneCalls,   \* the calls that create a task
          ExitCalls,    \* the calls that never return (exit, exit_group)
          ForgetCalls,  \* the calls whose sys_exit sees no number (rt_sigreturn)
          Options,      \* the option records a run may be started with
          Points,       \* the calls that have an entry in the point tables
          EnterFilters, \* the calls whose sys_enter runs argument filters
          ExitFilters,  \* the calls whose sys_exit does (filters of the table)
          InitLive,     \* the tasks alive when tracing starts
          InitPid,      \* their processes
          MaxRegs,      \* max_entries of ctx_regs_map
          MaxChildren,  \* max_entries of child_parent_map
          NoRegs,       \* an absent entry of ctx_regs_map
          NoCall        \* the call of a task in user space

(* An entry of ctx_regs_map.  own is history: the registers are those of   *)
(* the call its thread is in now.                                          *)
Regs == [flag : {0, 1}, own : BOOLEAN]

ASSUME SyscallTraceAssumption ==
  /\ CloneCalls \subseteq Sysno /\ ExitCalls \subseteq Sysno
  /\ ForgetCalls \subseteq Sysno /\ Points \subseteq Sysno
  /\ EnterFilters \subseteq Sysno /\ ExitFilters \subseteq Sysno
  /\ CloneCalls \cap ExitCalls = {}
  /\ InitLive \subseteq Tid
  /\ InitPid \in [Tid -> Tid]
  /\ NoRegs \notin Regs /\ NoCall \notin Sysno
  /\ \A opts \in Options : MapsOf(opts, Points) \in MapsType

VARIABLES
  maps,              \* the filter maps, written before tracing starts
  child_parent_map,  \* the processes traced as children
  ctx_regs_map,      \* the registers saved at sys_enter, by thread
  live, pid, uid, comm,     \* the tasks
  kin,               \* history: the live tasks that descend from a -p process
  phase, call,       \* where each task is, and the number of its call
  outcome,           \* history: what sys_enter made of the call
  stopped,           \* the tasks a signal of the tracer has stopped
  event              \* the event submitted by the last step, if any

taskVars == <<live, pid, uid, comm, kin>>
callVars == <<phase, call, outcome>>
vars == <<maps, child_parent_map, ctx_regs_map, taskVars, callVars, stopped,
          event>>

Outcomes == {"none", "untraced", "pending", "skipped", "submitted"}

NoEvent == [type |-> "none", tid |-> NoPid, own |-> FALSE, outcome |-> "none"]

-----------------------------------------------------------------------------
(* init_program_data: the identity the filters see, read when a program    *)
(* starts.                                                                 *)
Task(t) == [tid |-> t, pid |-> pid[t], uid |-> uid[t], comm |-> comm[t]]

Traced(t) == ShouldTrace(maps, child_parent_map, Task(t))

EnterPasses(t, s) ==
  /\ Traced(t)
  /\ s \in maps.enterPoints
  /\ maps.filterSet
  /\ SysnoAdmitted(maps, s)

(* What sys_exit asks before it loads the registers.                       *)
ExitSees(t, s) ==
  /\ Traced(t)
  /\ s \notin ForgetCalls
  /\ s \in maps.exitPoints
  /\ maps.filterSet

(* Keys of the two hash maps; an update of a full map fails in silence,    *)
(* one of a key that is there always succeeds.                             *)
SavedTids == {t \in Tid : ctx_regs_map[t] # NoRegs}
ListedPids == {p \in Tid : child_parent_map[p] # NoPid}

SaveRegs(t, flag) ==
  IF t \in SavedTids \/ Cardinality(SavedTids) < MaxRegs
  THEN ctx_regs_map' = [ctx_regs_map EXCEPT ![t] = [flag |-> flag, own |-> TRUE]]
  ELSE UNCHANGED ctx_regs_map

DelRegs(t) == ctx_regs_map' = [ctx_regs_map EXCEPT ![t] = NoRegs]

(* The call of t is over: an entry it leaves behind belongs to no call.    *)
Abandon(t) ==
  ctx_regs_map' =
    IF t \in SavedTids THEN [ctx_regs_map EXCEPT ![t].own = FALSE] ELSE ctx_regs_map

Init ==
  /\ \E opts \in Options :
       /\ maps = MapsOf(opts, Points)
       /\ child_parent_map = ForkRoots(opts)
       /\ kin = {t \in InitLive : InitPid[t] \in opts.pidWhite}
  /\ ctx_regs_map = [t \in Tid |-> NoRegs]
  /\ live = InitLive
  /\ pid = InitPid
  /\ \E u \in Uid, n \in Comm : uid = [t \in Tid |-> u] /\ comm = [t \in Tid |-> n]
  /\ phase = [t \in Tid |-> "user"]
  /\ call = [t \in Tid |-> NoCall]
  /\ outcome = [t \in Tid |-> "none"]
  /\ stopped = {}
  /\ event = NoEvent

-----------------------------------------------------------------------------
(* sys_enter.  The call is not for us: the program returns early.          *)
EnterIgnored(t, s) ==
  /\ t \in live \ stopped
  /\ phase[t] = "user"
  /\ ~EnterPasses(t, s)
  /\ phase' = [phase EXCEPT ![t] = "kernel"]
  /\ call' = [call EXCEPT ![t] = s]
  /\ outcome' = [outcome EXCEPT ![t] = "untraced"]
  /\ event' = NoEvent
  /\ UNCHANGED <<maps, child_parent_map, ctx_regs_map, taskVars, stopped>>

(* sys_enter, up to its first save_regs (flag 0).                          *)
EnterSave(t, s) ==
  /\ t \in live \ stopped
  /\ phase[t] = "user"
  /\ EnterPasses(t, s)
  /\ SaveRegs(t, 0)
  /\ phase' = [phase EXCEPT ![t] = "enter"]
  /\ call' = [call EXCEPT ![t] = s]
  /\ outcome' = [outcome EXCEPT ![t] = "pending"]
  /\ event' = NoEvent
  /\ UNCHANGED <<maps, child_parent_map, taskVars, stopped>>

(* Faulty: the filtered call's flag is not set to 1.                       *)
EnterSkipForgetsFlag(t) ==
  /\ phase[t] = "enter"
  /\ call[t] \in EnterFilters
  /\ phase' = [phase EXCEPT ![t] = "kernel"]
  /\ outcome' = [outcome EXCEPT ![t] = "skipped"]
  /\ event' = NoEvent
  /\ UNCHANGED <<maps, child_parent_map, ctx_regs_map, taskVars, call, stopped>>

(* Faulty: the signals are sent before the filter's verdict is looked at.  *)
EnterSkipSignals(t) ==
  /\ phase[t] = "enter"
  /\ call[t] \in EnterFilters
  /\ SaveRegs(t, 1)
  /\ phase' = [phase EXCEPT ![t] = "kernel"]
  /\ outcome' = [outcome EXCEPT ![t] = "skipped"]
  /\ event' = NoEvent
  /\ stopped' = stopped \cup {u \in live : maps.signal /\ pid[u] = pid[t]}
  /\ UNCHANGED <<maps, child_parent_map, taskVars, call>>

(* sys_enter, an argument filter said no: flag 1 is saved for sys_exit.    *)
EnterSkip(t) ==
  /\ phase[t] = "enter"
  /\ call[t] \in EnterFilters
  /\ SaveRegs(t, 1)
  /\ phase' = [phase EXCEPT ![t] = "kernel"]
  /\ outcome' = [outcome EXCEPT ![t] = "skipped"]
  /\ event' = NoEvent
  /\ UNCHANGED <<maps, child_parent_map, taskVars, call, stopped>>

(* Faulty: every thread id of the process, those that are gone included.   *)
SignalledAnyTid(t) == IF maps.signal THEN {u \in Tid : pid[u] = pid[t]} ELSE {}

(* The tasks stopped by filter->signal (the process) and filter->tsignal   *)
(* (the thread).                                                           *)
Signalled(t) ==
  (IF maps.signal THEN {u \in live : pid[u] = pid[t]} ELSE {})
    \cup (IF maps.tsignal THEN {t} ELSE {})

(* sys_enter, the arguments pass: the event is submitted, then the signals *)
(* are sent.                                                               *)
EnterSubmit(t) ==
  /\ phase[t] = "enter"
  /\ phase' = [phase EXCEPT ![t] = "kernel"]
  /\ outcome' = [outcome EXCEPT ![t] = "submitted"]
  /\ event' = [type |-> "enter", tid |-> t, own |-> TRUE, outcome |-> "submitted"]
  /\ stopped' = stopped \cup Signalled(t)
  /\ UNCHANGED <<maps, child_parent_map, ctx_regs_map, taskVars, call>>

(* A seccomp filter refuses the call: the kernel runs sys_exit for it but  *)
(* never ran sys_enter, and the call does nothing.                         *)
Denied(t, s) ==
  /\ t \in live \ stopped
  /\ phase[t] = "user"
  /\ phase' = [phase EXCEPT ![t] = "denied"]
  /\ call' = [call EXCEPT ![t] = s]
  /\ outcome' = [outcome EXCEPT ![t] = "untraced"]
  /\ event' = NoEvent
  /\ UNCHANGED <<maps, child_parent_map, ctx_regs_map, taskVars, stopped>>

-----------------------------------------------------------------------------
EndCall(t) ==
  /\ phase' = [phase EXCEPT ![t] = "user"]
  /\ call' = [call EXCEPT ![t] = NoCall]
  /\ outcome' = [outcome EXCEPT ![t] = "none"]

(* Between its sys_enter and its sys_exit; a clone is "cloned" once it has *)
(* created its task.                                                       *)
InCall(t) == phase[t] \in {"kernel", "cloned"}

(* The call of t returns: the kernel runs sys_exit for it.                 *)
Returns(t) ==
  /\ \/ InCall(t) /\ call[t] \notin ExitCalls
     \/ phase[t] = "denied"
  /\ EndCall(t)
  /\ UNCHANGED <<maps, child_parent_map, taskVars, stopped>>

(* sys_exit returns before it looks at ctx_regs_map.                       *)
ExitUnseen(t) ==
  /\ Returns(t)
  /\ ~ExitSees(t, call[t])
  /\ Abandon(t)
  /\ event' = NoEvent

(* Faulty: sys_exit does not look at the flag, or wants it set.            *)
ReportsAnyFlag(t) == SysnoAdmitted(maps, call[t])
ReportsFlagged(t) == ctx_regs_map[t].flag = 1 /\ SysnoAdmitted(maps, call[t])

Reports(t) ==
  /\ ctx_regs_map[t].flag # 1
  /\ SysnoAdmitted(maps, call[t])

(* sys_exit finds no entry, or deletes one that is not to be reported or   *)
(* that a filter of the exit side rejects.                                 *)
ExitSilent(t) ==
  /\ Returns(t)
  /\ ExitSees(t, call[t])
  /\ t \in SavedTids /\ Reports(t) => call[t] \in ExitFilters
  /\ DelRegs(t)
  /\ event' = NoEvent

(* sys_exit loads the registers, deletes the entry and submits the event.  *)
ExitSubmit(t) ==
  /\ Returns(t)
  /\ ExitSees(t, call[t])
  /\ t \in SavedTids
  /\ Reports(t)
  /\ DelRegs(t)
  /\ event' = [type |-> "exit", tid |-> t, own |-> ctx_regs_map[t].own,
               outcome |-> outcome[t]]

-----------------------------------------------------------------------------
(* Faulty: the value found in the map is not compared with the tid.        *)
ForkHandlerAnyValue(t, c) ==
  child_parent_map' =
    IF /\ child_parent_map[t] # NoPid
       /\ c \in ListedPids \/ Cardinality(ListedPids) < MaxChildren
    THEN [child_parent_map EXCEPT ![c] = t]
    ELSE child_parent_map

(* sched_process_fork: looked up with the tid of the forking thread; the   *)
(* child is added only if the value found is that tid itself.              *)
ForkHandler(t, c) ==
  child_parent_map' =
    IF /\ child_parent_map[t] = t
       /\ c \in ListedPids \/ Cardinality(ListedPids) < MaxChildren
    THEN [child_parent_map EXCEPT ![c] = t]
    ELSE child_parent_map

(* A task in clone creates a task c in process p: itself, or its own.  An  *)
(* id is free once no task has it and no process is called by it.  The     *)
(* child starts in user space: it never runs the sys_exit of the clone.    *)
Fork(t, c, p) ==
  /\ phase[t] = "kernel"
  /\ call[t] \in CloneCalls
  /\ c \notin live
  /\ \A u \in live : pid[u] # c
  /\ p \in {c, pid[t]}
  /\ ForkHandler(t, c)
  /\ phase' = [phase EXCEPT ![t] = "cloned"]
  /\ live' = live \cup {c}
  /\ pid' = [pid EXCEPT ![c] = p]
  /\ uid' = [uid EXCEPT ![c] = uid[t]]
  /\ comm' = [comm EXCEPT ![c] = comm[t]]
  /\ kin' = IF t \in kin THEN kin \cup {c} ELSE kin
  /\ event' = NoEvent
  /\ UNCHANGED <<maps, ctx_regs_map, call, outcome, stopped>>

(* A task dies in exit or exit_group, or of a signal when it is about to   *)
(* return to user space, after its sys_exit.  Its entry stays behind.      *)
Die(t) ==
  /\ t \in live
  /\ \/ phase[t] = "user"
     \/ phase[t] = "kernel" /\ call[t] \in ExitCalls
  /\ live' = live \ {t}
  /\ kin' = kin \ {t}
  /\ stopped' = stopped \ {t}
  /\ EndCall(t)
  /\ Abandon(t)
  /\ event' = NoEvent
  /\ UNCHANGED <<maps, child_parent_map, pid, uid, comm>>

(* The name of a task may be written at any time (prctl, /proc/.../comm);  *)
(* its uid changes in a call of its own.                                   *)
SetComm(t, n) ==
  /\ t \in live
  /\ n # comm[t]
  /\ comm' = [comm EXCEPT ![t] = n]
  /\ event' = NoEvent
  /\ UNCHANGED <<maps, child_parent_map, ctx_regs_map, live, pid, uid, kin,
                 callVars, stopped>>

SetUid(t, u) ==
  /\ InCall(t)
  /\ u # uid[t]
  /\ uid' = [uid EXCEPT ![t] = u]
  /\ event' = NoEvent
  /\ UNCHANGED <<maps, child_parent_map, ctx_regs_map, live, pid, comm, kin,
                 callVars, stopped>>

(* The user resumes a stopped process.                                     *)
SigCont(t) ==
  /\ t \in stopped
  /\ stopped' = stopped \ {u \in live : pid[u] = pid[t]}
  /\ event' = NoEvent
  /\ UNCHANGED <<maps, child_parent_map, ctx_regs_map, taskVars, callVars>>

-----------------------------------------------------------------------------
(* The programs and the tasks, as long as no task changes its identity and *)
(* no call is denied.                                                      *)
StableNext ==
  \/ \E t \in Tid, s \in Sysno : EnterIgnored(t, s)
  \/ \E t \in Tid, s \in Sysno : EnterSave(t, s)
  \/ \E t \in Tid : EnterSkip(t)
  \/ \E t \in Tid : EnterSubmit(t)
  \/ \E t \in Tid : ExitUnseen(t)
  \/ \E t \in Tid : ExitSilent(t)
  \/ \E t \in Tid : ExitSubmit(t)
  \/ \E t, c, p \in Tid : Fork(t, c, p)
  \/ \E t \in Tid : Die(t)
  \/ \E t \in Tid : SigCont(t)

ChangingNext ==
  \/ \E t \in Tid, s \in Sysno : Denied(t, s)
  \/ \E t \in Tid, n \in Comm : SetComm(t, n)
  \/ \E t \in Tid, u \in Uid : SetUid(t, u)

Next == StableNext \/ ChangingNext

StableSpec == Init /\ [][StableNext]_vars
Spec == Init /\ [][Next]_vars

-----------------------------------------------------------------------------
Events ==
  [type : {"none", "enter", "exit"}, tid : Tid \cup {NoPid}, own : BOOLEAN,
   outcome : Outcomes]

(* Every variable has its type, the calls in progress belong to live       *)
(* tasks, and so do the stopped ones: the state the handlers run in.       *)
TypeOK ==
  /\ maps \in MapsType
  /\ child_parent_map \in [Tid -> Tid \cup {NoPid}]
  /\ ctx_regs_map \in [Tid -> Regs \cup {NoRegs}]
  /\ live \subseteq Tid /\ kin \subseteq live /\ stopped \subseteq live
  /\ pid \in [Tid -> Tid] /\ uid \in [Tid -> Uid] /\ comm \in [Tid -> Comm]
  /\ phase \in [Tid -> {"user", "enter", "kernel", "cloned", "denied"}]
  /\ call \in [Tid -> Sysno \cup {NoCall}] /\ outcome \in [Tid -> Outcomes]
  /\ event \in Events
  /\ \A t \in Tid : phase[t] # "user" => t \in live /\ call[t] \in Sysno

(* While no task changes its identity, an exit event always closes an      *)
(* enter event that was submitted for the same call, with the arguments    *)
(* saved for that call (save_regs/load_regs of ebpf/common/arguments.h).   *)
PairedExit ==
  event.type = "exit" => event.own /\ event.outcome = "submitted"

(* Whatever the tasks do, a call that an argument filter has skipped gets  *)
(* no exit event, and an exit event of a call whose enter event went out   *)
(* carries that call's own arguments (the flag and the two save_regs of    *)
(* sys_enter).                                                             *)
FilteredCallSilent ==
  event.type = "exit" =>
    /\ event.outcome \in {"submitted", "untraced"}
    /\ event.own <=> event.outcome = "submitted"

(* The inductive part behind both: what sys_enter made of the call in      *)
(* progress, and the entry of its thread, if any, agree.                   *)
CallOK(t) ==
  /\ phase[t] = "user" <=> outcome[t] = "none"
  /\ phase[t] = "enter" <=> outcome[t] = "pending"
  /\ phase[t] = "denied" => outcome[t] = "untraced"
  /\ ctx_regs_map[t] # NoRegs =>
       /\ ctx_regs_map[t].own <=> outcome[t] \notin {"none", "untraced"}
       /\ ctx_regs_map[t].own =>
            (ctx_regs_map[t].flag = 1 <=> outcome[t] = "skipped")

CallInv == \A t \in Tid : CallOK(t)

(* While no task changes its identity, the filters still say of a call in  *)
(* progress what they said when it was entered.                            *)
StableInv ==
  /\ maps.exitPoints = maps.enterPoints
  /\ \A t \in Tid :
       /\ phase[t] # "denied"
       /\ phase[t] # "user" =>
            (outcome[t] = "untraced" <=> ~EnterPasses(t, call[t]))

(* With room in ctx_regs_map for every thread and no change of identity, a *)
(* call whose enter event went out gets its exit event when it returns,    *)
(* unless its exit side has filters of its own.                            *)
ExitReported ==
  [][\A t \in live' :
       /\ InCall(t) /\ phase'[t] = "user"
       /\ outcome[t] = "submitted" /\ call[t] \notin ForgetCalls \cup ExitFilters
       => event'.type = "exit" /\ event'.tid = t]_vars

(* A task is stopped only together with the enter event of a thread of its *)
(* process: a call filtered out by its arguments stops nobody.             *)
StopAnnounced ==
  [][\A t \in stopped' \ stopped :
       event'.type = "enter" /\ pid[event'.tid] = pid[t]]_vars

(* The fork list grows by one generation only: the value of every entry is *)
(* a pid the user asked for.                                               *)
OneGeneration ==
  \A p \in ListedPids : child_parent_map[p] \in maps.pidWhite

(* The event stream implements CallReports.                                *)
Reported == {t \in Tid : outcome[t] = "submitted"}

CR == INSTANCE CallReports WITH
        Thread <- Tid, NoThread <- NoPid, open <- Reported,
        report <- <<event.type, event.tid>>

(* As long as identities do not change, the enter and exit events of every *)
(* thread alternate as CallReports says.                                   *)
ImplementsCallReports == CR!Spec

-----------------------------------------------------------------------------
(* What the comments of the code say and the programs do not do.           *)

(* ebpf/syscall.c:22: for a single pid "the system calls of the child      *)
(* processes it creates can be traced": while child_parent_map has room,   *)
(* the processes that descend from it are in the map.                      *)
DescendantsTraced ==
  Cardinality(ListedPids) < MaxChildren =>
    \A t \in kin : child_parent_map[pid[t]] # NoPid
=============================================================================
