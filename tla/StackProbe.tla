----------------------------- MODULE StackProbe -----------------------------
(***************************************************************************)
(* The stack module: the hook points of -w (parse_hook_point), the run of  *)
(* StackProbeModule that attaches one probe_stack_<i> per point, and those *)
(* programs (ebpf/stack.c) in the threads that call the hooked functions.  *)
(*                                                                         *)
(* A point with an exit offset ("write[int]0x40") is two points: a copy of *)
(* it is attached further down in the function.  Threads call functions    *)
(* within functions, return from them or unwind them, fork, die and rename *)
(* themselves at any time, also between two attaches.  The functions of a  *)
(* run's points are distinct, and all tasks have one user.                 *)
(***************************************************************************)
EXTENDS Filtering, FiniteSets, SequencesExt

CONSTANTS Options,    \* the option records a run may be started with
          Hooks,      \* the -w lists: sequences of [exit, filtered]
          InitLive,   \* the tasks alive when the run starts
          InitPid,    \* their processes
          MaxDepth,   \* most hooked functions a thread is in at once
          MaxRegs     \* max_entries of ctx_regs_map

MAX_UPROBE_PROGRAMS == 6

(* The value an argument filter looks at: the filters of a point keep one. *)
Values == {"kept", "dropped"}

Specs == [exit : BOOLEAN, filtered : BOOLEAN]

ASSUME StackProbeAssumption ==
  /\ Options \subseteq OptionsType
  /\ Hooks \subseteq Seq(Specs)
  /\ InitLive \subseteq Tid /\ InitPid \in [Tid -> Tid]
  /\ MaxDepth \in Nat /\ MaxRegs \in Nat

VARIABLES
  opts,          \* the options of the run
  points,        \* the points of the probe, one program each
  result,        \* of the run: "maps", "attaching", "polling", or how it ended
  attached,      \* how many points are attached
  ctx_regs_map,  \* the registers saved at enter points: a set of entries
  live, pid, comm,   \* the tasks
  stack,         \* the hooked functions each thread is in, innermost last
  stopped,       \* the tasks a signal of the tracer has stopped
  hit            \* history: the point passed in the last step, if any

runVars == <<opts, points, result, attached>>
taskVars == <<live, pid, comm>>
vars == <<runVars, ctx_regs_map, taskVars, stack, stopped, hit>>

-----------------------------------------------------------------------------
(* Faulty: the copy keeps the index of its original.                       *)
ExitIndexKept(point, index) == [point EXCEPT !.side = "exit"]

(* UprobeArgs::get_exit_point: a copy, enter_key included.                 *)
get_exit_point(point, index) ==
  [point EXCEPT !.index = index, !.side = "exit"]

Plain(specs) ==
  [i \in DOMAIN specs |-> [index |-> i - 1, enter_key |-> 0, fn |-> i, side |-> "enter",
                           filtered |-> specs[i].filtered]]
Marked(specs) ==
  [i \in DOMAIN specs |->
     [Plain(specs)[i] EXCEPT !.enter_key = IF specs[i].exit THEN i ELSE 0]]

(* The positions with an exit offset, and the nth of them.                 *)
WithExit(specs) == {i \in DOMAIN specs : specs[i].exit}
Nth(S, n) == CHOOSE i \in S : Cardinality({j \in S : j <= i}) = n

(* The copies of these points in their order, numbered behind them all.    *)
Copies(specs, originals) ==
  [k \in 1..Cardinality(WithExit(specs)) |->
     get_exit_point(originals[Nth(WithExit(specs), k)], Len(specs) + k - 1)]

(* Faulty: the original is marked before it is copied, so that the copy    *)
(* asks for the registers that the original has saved, and is silent when  *)
(* there are none.                                                         *)
MarkedFirst(specs) == Marked(specs) \o Copies(specs, Marked(specs))

(* Faulty: the copies come first, and keep their numbers.                  *)
CopiesFirst(specs) == Copies(specs, Plain(specs)) \o Marked(specs)

(* parse_hook_point: the points in the order given, then the copies.  Each *)
(* copy is made before its original gets its enter_key.                    *)
parse_hook_point(specs) == Marked(specs) \o Copies(specs, Plain(specs))

Refused(specs) == Len(parse_hook_point(specs)) > MAX_UPROBE_PROGRAMS

-----------------------------------------------------------------------------
(* The filter maps of the run.  common_filter is written without the       *)
(* permissive default; nobody adds to child_parent_map, because the fork   *)
(* program of stack.c is not attached.                                     *)
Maps == [MapsOf(opts, {}) EXCEPT !.noFilterAllow = FALSE]
TheUid == CHOOSE u \in Uid : TRUE
Task(t) == [tid |-> t, pid |-> pid[t], uid |-> TheUid, comm |-> comm[t]]
Traced(t) == ShouldTrace(Maps, ForkRoots(opts), Task(t))

(* uprobe_point_args: a point is written at its index, in order.           *)
Listed(key) == {i \in DOMAIN points : points[i].index = key}
PointArgs(key) == points[CHOOSE i \in Listed(key) : \A j \in Listed(key) : j <= i]

(* The programs attached at a side of a function: probe_stack_<i> is that  *)
(* of the point at position i.                                             *)
Programs(fn, side) ==
  {i - 1 : i \in {j \in 1..attached : points[j].fn = fn /\ points[j].side = side}}

(* An entry of ctx_regs_map: its key and the registers.                    *)
Entry(t, key, value) == [tid |-> t, key |-> key, value |-> value]
Saved(map, t, key) == {e \in map : e.tid = t /\ e.key = key}

(* Faulty: the map takes what it is given.                                 *)
SaveRegsAlways(map, entry) ==
  (map \ Saved(map, entry.tid, entry.key)) \cup {entry}

(* An update of a full map fails in silence.                               *)
SaveRegs(map, entry) ==
  LET old == Saved(map, entry.tid, entry.key)
  IN IF old # {} \/ Cardinality(map) < MaxRegs THEN (map \ old) \cup {entry} ELSE map

-----------------------------------------------------------------------------
NoHit == [tid |-> NoPid, fn |-> 0, side |-> "none", value |-> "none",
          sent |-> FALSE, key |-> 0]

(* A side of a function was passed; an event, if sent, has the number of   *)
(* its program.                                                            *)
Passed(t, fn, side, value) ==
  [NoHit EXCEPT !.tid = t, !.fn = fn, !.side = side, !.value = value]

(* Faulty: the signals are sent whether or not the event is.               *)
SignalledAlways(t, sent) ==
  (IF opts.signal THEN {u \in live : pid[u] = pid[t]} ELSE {})
    \cup (IF opts.tsignal THEN {t} ELSE {})

(* The tasks stopped by filter->signal and filter->tsignal, after the      *)
(* event; a point of -w has no signal of its own.                          *)
Signalled(t, sent) ==
  IF ~sent THEN {}
  ELSE (IF opts.signal THEN {u \in live : pid[u] = pid[t]} ELSE {})
         \cup (IF opts.tsignal THEN {t} ELSE {})

(* read_args with the value the registers have, then event and signals.    *)
Report(passed, key, read) ==
  LET sent == ~(PointArgs(key).filtered /\ read = "dropped")
  IN /\ hit' = IF sent THEN [passed EXCEPT !.sent = TRUE, !.key = key] ELSE passed
     /\ stopped' = stopped \cup Signalled(passed.tid, sent)

Silent(passed) == hit' = passed /\ UNCHANGED <<ctx_regs_map, stopped>>

(* probe_stack_warp of the program key: enter_key decides whether the      *)
(* registers of the hit are used, saved and used, or replaced by saved     *)
(* ones, which are then deleted.                                           *)
Probe(passed, key) ==
  LET t == passed.tid
      enter == PointArgs(key).enter_key
      loads == enter \notin {0, key + 1}
      saved == Saved(ctx_regs_map, t, enter)
  IN IF ~Traced(t) \/ Listed(key) = {} \/ (loads /\ saved = {})
     THEN Silent(passed)
     ELSE /\ Report(passed, key, IF loads THEN (CHOOSE e \in saved : TRUE).value
                                ELSE passed.value)
          /\ ctx_regs_map' = CASE enter = 0 -> ctx_regs_map
                               [] enter = key + 1 ->
                                    SaveRegs(ctx_regs_map, Entry(t, enter, passed.value))
                               [] OTHER -> ctx_regs_map \ saved

(* A thread passes a side of a function, with or without a program there.  *)
Pass(passed) ==
  IF Programs(passed.fn, passed.side) = {}
  THEN Silent(passed)
  ELSE \E key \in Programs(passed.fn, passed.side) : Probe(passed, key)

-----------------------------------------------------------------------------
Init ==
  /\ opts \in Options
  /\ \E specs \in Hooks :
       IF Refused(specs) THEN points = <<>> /\ result = "refused"
       ELSE points = parse_hook_point(specs) /\ result = "maps"
  /\ attached = 0
  /\ ctx_regs_map = {}
  /\ live = InitLive /\ pid = InitPid
  /\ \E n \in Comm : comm = [t \in Tid |-> n]
  /\ stack = [t \in Tid |-> <<>>]
  /\ stopped = {}
  /\ hit = NoHit

Idle == hit' = NoHit /\ UNCHANGED <<ctx_regs_map, taskVars, stack, stopped>>

(* The maps are written before anything is attached: no program sees them  *)
(* half written, and one step stands for all of the writes.                *)
WriteMaps ==
  /\ result = "maps"
  /\ result' = "attaching"
  /\ Idle /\ UNCHANGED <<opts, points, attached>>

Attach ==
  /\ result = "attaching"
  /\ attached < Len(points)
  /\ attached' = attached + 1
  /\ Idle /\ UNCHANGED <<opts, points, result>>

OpenBuffer ==
  /\ result = "attaching"
  /\ attached = Len(points)
  /\ result' = "polling"
  /\ Idle /\ UNCHANGED <<opts, points, attached>>

Working == result \in {"maps", "attaching", "polling"}

(* A write or an attach fails, a symbol is not found, poll fails, or the   *)
(* user interrupts: all links are dropped.                                 *)
Ends ==
  /\ Working
  /\ \/ result = "polling" /\ result' = "done"
     \/ result' = "failed"
  /\ attached' = 0
  /\ Idle /\ UNCHANGED <<opts, points>>

-----------------------------------------------------------------------------
(* The tasks, as long as the run lasts.                                    *)
Fns == {points[i].fn : i \in DOMAIN points}
Runs(t) == Working /\ t \in live \ stopped

(* A thread enters a hooked function.                                      *)
Enter(t, fn, value) ==
  /\ Runs(t)
  /\ Len(stack[t]) < MaxDepth
  /\ Pass(Passed(t, fn, "enter", value))
  /\ stack' = [stack EXCEPT ![t] = Append(stack[t], fn)]
  /\ UNCHANGED <<runVars, taskVars>>

(* It passes the exit offset of the innermost one, with the registers of   *)
(* that place, and returns.                                                *)
Return(t, value) ==
  /\ Runs(t)
  /\ stack[t] # <<>>
  /\ Pass(Passed(t, Last(stack[t]), "exit", value))
  /\ stack' = [stack EXCEPT ![t] = Front(stack[t])]
  /\ UNCHANGED <<runVars, taskVars>>

(* It leaves the innermost one by another way: a return above the offset,  *)
(* an exception, longjmp.                                                  *)
Unwind(t) ==
  /\ Runs(t)
  /\ stack[t] # <<>>
  /\ stack' = [stack EXCEPT ![t] = Front(stack[t])]
  /\ hit' = NoHit
  /\ UNCHANGED <<runVars, ctx_regs_map, taskVars, stopped>>

(* A new thread has no calls; a new process is in those of its parent.     *)
Fork(t, child) ==
  /\ Runs(t)
  /\ child \notin live \cup {pid[u] : u \in live}
  /\ live' = live \cup {child}
  /\ comm' = [comm EXCEPT ![child] = comm[t]]
  /\ \/ pid' = [pid EXCEPT ![child] = pid[t]] /\ stack' = [stack EXCEPT ![child] = <<>>]
     \/ pid' = [pid EXCEPT ![child] = child] /\ stack' = [stack EXCEPT ![child] = stack[t]]
  /\ hit' = NoHit
  /\ UNCHANGED <<runVars, ctx_regs_map, stopped>>

Die(t) ==
  /\ Working
  /\ t \in live
  /\ live' = live \ {t}
  /\ stopped' = stopped \ {t}
  /\ stack' = [stack EXCEPT ![t] = <<>>]
  /\ hit' = NoHit
  /\ UNCHANGED <<runVars, ctx_regs_map, pid, comm>>

SetComm(t, name) ==
  /\ Runs(t)
  /\ comm' = [comm EXCEPT ![t] = name]
  /\ hit' = NoHit
  /\ UNCHANGED <<runVars, ctx_regs_map, live, pid, stack, stopped>>

SigCont(t) ==
  /\ Working
  /\ t \in stopped
  /\ stopped' = stopped \ {u \in live : pid[u] = pid[t]}
  /\ hit' = NoHit
  /\ UNCHANGED <<runVars, ctx_regs_map, taskVars, stack>>

TaskStep(t) ==
  \/ \E value \in Values : (\E fn \in Fns : Enter(t, fn, value)) \/ Return(t, value)
  \/ Unwind(t)
  \/ \E child \in Tid : Fork(t, child)
  \/ Die(t)
  \/ \E name \in Comm : SetComm(t, name)
  \/ SigCont(t)

Next == WriteMaps \/ Attach \/ OpenBuffer \/ Ends \/ (\E t \in Tid : TaskStep(t))

Spec == Init /\ [][Next]_vars

-----------------------------------------------------------------------------
PointType ==
  [index : 0..MAX_UPROBE_PROGRAMS - 1, enter_key : 0..MAX_UPROBE_PROGRAMS,
   fn : 1..MAX_UPROBE_PROGRAMS, side : {"enter", "exit"}, filtered : BOOLEAN]

(* Types; and ctx_regs_map has at most MaxRegs entries, one for each key.  *)
TypeOK ==
  /\ opts \in Options
  /\ points \in Seq(PointType) /\ Len(points) <= MAX_UPROBE_PROGRAMS
  /\ result \in {"refused", "maps", "attaching", "polling", "done", "failed"}
  /\ attached \in 0..Len(points)
  /\ live \subseteq Tid /\ stopped \subseteq live
  /\ pid \in [Tid -> Tid] /\ comm \in [Tid -> Comm]
  /\ \A t \in Tid : stack[t] \in Seq(Fns) /\ Len(stack[t]) <= MaxDepth
  /\ Cardinality(ctx_regs_map) <= MaxRegs
  /\ \A e \in ctx_regs_map :
       /\ e.tid \in Tid /\ e.key \in 1..MAX_UPROBE_PROGRAMS
       /\ e.value \in Values
       /\ Saved(ctx_regs_map, e.tid, e.key) = {e}

(* A hit is reported exactly if a point is attached there, the task is     *)
(* traced and no filter drops its registers: it matters neither what was   *)
(* hit before nor whether ctx_regs_map is full (stack.c 39-106).           *)
HitsReported ==
  hit.tid # NoPid =>
    (hit.sent <=>
       /\ Traced(hit.tid)
       /\ \E i \in 1..attached :
            /\ points[i].fn = hit.fn /\ points[i].side = hit.side
            /\ ~(points[i].filtered /\ hit.value = "dropped"))

(* The number in an event, by which the printing side looks the point up   *)
(* in its list and the kernel in uprobe_point_args, is in both that of the *)
(* point that was hit (point_parser.rs 400-419, stack_probe.rs 203-233).   *)
OwnPoint ==
  hit.sent =>
    /\ hit.key < Len(points)
    /\ \A point \in {points[hit.key + 1], PointArgs(hit.key)} :
         point.fn = hit.fn /\ point.side = hit.side

(* A task is stopped only together with an event of its process.           *)
StopAnnounced ==
  [][stopped' \subseteq stopped \/ (hit'.sent /\ \A t \in stopped' \ stopped : pid[t] = pid[hit'.tid])]_vars
=============================================================================
