----------------------------- MODULE SyscallRun -----------------------------
(***************************************************************************)
(* The whole of SyscallTracepointModule::run(): the set-up of              *)
(* SyscallStartup, the perf buffer and the poll loop of PerfRing, and the  *)
(* end.  An event in a ring is TRUE if the user asked for its task and its *)
(* call.                                                                   *)
(***************************************************************************)
EXTENDS SyscallStartup, PerfRing

ASSUME SyscallRunAssumption == Event = BOOLEAN /\ Processor = Cpu \cup LateCpu

runVars == <<vars, ringVars>>

RunInit == Init /\ RingInit

(* Steps of the perf buffer alone.                                         *)
OnlyRing ==
  /\ fired' = NoCall
  /\ UNCHANGED <<opts, programs, result, attached, todo, written, machine, calls>>

-----------------------------------------------------------------------------
(* Faulty: the perf buffer is opened before the maps are written.          *)
OpenEarly(c) ==
  /\ result = "starting"
  /\ attached = Len(AttachNames)
  /\ Open(c)
  /\ OnlyRing

(* poll_events() opens the perf buffer when all maps are written.          *)
OpenRing(c) ==
  /\ result = "starting"
  /\ attached = Len(AttachNames)
  /\ todo = <<>>
  /\ Open(c)
  /\ OnlyRing

(* build() fails (-b 3 gives a number of pages that is no power of two),   *)
(* which detaches the programs.                                            *)
BuildFails ==
  /\ result = "starting"
  /\ attached = Len(AttachNames)
  /\ todo = <<>>
  /\ NotBuilt
  /\ result' = "failed"
  /\ attached' = 0
  /\ fired' = NoCall
  /\ UNCHANGED <<opts, programs, todo, written, machine, calls>>

PollRings == AllOpen /\ Poll /\ NoOutput

(* What a program submits goes to the ring of its CPU.                     *)
Asked(call) == Traced(call.task) /\ Wanted(call.no, call.rejected)

Submits(c) ==
  /\ SubmitCall(c)
  /\ (c \in Cpu /\ Submit(c, Asked(calls[c]))) \/ SubmitNowhere(c)

ReadRings == result = "polling" /\ Read /\ OnlyRing

SignalRun == (Signal \/ (result = "polling" /\ PollFails)) /\ OnlyRing

(* The buffer is dropped with poll_events, the links with run(): in        *)
(* between, the programs still fire.                                       *)
CloseRings ==
  /\ result = "polling"
  /\ Close
  /\ result' = "closed"
  /\ fired' = NoCall
  /\ UNCHANGED <<opts, programs, attached, todo, written, machine, calls>>

Detach ==
  /\ result = "closed"
  /\ result' = "done"
  /\ attached' = 0
  /\ fired' = NoCall
  /\ UNCHANGED <<opts, programs, todo, written, machine, calls>>
  /\ NoOutput

RunNext ==
  \/ (Attach \/ ProgramNotFound \/ WriteMaps) /\ NoOutput
  \/ \E c \in Cpu : OpenRing(c)
  \/ BuildFails \/ PollRings \/ ReadRings \/ SignalRun \/ CloseRings \/ Detach
  \/ \E c \in Processor : (SysEnter(c) /\ NoOutput) \/ Submits(c)
  \/ \E parent \in Alive, child \in Children : Fork(parent, child) /\ NoOutput

(* The thread of the module does not stop on its own.                      *)
RunSpec == RunInit /\ [][RunNext]_runVars /\ WF_runVars(ReadRings)

-----------------------------------------------------------------------------
(* While the loop polls and no signal comes, a ring with something in it   *)
(* is read to its end, even if nothing more is submitted.                  *)
EventsPrinted ==
  \A c \in Cpu :
    (result = "polling" /\ Unread(c)) ~> (~Unread(c) \/ signal # "none")

(* A line about a task or a call that the user did not ask for, let        *)
(* through by half-written maps, can only be the first of its CPU, the one *)
(* of a call in flight since before the maps were complete: whatever was   *)
(* submitted earlier found no ring to go to.                               *)
PrintedIsWanted == line.no > 1 /\ line.lost = 0 => line.event
=============================================================================
