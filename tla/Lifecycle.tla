----------------------------- MODULE Lifecycle -----------------------------
(***************************************************************************)
(* How a run starts, stops and ends: run_modules() of src/cli/mod.rs on    *)
(* the main thread, and the one module it has spawned (run_func selects    *)
(* SyscallMod or StackMod) on a thread of its own.  They share the         *)
(* INTERRUPTED flag and an mpsc channel; the StackMod thread runs its      *)
(* probes one after the other, the SyscallMod thread has a single run.     *)
(***************************************************************************)
EXTENDS Naturals

CONSTANTS MaxProbes, \* most probes that build_probes() makes of the options
          MaxPoints  \* most points of one probe

ASSUME LifecycleAssumption == MaxProbes \in Nat \ {0} /\ MaxPoints \in Nat \ {0}

(* attach_tracepoints: sys_enter, sys_exit and the fork handler.           *)
TracePrograms == 3

VARIABLES
  kind,         \* the module selected: "syscall" or "stack"
  probes,       \* the number of its probes
  points,       \* the number of programs that each of them attaches
  interrupted,  \* INTERRUPTED
  main,         \* the main thread: its place in the loop, then its result
  worker,       \* the module thread: its place in run()
  hung,         \* it is stuck in a system call that does not return
  probe,        \* the probe it is running
  made,         \* the programs of that probe it has attached
  links,        \* the links that are alive: <<probe, program>>
  message,      \* an error is in the channel
  eintr,        \* a signal has hit the module thread in its poll
  fault,        \* history: something but a signal went wrong in the module
  struck,       \* history: an EINTR has failed a poll
  late          \* history: the first signal came while the main thread waited

vars == <<kind, probes, points, interrupted, main, worker, hung, probe, made, links,
          message, eintr, fault, struck, late>>

Running == main \in {"check", "recv"}

(* SyscallMod runs once, StackMod once for all points of -w, or once for   *)
(* every point of the -c files.                                            *)
Init ==
  /\ \/ kind = "syscall" /\ probes = 1 /\ points = TracePrograms
     \/ kind = "stack" /\ probes = 1 /\ points \in 1..MaxPoints
     \/ kind = "stack" /\ probes \in 1..MaxProbes /\ points = 1
  /\ interrupted = FALSE
  /\ main = "check"
  /\ worker = "setup"
  /\ hung = FALSE
  /\ probe = 1
  /\ made = 0
  /\ links = {}
  /\ message = FALSE
  /\ eintr = FALSE
  /\ fault = FALSE
  /\ struck = FALSE
  /\ late = FALSE

-----------------------------------------------------------------------------
(* A step of the module thread, which lives as long as the process: from   *)
(* one place to another.                                                   *)
Goes(from, to) ==
  /\ Running
  /\ ~hung
  /\ worker = from
  /\ worker' = to
  /\ UNCHANGED <<kind, probes, points, interrupted, main, hung, late>>

(* The vector of links is gone: Link::drop detaches each of its programs.  *)
Dropped == {link \in links : link[1] # probe}

(* The thread prints to a pipe that nobody reads any more.                 *)
Hang ==
  /\ Running
  /\ worker \in {"setup", "attach", "build", "poll", "stopping"}
  /\ hung' = TRUE
  /\ UNCHANGED <<kind, probes, points, interrupted, main, worker, probe, made, links,
                 message, eintr, fault, struck, late>>

(* The object is loaded, and StackMod has written the maps.                *)
Setup ==
  /\ Goes("setup", "attach")
  /\ made' = 0
  /\ UNCHANGED <<probe, links, message, eintr, fault, struck>>

(* Faulty: each link is dropped at the end of its turn of the loop.        *)
AttachLocal ==
  /\ made < points
  /\ Goes("attach", "attach")
  /\ made' = made + 1
  /\ links' = Dropped \cup {<<probe, made + 1>>}
  /\ UNCHANGED <<probe, message, eintr, fault, struck>>

(* The next program is attached, and its link is kept in the vector.       *)
Attach ==
  /\ made < points
  /\ Goes("attach", "attach")
  /\ made' = made + 1
  /\ links' = links \cup {<<probe, made + 1>>}
  /\ UNCHANGED <<probe, message, eintr, fault, struck>>

AllAttached ==
  /\ made = points
  /\ Goes("attach", "build")
  /\ UNCHANGED <<probe, made, links, message, eintr, fault, struck>>

(* SyscallMod writes its maps; the perf buffer is built.                   *)
Build ==
  /\ Goes("build", "loop")
  /\ UNCHANGED <<probe, made, links, message, eintr, fault, struck>>

(* Faulty: the links made so far are leaked (mem::forget).                 *)
SetupFailsLeaks(place) ==
  /\ Goes(place, "failed")
  /\ fault' = TRUE
  /\ UNCHANGED <<probe, made, links, message, eintr, struck>>

(* Any of these may fail, and drops the links made so far.                 *)
SetupFails(place) ==
  /\ Goes(place, "failed")
  /\ links' = Dropped
  /\ fault' = TRUE
  /\ UNCHANGED <<probe, made, message, eintr, struck>>

(* while !interrupted()                                                    *)
PollAgain ==
  /\ Goes("loop", "poll")
  /\ ~interrupted
  /\ UNCHANGED <<probe, made, links, message, eintr, fault, struck>>

LoopEnds ==
  /\ Goes("loop", "stopping")
  /\ interrupted
  /\ UNCHANGED <<probe, made, links, message, eintr, fault, struck>>

(* Faulty: a poll that has timed out ends the loop.                        *)
PollDoneEnds ==
  /\ Goes("poll", "stopping")
  /\ eintr' = FALSE
  /\ UNCHANGED <<probe, made, links, message, fault, struck>>

(* poll(100 ms) has handled the pending events, or has timed out.          *)
PollDone ==
  /\ Goes("poll", "loop")
  /\ eintr' = FALSE
  /\ UNCHANGED <<probe, made, links, message, fault, struck>>

(* Faulty: SyscallMod hands the error on, too.                             *)
PollFailsHandedOn ==
  /\ Goes("poll", "failed")
  /\ links' = Dropped
  /\ fault' = (fault \/ ~eintr)
  /\ struck' = (struck \/ eintr)
  /\ eintr' = FALSE
  /\ UNCHANGED <<probe, made, message>>

(* poll() has failed, EINTR included: StackMod hands the error on and      *)
(* drops the links, SyscallMod logs it and leaves the loop.                *)
PollFails ==
  /\ Goes("poll", IF kind = "stack" THEN "failed" ELSE "stopping")
  /\ links' = IF kind = "stack" THEN Dropped ELSE links
  /\ fault' = (fault \/ ~eintr)
  /\ struck' = (struck \/ eintr)
  /\ eintr' = FALSE
  /\ UNCHANGED <<probe, made, message>>

(* The run of a probe is over and its links are dropped: on to the next    *)
(* probe, or to the end of run().                                          *)
NextProbe ==
  /\ probe < probes
  /\ Goes("stopping", "setup")
  /\ probe' = probe + 1
  /\ links' = Dropped
  /\ UNCHANGED <<made, message, eintr, fault, struck>>

LastProbe ==
  /\ probe = probes
  /\ Goes("stopping", "returned")
  /\ links' = Dropped
  /\ UNCHANGED <<probe, made, message, eintr, fault, struck>>

(* tx.send(error)                                                          *)
Report ==
  /\ Goes("failed", "returned")
  /\ message' = TRUE
  /\ UNCHANGED <<probe, made, links, eintr, fault, struck>>

(* The closure ends and drops the only sender.                             *)
DropSender ==
  /\ Goes("returned", "done")
  /\ UNCHANGED <<probe, made, links, message, eintr, fault, struck>>

ModuleStep ==
  \/ Setup \/ Attach \/ AllAttached \/ Build
  \/ \E place \in {"setup", "attach", "build"} : SetupFails(place)
  \/ PollAgain \/ LoopEnds \/ PollDone \/ PollFails
  \/ NextProbe \/ LastProbe \/ Report \/ DropSender

-----------------------------------------------------------------------------
MainGoes(from, to) ==
  /\ main = from
  /\ main' = to
  /\ UNCHANGED <<kind, probes, points, interrupted, worker, hung, probe, made, links,
                 eintr, fault, struck, late>>

(* Faulty: the flag is not looked at.                                      *)
CheckNoFlag == MainGoes("check", "recv") /\ UNCHANGED message

CheckFlag ==
  /\ MainGoes("check", IF interrupted THEN "ok" ELSE "recv")
  /\ UNCHANGED message

(* Faulty: the main thread keeps its own sender (no drop(tx)).             *)
SenderKept == FALSE

(* recv_timeout(200 ms): a message first, then whether a sender is left;   *)
(* the main thread has dropped its own.                                    *)
Disconnected == worker = "done"

RecvError ==
  /\ message
  /\ MainGoes("recv", "module_error")
  /\ message' = FALSE

RecvTimeout ==
  /\ ~message /\ ~Disconnected
  /\ MainGoes("recv", "check")
  /\ UNCHANGED message

(* Faulty: the end of all modules is taken for a success.                  *)
RecvDisconnectedOk ==
  /\ ~message /\ Disconnected
  /\ MainGoes("recv", "ok")
  /\ UNCHANGED message

RecvDisconnected ==
  /\ ~message /\ Disconnected
  /\ MainGoes("recv", "stopped_alone")
  /\ UNCHANGED message

MainStep == CheckFlag \/ RecvError \/ RecvTimeout \/ RecvDisconnected

(* SIGINT or SIGTERM, on any thread of the process.                        *)
Interrupt(who) ==
  /\ Running
  /\ interrupted' = TRUE
  /\ eintr' = (eintr \/ (who = "module" /\ worker = "poll"))
  /\ late' = (late \/ (~interrupted /\ main = "recv"))
  /\ UNCHANGED <<kind, probes, points, main, worker, hung, probe, made, links, message,
                 fault, struck>>

Next ==
  \/ MainStep \/ ModuleStep \/ Hang
  \/ \E who \in {"main", "module"} : Interrupt(who)

(* Both threads are scheduled, and wait with a timeout; only Hang stops    *)
(* the module thread for good.                                             *)
Spec == Init /\ [][Next]_vars /\ WF_vars(MainStep) /\ WF_vars(ModuleStep)

-----------------------------------------------------------------------------
Failures == {"module_error", "stopped_alone"}
Ended == main \in Failures \cup {"ok"}

PlacesType ==
  /\ kind \in {"syscall", "stack"} /\ probes \in 1..MaxProbes /\ points \in Nat
  /\ interrupted \in BOOLEAN /\ hung \in BOOLEAN /\ message \in BOOLEAN
  /\ eintr \in BOOLEAN /\ fault \in BOOLEAN /\ struck \in BOOLEAN /\ late \in BOOLEAN
  /\ main \in {"check", "recv", "ok", "module_error", "stopped_alone"}
  /\ worker \in {"setup", "attach", "build", "loop", "poll", "stopping", "failed",
                 "returned", "done"}
  /\ probe \in 1..probes /\ made \in 0..points

TypeOK == PlacesType /\ links \subseteq (1..probes) \X (1..points)

(* Whatever way a module thread leaves its loop, the process ends: a       *)
(* failure is forwarded, a silent return is noticed (cli/mod.rs:152-159,   *)
(* "instead of waiting forever").                                          *)
ModuleEndEndsRun == worker \in {"failed", "returned"} ~> Ended

(* After Ctrl-C the process ends, in whatever state either thread was, and *)
(* even if the module thread hangs for ever.                               *)
InterruptEndsRun == interrupted ~> Ended

(* A module that went wrong ends the run with a failure, unless it hangs   *)
(* or the user interrupts it first: never with exit code 0.                *)
FaultIsFailure ==
  fault /\ ~interrupted ~> main \in Failures \/ interrupted \/ hung

(* A run in which nothing went wrong ends with a failure only when Ctrl-C  *)
(* comes while the main thread waits for the channel; with an error of the *)
(* module, only when it comes as an EINTR of StackMod's poll.  The         *)
(* comments promise more: that Ctrl-C is no failure (stack_probe.rs:274,   *)
(* cli/mod.rs:213).  It is none where the code looks at the flag in time:  *)
(* at every other moment, in the poll of SyscallMod, and in every other    *)
(* step of StackMod.                                                       *)
FailuresExplained ==
  main \in Failures /\ ~fault =>
    /\ late
    /\ main = "module_error" => kind = "stack" /\ struck

(* The inductive part: a wait that goes on after the signal was under way  *)
(* when it came; what makes the module thread leave its loop, and what it  *)
(* sends, without a fault.                                                 *)
CauseInv ==
  /\ interrupted /\ main = "recv" => late
  /\ eintr \/ struck => interrupted
  /\ worker \in {"stopping", "failed", "returned", "done"} => fault \/ interrupted
  /\ worker = "failed" \/ message => fault \/ (kind = "stack" /\ struck)

(* All points of a probe are attached as long as it polls, and none is     *)
(* once its run is over, be it by the end of the loop, a failed poll, or a *)
(* failure half-way through the attach or behind it (stack_probe.rs:206,   *)
(* "Keep every link alive until the poll loop ends", "also detaches them   *)
(* on `?` unwind").                                                        *)
LinksFollowRun ==
  /\ worker \in {"loop", "poll"} => links = {probe} \X (1..points)
  /\ worker \in {"setup", "failed", "returned", "done"} => links = {}

(* The inductive part: the links in the vector.                            *)
VectorInv ==
  /\ worker \in {"attach", "build", "loop", "poll", "stopping"} =>
       links = {probe} \X (1..made)
  /\ worker \in {"build", "loop", "poll"} => made = points
=============================================================================
