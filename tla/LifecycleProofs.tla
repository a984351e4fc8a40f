-------------------------- MODULE LifecycleProofs --------------------------
(***************************************************************************)
(* The state of a run for any number of probes and points: its type, the   *)
(* links of its programs, and what makes it end with a failure.            *)
(***************************************************************************)
EXTENDS Lifecycle, TLAPS

(* The initial state has its type.                                         *)
LEMMA InitTypeOK == Init => TypeOK
<1> SUFFICES ASSUME Init PROVE TypeOK
  OBVIOUS
<1>1. kind \in {"syscall", "stack"} /\ probes \in 1..MaxProbes /\ points \in Nat
  <2>1. CASE kind = "syscall" /\ probes = 1 /\ points = TracePrograms
    BY <2>1, LifecycleAssumption DEF TracePrograms
  <2>2. CASE kind = "stack" /\ probes = 1 /\ points \in 1..MaxPoints
    BY <2>2, LifecycleAssumption
  <2>3. CASE kind = "stack" /\ probes \in 1..MaxProbes /\ points = 1
    BY <2>3, LifecycleAssumption
  <2> QED
    BY <2>1, <2>2, <2>3 DEF Init
<1>2. probe \in 1..probes /\ made \in 0..points
  BY <1>1, LifecycleAssumption DEF Init
<1>3. links \subseteq (1..probes) \X (1..points)
  BY DEF Init
<1> QED
  BY <1>1, <1>2, <1>3 DEF Init, TypeOK, PlacesType

(* A probe that is not the last one has a successor.                       *)
LEMMA NextInRange ==
  ASSUME NEW n \in 1..MaxProbes, NEW p \in 1..n, p < n PROVE p + 1 \in 1..n
<1>1. n \in Nat
  BY LifecycleAssumption
<1>2. p \in Nat /\ p + 1 <= n
  BY <1>1
<1> QED
  BY <1>1, <1>2

(* Every step of either thread, and a signal, keeps the types of all that  *)
(* is not a set.                                                           *)
LEMMA NextPlacesType == PlacesType /\ [Next]_vars => PlacesType'
<1> SUFFICES ASSUME PlacesType, [Next]_vars PROVE PlacesType'
  OBVIOUS
<1> USE LifecycleAssumption DEF PlacesType, Goes, MainGoes
<1>1. CASE MainStep
  <2>1. /\ main' \in {"check", "recv", "ok", "module_error", "stopped_alone"}
        /\ message' \in BOOLEAN
    BY <1>1 DEF MainStep, CheckFlag, RecvError, RecvTimeout, RecvDisconnected
  <2>2. UNCHANGED <<kind, probes, points, interrupted, worker, hung, probe, made, eintr,
                    fault, struck, late>>
    BY <1>1 DEF MainStep, CheckFlag, RecvError, RecvTimeout, RecvDisconnected
  <2> QED
    BY <2>1, <2>2
<1>2. CASE Setup \/ AllAttached \/ Build
  BY <1>2 DEF Setup, AllAttached, Build
<1>3. CASE Attach
  BY <1>3 DEF Attach
<1>4. ASSUME NEW place \in {"setup", "attach", "build"}, SetupFails(place) PROVE PlacesType'
  BY <1>4 DEF SetupFails
<1>5. CASE PollAgain \/ LoopEnds \/ PollDone
  BY <1>5 DEF PollAgain, LoopEnds, PollDone
<1>6. CASE PollFails
  <2>1. fault' \in BOOLEAN /\ struck' \in BOOLEAN /\ eintr' \in BOOLEAN
    BY <1>6, Zenon DEF PollFails
  <2> QED
    BY <1>6, <2>1 DEF PollFails
<1>7. CASE NextProbe
  <2>1. probe + 1 \in 1..probes
    BY <1>7, NextInRange, Zenon DEF NextProbe
  <2> QED
    BY <1>7, <2>1 DEF NextProbe
<1>8. CASE LastProbe \/ Report \/ DropSender
  BY <1>8 DEF LastProbe, Report, DropSender
<1>9. ASSUME NEW who \in {"main", "module"}, Interrupt(who) PROVE PlacesType'
  <2>1. interrupted' \in BOOLEAN /\ eintr' \in BOOLEAN /\ late' \in BOOLEAN
    BY <1>9, Zenon DEF Interrupt
  <2> QED
    BY <1>9, <2>1 DEF Interrupt
<1>10. CASE Hang
  BY <1>10 DEF Hang
<1>11. CASE UNCHANGED vars
  BY <1>11 DEF vars
<1> QED
  BY <1>1, <1>2, <1>3, <1>4, <1>5, <1>6, <1>7, <1>8, <1>9, <1>10, <1>11 DEF Next, ModuleStep

(* A step changes the links in one of three ways, and never what the       *)
(* module has been asked to do.                                            *)
LEMMA LinksChange ==
  ASSUME [Next]_vars
  PROVE  /\ probes' = probes /\ points' = points
         /\ \/ links' = links
            \/ links' = Dropped
            \/ Attach
<1> USE DEF Goes, MainGoes
<1>1. CASE MainStep
  BY <1>1 DEF MainStep, CheckFlag, RecvError, RecvTimeout, RecvDisconnected
<1>2. CASE Setup \/ Attach \/ AllAttached \/ Build
  BY <1>2 DEF Setup, Attach, AllAttached, Build
<1>3. ASSUME NEW place \in {"setup", "attach", "build"}, SetupFails(place)
      PROVE  probes' = probes /\ points' = points /\ links' = Dropped
  BY <1>3 DEF SetupFails
<1>4. CASE PollAgain \/ LoopEnds \/ PollDone \/ PollFails
  BY <1>4 DEF PollAgain, LoopEnds, PollDone, PollFails
<1>5. CASE NextProbe \/ LastProbe \/ Report \/ DropSender
  BY <1>5 DEF NextProbe, LastProbe, Report, DropSender
<1>6. CASE Hang \/ (\E who \in {"main", "module"} : Interrupt(who)) \/ UNCHANGED vars
  BY <1>6 DEF Hang, Interrupt, vars
<1> QED
  BY <1>1, <1>2, <1>3, <1>4, <1>5, <1>6 DEF Next, ModuleStep

(* Every step keeps the types, the links included.                         *)
LEMMA NextTypeOK == TypeOK /\ [Next]_vars => TypeOK'
<1> SUFFICES ASSUME TypeOK, [Next]_vars PROVE TypeOK'
  OBVIOUS
<1>1. links \subseteq (1..probes) \X (1..points) /\ PlacesType
  BY DEF TypeOK
<1>2. CASE Attach
  <2>1. made + 1 \in 1..points /\ probe \in 1..probes
    BY <1>1, <1>2 DEF Attach, PlacesType
  <2>2. links' = links \cup {<<probe, made + 1>>}
    BY <1>2 DEF Attach
  <2>3. links' \subseteq (1..probes) \X (1..points)
    BY <1>1, <2>1, <2>2
  <2> QED
    BY <1>1, <2>3, LinksChange, NextPlacesType DEF TypeOK
<1>3. CASE links' = links \/ links' = Dropped
  <2>1. links' \subseteq links
    BY <1>3 DEF Dropped
  <2>2. links' \subseteq (1..probes) \X (1..points)
    BY <1>1, <2>1, Zenon
  <2> QED
    BY <1>1, <2>2, LinksChange, NextPlacesType DEF TypeOK
<1> QED
  BY <1>2, <1>3, LinksChange

(* Every variable of a run keeps its type, however many probes it has.     *)
THEOREM TypeCorrect == Spec => []TypeOK
  BY InitTypeOK, NextTypeOK, PTL DEF Spec

-----------------------------------------------------------------------------
(* The links that are alive are those in the vector, and there is a vector *)
(* only between the start of the attach and the end of the run.            *)
LinksInv == LinksFollowRun /\ VectorInv

(* No link of a probe is left when its vector is gone.                     *)
LEMMA NothingLeft ==
  ASSUME NEW n, links = {probe} \X (1..n) \/ links = {}
  PROVE  Dropped = {}
BY DEF Dropped

(* The links of a module thread that runs, and nothing behind its end.     *)
LEMMA LinksOfVector ==
  ASSUME TypeOK, LinksInv
  PROVE  links = {probe} \X (1..made) \/ links = {}
BY Zenon DEF TypeOK, PlacesType, LinksInv, LinksFollowRun, VectorInv

(* Every step keeps the links those of the vector.                         *)
LEMMA NextLinksInv == TypeOK /\ LinksInv /\ [Next]_vars => LinksInv'
<1> SUFFICES ASSUME TypeOK, LinksInv, [Next]_vars PROVE LinksInv'
  OBVIOUS
<1> USE DEF LinksInv, LinksFollowRun, VectorInv, Goes, MainGoes
<1>1. CASE MainStep
  BY <1>1 DEF MainStep, CheckFlag, RecvError, RecvTimeout, RecvDisconnected
<1>2. CASE Setup
  <2>1. {probe} \X (1..0) = {}
    OBVIOUS
  <2> QED
    BY <1>2, <2>1 DEF Setup
<1>3. CASE Attach
  <2>1. made \in Nat
    BY DEF TypeOK, PlacesType
  <2>2. 1..(made + 1) = (1..made) \cup {made + 1}
    BY <2>1
  <2>3. \A S, T : {probe} \X (S \cup T) = ({probe} \X S) \cup ({probe} \X T)
    OBVIOUS
  <2>4. \A n : {probe} \X {n} = {<<probe, n>>}
    OBVIOUS
  <2> QED
    BY <1>3, <2>2, <2>3, <2>4 DEF Attach
<1>4. CASE AllAttached \/ Build
  BY <1>4 DEF AllAttached, Build
<1>5. Dropped = {}
  BY LinksOfVector, NothingLeft
<1>6. ASSUME NEW place \in {"setup", "attach", "build"}, SetupFails(place) PROVE LinksInv'
  BY <1>5, <1>6 DEF SetupFails
<1>7. CASE PollAgain \/ LoopEnds \/ PollDone
  BY <1>7 DEF PollAgain, LoopEnds, PollDone
<1>8. CASE PollFails
  BY <1>5, <1>8 DEF PollFails
<1>9. CASE NextProbe \/ LastProbe
  BY <1>5, <1>9 DEF NextProbe, LastProbe
<1>10. CASE Report \/ DropSender
  BY <1>10 DEF Report, DropSender
<1>11. CASE \E who \in {"main", "module"} : Interrupt(who)
  BY <1>11 DEF Interrupt
<1>12. CASE Hang \/ UNCHANGED vars
  BY <1>12 DEF Hang, vars
<1> QED
  BY <1>1, <1>2, <1>3, <1>4, <1>6, <1>7, <1>8, <1>9, <1>10, <1>11, <1>12
  DEF Next, ModuleStep

(* For any number of probes and points, every point of a probe is attached *)
(* while it polls, and none when its run is over, in whatever way.         *)
THEOREM LinksFollowTheRun == Spec => []LinksFollowRun
<1>1. Init => LinksInv
  BY DEF Init, LinksInv, LinksFollowRun, VectorInv
<1>2. LinksInv => LinksFollowRun
  BY DEF LinksInv
<1> QED
  BY <1>1, <1>2, NextLinksInv, TypeCorrect, PTL DEF Spec

-----------------------------------------------------------------------------
(* The main thread ends with a failure only on a message, or when the      *)
(* module thread is gone.                                                  *)
FailureInv == FailuresExplained /\ CauseInv

(* The module thread decides nothing about the end itself, and leaves its  *)
(* loop with a cause.                                                      *)
LEMMA ModuleHasCause ==
  ASSUME FailureInv, ModuleStep
  PROVE  FailureInv'
<1> USE DEF FailureInv, FailuresExplained, CauseInv, Goes, Running, Failures
<1>1. CASE Setup \/ Attach \/ AllAttached \/ Build
  BY <1>1 DEF Setup, Attach, AllAttached, Build
<1>2. ASSUME NEW place \in {"setup", "attach", "build"}, SetupFails(place)
      PROVE  FailureInv'
  BY <1>2 DEF SetupFails
<1>3. CASE PollAgain \/ LoopEnds \/ PollDone
  BY <1>3 DEF PollAgain, LoopEnds, PollDone
<1>4. CASE PollFails
  <2>1. /\ main \notin Failures /\ main' = main /\ kind' = kind
        /\ interrupted' = interrupted /\ late' = late /\ message' = message
        /\ eintr' = FALSE /\ worker' = (IF kind = "stack" THEN "failed" ELSE "stopping")
    BY <1>4 DEF PollFails
  <2>2. (fault' <=> fault \/ ~eintr) /\ (struck' <=> struck \/ eintr)
    BY <1>4, Zenon DEF PollFails
  <2>3. fault' \/ (interrupted' /\ struck')
    BY <2>1, <2>2, Zenon
  <2> QED
    BY <2>1, <2>2, <2>3
<1>5. CASE NextProbe \/ LastProbe
  BY <1>5 DEF NextProbe, LastProbe
<1>6. CASE Report \/ DropSender
  BY <1>6 DEF Report, DropSender
<1> QED
  BY <1>1, <1>2, <1>3, <1>4, <1>5, <1>6 DEF ModuleStep

(* The main thread looks at the flag before it waits.                      *)
LEMMA MainHasCause ==
  ASSUME FailureInv, MainStep
  PROVE  FailureInv'
<1> USE DEF FailureInv, FailuresExplained, CauseInv, MainGoes, Failures
<1>1. CASE CheckFlag
  BY <1>1 DEF CheckFlag
<1>2. CASE RecvError
  BY <1>2 DEF RecvError
<1>3. CASE RecvTimeout
  BY <1>3 DEF RecvTimeout
<1>4. CASE RecvDisconnected
  BY <1>4 DEF RecvDisconnected, Disconnected
<1> QED
  BY <1>1, <1>2, <1>3, <1>4 DEF MainStep

(* Every step keeps the causes.                                            *)
LEMMA NextFailureInv == FailureInv /\ [Next]_vars => FailureInv'
<1> SUFFICES ASSUME FailureInv, [Next]_vars PROVE FailureInv'
  OBVIOUS
<1>1. ASSUME NEW who \in {"main", "module"}, Interrupt(who) PROVE FailureInv'
  <2>1. /\ main \notin Failures /\ main' = main /\ kind' = kind /\ interrupted'
        /\ worker' = worker /\ message' = message /\ fault' = fault /\ struck' = struck
    BY <1>1 DEF Interrupt, Running, Failures
  <2>2. main = "recv" => late'
    BY <1>1, Zenon DEF FailureInv, CauseInv, Interrupt
  <2> QED
    BY <2>1, <2>2 DEF FailureInv, FailuresExplained, CauseInv, Failures
<1>2. CASE Hang \/ UNCHANGED vars
  BY <1>2 DEF FailureInv, FailuresExplained, CauseInv, Hang, vars
<1> QED
  BY <1>1, <1>2, ModuleHasCause, MainHasCause DEF Next

(* No run without a fault fails but by a signal that comes while the main  *)
(* thread waits, and with an error only by an EINTR of StackMod's poll.    *)
THEOREM FailuresAreExplained == Spec => []FailuresExplained
<1>1. Init => FailureInv
  BY DEF Init, FailureInv, FailuresExplained, CauseInv, Failures
<1>2. FailureInv => FailuresExplained
  BY DEF FailureInv
<1> QED
  BY <1>1, <1>2, NextFailureInv, PTL DEF Spec
=============================================================================
