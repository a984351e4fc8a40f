------------------------- MODULE SyscallTraceProofs -------------------------
(***************************************************************************)
(* Proofs about SyscallTrace, for any sets of tasks, calls, options and    *)
(* any sizes of the two hash maps.                                         *)
(***************************************************************************)
EXTENDS SyscallTrace, TLAPS

(* An update of ctx_regs_map touches the entry of its own thread only, and *)
(* leaves there nothing or what was to be written.                         *)
LEMMA SaveRegsEffect ==
  ASSUME TypeOK, NEW t \in Tid, NEW flag \in {0, 1}, SaveRegs(t, flag)
  PROVE  /\ ctx_regs_map' \in [Tid -> Regs \cup {NoRegs}]
         /\ \A u \in Tid \ {t} : ctx_regs_map'[u] = ctx_regs_map[u]
         /\ ctx_regs_map'[t] \in {NoRegs, [flag |-> flag, own |-> TRUE]}
<1>1. CASE t \in SavedTids \/ Cardinality(SavedTids) < MaxRegs
  <2>1. ctx_regs_map' = [ctx_regs_map EXCEPT ![t] = [flag |-> flag, own |-> TRUE]]
    BY <1>1 DEF SaveRegs
  <2>2. [flag |-> flag, own |-> TRUE] \in Regs
    BY DEF Regs
  <2> QED
    BY <2>1, <2>2 DEF TypeOK
<1>2. CASE ~(t \in SavedTids \/ Cardinality(SavedTids) < MaxRegs)
  <2>1. ctx_regs_map' = ctx_regs_map
    BY <1>2 DEF SaveRegs
  <2>2. ctx_regs_map[t] = NoRegs
    BY <1>2 DEF SavedTids
  <2> QED
    BY <2>1, <2>2 DEF TypeOK
<1> QED
  BY <1>1, <1>2

(* The end of a call changes the entry of its own thread only: it goes, or *)
(* it stays and belongs to no call.                                        *)
LEMMA AbandonEffect ==
  ASSUME TypeOK, NEW t \in Tid, Abandon(t) \/ DelRegs(t)
  PROVE  /\ ctx_regs_map' \in [Tid -> Regs \cup {NoRegs}]
         /\ \A u \in Tid \ {t} : ctx_regs_map'[u] = ctx_regs_map[u]
         /\ ctx_regs_map'[t] # NoRegs => ctx_regs_map'[t].own = FALSE
<1>1. CASE DelRegs(t)
  BY <1>1 DEF DelRegs, TypeOK
<1>2. CASE Abandon(t) /\ t \in SavedTids
  <2>1. ctx_regs_map' = [ctx_regs_map EXCEPT ![t].own = FALSE]
    BY <1>2 DEF Abandon
  <2>2. ctx_regs_map[t] \in Regs
    BY <1>2 DEF SavedTids, TypeOK
  <2>3. [ctx_regs_map[t] EXCEPT !.own = FALSE] \in Regs
    BY <2>2 DEF Regs
  <2>4. ctx_regs_map'[t] = [ctx_regs_map[t] EXCEPT !.own = FALSE]
    BY <2>1 DEF TypeOK
  <2>5. ctx_regs_map'[t].own = FALSE
    BY <2>2, <2>4 DEF Regs
  <2> QED
    BY <2>1, <2>3, <2>4, <2>5 DEF TypeOK
<1>3. CASE Abandon(t) /\ t \notin SavedTids
  BY <1>3 DEF Abandon, SavedTids, TypeOK
<1> QED
  BY <1>1, <1>2, <1>3

-----------------------------------------------------------------------------
(* Every state the programs and the tasks can reach is well-typed, and the *)
(* calls in progress belong to live tasks.                                 *)
LEMMA InitTypeOK == Init => TypeOK
<1> SUFFICES ASSUME Init PROVE TypeOK
  OBVIOUS
<1>1. PICK opts \in Options : /\ maps = MapsOf(opts, Points)
                              /\ child_parent_map = ForkRoots(opts)
                              /\ kin = {t \in InitLive : InitPid[t] \in opts.pidWhite}
  BY DEF Init
<1>2. maps \in MapsType
  BY <1>1, SyscallTraceAssumption
<1>3. child_parent_map \in [Tid -> Tid \cup {NoPid}]
  BY <1>1 DEF ForkRoots
<1>4. uid \in [Tid -> Uid] /\ comm \in [Tid -> Comm]
  BY DEF Init
<1>5. live \subseteq Tid /\ kin \subseteq live /\ stopped \subseteq live
  BY <1>1, SyscallTraceAssumption DEF Init
<1>6. event \in Events
  BY DEF Init, NoEvent, Events, Outcomes
<1> QED
  BY <1>2, <1>3, <1>4, <1>5, <1>6, SyscallTraceAssumption DEF Init, TypeOK, Outcomes

(* A step that submits nothing leaves the empty event.                     *)
LEMMA QuietType == NoEvent \in Events
BY DEF NoEvent, Events, Outcomes

(* Every step of a program or a task keeps the types.                      *)
LEMMA NextTypeOK == TypeOK /\ [Next]_vars => TypeOK'
<1> SUFFICES ASSUME TypeOK, [Next]_vars PROVE TypeOK'
  OBVIOUS
<1> USE QuietType
<1>1. ASSUME NEW t \in Tid, NEW s \in Sysno, EnterIgnored(t, s) \/ Denied(t, s)
      PROVE  TypeOK'
  BY <1>1 DEF TypeOK, EnterIgnored, Denied, taskVars, Outcomes
<1>2. ASSUME NEW t \in Tid, NEW s \in Sysno, EnterSave(t, s) PROVE TypeOK'
  <2>1. ctx_regs_map' \in [Tid -> Regs \cup {NoRegs}]
    BY <1>2, SaveRegsEffect DEF EnterSave
  <2> QED
    BY <1>2, <2>1 DEF TypeOK, EnterSave, taskVars, Outcomes
<1>3. ASSUME NEW t \in Tid, EnterSkip(t) PROVE TypeOK'
  <2>1. ctx_regs_map' \in [Tid -> Regs \cup {NoRegs}]
    BY <1>3, SaveRegsEffect DEF EnterSkip
  <2> QED
    BY <1>3, <2>1 DEF TypeOK, EnterSkip, taskVars, Outcomes
<1>4. ASSUME NEW t \in Tid, EnterSubmit(t) PROVE TypeOK'
  <2>1. t \in live
    BY <1>4 DEF EnterSubmit, TypeOK
  <2>2. stopped' \subseteq live
    BY <1>4, <2>1 DEF EnterSubmit, Signalled, TypeOK
  <2>3. event' \in Events
    BY <1>4 DEF EnterSubmit, Events, Outcomes
  <2> QED
    BY <1>4, <2>2, <2>3 DEF TypeOK, EnterSubmit, taskVars, Outcomes
<1>5. ASSUME NEW t \in Tid, ExitUnseen(t) \/ ExitSilent(t) PROVE TypeOK'
  <2>1. ctx_regs_map' \in [Tid -> Regs \cup {NoRegs}]
    BY <1>5, AbandonEffect DEF ExitUnseen, ExitSilent
  <2> QED
    BY <1>5, <2>1 DEF TypeOK, ExitUnseen, ExitSilent, Returns, EndCall, taskVars,
                      Outcomes
<1>6. ASSUME NEW t \in Tid, ExitSubmit(t) PROVE TypeOK'
  <2>1. ctx_regs_map' \in [Tid -> Regs \cup {NoRegs}]
    BY <1>6, AbandonEffect DEF ExitSubmit
  <2>2. ctx_regs_map[t].own \in BOOLEAN
    BY <1>6 DEF ExitSubmit, SavedTids, TypeOK, Regs
  <2>3. event' \in Events
    BY <1>6, <2>2 DEF ExitSubmit, Events, TypeOK
  <2> QED
    BY <1>6, <2>1, <2>3 DEF TypeOK, ExitSubmit, Returns, EndCall, taskVars, Outcomes
<1>7. ASSUME NEW t \in Tid, NEW c \in Tid, NEW p \in Tid, Fork(t, c, p)
      PROVE  TypeOK'
  <2>1. child_parent_map' \in [Tid -> Tid \cup {NoPid}]
    BY <1>7 DEF Fork, ForkHandler, TypeOK
  <2>2. t \in live
    BY <1>7 DEF Fork, TypeOK
  <2>3. uid' \in [Tid -> Uid] /\ comm' \in [Tid -> Comm] /\ pid' \in [Tid -> Tid]
    BY <1>7 DEF Fork, TypeOK
  <2>4. live' \subseteq Tid /\ kin' \subseteq live' /\ stopped' \subseteq live'
    BY <1>7 DEF Fork, TypeOK
  <2> QED
    BY <1>7, <2>1, <2>2, <2>3, <2>4 DEF TypeOK, Fork
<1>8. ASSUME NEW t \in Tid, Die(t) PROVE TypeOK'
  <2>1. ctx_regs_map' \in [Tid -> Regs \cup {NoRegs}]
    BY <1>8, AbandonEffect DEF Die
  <2> QED
    BY <1>8, <2>1 DEF TypeOK, Die, EndCall, Outcomes
<1>9. ASSUME NEW t \in Tid, NEW n \in Comm, SetComm(t, n) PROVE TypeOK'
  BY <1>9 DEF TypeOK, SetComm, callVars
<1>10. ASSUME NEW t \in Tid, NEW u \in Uid, SetUid(t, u) PROVE TypeOK'
  BY <1>10 DEF TypeOK, SetUid, callVars
<1>11. ASSUME NEW t \in Tid, SigCont(t) PROVE TypeOK'
  BY <1>11 DEF TypeOK, SigCont, taskVars, callVars
<1>12. CASE UNCHANGED vars
  BY <1>12 DEF vars, taskVars, callVars, TypeOK
<1> QED
  BY <1>1, <1>2, <1>3, <1>4, <1>5, <1>6, <1>7, <1>8, <1>9, <1>10, <1>11, <1>12
  DEF Next, StableNext, ChangingNext

(* Type correctness, for the whole specification.                          *)
THEOREM TypeCorrect == Spec => []TypeOK
<1>1. Init => TypeOK
  BY InitTypeOK
<1>2. TypeOK /\ [Next]_vars => TypeOK'
  BY NextTypeOK
<1> QED
  BY <1>1, <1>2, PTL DEF Spec

-----------------------------------------------------------------------------
(* What sys_enter made of a call and the entry of its thread agree.  Each  *)
(* action moves the call of one thread t; the calls of the others, and     *)
(* their entries, are as they were.                                        *)
LEMMA NextCallInv == TypeOK /\ CallInv /\ [Next]_vars => CallInv'
<1> SUFFICES ASSUME TypeOK, CallInv, [Next]_vars, NEW u \in Tid
             PROVE  CallOK(u)'
  BY DEF CallInv
<1>0. CallOK(u)
  BY DEF CallInv
<1>1. ASSUME NEW t \in Tid, NEW s \in Sysno, EnterIgnored(t, s) \/ Denied(t, s)
      PROVE  CallOK(u)'
  <2>1. CASE u = t
    BY <1>0, <1>1, <2>1 DEF CallOK, EnterIgnored, Denied, TypeOK
  <2>2. CASE u # t
    BY <1>0, <1>1, <2>2 DEF CallOK, EnterIgnored, Denied, TypeOK
  <2> QED
    BY <2>1, <2>2
<1>2. ASSUME NEW t \in Tid, NEW s \in Sysno, EnterSave(t, s) PROVE CallOK(u)'
  <2>1. /\ \A v \in Tid \ {t} : ctx_regs_map'[v] = ctx_regs_map[v]
        /\ ctx_regs_map'[t] \in {NoRegs, [flag |-> 0, own |-> TRUE]}
    BY <1>2, SaveRegsEffect DEF EnterSave
  <2>2. CASE u = t
    BY <1>0, <1>2, <2>1, <2>2 DEF CallOK, EnterSave, TypeOK
  <2>3. CASE u # t
    BY <1>0, <1>2, <2>1, <2>3 DEF CallOK, EnterSave, TypeOK
  <2> QED
    BY <2>2, <2>3
<1>3. ASSUME NEW t \in Tid, EnterSkip(t) PROVE CallOK(u)'
  <2>1. /\ \A v \in Tid \ {t} : ctx_regs_map'[v] = ctx_regs_map[v]
        /\ ctx_regs_map'[t] \in {NoRegs, [flag |-> 1, own |-> TRUE]}
    BY <1>3, SaveRegsEffect DEF EnterSkip
  <2>2. CASE u = t
    BY <1>0, <1>3, <2>1, <2>2 DEF CallOK, EnterSkip, TypeOK
  <2>3. CASE u # t
    BY <1>0, <1>3, <2>1, <2>3 DEF CallOK, EnterSkip, TypeOK
  <2> QED
    BY <2>2, <2>3
<1>4. ASSUME NEW t \in Tid, EnterSubmit(t) PROVE CallOK(u)'
  BY <1>0, <1>4 DEF CallOK, EnterSubmit, TypeOK
<1>5. ASSUME NEW t \in Tid, EndCall(t), Abandon(t) \/ DelRegs(t)
      PROVE  CallOK(u)'
  <2>1. /\ \A v \in Tid \ {t} : ctx_regs_map'[v] = ctx_regs_map[v]
        /\ ctx_regs_map'[t] # NoRegs => ctx_regs_map'[t].own = FALSE
    BY <1>5, AbandonEffect
  <2>2. CASE u = t
    BY <1>5, <2>1, <2>2 DEF CallOK, EndCall, TypeOK
  <2>3. CASE u # t
    BY <1>0, <1>5, <2>1, <2>3 DEF CallOK, EndCall, TypeOK
  <2> QED
    BY <2>2, <2>3
<1>6. ASSUME NEW t \in Tid, ExitUnseen(t) \/ ExitSilent(t) \/ ExitSubmit(t) \/ Die(t)
      PROVE  CallOK(u)'
  BY <1>5, <1>6 DEF ExitUnseen, ExitSilent, ExitSubmit, Die, Returns
<1>7. ASSUME NEW t \in Tid, NEW c \in Tid, NEW p \in Tid, Fork(t, c, p)
      PROVE  CallOK(u)'
  BY <1>0, <1>7 DEF CallOK, Fork, TypeOK
<1>8. ASSUME UNCHANGED <<phase, outcome, ctx_regs_map>> PROVE CallOK(u)'
  BY <1>0, <1>8 DEF CallOK
<1> QED
  BY <1>1, <1>2, <1>3, <1>4, <1>6, <1>7, <1>8
  DEF Next, StableNext, ChangingNext, SetComm, SetUid, SigCont, vars, callVars

(* No call is in progress at first, and nothing is saved.                  *)
LEMMA InitCallInv == Init => CallInv
BY DEF Init, CallInv, CallOK

(* Only sys_exit submits an exit event, for a call that returns.           *)
LEMMA ExitEvents ==
  ASSUME [Next]_vars, event'.type = "exit", event' # event
  PROVE  \E t \in Tid : ExitSubmit(t)
<1>1. NoEvent.type # "exit"
  BY DEF NoEvent
<1>2. ASSUME NEW t \in Tid, EnterSubmit(t) PROVE FALSE
  BY <1>2 DEF EnterSubmit
<1> QED
  BY <1>1, <1>2
  DEF Next, StableNext, ChangingNext, EnterIgnored, EnterSave, EnterSkip, Denied,
      ExitUnseen, ExitSilent, Fork, Die, SetComm, SetUid, SigCont, vars

(* Under every change of identity, a call skipped by an argument filter    *)
(* gets no exit event, and a reported call's exit event has its arguments. *)
THEOREM FilteredCallsAreSilent == Spec => []FilteredCallSilent
<1> DEFINE IInv == TypeOK /\ CallInv /\ FilteredCallSilent
<1>1. Init => IInv
  BY InitTypeOK, InitCallInv DEF Init, NoEvent, FilteredCallSilent
<1>2. IInv /\ [Next]_vars => IInv'
  <2> SUFFICES ASSUME IInv, [Next]_vars, event'.type = "exit", event' # event
               PROVE  FilteredCallSilent'
    BY NextTypeOK, NextCallInv DEF FilteredCallSilent
  <2>1. PICK t \in Tid : ExitSubmit(t)
    BY ExitEvents
  <2>2. /\ ctx_regs_map[t] # NoRegs
        /\ ctx_regs_map[t].flag # 1
        /\ phase[t] \in {"kernel", "cloned", "denied"}
        /\ event' = [type |-> "exit", tid |-> t, own |-> ctx_regs_map[t].own,
                     outcome |-> outcome[t]]
    BY <2>1 DEF ExitSubmit, SavedTids, Reports, Returns, InCall
  <2>3. CallOK(t) /\ outcome[t] \in Outcomes
    BY DEF CallInv, TypeOK
  <2>4. outcome[t] \in {"untraced", "skipped", "submitted"}
    BY <2>2, <2>3 DEF CallOK, Outcomes
  <2>5. ctx_regs_map[t].own <=> outcome[t] \in {"skipped", "submitted"}
    BY <2>2, <2>3, <2>4 DEF CallOK
  <2>6. outcome[t] # "skipped"
    BY <2>2, <2>3, <2>5 DEF CallOK
  <2> QED
    BY <2>2, <2>4, <2>5, <2>6 DEF FilteredCallSilent
<1>3. IInv => FilteredCallSilent
  OBVIOUS
<1> QED
  BY <1>1, <1>2, <1>3, PTL DEF Spec

-----------------------------------------------------------------------------
(* The verdict of the filters on a call hangs on the maps, the identity of *)
(* the task and the entry of its process in child_parent_map only.         *)
LEMMA SameVerdict ==
  ASSUME NEW u \in Tid, NEW s, maps' = maps, call'[u] = s,
         pid'[u] = pid[u], uid'[u] = uid[u], comm'[u] = comm[u],
         child_parent_map'[pid[u]] = child_parent_map[pid[u]]
  PROVE  EnterPasses(u, call[u])' <=> EnterPasses(u, s)
BY DEF EnterPasses, Traced, ShouldTrace, Task, SysnoAdmitted

(* While identities do not change, the verdict on a call in progress does  *)
(* not: the only step that could change it is a fork that lists the        *)
(* process of a live task, and a fork lists a free id.                     *)
LEMMA NextStableInv ==
  TypeOK /\ CallInv /\ StableInv /\ [StableNext]_vars => StableInv'
<1> SUFFICES ASSUME TypeOK, CallInv, StableInv, [StableNext]_vars
             PROVE  StableInv'
  OBVIOUS
<1> DEFINE Kept(u) ==
      /\ phase[u] # "denied"
      /\ phase[u] # "user" =>
           (outcome[u] = "untraced" <=> ~EnterPasses(u, call[u]))
<1>0. maps' = maps
  BY DEF StableNext, EnterIgnored, EnterSave, EnterSkip, EnterSubmit, ExitUnseen,
         ExitSilent, ExitSubmit, Returns, Fork, Die, SigCont, vars
<1> SUFFICES ASSUME NEW u \in Tid PROVE Kept(u)'
  BY <1>0 DEF StableInv
<1>1. Kept(u) /\ CallOK(u)
  BY DEF StableInv, CallInv
<1> DEFINE Same == UNCHANGED <<child_parent_map, pid, uid, comm>>
<1>2. ASSUME Same, call'[u] = call[u], phase'[u] = phase[u], outcome'[u] = outcome[u]
      PROVE  Kept(u)'
  BY <1>0, <1>1, <1>2, SameVerdict
<1>3. ASSUME NEW t \in Tid, NEW s \in Sysno, EnterIgnored(t, s) \/ EnterSave(t, s)
      PROVE  Kept(u)'
  <2>1. Same
    BY <1>3 DEF EnterIgnored, EnterSave, taskVars
  <2>2. CASE u = t
    <3>1. EnterPasses(u, call[u])' <=> EnterPasses(u, s)
      BY <1>0, <1>3, <2>1, <2>2, SameVerdict DEF EnterIgnored, EnterSave, TypeOK
    <3> QED
      BY <1>3, <2>2, <3>1 DEF EnterIgnored, EnterSave, TypeOK
  <2>3. CASE u # t
    BY <1>2, <1>3, <2>1, <2>3 DEF EnterIgnored, EnterSave, TypeOK
  <2> QED
    BY <2>2, <2>3
<1>4. ASSUME NEW t \in Tid, EnterSkip(t) \/ EnterSubmit(t) PROVE Kept(u)'
  <2>1. Same
    BY <1>4 DEF EnterSkip, EnterSubmit, taskVars
  <2>2. CASE u = t
    <3>1. EnterPasses(u, call[u])' <=> EnterPasses(u, call[u])
      BY <1>0, <1>4, <2>1, SameVerdict DEF EnterSkip, EnterSubmit
    <3>2. phase[u] # "user" /\ outcome[u] # "untraced"
      BY <1>1, <1>4, <2>2 DEF EnterSkip, EnterSubmit, CallOK
    <3> QED
      BY <1>1, <1>4, <2>2, <3>1, <3>2 DEF EnterSkip, EnterSubmit, TypeOK
  <2>3. CASE u # t
    BY <1>2, <1>4, <2>1, <2>3 DEF EnterSkip, EnterSubmit, TypeOK
  <2> QED
    BY <2>2, <2>3
<1>5. ASSUME NEW t \in Tid, ExitUnseen(t) \/ ExitSilent(t) \/ ExitSubmit(t) \/ Die(t)
      PROVE  Kept(u)'
  <2>1. Same /\ EndCall(t)
    BY <1>5 DEF ExitUnseen, ExitSilent, ExitSubmit, Returns, Die, taskVars
  <2>2. CASE u = t
    BY <2>1, <2>2 DEF EndCall, TypeOK
  <2>3. CASE u # t
    BY <1>2, <2>1, <2>3 DEF EndCall, TypeOK
  <2> QED
    BY <2>2, <2>3
<1>6. ASSUME NEW t \in Tid, NEW c \in Tid, NEW p \in Tid, Fork(t, c, p)
      PROVE  Kept(u)'
  <2>1. CASE phase[u] = "user"
    BY <1>1, <1>6, <2>1 DEF Fork, TypeOK
  <2>2. CASE phase[u] # "user"
    <3>1. u \in live /\ u # c /\ pid[u] # c /\ pid[u] \in Tid
      BY <1>6, <2>2 DEF Fork, TypeOK
    <3>2. child_parent_map'[pid[u]] = child_parent_map[pid[u]]
      BY <1>6, <3>1 DEF Fork, ForkHandler, TypeOK
    <3>3. EnterPasses(u, call[u])' <=> EnterPasses(u, call[u])
      BY <1>0, <1>6, <3>1, <3>2, SameVerdict DEF Fork, TypeOK
    <3> QED
      BY <1>1, <1>6, <2>2, <3>3 DEF Fork, TypeOK
  <2> QED
    BY <2>1, <2>2
<1>7. ASSUME NEW t \in Tid, SigCont(t) PROVE Kept(u)'
  BY <1>2, <1>7 DEF SigCont, taskVars, callVars
<1>8. CASE UNCHANGED vars
  BY <1>2, <1>8 DEF vars, taskVars, callVars
<1> QED
  BY <1>3, <1>4, <1>5, <1>6, <1>7, <1>8 DEF StableNext

(* At first both point tables are alike and no call is in progress.        *)
LEMMA InitStableInv == Init => StableInv
BY DEF Init, StableInv, MapsOf

(* What the invariants say of the step that submits an exit event.         *)
LEMMA ExitSubmitPaired ==
  ASSUME TypeOK, CallInv, StableInv, NEW t \in Tid, ExitSubmit(t)
  PROVE  /\ outcome[t] = "submitted"
         /\ ctx_regs_map[t].own
         /\ event' = [type |-> "exit", tid |-> t, own |-> ctx_regs_map[t].own,
                      outcome |-> outcome[t]]
<1>1. /\ phase[t] # "user" /\ phase[t] # "enter" /\ phase[t] # "denied"
      /\ ctx_regs_map[t] # NoRegs /\ ctx_regs_map[t].flag # 1
      /\ event' = [type |-> "exit", tid |-> t, own |-> ctx_regs_map[t].own,
                   outcome |-> outcome[t]]
  BY DEF ExitSubmit, Returns, InCall, SavedTids, Reports, StableInv
<1>2. EnterPasses(t, call[t])
  BY DEF ExitSubmit, ExitSees, Reports, EnterPasses, StableInv
<1>3. outcome[t] \in {"skipped", "submitted"}
  BY <1>1, <1>2 DEF StableInv, CallInv, CallOK, TypeOK, Outcomes
<1>4. ctx_regs_map[t].own
  BY <1>1, <1>3 DEF CallInv, CallOK
<1> QED
  BY <1>1, <1>3, <1>4 DEF CallInv, CallOK

(* The steps without a change of identity are steps.                       *)
LEMMA StableIsNext == [StableNext]_vars => [Next]_vars
BY DEF Next

(* While no task changes its identity, an exit event closes the enter      *)
(* event of the same call and carries its arguments.                       *)
THEOREM ExitEventsArePaired == StableSpec => []PairedExit
<1> DEFINE IInv == TypeOK /\ CallInv /\ StableInv /\ PairedExit
<1>1. Init => IInv
  BY InitTypeOK, InitCallInv, InitStableInv DEF Init, NoEvent, PairedExit
<1>2. IInv /\ [StableNext]_vars => IInv'
  <2> SUFFICES ASSUME IInv, [StableNext]_vars, event'.type = "exit", event' # event
               PROVE  PairedExit'
    BY NextTypeOK, NextCallInv, NextStableInv, StableIsNext DEF PairedExit
  <2>1. PICK t \in Tid : ExitSubmit(t)
    BY ExitEvents, StableIsNext
  <2> QED
    BY <2>1, ExitSubmitPaired DEF PairedExit
<1>3. IInv => PairedExit
  OBVIOUS
<1> QED
  BY <1>1, <1>2, <1>3, PTL DEF StableSpec

-----------------------------------------------------------------------------
(* The step a step of the programs and the tasks is, for a reader of the   *)
(* event stream: a silent one leaves the open calls as they are ...        *)
LEMMA SilentStep ==
  ASSUME event' = NoEvent, \A u \in Tid : outcome'[u] = "submitted" <=> outcome[u] = "submitted"
  PROVE  CR!Next
<1>1. Reported' = Reported
  BY DEF Reported
<1>2. <<event.type, event.tid>>' = <<"none", NoPid>>
  BY DEF NoEvent
<1> QED
  BY <1>1, <1>2 DEF CR!Next, CR!Silence, CR!silence

(* ... or drops one, when a call ends without an exit event.               *)
LEMMA EndStep ==
  ASSUME TypeOK, NEW t \in Tid, EndCall(t), event' = NoEvent
  PROVE  CR!Next
<1>1. CASE outcome[t] = "submitted"
  <2>1. t \in Reported /\ Reported' = Reported \ {t}
    BY <1>1 DEF Reported, EndCall, TypeOK
  <2>2. <<event.type, event.tid>>' = <<"none", NoPid>>
    BY DEF NoEvent
  <2> QED
    BY <2>1, <2>2 DEF CR!Next, CR!Drop, CR!silence
<1>2. CASE outcome[t] # "submitted"
  BY <1>2, SilentStep DEF EndCall, TypeOK
<1> QED
  BY <1>1, <1>2

(* Every step with stable identities is a step of CallReports or stutters. *)
LEMMA StepImplements ==
  TypeOK /\ CallInv /\ StableInv /\ [StableNext]_vars
    => [CR!Next]_<<Reported, <<event.type, event.tid>>>>
<1> SUFFICES ASSUME TypeOK, CallInv, StableInv, [StableNext]_vars
             PROVE  CR!Next \/ UNCHANGED <<Reported, <<event.type, event.tid>>>>
  OBVIOUS
<1>1. ASSUME NEW t \in Tid, NEW s \in Sysno, EnterIgnored(t, s) \/ EnterSave(t, s)
      PROVE  CR!Next
  <2>1. outcome[t] # "submitted" /\ outcome'[t] # "submitted"
    BY <1>1 DEF EnterIgnored, EnterSave, CallInv, CallOK, TypeOK
  <2> QED
    BY <1>1, <2>1, SilentStep DEF EnterIgnored, EnterSave, TypeOK
<1>2. ASSUME NEW t \in Tid, EnterSkip(t) PROVE CR!Next
  <2>1. outcome[t] # "submitted" /\ outcome'[t] # "submitted"
    BY <1>2 DEF EnterSkip, CallInv, CallOK, TypeOK
  <2> QED
    BY <1>2, <2>1, SilentStep DEF EnterSkip, TypeOK
<1>3. ASSUME NEW t \in Tid, EnterSubmit(t) PROVE CR!Next
  <2>1. t \notin Reported /\ Reported' = Reported \cup {t}
    BY <1>3 DEF EnterSubmit, Reported, CallInv, CallOK, TypeOK
  <2>2. <<event.type, event.tid>>' = <<"enter", t>>
    BY <1>3 DEF EnterSubmit
  <2> QED
    BY <2>1, <2>2 DEF CR!Next, CR!Enter
<1>4. ASSUME NEW t \in Tid, ExitUnseen(t) \/ ExitSilent(t) \/ Die(t) PROVE CR!Next
  BY <1>4, EndStep DEF ExitUnseen, ExitSilent, Die, Returns
<1>5. ASSUME NEW t \in Tid, ExitSubmit(t) PROVE CR!Next
  <2>1. outcome[t] = "submitted" /\ <<event.type, event.tid>>' = <<"exit", t>>
    BY <1>5, ExitSubmitPaired
  <2>2. t \in Reported /\ Reported' = Reported \ {t}
    BY <1>5, <2>1 DEF ExitSubmit, Returns, EndCall, Reported, TypeOK
  <2> QED
    BY <2>1, <2>2 DEF CR!Next, CR!Exit
<1>6. ASSUME NEW t \in Tid, NEW c \in Tid, NEW p \in Tid, Fork(t, c, p)
      PROVE  CR!Next
  BY <1>6, SilentStep DEF Fork
<1>7. ASSUME NEW t \in Tid, SigCont(t) PROVE CR!Next
  BY <1>7, SilentStep DEF SigCont, callVars
<1>8. CASE UNCHANGED vars
  BY <1>8 DEF vars, callVars, Reported
<1> QED
  BY <1>1, <1>2, <1>3, <1>4, <1>5, <1>6, <1>7, <1>8 DEF StableNext

(* While no task changes its identity, the event stream implements         *)
(* CallReports: per thread, every exit event closes the last enter event.  *)
THEOREM StreamImplementsCallReports == StableSpec => ImplementsCallReports
<1> DEFINE IInv == TypeOK /\ CallInv /\ StableInv
<1>1. Init => IInv
  BY InitTypeOK, InitCallInv, InitStableInv
<1>2. IInv /\ [StableNext]_vars => IInv'
  BY NextTypeOK, NextCallInv, NextStableInv, StableIsNext
<1>3. Init => CR!Init
  BY DEF Init, CR!Init, CR!silence, Reported, NoEvent
<1>4. IInv /\ [StableNext]_vars => [CR!Next]_<<Reported, <<event.type, event.tid>>>>
  BY StepImplements
<1> QED
  BY <1>1, <1>2, <1>3, <1>4, PTL DEF StableSpec, ImplementsCallReports, CR!Spec

-----------------------------------------------------------------------------
(* The first save of a call does not fail: its thread has an entry, of     *)
(* this call or left from another, or the map has room for one more.  How  *)
(* many threads there are, and how many entries were left behind, is free. *)
CanSave(t) == t \in SavedTids \/ Cardinality(SavedTids) < MaxRegs
CallsAreSaved ==
  [][\A t \in Tid : outcome[t] # "pending" /\ outcome'[t] = "pending" => CanSave(t)]_vars

LEMMA SaveRegsSucceeds ==
  ASSUME TypeOK, NEW t \in Tid, CanSave(t), NEW flag \in {0, 1}, SaveRegs(t, flag)
  PROVE  ctx_regs_map'[t] # NoRegs
<1>1. ctx_regs_map' = [ctx_regs_map EXCEPT ![t] = [flag |-> flag, own |-> TRUE]]
  BY DEF SaveRegs, CanSave
<1>2. [flag |-> flag, own |-> TRUE] \in Regs
  BY DEF Regs
<1> QED
  BY <1>1, <1>2, SyscallTraceAssumption DEF TypeOK

(* A call that sys_enter has let through has its entry until it returns.   *)
RoomInv ==
  \A t \in Tid :
    outcome[t] \in {"pending", "skipped", "submitted"} => ctx_regs_map[t] # NoRegs

(* Every step keeps RoomInv: an entry is lost only when its call is over,  *)
(* and a filtered call writes its flag into the entry it has.              *)
LEMMA NextRoomInv ==
  ASSUME TypeOK, CallInv, RoomInv, [StableNext]_vars,
         \A t \in Tid : outcome[t] # "pending" /\ outcome'[t] = "pending" => CanSave(t)
  PROVE  RoomInv'
<1> SUFFICES ASSUME NEW u \in Tid, outcome'[u] \in {"pending", "skipped", "submitted"}
             PROVE  ctx_regs_map'[u] # NoRegs
  BY DEF RoomInv
<1>1. ASSUME NEW t \in Tid, NEW s \in Sysno, EnterIgnored(t, s)
      PROVE  ctx_regs_map'[u] # NoRegs
  BY <1>1 DEF EnterIgnored, RoomInv, TypeOK
<1>2. ASSUME NEW t \in Tid, NEW s \in Sysno, EnterSave(t, s)
      PROVE  ctx_regs_map'[u] # NoRegs
  <2>1. CanSave(t)
    BY <1>2 DEF EnterSave, CallInv, CallOK, TypeOK
  <2>2. /\ ctx_regs_map'[t] # NoRegs
        /\ \A v \in Tid \ {t} : ctx_regs_map'[v] = ctx_regs_map[v]
    BY <1>2, <2>1, SaveRegsEffect, SaveRegsSucceeds DEF EnterSave
  <2> QED
    BY <1>2, <2>2 DEF EnterSave, RoomInv, TypeOK
<1>3. ASSUME NEW t \in Tid, EnterSkip(t) PROVE ctx_regs_map'[u] # NoRegs
  <2>1. CanSave(t)
    BY <1>3 DEF EnterSkip, CallInv, CallOK, RoomInv, CanSave, SavedTids
  <2>2. /\ ctx_regs_map'[t] # NoRegs
        /\ \A v \in Tid \ {t} : ctx_regs_map'[v] = ctx_regs_map[v]
    BY <1>3, <2>1, SaveRegsEffect, SaveRegsSucceeds DEF EnterSkip
  <2> QED
    BY <1>3, <2>2 DEF EnterSkip, RoomInv, TypeOK
<1>4. ASSUME NEW t \in Tid, EnterSubmit(t) PROVE ctx_regs_map'[u] # NoRegs
  <2>1. outcome[t] = "pending"
    BY <1>4 DEF EnterSubmit, CallInv, CallOK
  <2> QED
    BY <1>4, <2>1 DEF EnterSubmit, RoomInv, TypeOK
<1>5. ASSUME NEW t \in Tid, EndCall(t), Abandon(t) \/ DelRegs(t)
      PROVE  ctx_regs_map'[u] # NoRegs
  BY <1>5, AbandonEffect DEF EndCall, RoomInv, TypeOK
<1>6. ASSUME NEW t \in Tid, ExitUnseen(t) \/ ExitSilent(t) \/ ExitSubmit(t) \/ Die(t)
      PROVE  ctx_regs_map'[u] # NoRegs
  BY <1>5, <1>6 DEF ExitUnseen, ExitSilent, ExitSubmit, Die, Returns
<1>7. ASSUME UNCHANGED <<outcome, ctx_regs_map>> PROVE ctx_regs_map'[u] # NoRegs
  BY <1>7 DEF RoomInv
<1> QED
  BY <1>1, <1>2, <1>3, <1>4, <1>6, <1>7 DEF StableNext, Fork, SigCont, vars, callVars

(* As long as no call finds ctx_regs_map full and no task changes its      *)
(* identity, a call whose enter event went out gets its exit event when it *)
(* returns: what other calls leave in the map takes nothing from it.       *)
THEOREM ReturnsAreReported == StableSpec /\ CallsAreSaved => ExitReported
<1> DEFINE IInv == TypeOK /\ CallInv /\ StableInv /\ RoomInv
<1> DEFINE Saving ==
      \A t \in Tid : outcome[t] # "pending" /\ outcome'[t] = "pending" => CanSave(t)
<1> DEFINE Reporting ==
      \A t \in live' :
        /\ InCall(t) /\ phase'[t] = "user"
        /\ outcome[t] = "submitted" /\ call[t] \notin ForgetCalls \cup ExitFilters
        => event'.type = "exit" /\ event'.tid = t
<1>1. Init => IInv
  <2>1. Init => RoomInv
    BY DEF Init, RoomInv
  <2> QED
    BY <2>1, InitTypeOK, InitCallInv, InitStableInv
<1>2. IInv /\ [StableNext]_vars /\ [Saving]_vars => IInv'
  <2>1. UNCHANGED vars => Saving
    BY DEF vars, callVars
  <2> QED
    BY <2>1, NextTypeOK, NextCallInv, NextStableInv, NextRoomInv, StableIsNext
<1>3. IInv /\ [StableNext]_vars => Reporting
  <2> SUFFICES ASSUME IInv, [StableNext]_vars, NEW u \in live', InCall(u),
                      phase'[u] = "user", outcome[u] = "submitted",
                      call[u] \notin ForgetCalls \cup ExitFilters
               PROVE  event'.type = "exit" /\ event'.tid = u
    OBVIOUS
  <2>1. u \in live /\ u \in Tid
    <3>1. u \in Tid
      BY NextTypeOK, StableIsNext DEF TypeOK
    <3> QED
      BY <3>1 DEF InCall, TypeOK
  <2>2. /\ ExitSees(u, call[u])
        /\ ctx_regs_map[u] # NoRegs
        /\ Reports(u)
    <3>1. EnterPasses(u, call[u])
      BY <2>1 DEF StableInv, InCall
    <3>2. ctx_regs_map[u] # NoRegs
      BY <2>1 DEF RoomInv
    <3>3. ctx_regs_map[u].flag # 1
      BY <2>1, <3>2 DEF CallInv, CallOK
    <3> QED
      BY <3>1, <3>2, <3>3 DEF ExitSees, Reports, EnterPasses, StableInv
  <2>3. PICK t \in Tid : ExitUnseen(t) \/ ExitSilent(t) \/ ExitSubmit(t) \/ Die(t)
    <3>1. phase[u] # "user" /\ phase'[u] # phase[u]
      BY DEF InCall
    <3>2. ASSUME NEW t \in Tid,
                 \/ EnterSkip(t) \/ EnterSubmit(t) \/ SigCont(t)
                 \/ \E s \in Sysno : EnterIgnored(t, s) \/ EnterSave(t, s)
                 \/ \E c, p \in Tid : Fork(t, c, p)
          PROVE  FALSE
      BY <2>1, <3>1, <3>2
      DEF EnterSkip, EnterSubmit, SigCont, EnterIgnored, EnterSave, Fork, callVars, TypeOK
    <3> QED
      BY <3>1, <3>2 DEF StableNext, vars, callVars
  <2>4. t = u
    BY <2>1, <2>3 DEF ExitUnseen, ExitSilent, ExitSubmit, Die, Returns, EndCall, InCall,
                     TypeOK
  <2>5. ~Die(u)
    BY <2>1 DEF Die
  <2> QED
    BY <2>1, <2>2, <2>3, <2>4, <2>5 DEF ExitUnseen, ExitSilent, ExitSubmit, SavedTids
<1> QED
  BY <1>1, <1>2, <1>3, PTL DEF StableSpec, ExitReported, CallsAreSaved

-----------------------------------------------------------------------------
(* The fork handler copies a value only where it is the key itself, and    *)
(* such a key came with the pid whitelist: whatever tasks do, every value  *)
(* of child_parent_map is a pid of -p.                                     *)
THEOREM ForkListHasOneGeneration == Spec => []OneGeneration
<1>1. Init => OneGeneration
  <2> SUFFICES ASSUME Init, NEW q \in Tid, child_parent_map[q] # NoPid
               PROVE  child_parent_map[q] \in maps.pidWhite
    BY DEF OneGeneration, ListedPids
  <2> PICK opts \in Options : maps = MapsOf(opts, Points)
                                /\ child_parent_map = ForkRoots(opts)
    BY DEF Init
  <2>1. q \in opts.pidWhite /\ child_parent_map[q] = q
    BY DEF ForkRoots
  <2>2. maps.pidWhite = opts.pidWhite
    BY DEF MapsOf
  <2> QED
    BY <2>1, <2>2
<1>2. TypeOK /\ OneGeneration /\ [Next]_vars => OneGeneration'
  <2> SUFFICES ASSUME TypeOK, OneGeneration, [Next]_vars PROVE OneGeneration'
    OBVIOUS
  <2>1. CASE \E t, c, p \in Tid : Fork(t, c, p)
    <3> PICK t \in Tid, c \in Tid, p \in Tid : Fork(t, c, p)
      BY <2>1
    <3>1. maps' = maps
      BY DEF Fork
    <3>2. ASSUME child_parent_map[t] = t PROVE t \in maps.pidWhite
      BY <3>2, FilteringAssumption DEF OneGeneration, ListedPids
    <3>3. ASSUME NEW q \in Tid
          PROVE  \/ child_parent_map'[q] = child_parent_map[q]
                 \/ child_parent_map'[q] = t /\ child_parent_map[t] = t
      BY DEF Fork, ForkHandler, TypeOK
    <3> QED
      BY <3>1, <3>2, <3>3 DEF OneGeneration, ListedPids
  <2>2. CASE ~\E t, c, p \in Tid : Fork(t, c, p)
    <3>1. UNCHANGED <<maps, child_parent_map>>
      BY <2>2 DEF Next, StableNext, ChangingNext, EnterIgnored, EnterSave, EnterSkip,
         EnterSubmit, Denied, ExitUnseen, ExitSilent, ExitSubmit, Returns, Die, SetComm,
         SetUid, SigCont, vars
    <3> QED
      BY <3>1 DEF OneGeneration, ListedPids
  <2> QED
    BY <2>1, <2>2
<1> QED
  BY <1>1, <1>2, TypeCorrect, PTL DEF Spec

(* Only the submission of an enter event adds to the stopped tasks, and it *)
(* adds tasks of the process of the event's thread.                        *)
THEOREM StopsAreAnnounced == Spec => StopAnnounced
<1> DEFINE Announced ==
      \A t \in stopped' \ stopped :
        event'.type = "enter" /\ pid[event'.tid] = pid[t]
<1>1. [Next]_vars => Announced
  <2> SUFFICES ASSUME [Next]_vars PROVE Announced
    OBVIOUS
  <2>1. ASSUME NEW t \in Tid, EnterSubmit(t) PROVE Announced
    <3>1. event'.type = "enter" /\ event'.tid = t
      BY <2>1 DEF EnterSubmit
    <3>2. stopped' \ stopped \subseteq Signalled(t)
      BY <2>1 DEF EnterSubmit
    <3>3. \A u \in Signalled(t) : pid[u] = pid[t]
      BY DEF Signalled
    <3> QED
      BY <3>1, <3>2, <3>3
  <2>2. CASE ~\E t \in Tid : EnterSubmit(t)
    <3>1. stopped' \subseteq stopped
      BY <2>2 DEF Next, StableNext, ChangingNext, EnterIgnored, EnterSave, EnterSkip,
         Denied, ExitUnseen, ExitSilent, ExitSubmit, Returns, Fork, Die, SetComm,
         SetUid, SigCont, vars
    <3> QED
      BY <3>1
  <2> QED
    BY <2>1, <2>2
<1> QED
  BY <1>1, PTL DEF Spec, StopAnnounced
=============================================================================
