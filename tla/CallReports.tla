---------------------------- MODULE CallReports ----------------------------
(***************************************************************************)
(* What a reader of the event stream may rely on for a traced system call: *)
(* per thread, an exit event closes the enter event that came last and was *)
(* not closed yet, and carries the arguments of that call.  A call may be  *)
(* dropped after its enter event (the thread died, or there was no room    *)
(* for its arguments), but no exit event comes without its enter event.    *)
(***************************************************************************)
CONSTANTS Thread, NoThread

VARIABLES open,    \* the threads whose last enter event is not closed
          report   \* the event of the last step: <<type, thread>>, or silence

silence == <<"none", NoThread>>

Init == open = {} /\ report = silence

Enter(t) ==
  /\ t \notin open
  /\ open' = open \cup {t}
  /\ report' = <<"enter", t>>

Exit(t) ==
  /\ t \in open
  /\ open' = open \ {t}
  /\ report' = <<"exit", t>>

Drop(t) ==
  /\ t \in open
  /\ open' = open \ {t}
  /\ report' = silence

Silence == UNCHANGED open /\ report' = silence

Next == Silence \/ \E t \in Thread : Enter(t) \/ Exit(t) \/ Drop(t)

Spec == Init /\ [][Next]_<<open, report>>
=============================================================================
