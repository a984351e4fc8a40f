---------------------------- MODULE MCStackProbe ----------------------------
(***************************************************************************)
(* Small instances of StackProbe: two task ids, two hooked functions.      *)
(***************************************************************************)
EXTENDS StackProbe

NoFilter ==
  [tidWhite |-> {}, tidBlack |-> {}, pidWhite |-> {}, pidBlack |-> {},
   uidWhite |-> {}, uidBlack |-> {}, commWhite |-> {}, commBlack |-> {},
   defaultCommBlack |-> {}, uidGroups |-> {}, sysWhite |-> {}, sysBlack |-> {},
   traceAll |-> FALSE, signal |-> FALSE, tsignal |-> FALSE]

(* -p 1 --kill; and --uid with a name to leave out and --tkill.            *)
MCOptions ==
  {[NoFilter EXCEPT !.pidWhite = {1}, !.signal = TRUE],
   [NoFilter EXCEPT !.uidWhite = {"app"}, !.commBlack = {"hwui"}, !.tsignal = TRUE]}

Linked == [exit |-> TRUE, filtered |-> FALSE]
LinkedFiltered == [exit |-> TRUE, filtered |-> TRUE]
Single == [exit |-> FALSE, filtered |-> FALSE]

(* The last one expands to eight points, of which six have programs.       *)
MCHooks == {<<LinkedFiltered, Single>>, <<Linked, Linked, Linked, Linked>>}

MCTid == {1, 2}
MCUid == {"app"}
MCComm == {"main", "hwui"}
MCLive == {1}
MCPid == [t \in MCTid |-> t]
=============================================================================
