---------------------------- MODULE MCTaskFilter ----------------------------
(***************************************************************************)
(* Two processes 1 and 2 (2 the tracer's when Self is 2), one more thread  *)
(* 3, one user and two thread names: every list with and without them, the *)
(* second name in the blacklists only.  Segments are four wide; in one     *)
(* further list of each kind stands the number of process 1 in the next    *)
(* segment, or the largest number.                                         *)
(***************************************************************************)
EXTENDS TaskFilter

SomeOptions ==
  [tidWhite : SUBSET {3}, tidBlack : SUBSET {3},
   pidWhite : SUBSET {1}, pidBlack : SUBSET {1},
   uidWhite : SUBSET {1}, uidBlack : SUBSET {1},
   commWhite : SUBSET {"main"}, commBlack : SUBSET Comm,
   defaultCommBlack : SUBSET {"hwui"}, uidGroups : SUBSET {1},
   sysWhite : {{}}, sysBlack : {{}}, traceAll : {TRUE},
   signal : {FALSE}, tsignal : {FALSE}]

FarOptions ==
  {[o EXCEPT !.uidWhite = @ \cup far.uidWhite, !.uidBlack = @ \cup far.uidBlack,
             !.pidWhite = @ \cup far.pidWhite, !.pidBlack = @ \cup far.pidBlack,
             !.tidWhite = @ \cup far.tidWhite, !.tidBlack = @ \cup far.tidBlack] :
     o \in {x \in SomeOptions : x.commBlack \cup x.defaultCommBlack = {} /\ x.uidGroups = {}},
     far \in UNION {{[[l \in Segments |-> {}] EXCEPT ![list] = {n}] : n \in {5, 39}} :
                     list \in Segments \ {"sysWhite", "sysBlack"}}}

AnyOptions == SomeOptions \cup FarOptions

SomeForkLists == {[p \in Tid |-> NoPid], [p \in Tid |-> IF p = 1 THEN 1 ELSE NoPid]}

SomeTasks ==
  [tid : {1, 3}, pid : {1}, uid : {1}, comm : Comm]
    \cup [tid : {2}, pid : {2}, uid : {1}, comm : Comm]

Tids == {1, 2, 3, 5, 39}
Users == {1, 5, 39}
Names == {"main", "hwui"}
Calls == {}
=============================================================================
