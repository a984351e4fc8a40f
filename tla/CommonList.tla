----------------------------- MODULE CommonList -----------------------------
(***************************************************************************)
(* common_list: eight lists of numbers in one hash map.  The entry v of    *)
(* a list has the key Start(list) + v.  The stack module checks the sum    *)
(* (common_list_key of src/ebpf/bpf_common.rs), the syscall module adds    *)
(* unchecked (update_common_list of src/module/syscall_tracepoint.rs), the *)
(* programs that look it up add 32-bit numbers (ebpf/common/filtering.h).  *)
(***************************************************************************)
EXTENDS Naturals

CONSTANTS Stride,   \* COMMON_LIST_SEGMENT_STRIDE
          Width     \* 2^32: how many numbers a __u32 has

ASSUME CommonListAssumption ==
  /\ Stride \in Nat \ {0} /\ Width \in Nat
  /\ 9 * Stride <= Width

Segments == {"sysWhite", "sysBlack", "uidWhite", "uidBlack",
             "pidWhite", "pidBlack", "tidWhite", "tidBlack"}

(* The constants ..._START, in units of the stride.                        *)
Place == [sysWhite |-> 1, sysBlack |-> 2, uidWhite |-> 3, uidBlack |-> 4,
          pidWhite |-> 5, pidBlack |-> 6, tidWhite |-> 7, tidBlack |-> 8]

Start(list) == Place[list] * Stride

MaxKey == 9 * Stride      \* COMMON_LIST_MAX_KEY

(* Faulty: only the sum is checked.                                        *)
HasKeySum(v, offset) ==
  /\ v + offset < Width
  /\ v + offset < MaxKey

(* The values common_list_key() gives a key to.                            *)
HasKey(v, offset) ==
  /\ v + offset < Width
  /\ v < Stride
  /\ v + offset < MaxKey

(* write_common_lists, stack module: the first value without a key ends    *)
(* the set-up.                                                             *)
Writable(lists) == \A list \in Segments : \A v \in lists[list] : HasKey(v, Start(list))

CheckedKeys(lists) == UNION {{v + Start(list) : v \in lists[list]} : list \in Segments}

(* update_common_list, syscall module: any value; in a release build the   *)
(* sum wraps.                                                              *)
AddedKeys(lists) == UNION {{(v + Start(list)) % Width : v \in lists[list]} : list \in Segments}

(* A lookup in should_trace() and in the handlers of sys_enter, sys_exit.  *)
Found(keys, list, v) == (Start(list) + v) % Width \in keys

-----------------------------------------------------------------------------
(* A number at or above the stride, listed elsewhere, that is taken for v: *)
(* it is as far from v as the lists are from each other, or 2^32 further.  *)
Strays(lists, list, v) ==
  \E other \in Segments : \E far \in lists[other] :
    /\ far >= Stride
    /\ far - v - (Place[list] - Place[other]) * Stride \in {0, Width}

(* For the ids that occur (below the stride: PID_MAX_LIMIT, and uids are   *)
(* far below), the kernel finds what the user has listed.  The stack       *)
(* module traces with no other lists; the syscall module with any, and     *)
(* then an id is also found where a number at or above the stride strays.  *)
MeansLists(lists) ==
  \A list \in Segments : \A v \in 0..(Stride - 1) :
    /\ Writable(lists) => (Found(CheckedKeys(lists), list, v) <=> v \in lists[list])
    /\ Found(AddedKeys(lists), list, v) <=> v \in lists[list] \/ Strays(lists, list, v)
=============================================================================
