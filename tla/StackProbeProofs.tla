-------------------------- MODULE StackProbeProofs --------------------------
(***************************************************************************)
(* Proofs about the stack module, for any hook points, options, tasks,     *)
(* depth of calls and size of ctx_regs_map.                                *)
(***************************************************************************)
EXTENDS StackProbe, FiniteSetTheorems, SequenceTheorems, TLAPS

(* Every rank of a set of positions has its element: Nth finds one.        *)
LEMMA NthElement ==
  ASSUME NEW n \in Nat, NEW S \in SUBSET (1..n)
  PROVE  /\ Cardinality(S) \in 0..n
         /\ \A k \in 1..Cardinality(S) :
              Nth(S, k) \in S /\ Cardinality({j \in S : j <= Nth(S, k)}) = k
<1> DEFINE UpTo(i) == {j \in S : j <= i}
           rank == [i \in S |-> Cardinality(UpTo(i))]
           C == Cardinality(S)
<1>1. IsFiniteSet(S) /\ C \in Nat /\ C <= n
  <2>1. IsFiniteSet(1..n) /\ Cardinality(1..n) = n
    BY FS_Interval
  <2>2. IsFiniteSet(S) /\ C <= Cardinality(1..n)
    BY <2>1, FS_Subset
  <2> QED
    BY <2>1, <2>2, FS_CardinalityType
<1>2. \A i \in S : /\ IsFiniteSet(UpTo(i)) /\ Cardinality(UpTo(i)) \in Nat
                   /\ Cardinality(UpTo(i)) <= C
  <2> TAKE i \in S
  <2>1. UpTo(i) \in SUBSET S
    OBVIOUS
  <2> QED
    BY <1>1, <2>1, FS_Subset, FS_CardinalityType
<1>3. \A i \in S : rank[i] \in 1..C
  <2> TAKE i \in S
  <2>1. i \in UpTo(i)
    OBVIOUS
  <2>2. Cardinality(UpTo(i)) # 0
    BY <1>2, <2>1, FS_EmptySet
  <2> QED
    BY <1>2, <2>2
<1>4. \A i, j \in S : i < j => rank[i] # rank[j]
  <2> SUFFICES ASSUME NEW i \in S, NEW j \in S, i < j PROVE rank[i] # rank[j]
    OBVIOUS
  <2>1. UpTo(i) \in SUBSET UpTo(j) /\ j \in UpTo(j) /\ j \notin UpTo(i)
    <3>1. \A h \in S : h \in Int
      OBVIOUS
    <3>2. ~(j <= i) /\ j <= j /\ \A h \in S : h <= i => h <= j
      BY <3>1
    <3> HIDE <3>1
    <3> QED
      BY <3>2
  <2>2. Cardinality(UpTo(j)) # Cardinality(UpTo(i))
    BY <1>2, <2>1, FS_Subset
  <2> QED
    BY <2>2
<1>5. \A i, j \in S : i # j => rank[i] # rank[j]
  <2> SUFFICES ASSUME NEW i \in S, NEW j \in S, i # j PROVE rank[i] # rank[j]
    OBVIOUS
  <2>1. i \in Int /\ j \in Int
    OBVIOUS
  <2>2. i < j \/ j < i
    BY <2>1
  <2> QED
    BY <1>4, <2>2
<1>6. rank \in [S -> 1..C]
  BY <1>3
<1> HIDE DEF rank
<1>7. rank \in Injection(S, 1..C)
  BY <1>5, <1>6 DEF Injection, IsInjective
<1>8. IsFiniteSet(1..C) /\ Cardinality(1..C) = C
  BY <1>1, FS_Interval
<1>9. rank \in Surjection(S, 1..C)
  BY <1>7, <1>8, FS_Injection
<1>10. \A k \in 1..C : \E i \in S : Cardinality(UpTo(i)) = k
  BY <1>9 DEF Surjection, rank
<1>11. \A k \in 1..C : Nth(S, k) \in S /\ Cardinality(UpTo(Nth(S, k))) = k
  BY <1>10, Zenon DEF Nth
<1>12. C \in 0..n
  BY <1>1
<1> QED
  BY <1>11, <1>12
-----------------------------------------------------------------------------
(* The points of a probe: each has the index of its position, its own key  *)
(* as enter_key if any, and a side of a function that no other has.        *)
Numbered(ps) ==
  /\ \A i \in DOMAIN ps : ps[i].index = i - 1 /\ ps[i].enter_key \in {0, i}
  /\ \A i, j \in DOMAIN ps : ps[i].fn = ps[j].fn /\ ps[i].side = ps[j].side => i = j

(* What parse_hook_point makes of any hook points it does not refuse.      *)
LEMMA ParsedPoints ==
  ASSUME NEW specs \in Seq(Specs), ~Refused(specs)
  PROVE  /\ parse_hook_point(specs) \in Seq(PointType)
         /\ Len(parse_hook_point(specs)) <= MAX_UPROBE_PROGRAMS
         /\ Numbered(parse_hook_point(specs))
<1> DEFINE n == Len(specs)
           S == WithExit(specs)
           c == Cardinality(S)
           head == Marked(specs)
           tail == Copies(specs, Plain(specs))
           all == parse_hook_point(specs)
<1>1. n \in Nat /\ DOMAIN specs = 1..n /\ S \in SUBSET (1..n)
  BY DEF WithExit
<1>2. c \in 0..n /\ \A k \in 1..c : /\ Nth(S, k) \in 1..n
                                   /\ Cardinality({j \in S : j <= Nth(S, k)}) = k
  BY <1>1, NthElement
<1>3. \A i \in 1..n : specs[i].exit \in BOOLEAN /\ specs[i].filtered \in BOOLEAN
  <2>1. \A i \in 1..n : specs[i] \in Specs
    BY <1>1
  <2> QED
    BY <2>1 DEF Specs
<1>4. /\ DOMAIN head = 1..n
      /\ \A i \in 1..n :
           head[i] = [index |-> i - 1, enter_key |-> IF specs[i].exit THEN i ELSE 0,
                      fn |-> i, side |-> "enter", filtered |-> specs[i].filtered]
  BY <1>1 DEF Marked, Plain
<1>5. /\ DOMAIN tail = 1..c
      /\ \A k \in 1..c :
           tail[k] = [index |-> n + k - 1, enter_key |-> 0, fn |-> Nth(S, k),
                      side |-> "exit", filtered |-> specs[Nth(S, k)].filtered]
  BY <1>1, <1>2 DEF Copies, Plain, get_exit_point
<1> DEFINE T == {head[i] : i \in 1..n} \cup {tail[k] : k \in 1..c}
<1>6. head \in Seq(T) /\ Len(head) = n /\ tail \in Seq(T) /\ Len(tail) = c
  <2>1. \A i \in 1..n : head[i] \in T
    OBVIOUS
  <2>2. \A k \in 1..c : tail[k] \in T
    OBVIOUS
  <2>3. head = [i \in 1..n |-> head[i]] /\ tail = [k \in 1..c |-> tail[k]]
    BY <1>4, <1>5 DEF Marked, Copies
  <2> HIDE DEF head, tail, T
  <2> QED
    BY <1>1, <1>2, <2>1, <2>2, <2>3, IsASeq
<1> HIDE DEF head, tail, T, S
<1>7. /\ all \in Seq(T) /\ Len(all) = n + c
      /\ \A i \in 1..(n + c) : all[i] = IF i <= n THEN head[i] ELSE tail[i - n]
  <2>1. all = head \o tail
    BY DEF parse_hook_point, head, tail
  <2> HIDE DEF all
  <2>2. /\ head \o tail \in Seq(T) /\ Len(head \o tail) = n + c
        /\ \A i \in 1..(n + c) : (head \o tail)[i] = IF i <= n THEN head[i] ELSE tail[i - n]
    <3>1. /\ head \o tail \in Seq(T) /\ Len(head \o tail) = Len(head) + Len(tail)
          /\ \A i \in 1..(Len(head) + Len(tail)) :
               (head \o tail)[i] = IF i <= Len(head) THEN head[i] ELSE tail[i - Len(head)]
      BY <1>6
    <3> HIDE DEF n, c
    <3> QED
      BY <1>6, <3>1
  <2> QED
    BY <2>1, <2>2
<1>8. n + c <= MAX_UPROBE_PROGRAMS
  BY <1>2, <1>7 DEF Refused, MAX_UPROBE_PROGRAMS, all
<1> HIDE DEF all
<1> USE DEF MAX_UPROBE_PROGRAMS
<1>9. \A i \in 1..(n + c) :
        /\ all[i] \in PointType
        /\ all[i].index = i - 1 /\ all[i].enter_key \in {0, i}
        /\ i <= n => all[i].fn = i /\ all[i].side = "enter"
        /\ i > n => i - n \in 1..c /\ all[i].fn = Nth(S, i - n) /\ all[i].side = "exit"
  <2> TAKE i \in 1..(n + c)
  <2>1. CASE i <= n
    <3>1. i \in 1..n /\ i \in 1..6 /\ i - 1 \in 0..5 /\ ~(i > n)
      BY <1>1, <1>2, <1>8, <2>1
    <3>2. all[i] = head[i]
      BY <1>7, <2>1
    <3> QED
      BY <1>3, <1>4, <2>1, <3>1, <3>2 DEF PointType
  <2>2. CASE i > n
    <3>1. i - n \in 1..c /\ i - 1 \in 0..5 /\ ~(i <= n) /\ n + (i - n) - 1 = i - 1
      BY <1>1, <1>2, <1>8, <2>2
    <3>2. all[i] = tail[i - n]
      BY <1>7, <3>1
    <3>3. Nth(S, i - n) \in 1..n
      BY <1>2, <3>1
    <3>4. Nth(S, i - n) \in 1..6
      BY <1>1, <1>2, <1>8, <3>3
    <3> QED
      BY <1>3, <1>5, <3>1, <3>2, <3>3, <3>4 DEF PointType
  <2> QED
    BY <1>1, <1>2, <2>1, <2>2
<1>10. ASSUME NEW i \in 1..(n + c), NEW j \in 1..(n + c),
              all[i].fn = all[j].fn, all[i].side = all[j].side
       PROVE  i = j
  <2>1. CASE i <= n
    <3>1. j <= n
      BY <1>1, <1>2, <1>9, <1>10, <2>1
    <3> QED
      BY <1>9, <1>10, <2>1, <3>1
  <2>2. CASE i > n
    <3>1. j > n
      BY <1>1, <1>2, <1>9, <1>10, <2>2
    <3>2. Nth(S, i - n) = Nth(S, j - n) /\ i - n \in 1..c /\ j - n \in 1..c
      BY <1>9, <1>10, <2>2, <3>1
    <3>3. i - n = j - n
      BY <1>2, <3>2
    <3> QED
      BY <1>1, <1>2, <3>3
  <2> QED
    BY <1>1, <1>2, <2>1, <2>2
<1>11. DOMAIN all = 1..(n + c)
  BY <1>7
<1>12. all \in Seq(PointType)
  BY <1>7, <1>9
<1> QED
  BY <1>7, <1>8, <1>9, <1>10, <1>11, <1>12 DEF Numbered, all
-----------------------------------------------------------------------------
(* ctx_regs_map: finite, within its size, one entry for each key.          *)
RegsOK(map) ==
  /\ IsFiniteSet(map) /\ Cardinality(map) <= MaxRegs
  /\ \A e \in map :
       /\ e.tid \in Tid /\ e.key \in 1..MAX_UPROBE_PROGRAMS
       /\ e.value \in Values
       /\ Saved(map, e.tid, e.key) = {e}

(* An update keeps the map within its size and one entry for each key.     *)
LEMMA SaveRegsKeeps ==
  ASSUME NEW map, RegsOK(map), NEW t \in Tid, NEW key \in 1..MAX_UPROBE_PROGRAMS,
         NEW value \in Values
  PROVE  RegsOK(SaveRegs(map, Entry(t, key, value)))
<1> DEFINE entry == Entry(t, key, value)
           old == Saved(map, t, key)
           rest == map \ old
           new == rest \cup {entry}
<1>1. entry = [tid |-> t, key |-> key, value |-> value]
  BY DEF Entry
<1>2. SaveRegs(map, entry) = IF old # {} \/ Cardinality(map) < MaxRegs THEN new ELSE map
  <2>1. entry.tid = t /\ entry.key = key
    BY <1>1
  <2> HIDE DEF entry
  <2> QED
    BY <2>1 DEF SaveRegs
<1>3. IsFiniteSet(map) /\ Cardinality(map) \in Nat /\ Cardinality(map) <= MaxRegs
  BY FS_CardinalityType DEF RegsOK
<1>4. IsFiniteSet(rest) /\ Cardinality(rest) \in Nat /\ Cardinality(rest) <= Cardinality(map)
  BY <1>3, FS_Subset, FS_CardinalityType
<1>5. /\ IsFiniteSet(new)
      /\ Cardinality(new) = IF entry \in rest THEN Cardinality(rest) ELSE Cardinality(rest) + 1
  BY <1>4, FS_AddElement
<1>6. old # {} => Cardinality(rest) # Cardinality(map)
  <2> SUFFICES ASSUME old # {} PROVE Cardinality(rest) # Cardinality(map)
    OBVIOUS
  <2>1. rest # map /\ rest \in SUBSET map
    BY DEF Saved
  <2> QED
    BY <1>3, <2>1, FS_Subset
<1>7. old # {} \/ Cardinality(map) < MaxRegs => Cardinality(new) <= MaxRegs
  BY <1>3, <1>4, <1>5, <1>6, StackProbeAssumption
<1>8. \A e \in rest : e # entry /\ Saved(new, e.tid, e.key) = {e}
  <2> TAKE e \in rest
  <2>1. e \in map /\ ~(e.tid = t /\ e.key = key)
    BY DEF Saved
  <2>2. Saved(map, e.tid, e.key) = {e}
    BY <2>1 DEF RegsOK
  <2>3. entry.tid = t /\ entry.key = key
    BY <1>1
  <2> HIDE DEF entry
  <2> QED
    BY <2>1, <2>2, <2>3 DEF Saved
<1>9. Saved(new, t, key) = {entry}
  BY <1>1 DEF Saved
<1>10. \A e \in new : /\ e.tid \in Tid /\ e.key \in 1..MAX_UPROBE_PROGRAMS
                      /\ e.value \in Values
                      /\ Saved(new, e.tid, e.key) = {e}
  <2>1. \A e \in rest : /\ e.tid \in Tid /\ e.key \in 1..MAX_UPROBE_PROGRAMS
                       /\ e.value \in Values
    BY DEF RegsOK
  <2>2. entry.tid = t /\ entry.key = key /\ entry.value = value
    BY <1>1
  <2> HIDE DEF entry, rest
  <2> QED
    BY <1>8, <1>9, <2>1, <2>2
<1> QED
  BY <1>2, <1>3, <1>5, <1>7, <1>10 DEF RegsOK
-----------------------------------------------------------------------------
(* The state of a run: types, what the points are, and what is said of the *)
(* last hit.  The functions of the points are fixed, so that the stacks    *)
(* keep their type; the map is finite, so that its size is a number.       *)
ProbeInv ==
  /\ TypeOK
  /\ IsFiniteSet(ctx_regs_map)
  /\ stack \in [Tid -> Seq(Fns)]
  /\ Numbered(points)
  /\ HitsReported /\ OwnPoint

(* By the number of a program both sides find the point it belongs to.     *)
LEMMA PointOfProgram ==
  ASSUME TypeOK, Numbered(points), NEW i \in 1..attached
  PROVE  /\ i \in DOMAIN points /\ i \in 1..MAX_UPROBE_PROGRAMS
         /\ Listed(i - 1) = {i} /\ PointArgs(i - 1) = points[i]
<1>1. DOMAIN points = 1..Len(points) /\ Len(points) \in Nat
  BY DEF TypeOK
<1>2. i \in DOMAIN points /\ i \in 1..MAX_UPROBE_PROGRAMS
  BY <1>1 DEF TypeOK, MAX_UPROBE_PROGRAMS
<1>3. \A j \in DOMAIN points : points[j].index = j - 1
  BY DEF Numbered
<1>4. Listed(i - 1) = {i}
  BY <1>1, <1>2, <1>3 DEF Listed
<1>5. (CHOOSE j \in Listed(i - 1) : \A h \in Listed(i - 1) : h <= j) = i
  BY <1>2, <1>4
<1> QED
  BY <1>2, <1>4, <1>5 DEF PointArgs

(* The task is traced, and some attached point of that side of the         *)
(* function lets the value through.                                        *)
Due(t, fn, side, value) ==
  /\ Traced(t)
  /\ \E i \in 1..attached : /\ points[i].fn = fn /\ points[i].side = side
                           /\ ~(points[i].filtered /\ value = "dropped")

(* What becomes of a passage: an event exactly if it is due, of the right  *)
(* point, the signals only with it, and a map that still has its type.     *)
LEMMA PassReports ==
  ASSUME ProbeInv, NEW t \in live, NEW fn, NEW side, NEW value \in Values,
         Pass(Passed(t, fn, side, value))
  PROVE  /\ RegsOK(ctx_regs_map') /\ stopped' \subseteq live
         /\ hit'.tid = t /\ hit'.fn = fn /\ hit'.side = side /\ hit'.value = value
         /\ hit'.sent <=> Due(t, fn, side, value)
         /\ hit'.sent => \E i \in 1..attached :
              hit'.key = i - 1 /\ points[i].fn = fn /\ points[i].side = side
         /\ \/ stopped' = stopped
            \/ hit'.sent /\ \A u \in stopped' \ stopped : pid[u] = pid[t]
<1> DEFINE passed == Passed(t, fn, side, value)
<1>1. passed = [tid |-> t, fn |-> fn, side |-> side, value |-> value,
                sent |-> FALSE, key |-> 0]
  <2>1. passed = [NoHit EXCEPT !.tid = t, !.fn = fn, !.side = side, !.value = value]
    BY Zenon DEF Passed
  <2>2. NoHit = [tid |-> NoPid, fn |-> 0, side |-> "none", value |-> "none",
                 sent |-> FALSE, key |-> 0]
    BY DEF NoHit
  <2> HIDE DEF passed
  <2> QED
    BY <2>1, <2>2
<1>2. /\ stopped \subseteq live /\ \A i \in 1..attached : i \in Int
      /\ RegsOK(ctx_regs_map)
  <2>1. RegsOK(ctx_regs_map)
    BY DEF ProbeInv, TypeOK, RegsOK
  <2>2. stopped \subseteq live /\ \A i \in 1..attached : i \in Int
    BY DEF ProbeInv, TypeOK
  <2> QED
    BY <2>1, <2>2
<1>3. /\ passed.tid = t /\ passed.fn = fn /\ passed.side = side /\ passed.value = value
      /\ passed.sent = FALSE
  BY <1>1
<1>4. CASE Programs(fn, side) = {}
  <2>1. \A i \in 1..attached : ~(points[i].fn = fn /\ points[i].side = side)
    BY <1>4 DEF Programs
  <2>2. Silent(passed)
    BY <1>3, <1>4, Zenon DEF Pass
  <2>3. hit' = passed /\ ctx_regs_map' = ctx_regs_map /\ stopped' = stopped
    BY <2>2 DEF Silent
  <2> HIDE DEF passed
  <2> QED
    BY <1>2, <1>3, <2>1, <2>3 DEF Due
<1>5. CASE Programs(fn, side) # {}
  <2>1. PICK key \in Programs(fn, side) : Probe(passed, key)
    BY <1>3, <1>5, Zenon DEF Pass
  <2>2. PICK i \in 1..attached : key = i - 1 /\ points[i].fn = fn /\ points[i].side = side
    BY DEF Programs
  <2>3. /\ i \in DOMAIN points /\ i \in 1..MAX_UPROBE_PROGRAMS
        /\ Listed(key) = {i} /\ PointArgs(key) = points[i]
    BY <2>2, PointOfProgram DEF ProbeInv
  <2>4. key + 1 = i /\ points[i].enter_key \in {0, i}
    BY <1>2, <2>2, <2>3 DEF ProbeInv, Numbered
  <2>5. Due(t, fn, side, value) <=> Traced(t) /\ ~(points[i].filtered /\ value = "dropped")
    <3>1. \A j \in 1..attached : points[j].fn = fn /\ points[j].side = side => j = i
      <4>1. \A j \in 1..attached : j \in DOMAIN points
        BY PointOfProgram DEF ProbeInv
      <4> QED
        BY <2>2, <2>3, <4>1 DEF ProbeInv, Numbered
    <3> QED
      BY <2>2, <3>1 DEF Due
  <2>6. CASE ~Traced(t)
    <3>1. Silent(passed)
      BY <1>3, <2>1, <2>6, Zenon DEF Probe
    <3>2. hit' = passed /\ ctx_regs_map' = ctx_regs_map /\ stopped' = stopped
      BY <3>1 DEF Silent
    <3> HIDE DEF passed
    <3> QED
      BY <1>2, <1>3, <2>5, <2>6, <3>2
  <2>7. CASE Traced(t)
    <3> DEFINE sent == ~(points[i].filtered /\ value = "dropped")
               enter == points[i].enter_key
    <3>1. /\ Report(passed, key, value)
          /\ ctx_regs_map' = IF enter = 0 THEN ctx_regs_map
                             ELSE SaveRegs(ctx_regs_map, Entry(t, i, value))
      BY <1>3, <2>1, <2>3, <2>4, <2>7 DEF Probe
    <3>2. RegsOK(ctx_regs_map')
      BY <1>2, <2>3, <3>1, SaveRegsKeeps DEF ProbeInv, TypeOK
    <3>3. /\ hit' = IF sent THEN [passed EXCEPT !.sent = TRUE, !.key = key] ELSE passed
          /\ stopped' = stopped \cup Signalled(t, sent)
      BY <1>3, <2>3, <3>1, Zenon DEF Report
    <3>4. /\ hit'.tid = t /\ hit'.fn = fn /\ hit'.side = side /\ hit'.value = value
          /\ hit'.sent <=> sent
          /\ hit'.sent => hit'.key = key
      BY <1>1, <3>3
    <3>5. /\ Signalled(t, sent) \subseteq live
          /\ \A u \in Signalled(t, sent) : sent /\ pid[u] = pid[t]
      BY DEF Signalled
    <3> QED
      BY <1>2, <2>2, <2>5, <2>7, <3>2, <3>3, <3>4, <3>5
  <2> QED
    BY <2>6, <2>7
<1> QED
  BY <1>4, <1>5
-----------------------------------------------------------------------------
(* A step that passes no point says nothing of a hit.                      *)
LEMMA NoHitHolds ==
  ASSUME hit' = NoHit PROVE HitsReported' /\ OwnPoint'
<1>1. hit'.tid = NoPid /\ hit'.sent = FALSE
  BY DEF NoHit
<1> QED
  BY <1>1 DEF HitsReported, OwnPoint

(* A thread that enters or returns from a function leaves behind what      *)
(* PassReports says, and the points and the task are still the same.       *)
LEMMA PassHolds ==
  ASSUME ProbeInv, NEW t \in live, NEW fn, NEW side, NEW value \in Values,
         Pass(Passed(t, fn, side, value)),
         UNCHANGED <<runVars, taskVars>>
  PROVE  HitsReported' /\ OwnPoint'
<1>1. /\ hit'.tid = t /\ hit'.fn = fn /\ hit'.side = side /\ hit'.value = value
      /\ hit'.sent <=> Due(t, fn, side, value)
      /\ hit'.sent => \E i \in 1..attached :
           hit'.key = i - 1 /\ points[i].fn = fn /\ points[i].side = side
  BY PassReports
<1>2. UNCHANGED <<opts, points, attached, pid, comm>>
  BY DEF runVars, taskVars
<1>3. HitsReported'
  <2>1. Traced(t)' <=> Traced(t)
    BY <1>2 DEF Traced, Maps, Task
  <2>2. Traced(hit.tid)' <=> Traced(t)
    BY <1>1, <2>1 DEF Traced, Task
  <2> QED
    BY <1>1, <1>2, <2>2 DEF HitsReported, Due
<1>4. OwnPoint'
  <2> SUFFICES ASSUME hit'.sent
               PROVE  /\ hit'.key < Len(points)
                      /\ points[hit'.key + 1].fn = fn /\ points[hit'.key + 1].side = side
                      /\ PointArgs(hit.key)' = points[hit'.key + 1]
    BY <1>1, <1>2 DEF OwnPoint
  <2>1. PICK i \in 1..attached : hit'.key = i - 1 /\ points[i].fn = fn /\ points[i].side = side
    BY <1>1
  <2>2. i \in DOMAIN points /\ PointArgs(i - 1) = points[i]
    BY PointOfProgram DEF ProbeInv
  <2>3. DOMAIN points = 1..Len(points) /\ Len(points) \in Nat
    BY DEF ProbeInv, TypeOK
  <2>4. hit'.key + 1 = i /\ i <= Len(points)
    BY <2>1, <2>2, <2>3
  <2>5. PointArgs(hit.key)' = PointArgs(i - 1)
    BY <1>2, <2>1 DEF PointArgs, Listed
  <2> QED
    BY <2>1, <2>2, <2>3, <2>4, <2>5
<1> QED
  BY <1>3, <1>4

(* A run starts with what parse_hook_point returns, or refuses it.         *)
LEMMA InitHolds == Init => ProbeInv
<1> SUFFICES ASSUME Init PROVE ProbeInv
  OBVIOUS
<1>1. /\ points \in Seq(PointType) /\ Len(points) <= MAX_UPROBE_PROGRAMS /\ Numbered(points)
      /\ result \in {"refused", "maps"}
  <2>1. PICK specs \in Hooks :
          IF Refused(specs) THEN points = <<>> /\ result = "refused"
          ELSE points = parse_hook_point(specs) /\ result = "maps"
    BY DEF Init
  <2>2. specs \in Seq(Specs)
    BY StackProbeAssumption
  <2>3. CASE Refused(specs)
    BY <2>1, <2>3 DEF Numbered, MAX_UPROBE_PROGRAMS
  <2>4. CASE ~Refused(specs)
    BY <2>1, <2>2, <2>4, ParsedPoints
  <2> QED
    BY <2>3, <2>4
<1>2. attached \in 0..Len(points)
  BY <1>1 DEF Init
<1>3. /\ opts \in Options /\ live \subseteq Tid /\ stopped \subseteq live
      /\ pid \in [Tid -> Tid] /\ comm \in [Tid -> Comm]
  BY StackProbeAssumption DEF Init
<1>4. /\ stack \in [Tid -> Seq(Fns)]
      /\ \A t \in Tid : stack[t] \in Seq(Fns) /\ Len(stack[t]) <= MaxDepth
  BY StackProbeAssumption DEF Init
<1>5. ctx_regs_map = {} /\ IsFiniteSet(ctx_regs_map) /\ Cardinality(ctx_regs_map) <= MaxRegs
  BY FS_EmptySet, StackProbeAssumption DEF Init
<1>6. HitsReported /\ OwnPoint
  <2>1. hit = NoHit
    BY DEF Init
  <2>2. hit.tid = NoPid /\ hit.sent = FALSE
    BY <2>1 DEF NoHit
  <2> QED
    BY <2>2 DEF HitsReported, OwnPoint
<1> QED
  BY <1>1, <1>2, <1>3, <1>4, <1>5, <1>6 DEF ProbeInv, TypeOK
-----------------------------------------------------------------------------
(* The part of the type that the tasks of a step touch.                    *)
TasksOK ==
  /\ live \subseteq Tid /\ stopped \subseteq live
  /\ pid \in [Tid -> Tid] /\ comm \in [Tid -> Comm]
  /\ stack \in [Tid -> Seq(Fns)]
  /\ \A t \in Tid : Len(stack[t]) <= MaxDepth

(* With the points of the run unchanged, the invariant is that of the      *)
(* tasks, the map and the last hit.                                        *)
LEMMA TaskPart ==
  /\ ProbeInv => TasksOK /\ RegsOK(ctx_regs_map)
  /\ ProbeInv /\ UNCHANGED runVars /\ TasksOK' /\ RegsOK(ctx_regs_map')
       /\ HitsReported' /\ OwnPoint' => ProbeInv'
<1>1. ProbeInv => TasksOK /\ RegsOK(ctx_regs_map)
  BY DEF ProbeInv, TypeOK, TasksOK, RegsOK
<1>2. ASSUME ProbeInv, UNCHANGED runVars, TasksOK', RegsOK(ctx_regs_map'),
             HitsReported', OwnPoint'
      PROVE  ProbeInv'
  <2>1. UNCHANGED <<opts, points, result, attached>> /\ Fns' = Fns
    BY <1>2 DEF runVars, Fns
  <2>2. Numbered(points)'
    BY <1>2, <2>1 DEF ProbeInv, Numbered
  <2>3. /\ opts' \in Options
        /\ points' \in Seq(PointType) /\ Len(points') <= MAX_UPROBE_PROGRAMS
        /\ result' \in {"refused", "maps", "attaching", "polling", "done", "failed"}
        /\ attached' \in 0..Len(points')
    BY <1>2, <2>1 DEF ProbeInv, TypeOK
  <2>4. \A e \in ctx_regs_map' :
          /\ e.tid \in Tid /\ e.key \in 1..MAX_UPROBE_PROGRAMS
          /\ e.value \in Values
          /\ Saved(ctx_regs_map', e.tid, e.key) = {e}
    BY <1>2 DEF RegsOK
  <2>5. IsFiniteSet(ctx_regs_map') /\ Cardinality(ctx_regs_map') <= MaxRegs
    BY <1>2 DEF RegsOK
  <2>6. /\ live' \subseteq Tid /\ stopped' \subseteq live'
        /\ pid' \in [Tid -> Tid] /\ comm' \in [Tid -> Comm]
        /\ stack' \in [Tid -> Seq(Fns')]
        /\ \A t \in Tid : stack'[t] \in Seq(Fns') /\ Len(stack'[t]) <= MaxDepth
    BY <1>2 DEF TasksOK
  <2>7. TypeOK'
    BY <2>3, <2>4, <2>5, <2>6 DEF TypeOK
  <2> QED
    BY <1>2, <2>2, <2>5, <2>6, <2>7 DEF ProbeInv
<1> QED
  BY <1>1, <1>2

(* A call of a hooked function.                                            *)
LEMMA EnterKeeps ==
  ASSUME ProbeInv, NEW t \in Tid, NEW fn \in Fns, NEW value \in Values, Enter(t, fn, value)
  PROVE  ProbeInv'
<1> DEFINE depth == Len(stack[t]) + 1
<1>1. t \in live /\ TasksOK /\ RegsOK(ctx_regs_map) /\ MaxDepth \in Nat
  BY TaskPart, StackProbeAssumption DEF Enter, Runs
<1>2. /\ stack[t] \in Seq(Fns) /\ depth \in 1..MaxDepth
      /\ Append(stack[t], fn) \in Seq(Fns) /\ Len(Append(stack[t], fn)) = depth
  BY <1>1 DEF Enter, TasksOK
<1>3. /\ Pass(Passed(t, fn, "enter", value))
      /\ stack' = [stack EXCEPT ![t] = Append(stack[t], fn)]
      /\ UNCHANGED <<runVars, taskVars>>
  BY DEF Enter
<1>4. RegsOK(ctx_regs_map') /\ stopped' \subseteq live
  BY <1>1, <1>3, PassReports
<1>5. HitsReported' /\ OwnPoint'
  BY <1>1, <1>3, PassHolds
<1>6. UNCHANGED <<live, pid, comm>> /\ Fns' = Fns
  BY <1>3 DEF runVars, taskVars, Fns
<1>7. TasksOK'
  BY <1>1, <1>2, <1>3, <1>4, <1>6 DEF TasksOK
<1> QED
  BY <1>3, <1>4, <1>5, <1>7, TaskPart

(* A stack without its innermost call.                                     *)
LEMMA FrontOfStack ==
  ASSUME NEW S, NEW s \in Seq(S), s # <<>>
  PROVE  Front(s) \in Seq(S) /\ Len(Front(s)) = Len(s) - 1 /\ Len(s) \in Nat \ {0}
<1>1. Len(s) \in Nat \ {0}
  OBVIOUS
<1>2. Front(s) = SubSeq(s, 1, Len(s) - 1)
  BY DEF Front
<1>3. ASSUME NEW n \in Nat, n + 1 = Len(s)
      PROVE  SubSeq(s, 1, n) \in Seq(S) /\ Len(SubSeq(s, 1, n)) = n
  <2>1. \A i \in 1..n : s[i] \in S
    BY <1>3
  <2> QED
    BY <2>1, SubSeqProperties
<1>4. Len(s) - 1 \in Nat /\ (Len(s) - 1) + 1 = Len(s)
  BY <1>1
<1> QED
  BY <1>1, <1>2, <1>3, <1>4

(* A return through the exit offset.                                       *)
LEMMA ReturnKeeps ==
  ASSUME ProbeInv, NEW t \in Tid, NEW value \in Values, Return(t, value)
  PROVE  ProbeInv'
<1> DEFINE depth == Len(stack[t])
<1>1. t \in live /\ TasksOK /\ RegsOK(ctx_regs_map) /\ MaxDepth \in Nat
  BY TaskPart, StackProbeAssumption DEF Return, Runs
<1>2. /\ stack[t] \in Seq(Fns) /\ stack[t] # <<>> /\ depth <= MaxDepth
  BY <1>1 DEF Return, TasksOK
<1>3. Front(stack[t]) \in Seq(Fns) /\ Len(Front(stack[t])) = depth - 1 /\ depth \in Nat \ {0}
  BY <1>2, FrontOfStack
<1>4. /\ Pass(Passed(t, Last(stack[t]), "exit", value))
      /\ stack' = [stack EXCEPT ![t] = Front(stack[t])]
      /\ UNCHANGED <<runVars, taskVars>>
  BY DEF Return
<1>5. RegsOK(ctx_regs_map') /\ stopped' \subseteq live
  BY <1>1, <1>4, PassReports
<1>6. HitsReported' /\ OwnPoint'
  BY <1>1, <1>4, PassHolds
<1>7. UNCHANGED <<live, pid, comm>> /\ Fns' = Fns
  BY <1>4 DEF runVars, taskVars, Fns
<1>8. TasksOK'
  BY <1>1, <1>2, <1>3, <1>4, <1>5, <1>7 DEF TasksOK
<1> QED
  BY <1>4, <1>5, <1>6, <1>8, TaskPart
(* The steps of the tasks that pass no point.                              *)
LEMMA QuietKeeps ==
  ASSUME ProbeInv, NEW t \in Tid,
         \/ Unwind(t) \/ (\E child \in Tid : Fork(t, child)) \/ Die(t)
         \/ (\E name \in Comm : SetComm(t, name)) \/ SigCont(t)
  PROVE  ProbeInv'
<1>1. TasksOK /\ RegsOK(ctx_regs_map) /\ MaxDepth \in Nat
  BY TaskPart, StackProbeAssumption
<1>2. hit' = NoHit /\ UNCHANGED runVars
  BY DEF Unwind, Fork, Die, SetComm, SigCont
<1>3. Fns' = Fns
  BY <1>2 DEF runVars, Fns
<1>4. CASE Unwind(t)
  <2>1. /\ stack' = [stack EXCEPT ![t] = Front(stack[t])]
        /\ UNCHANGED <<ctx_regs_map, live, pid, comm, stopped>>
        /\ stack[t] # <<>> /\ stack[t] \in Seq(Fns)
    BY <1>1, <1>4 DEF Unwind, taskVars, TasksOK
  <2>2. Front(stack[t]) \in Seq(Fns) /\ Len(Front(stack[t])) <= Len(stack[t])
    BY <2>1, FrontOfStack
  <2>3. Len(Front(stack[t])) <= MaxDepth
    BY <1>1, <2>1, <2>2, FrontOfStack DEF TasksOK
  <2>4. TasksOK'
    BY <1>1, <1>3, <2>1, <2>2, <2>3 DEF TasksOK
  <2> QED
    BY <1>1, <1>2, <2>1, <2>4, NoHitHolds, TaskPart
<1>5. ASSUME NEW child \in Tid, Fork(t, child) PROVE ProbeInv'
  <2>1. /\ live' = live \cup {child} /\ comm' = [comm EXCEPT ![child] = comm[t]]
        /\ pid' \in {[pid EXCEPT ![child] = pid[t]], [pid EXCEPT ![child] = child]}
        /\ stack' \in {[stack EXCEPT ![child] = <<>>], [stack EXCEPT ![child] = stack[t]]}
        /\ UNCHANGED <<ctx_regs_map, stopped>>
    BY <1>5 DEF Fork
  <2>2. live' \subseteq Tid /\ stopped' \subseteq live'
    BY <1>1, <2>1 DEF TasksOK
  <2>3. pid' \in [Tid -> Tid] /\ comm' \in [Tid -> Comm]
    <3>1. pid \in [Tid -> Tid] /\ comm \in [Tid -> Comm]
      BY <1>1 DEF TasksOK
    <3>2. comm' \in [Tid -> Comm]
      BY <2>1, <3>1
    <3>3. pid' = [pid EXCEPT ![child] = pid[t]] \/ pid' = [pid EXCEPT ![child] = child]
      BY <2>1, Zenon
    <3>4. pid' \in [Tid -> Tid]
      BY <3>1, <3>3
    <3> QED
      BY <3>2, <3>4
  <2>4. stack' \in [Tid -> Seq(Fns)] /\ \A u \in Tid : Len(stack'[u]) <= MaxDepth
    <3>1. ASSUME NEW s \in Seq(Fns), Len(s) <= MaxDepth, stack' = [stack EXCEPT ![child] = s]
          PROVE  stack' \in [Tid -> Seq(Fns)] /\ \A u \in Tid : Len(stack'[u]) <= MaxDepth
      BY <1>1, <3>1 DEF TasksOK
    <3>2. /\ <<>> \in Seq(Fns) /\ Len(<<>>) <= MaxDepth
          /\ stack[t] \in Seq(Fns) /\ Len(stack[t]) <= MaxDepth
      BY <1>1 DEF TasksOK
    <3> QED
      BY <2>1, <3>1, <3>2, Zenon
  <2>5. RegsOK(ctx_regs_map')
    BY <1>1, <2>1
  <2>6. TasksOK'
    BY <1>3, <2>2, <2>3, <2>4 DEF TasksOK
  <2> QED
    BY <1>2, <2>5, <2>6, NoHitHolds, TaskPart
<1>6. CASE Die(t)
  <2>1. /\ live' = live \ {t} /\ stopped' = stopped \ {t}
        /\ stack' = [stack EXCEPT ![t] = <<>>]
        /\ UNCHANGED <<ctx_regs_map, pid, comm>>
    BY <1>6 DEF Die
  <2>2. RegsOK(ctx_regs_map')
    BY <1>1, <2>1
  <2>3. stack' \in [Tid -> Seq(Fns)] /\ \A u \in Tid : Len(stack'[u]) <= MaxDepth
    BY <1>1, <2>1 DEF TasksOK
  <2>4. live' \subseteq Tid /\ stopped' \subseteq live'
    BY <1>1, <2>1, Zenon DEF TasksOK
  <2>5. TasksOK'
    BY <1>1, <1>3, <2>1, <2>3, <2>4 DEF TasksOK
  <2> QED
    BY <1>2, <2>2, <2>5, NoHitHolds, TaskPart
<1>7. ASSUME NEW name \in Comm, SetComm(t, name) PROVE ProbeInv'
  <2>1. /\ comm' = [comm EXCEPT ![t] = name]
        /\ UNCHANGED <<ctx_regs_map, live, pid, stack, stopped>>
    BY <1>7 DEF SetComm
  <2>2. TasksOK'
    BY <1>1, <1>3, <2>1 DEF TasksOK
  <2> QED
    BY <1>1, <1>2, <2>1, <2>2, NoHitHolds, TaskPart
<1>8. CASE SigCont(t)
  <2>1. /\ stopped' \subseteq stopped
        /\ UNCHANGED <<ctx_regs_map, live, pid, comm, stack>>
    BY <1>8 DEF SigCont, taskVars
  <2>2. TasksOK'
    BY <1>1, <1>3, <2>1 DEF TasksOK
  <2> QED
    BY <1>1, <1>2, <2>1, <2>2, NoHitHolds, TaskPart
<1> QED
  BY <1>4, <1>5, <1>6, <1>7, <1>8

(* The steps of the run itself: no task moves.                             *)
LEMMA RunKeeps ==
  ASSUME ProbeInv, WriteMaps \/ Attach \/ OpenBuffer \/ Ends
  PROVE  ProbeInv'
<1>1. /\ hit' = NoHit /\ UNCHANGED <<opts, points, ctx_regs_map, live, pid, comm, stack, stopped>>
  BY DEF WriteMaps, Attach, OpenBuffer, Ends, Idle, taskVars
<1>2. Len(points) \in Nat /\ attached \in 0..Len(points)
  BY DEF ProbeInv, TypeOK
<1>3. /\ result' \in {"refused", "maps", "attaching", "polling", "done", "failed"}
      /\ attached' \in 0..Len(points)
  BY <1>2 DEF WriteMaps, Attach, OpenBuffer, Ends, ProbeInv, TypeOK
<1>4. Fns' = Fns /\ Numbered(points)'
  BY <1>1 DEF Fns, Numbered, ProbeInv
<1>5. \A e \in ctx_regs_map' : Saved(ctx_regs_map', e.tid, e.key) = {e}
  BY <1>1 DEF ProbeInv, TypeOK
<1>6. TypeOK'
  BY <1>1, <1>3, <1>4, <1>5 DEF TypeOK, ProbeInv
<1> QED
  BY <1>1, <1>4, <1>6, NoHitHolds DEF ProbeInv

LEMMA NextHolds == ProbeInv /\ [Next]_vars => ProbeInv'
<1> SUFFICES ASSUME ProbeInv, [Next]_vars PROVE ProbeInv'
  OBVIOUS
<1>1. CASE WriteMaps \/ Attach \/ OpenBuffer \/ Ends
  BY <1>1, RunKeeps
<1>2. ASSUME NEW t \in Tid, TaskStep(t) PROVE ProbeInv'
  <2>1. ASSUME NEW value \in Values, NEW fn \in Fns, Enter(t, fn, value) PROVE ProbeInv'
    BY <2>1, EnterKeeps
  <2>2. ASSUME NEW value \in Values, Return(t, value) PROVE ProbeInv'
    BY <2>2, ReturnKeeps
  <2> QED
    BY <1>2, <2>1, <2>2, QuietKeeps, Zenon DEF TaskStep
<1>3. CASE UNCHANGED vars
  <2>1. UNCHANGED <<runVars, ctx_regs_map, live, pid, comm, stack, stopped, hit>>
    BY <1>3 DEF vars, taskVars
  <2>2. UNCHANGED <<opts, points, result, attached>>
    BY <2>1 DEF runVars
  <2>3. TasksOK /\ RegsOK(ctx_regs_map) /\ Fns' = Fns
    BY <2>2, TaskPart DEF Fns
  <2>4. TasksOK' /\ RegsOK(ctx_regs_map')
    BY <2>1, <2>3 DEF TasksOK
  <2>5. HitsReported' /\ OwnPoint'
    BY <2>1, <2>2
       DEF ProbeInv, HitsReported, OwnPoint, Traced, Maps, Task, PointArgs, Listed
  <2> QED
    BY <2>1, <2>4, <2>5, TaskPart
<1> QED
  BY <1>1, <1>2, <1>3 DEF Next

(* The invariant of the stack module, for any hook points and tasks.       *)
THEOREM ProbeInvariant == Spec => []ProbeInv
  BY InitHolds, NextHolds, PTL DEF Spec

(* The points, the tasks and ctx_regs_map keep their types, and the map    *)
(* its size and one entry for each key, however many tasks and calls.      *)
THEOREM TypeCorrect == Spec => []TypeOK
<1>1. ProbeInv => TypeOK
  BY DEF ProbeInv
<1> QED
  BY <1>1, ProbeInvariant, PTL

(* A hit is reported exactly when it is due, whatever came before it and   *)
(* however full ctx_regs_map is.                                           *)
THEOREM HitsAreReported == Spec => []HitsReported
<1>1. ProbeInv => HitsReported
  BY DEF ProbeInv
<1> QED
  BY <1>1, ProbeInvariant, PTL

(* An event names the point that was hit, for both sides.                  *)
THEOREM PointsAreOwn == Spec => []OwnPoint
<1>1. ProbeInv => OwnPoint
  BY DEF ProbeInv
<1> QED
  BY <1>1, ProbeInvariant, PTL

(* Every stop comes with an event of the process that is stopped.          *)
THEOREM StopsAreAnnounced == Spec => StopAnnounced
<1> DEFINE Quiet == stopped' \subseteq stopped
           Announced == hit'.sent /\ \A t \in stopped' \ stopped : pid[t] = pid[hit'.tid]
<1>1. ASSUME ProbeInv, [Next]_vars PROVE [Quiet \/ Announced]_vars
  <2>1. ASSUME NEW t \in Tid, NEW fn \in Fns, NEW value \in Values, Enter(t, fn, value)
        PROVE  Quiet \/ Announced
    BY <1>1, <2>1, PassReports DEF Enter, Runs
  <2>2. ASSUME NEW t \in Tid, NEW value \in Values, Return(t, value)
        PROVE  Quiet \/ Announced
    BY <1>1, <2>2, PassReports DEF Return, Runs
  <2>3. ASSUME NEW t \in Tid,
               \/ Unwind(t) \/ (\E child \in Tid : Fork(t, child)) \/ Die(t)
               \/ (\E name \in Comm : SetComm(t, name)) \/ SigCont(t)
        PROVE  Quiet
    BY <2>3 DEF Unwind, Fork, Die, SetComm, SigCont
  <2>4. CASE WriteMaps \/ Attach \/ OpenBuffer \/ Ends
    BY <2>4 DEF WriteMaps, Attach, OpenBuffer, Ends, Idle
  <2>5. CASE UNCHANGED vars
    BY <2>5
  <2> QED
    BY <1>1, <2>1, <2>2, <2>3, <2>4, <2>5, Zenon DEF Next, TaskStep
<1>2. []ProbeInv /\ [][Next]_vars => StopAnnounced
  BY <1>1, PTL DEF StopAnnounced
<1> QED
  BY <1>2, ProbeInvariant, PTL DEF Spec
=============================================================================
