-------------------------- MODULE CommandLineProofs --------------------------
(***************************************************************************)
(* What the task filter promises its user, for every combination of lists, *)
(* fork list and task; that the keys of common_list keep the lists apart   *)
(* for every stride; and that a command line selects the calls and the     *)
(* filters that its tokens name, for any tables, groups and lists of any   *)
(* length.                                                                 *)
(***************************************************************************)
EXTENDS CommandLine, WellFoundedInduction, TLAPS

(* One combination of inputs is one behaviour, be it any combination or    *)
(* one that a command line gives.                                          *)
Inputs ==
  /\ opts \in OptionsType
  /\ forks \in [Tid -> Tid \cup {NoPid}]
  /\ task \in [tid : Tid, pid : Tid, uid : Uid, comm : Comm]

LEMMA InputsKept == Spec => []Inputs
<1>1. Init => Inputs
  BY TaskFilterAssumption DEF Init, Inputs
<1>2. Inputs /\ [Next]_vars => Inputs'
  BY DEF Next, vars, Inputs
<1> QED
  BY <1>1, <1>2, PTL DEF Spec

-----------------------------------------------------------------------------
(* A key belongs to one list and one value.                                *)
LEMMA OneKeyOneEntry ==
  ASSUME NEW a \in Segments, NEW b \in Segments, NEW v \in 0..(Stride - 1), NEW w \in 0..(Stride - 1),
         v + Start(a) = w + Start(b)
  PROVE  a = b /\ v = w
<1> USE CommonListAssumption DEF CommonListAssumption
<1>1. Place[a] \in 1..8 /\ Place[b] \in 1..8 /\ (Place[a] = Place[b] => a = b)
  BY DEF Place, Segments
<1>2. ASSUME NEW i \in 1..8, NEW j \in 1..8, v + i * Stride = w + j * Stride PROVE i = j
  <2>1. (i - j) * Stride = w - v
    BY <1>2
  <2>2. CASE i - j >= 1
    BY <2>1, <2>2
  <2>3. CASE j - i >= 1
    BY <2>1, <2>3
  <2> QED
    BY <2>2, <2>3
<1>3. Place[a] = Place[b]
  BY <1>1, <1>2 DEF Start
<1> QED
  BY <1>1, <1>3 DEF Start

(* A lookup of the kernel does not leave the 32 bits.                      *)
LEMMA NoWrap ==
  ASSUME NEW a \in Segments, NEW v \in 0..(Stride - 1)
  PROVE  (Start(a) + v) % Width = v + Start(a)
<1> USE CommonListAssumption DEF CommonListAssumption
<1>1. Place[a] \in 1..8
  BY DEF Place, Segments
<1>2. Start(a) + v \in 0..(Width - 1)
  <2>1. Start(a) \in Nat /\ Start(a) <= 8 * Stride
    BY <1>1 DEF Start
  <2> QED
    BY <2>1
<1>3. \A n, w \in Nat : n \in 0..(w - 1) => n % w = n
  OBVIOUS
<1>4. Start(a) + v \in Nat /\ Start(a) + v = v + Start(a)
  BY <1>1 DEF Start
<1> QED
  BY <1>2, <1>3, <1>4

(* Lists whose values the stack module writes are the lists that the       *)
(* kernel sees.                                                            *)
LEMMA ListsKeepApart ==
  ASSUME NEW lists, \A list \in Segments : lists[list] \subseteq Nat, Writable(lists),
         NEW list \in Segments, NEW v \in 0..(Stride - 1)
  PROVE  Found(CheckedKeys(lists), list, v) <=> v \in lists[list]
<1>1. Found(CheckedKeys(lists), list, v) <=> v + Start(list) \in CheckedKeys(lists)
  BY NoWrap DEF Found
<1>2. ASSUME v \in lists[list] PROVE v + Start(list) \in CheckedKeys(lists)
  BY <1>2 DEF CheckedKeys
<1>3. ASSUME v + Start(list) \in CheckedKeys(lists) PROVE v \in lists[list]
  <2>1. PICK other \in Segments : \E w \in lists[other] : v + Start(list) = w + Start(other)
    BY <1>3 DEF CheckedKeys
  <2>2. PICK w \in lists[other] : v + Start(list) = w + Start(other)
    BY <2>1
  <2>3. w \in 0..(Stride - 1)
    BY CommonListAssumption DEF Writable, HasKey, CommonListAssumption
  <2> QED
    BY <2>2, <2>3, OneKeyOneEntry
<1> QED
  BY <1>1, <1>2, <1>3

(* Where a number at or above the stride is found: less than twice 2^32 is *)
(* taken off at most once.                                                 *)
LEMMA OneWrap ==
  ASSUME NEW n \in Nat, NEW m \in 0..(Width - 1), n < 2 * Width
  PROVE  n % Width = m <=> n - m \in {0, Width}
<1> USE CommonListAssumption DEF CommonListAssumption
<1>1. \A k, w \in Nat : k \in 0..(w - 1) => k % w = k
  OBVIOUS
<1>2. CASE n < Width
  BY <1>1, <1>2
<1>3. CASE n >= Width
  <2>1. Width > 0
    BY <1>3
  <2>2. \A k, w \in Nat : w > 0 /\ k >= w /\ k < 2 * w => k % w = k - w
    OBVIOUS
  <2>3. n % Width = n - Width
    BY <1>3, <2>1, <2>2
  <2> QED
    BY <1>3, <2>3
<1> QED
  BY <1>2, <1>3

LEMMA FarNumbersStray ==
  ASSUME NEW lists, \A list \in Segments : lists[list] \subseteq 0..(Width - 1),
         NEW list \in Segments, NEW v \in 0..(Stride - 1)
  PROVE  Found(AddedKeys(lists), list, v) <=> v \in lists[list] \/ Strays(lists, list, v)
<1> USE CommonListAssumption DEF CommonListAssumption
<1>1. Found(AddedKeys(lists), list, v)
        <=> \E other \in Segments : \E w \in lists[other] : (w + Start(other)) % Width = v + Start(list)
  <2>1. (Start(list) + v) % Width = v + Start(list)
    BY NoWrap
  <2> QED
    BY <2>1 DEF Found, AddedKeys
<1>2. ASSUME NEW other \in Segments, NEW w \in 0..(Stride - 1)
      PROVE  (w + Start(other)) % Width = v + Start(list) <=> other = list /\ w = v
  <2>1. (w + Start(other)) % Width = w + Start(other)
    <3>1. Start(other) + w = w + Start(other)
      BY DEF Start, Place, Segments
    <3> QED
      BY <3>1, NoWrap
  <2> QED
    BY <2>1, OneKeyOneEntry
<1>3. ASSUME NEW other \in Segments, NEW w \in 0..(Width - 1)
      PROVE  (w + Start(other)) % Width = v + Start(list)
               <=> w - v - (Place[list] - Place[other]) * Stride \in {0, Width}
  <2>1. Place[list] \in 1..8 /\ Place[other] \in 1..8
    BY DEF Place, Segments
  <2>2. /\ Start(list) \in Nat /\ Start(list) <= 8 * Stride
        /\ Start(other) \in Nat /\ Start(other) <= 8 * Stride
    BY <2>1 DEF Start
  <2>3. w + Start(other) \in Nat /\ v + Start(list) \in 0..(Width - 1) /\ w + Start(other) < 2 * Width
    BY <2>2
  <2>4. (w + Start(other)) - (v + Start(list)) = w - v - (Place[list] - Place[other]) * Stride
    <3>1. \A i, j \in 1..8 : (w + j * Stride) - (v + i * Stride) = w - v - (i - j) * Stride
      OBVIOUS
    <3> QED
      BY <2>1, <3>1 DEF Start
  <2> HIDE DEF CommonListAssumption
  <2> QED
    BY <2>3, <2>4, OneWrap
<1>4. \A other \in Segments : \A w \in lists[other] : w \in 0..(Width - 1) /\ (w < Stride => w \in 0..(Stride - 1))
  OBVIOUS
<1>5. ASSUME NEW other \in Segments, NEW w \in lists[other], (w + Start(other)) % Width = v + Start(list)
      PROVE  v \in lists[list] \/ Strays(lists, list, v)
  <2>1. CASE w < Stride
    BY <1>2, <1>4, <1>5, <2>1
  <2>2. CASE w >= Stride
    BY <1>3, <1>4, <1>5, <2>2 DEF Strays
  <2> QED
    BY <1>4, <2>1, <2>2
<1>6. ASSUME Strays(lists, list, v) \/ v \in lists[list]
      PROVE  \E other \in Segments : \E w \in lists[other] : (w + Start(other)) % Width = v + Start(list)
  <2>1. CASE v \in lists[list]
    BY <1>2, <2>1
  <2>2. CASE Strays(lists, list, v)
    BY <1>3, <1>4, <2>2 DEF Strays
  <2> QED
    BY <1>6, <2>1, <2>2
<1> QED
  BY <1>1, <1>5, <1>6

LEMMA KeysHold == Inputs => KeysMeanLists
<1> SUFFICES ASSUME Inputs PROVE KeysMeanLists
  OBVIOUS
<1>1. opts \in OptionsType
  BY DEF Inputs
<1>2. \A list \in Segments : opts[list] \subseteq 0..(Width - 1)
  BY <1>1, TaskFilterAssumption DEF OptionsType, Segments, TaskFilterAssumption
<1>3. \A list \in Segments : opts[list] \subseteq Nat
  BY <1>2
<1> QED
  BY <1>2, <1>3, ListsKeepApart, FarNumbersStray DEF KeysMeanLists, MeansLists

(* Whatever numbers the user gives: in the stack module either one is      *)
(* refused, or no entry of a list is seen in another list; in the syscall  *)
(* module an entry is seen in another list iff it stands at or above the   *)
(* stride and as far off as that list is.                                  *)
THEOREM KernelSeesTheLists == Spec => []KeysMeanLists
<1> QED
  BY KeysHold, InputsKept, PTL

-----------------------------------------------------------------------------
LEMMA BlacklistsHold == Inputs => BlacklistsOnlyRemove
<1> SUFFICES ASSUME Inputs PROVE BlacklistsOnlyRemove
  OBVIOUS
<1>1. opts \in OptionsType
  BY DEF Inputs
<1>2. ASSUME NEW x, TracedWith([opts EXCEPT !.tidBlack = @ \cup {x}], forks) PROVE TracedWith(opts, forks)
  BY <1>1, <1>2 DEF TracedWith, ShouldTrace, MapsOf, ThreadFilterBlack, HasNoUserFilter, OptionsType
<1>3. ASSUME NEW x, TracedWith([opts EXCEPT !.pidBlack = @ \cup {x}], forks) PROVE TracedWith(opts, forks)
  BY <1>1, <1>3 DEF TracedWith, ShouldTrace, MapsOf, ThreadFilterBlack, HasNoUserFilter, OptionsType
<1>4. ASSUME NEW x, TracedWith([opts EXCEPT !.uidBlack = @ \cup {x}], forks) PROVE TracedWith(opts, forks)
  BY <1>1, <1>4 DEF TracedWith, ShouldTrace, MapsOf, ThreadFilterBlack, HasNoUserFilter, OptionsType
<1>5. ASSUME NEW x, TracedWith([opts EXCEPT !.commBlack = @ \cup {x}], forks) PROVE TracedWith(opts, forks)
  BY <1>1, <1>5 DEF TracedWith, ShouldTrace, MapsOf, ThreadFilterBlack, HasNoUserFilter, OptionsType
<1> QED
  BY <1>2, <1>3, <1>4, <1>5 DEF BlacklistsOnlyRemove

(* No blacklist entry widens a trace.                                      *)
THEOREM BlacklistsNeverAdd == Spec => []BlacklistsOnlyRemove
<1> QED
  BY BlacklistsHold, InputsKept, PTL

LEMMA SilenceHolds == Inputs => BlacklistsAloneTraceNothing
<1> SUFFICES ASSUME Inputs PROVE BlacklistsAloneTraceNothing
  OBVIOUS
<1>1. opts \in OptionsType
  BY DEF Inputs
<1> QED
  BY <1>1 DEF BlacklistsAloneTraceNothing, TracedWith, ShouldTrace, MapsOf, HasNoUserFilter, OptionsType

(* A run with blacklists only traces nothing.                              *)
THEOREM BlacklistsAloneAreSilent == Spec => []BlacklistsAloneTraceNothing
<1> QED
  BY SilenceHolds, InputsKept, PTL

LEMMA WhitelistsHold == Inputs => WhitelistsOnlyAdd
<1> SUFFICES ASSUME Inputs PROVE WhitelistsOnlyAdd
  OBVIOUS
<1>1. opts \in OptionsType /\ forks \in [Tid -> Tid \cup {NoPid}]
  BY DEF Inputs
<1> DEFINE Some == opts.tidWhite \cup opts.pidWhite # {} \/ opts.uidWhite \cup opts.uidGroups # {}
<1>2. ASSUME Some, TracedWith(opts, forks), NEW x PROVE TracedWith([opts EXCEPT !.tidWhite = @ \cup {x}], forks)
  BY <1>1, <1>2 DEF TracedWith, ShouldTrace, MapsOf, ThreadFilterBlack, HasNoUserFilter, OptionsType
<1>3. ASSUME Some, TracedWith(opts, forks), NEW x PROVE TracedWith([opts EXCEPT !.pidWhite = @ \cup {x}], forks)
  BY <1>1, <1>3 DEF TracedWith, ShouldTrace, MapsOf, ThreadFilterBlack, HasNoUserFilter, OptionsType
<1>4. ASSUME Some, TracedWith(opts, forks), NEW x PROVE TracedWith([opts EXCEPT !.uidWhite = @ \cup {x}], forks)
  BY <1>1, <1>4 DEF TracedWith, ShouldTrace, MapsOf, ThreadFilterBlack, HasNoUserFilter, OptionsType
<1>5. ASSUME NEW c \in Tid, NEW p \in Tid, TracedWith(opts, forks)
      PROVE  TracedWith(opts, [forks EXCEPT ![c] = p])
  <2>1. \A q \in Tid : forks[q] # NoPid => [forks EXCEPT ![c] = p][q] # NoPid
    BY <1>1, FilteringAssumption DEF FilteringAssumption
  <2>2. task.pid \in Tid
    BY DEF Inputs
  <2> QED
    BY <1>5, <2>1, <2>2 DEF TracedWith, ShouldTrace
<1> QED
  BY <1>2, <1>3, <1>4, <1>5 DEF WhitelistsOnlyAdd

(* No whitelisted id and no forked child costs a task its trace.           *)
THEOREM WhitelistsNeverRemove == Spec => []WhitelistsOnlyAdd
<1> QED
  BY WhitelistsHold, InputsKept, PTL

-----------------------------------------------------------------------------
(* A set of numbers that is not empty has a least element, and Min is it.  *)
LEMMA LeastExists ==
  ASSUME NEW T \in SUBSET Nat, T # {}
  PROVE  \E m \in T : \A n \in T : m <= n
<1> DEFINE R == OpToRel(<, Nat)
<1>1. IsWellFoundedOn(R, Nat)
  BY NatLessThanWellFounded, Zenon
<1> HIDE DEF R
<1>2. \E x \in T : \A y \in T : ~(<<y, x>> \in R)
  BY <1>1, WFMin, Zenon
<1>3. \A x, y \in Nat : <<y, x>> \in R <=> y < x
  BY DEF R, OpToRel
<1>4. PICK m \in T : \A n \in T : ~(<<n, m>> \in R)
  BY <1>2
<1>5. \A n \in T : ~(n < m)
  BY <1>3, <1>4
<1> HIDE <1>4, <1>3
<1>6. \A n \in T : n \in Nat /\ m \in Nat
  OBVIOUS
<1>7. \A n \in T : m <= n
  BY <1>5, <1>6
<1> QED
  BY <1>7, Zenon

LEMMA LeastIsMin ==
  ASSUME NEW T \in SUBSET Nat, T # {}
  PROVE  Min(T) \in T /\ \A n \in T : Min(T) <= n
  BY LeastExists DEF Min

LEMMA LevelsHold == Inputs => FirstLevelDecides
<1> DEFINE m == MapsOf(opts, {})
           levels == Levels(m, forks)
           decided == {i \in 1..8 : levels[i].black \/ levels[i].white}
<1>1. ShouldTrace(m, forks, task) <=> decided # {} /\ ~levels[Min(decided)].black
  <2>1. /\ levels[1].black <=> task.pid = Self
        /\ ~levels[1].white
        /\ levels[2].black <=> (task.comm \in m.commBlack \/ (m.threadWhitelist /\ task.comm \notin m.commWhite))
        /\ levels[2].white <=> task.comm \in m.commWhite
        /\ levels[3].black <=> task.tid \in m.tidBlack
        /\ levels[3].white <=> task.tid \in m.tidWhite
        /\ levels[4].black <=> task.pid \in m.pidBlack
        /\ levels[4].white <=> task.pid \in m.pidWhite
    BY DEF Levels
  <2>2. /\ ~levels[5].black
        /\ levels[5].white <=> forks[task.pid] # NoPid
        /\ levels[6].black <=> task.uid \in m.uidBlack
        /\ levels[6].white <=> task.uid \in m.uidWhite
        /\ ~levels[7].black
        /\ levels[7].white <=> (m.filterSet /\ task.uid \in m.uidGroups)
        /\ levels[8].black <=> ~m.noFilterAllow
        /\ levels[8].white <=> m.filterSet
    BY DEF Levels
  <2> HIDE DEF levels
  <2>3. decided # {} => Min(decided) \in decided /\ \A i \in decided : Min(decided) <= i
    BY LeastIsMin
  <2> QED
    BY <2>1, <2>2, <2>3 DEF ShouldTrace
<1> QED
  BY <1>1 DEF FirstLevelDecides, TracedWith

(* The first level of the filter with an opinion decides.                  *)
THEOREM LevelsDecideInOrder == Spec => []FirstLevelDecides
<1> QED
  BY LevelsHold, InputsKept, PTL

-----------------------------------------------------------------------------
(* What select() works with: the tokens of the two lists after their       *)
(* expansion, those that the blacklist leaves, and why it gives up.        *)
BlackIds(noSpec) == {t.id : t \in Expanded(noSpec)}
BlackRefused(noSpec) == \E t \in Expanded(noSpec) : ~Resolves(t) \/ t.groups # <<>>
WhiteTokens(spec) == IF SawAll(spec) THEN {Call(c) : c \in Table} ELSE Expanded(spec)
Live(spec, noSpec) == {t \in WhiteTokens(spec) : t.id \notin BlackIds(noSpec)}
Twice(spec) == IF SawAll(spec) THEN {} ELSE Repeated(spec)
WhiteRefused(spec, noSpec, rules) ==
  Refuses(WhiteTokens(spec), Live(spec, noSpec), Twice(spec), Registry(rules))

(* The three results of select(): nothing to trace, an error, a selection. *)
LEMMA AllExcluded ==
  ASSUME NEW spec, NEW noSpec, NEW rules, SawAll(noSpec)
  PROVE  LET sel == select(spec, noSpec, rules)
         IN  sel.ok /\ ~sel.enable /\ sel.traceAll /\ sel.white = {} /\ sel.black = {}
<1>1. select(spec, noSpec, rules) = [Nothing EXCEPT !.ok = TRUE, !.traceAll = TRUE]
  BY Zenon DEF select
<1> QED
  BY <1>1 DEF Nothing

LEMMA SelectionRefused ==
  ASSUME NEW spec, NEW noSpec, NEW rules, ~SawAll(noSpec),
         BlackRefused(noSpec) \/ WhiteRefused(spec, noSpec, rules)
  PROVE  select(spec, noSpec, rules) = Nothing
<1>1. CASE BlackRefused(noSpec)
  BY <1>1, Zenon DEF select, BlackRefused
<1>2. CASE ~BlackRefused(noSpec) /\ WhiteRefused(spec, noSpec, rules)
  BY <1>2, Zenon DEF select, BlackRefused, WhiteRefused, WhiteTokens, Live, Twice, BlackIds
<1> QED
  BY <1>1, <1>2

LEMMA SelectionMade ==
  ASSUME NEW spec, NEW noSpec, NEW rules, ~SawAll(noSpec),
         ~BlackRefused(noSpec), ~WhiteRefused(spec, noSpec, rules)
  PROVE  LET sel == select(spec, noSpec, rules)
         IN  /\ sel.ok
             /\ sel.enable <=> Live(spec, noSpec) # {}
             /\ sel.traceAll = SawAll(spec)
             /\ sel.white = {t.id : t \in Live(spec, noSpec)}
             /\ sel.black = BlackIds(noSpec)
             /\ \A c \in Table :
                  sel.filters[c] = UNION {Placed(c, t.groups, Registry(rules)) :
                                            t \in {x \in Live(spec, noSpec) : x.id = c}}
<1> DEFINE placed == [c \in Table |-> UNION {Placed(c, t.groups, Registry(rules)) :
                                               t \in {x \in Live(spec, noSpec) : x.id = c}}]
<1>1. select(spec, noSpec, rules)
        = [ok |-> TRUE, enable |-> Live(spec, noSpec) # {}, traceAll |-> SawAll(spec),
           white |-> {t.id : t \in Live(spec, noSpec)}, black |-> BlackIds(noSpec),
           filters |-> placed]
  BY Zenon DEF select, BlackRefused, WhiteRefused, WhiteTokens, Live, Twice, BlackIds
<1>2. \A c \in Table : placed[c] = UNION {Placed(c, t.groups, Registry(rules)) :
                                            t \in {x \in Live(spec, noSpec) : x.id = c}}
  BY Zenon
<1> DEFINE sel == select(spec, noSpec, rules)
<1> HIDE DEF placed
<1> DEFINE some == Live(spec, noSpec) # {}
           ids == {t.id : t \in Live(spec, noSpec)}
<1>3. sel.ok /\ sel.enable = some /\ sel.traceAll = SawAll(spec) /\ sel.white = ids
      /\ sel.black = BlackIds(noSpec)
  <2> HIDE DEF some, ids
  <2>1. select(spec, noSpec, rules)
          = [ok |-> TRUE, enable |-> some, traceAll |-> SawAll(spec), white |-> ids,
             black |-> BlackIds(noSpec), filters |-> placed]
    BY <1>1 DEF some, ids
  <2> QED
    BY <2>1
<1>4. sel.filters = placed
  BY <1>1
<1> HIDE DEF sel
<1>5. \A c \in Table : sel.filters[c] = UNION {Placed(c, t.groups, Registry(rules)) :
                                                 t \in {x \in Live(spec, noSpec) : x.id = c}}
  BY <1>2, <1>4
<1> QED
  BY <1>3, <1>5 DEF sel

-----------------------------------------------------------------------------
(* A token of an expanded list is a call of a group or stands in the list. *)
LEMMA ExpandedTokens ==
  ASSUME NEW spec, NEW t
  PROVE  t \in Expanded(spec) <=>
           \/ \E x \in Range(spec) : IsGroup(x) /\ \E c \in Range(Members[x.id]) : t = Call(c)
           \/ t \in Range(spec) /\ ~IsGroup(t) /\ t.kind # "all"
<1> DEFINE M(x) == Range([j \in DOMAIN Members[x.id] |-> Call(Members[x.id][j])])
           G == {y \in Range(spec) : IsGroup(y)}
           own == {u \in Range(spec) : ~IsGroup(u) /\ u.kind # "all"}
           members == UNION {M(x) : x \in G}
<1>1. Expanded(spec) = members \cup own
  BY DEF Expanded
<1>2. ASSUME NEW x PROVE t \in M(x) <=> \E c \in Range(Members[x.id]) : t = Call(c)
  BY DEF Range
<1> HIDE DEF M
<1>3. t \in members <=> \E x \in G : t \in M(x)
  BY Zenon
<1>4. (\E x \in G : t \in M(x)) <=> \E x \in Range(spec) : IsGroup(x) /\ t \in M(x)
  BY Zenon
<1>5. t \in own <=> t \in Range(spec) /\ ~IsGroup(t) /\ t.kind # "all"
  OBVIOUS
<1> HIDE DEF members, own, G
<1>6. t \in Expanded(spec) <=> t \in members \/ t \in own
  BY <1>1
<1> QED
  BY <1>2, <1>3, <1>4, <1>5, <1>6

LEMMA CallParts ==
  ASSUME NEW c
  PROVE  /\ Call(c).kind = "name" /\ Call(c).id = c /\ Call(c).groups = <<>>
         /\ ~IsGroup(Call(c))
         /\ Resolves(Call(c)) <=> c \in Table
         /\ Named(Call(c)) = {c}
  BY DEF Call, IsGroup, Resolves, Named

(* A list without "all" whose tokens the table knows: its tokens name the  *)
(* calls that the list means.                                              *)
LEMMA NamesAreMeant ==
  ASSUME NEW spec, ~SawAll(spec), \A t \in Expanded(spec) : Resolves(t)
  PROVE  {t.id : t \in Expanded(spec)} = Meant(spec) /\ Meant(spec) \subseteq Table
<1>1. Meant(spec) = UNION {Named(t) : t \in Range(spec)}
  BY Zenon DEF Meant, SawAll
<1>2. ASSUME NEW t \in Expanded(spec) PROVE t.id \in Meant(spec) /\ t.id \in Table
  <2>1. t.id \in Table /\ t.kind \in {"name", "number"}
    BY DEF Resolves
  <2>2. CASE \E x \in Range(spec) : IsGroup(x) /\ \E c \in Range(Members[x.id]) : t = Call(c)
    <3>1. PICK x \in Range(spec) : IsGroup(x) /\ \E c \in Range(Members[x.id]) : t = Call(c)
      BY <2>2
    <3>2. t.id \in Range(Members[x.id])
      BY <3>1, CallParts
    <3>3. Named(x) = Range(Members[x.id])
      BY <3>1 DEF Named, IsGroup
    <3> QED
      BY <1>1, <2>1, <3>2, <3>3
  <2>3. CASE t \in Range(spec)
    <3>1. Named(t) = {t.id}
      BY <2>1 DEF Named
    <3> QED
      BY <1>1, <2>1, <2>3, <3>1
  <2> QED
    BY <2>2, <2>3, ExpandedTokens
<1>3. ASSUME NEW x \in Range(spec), NEW c \in Named(x)
      PROVE  \E t \in Expanded(spec) : c = t.id
  <2>1. x.kind # "all"
    BY DEF SawAll
  <2>2. CASE IsGroup(x)
    <3>1. c \in Range(Members[x.id])
      BY <2>2 DEF Named, IsGroup
    <3>2. Call(c) \in Expanded(spec)
      BY <2>2, <3>1, ExpandedTokens
    <3> QED
      BY <3>2, CallParts
  <2>3. CASE ~IsGroup(x)
    <3>1. x \in Expanded(spec)
      BY <2>1, <2>3, ExpandedTokens
    <3>2. Named(x) = {x.id}
      BY <3>1 DEF Resolves, Named
    <3> QED
      BY <3>1, <3>2
  <2> QED
    BY <2>2, <2>3
<1>4. {t.id : t \in Expanded(spec)} \subseteq Meant(spec) \cap Table
  BY <1>2
<1>5. Meant(spec) \subseteq {t.id : t \in Expanded(spec)}
  BY <1>1, <1>3
<1> QED
  BY <1>4, <1>5

(* What is left of the whitelist names the calls that are wanted.          *)
LEMMA LiveIsWanted ==
  ASSUME NEW spec, NEW noSpec, NEW rules, ~SawAll(noSpec),
         ~BlackRefused(noSpec), ~WhiteRefused(spec, noSpec, rules)
  PROVE  /\ {t.id : t \in Live(spec, noSpec)} = (Meant(spec) \cap Table) \ Meant(noSpec)
         /\ BlackIds(noSpec) = Meant(noSpec) /\ Meant(noSpec) \subseteq Table
<1>1. BlackIds(noSpec) = Meant(noSpec) /\ Meant(noSpec) \subseteq Table
  BY NamesAreMeant DEF BlackRefused, BlackIds
<1>2. \A t \in WhiteTokens(spec) : Resolves(t)
  BY Zenon DEF WhiteRefused, Refuses
<1>3. {t.id : t \in WhiteTokens(spec)} = Meant(spec) \cap Table
  <2>1. CASE SawAll(spec)
    <3>1. Meant(spec) = Table
      BY <2>1, Zenon DEF Meant, SawAll
    <3>2. WhiteTokens(spec) = {Call(c) : c \in Table}
      BY <2>1 DEF WhiteTokens
    <3>3. {t.id : t \in WhiteTokens(spec)} = Table
      BY <3>2, CallParts
    <3> QED
      BY <3>1, <3>3
  <2>2. CASE ~SawAll(spec)
    <3>1. WhiteTokens(spec) = Expanded(spec)
      BY <2>2 DEF WhiteTokens
    <3> QED
      BY <1>2, <2>2, <3>1, NamesAreMeant
  <2> QED
    BY <2>1, <2>2
<1>4. {t.id : t \in Live(spec, noSpec)} = {t.id : t \in WhiteTokens(spec)} \ BlackIds(noSpec)
  BY DEF Live
<1> QED
  BY <1>1, <1>3, <1>4

(* Every behaviour is one line and what it selects.                        *)
LineKept ==
  /\ line \in Lines /\ selection = SelectionOf(line)
  /\ opts = WithSelection(line.others, selection)
  /\ forks \in ForkLists /\ task \in Tasks

LEMMA LineStays == LineSpec => []LineKept
<1>1. LineInit => LineKept
  BY DEF LineInit, LineKept
<1>2. LineKept /\ [LineNext]_lineVars => LineKept'
  BY DEF LineNext, lineVars, vars, LineKept
<1> QED
  BY <1>1, <1>2, PTL DEF LineSpec

(* What is selected are calls of the table.                                *)
LEMMA SelectionTyped ==
  ASSUME NEW spec, NEW noSpec, NEW rules
  PROVE  LET sel == select(spec, noSpec, rules)
         IN  /\ sel.white \subseteq Table /\ sel.black \subseteq Table
             /\ sel.traceAll \in BOOLEAN
<1>1. CASE SawAll(noSpec)
  BY <1>1, AllExcluded
<1>2. CASE ~SawAll(noSpec) /\ (BlackRefused(noSpec) \/ WhiteRefused(spec, noSpec, rules))
  <2>1. select(spec, noSpec, rules) = Nothing
    BY <1>2, SelectionRefused
  <2> QED
    BY <2>1 DEF Nothing
<1>3. CASE ~SawAll(noSpec) /\ ~BlackRefused(noSpec) /\ ~WhiteRefused(spec, noSpec, rules)
  <2>1. SawAll(spec) \in BOOLEAN
    BY DEF SawAll
  <2>2. {t.id : t \in Live(spec, noSpec)} \subseteq Table /\ BlackIds(noSpec) \subseteq Table
    BY <1>3, LiveIsWanted
  <2> QED
    BY <1>3, <2>1, <2>2, SelectionMade
<1> QED
  BY <1>1, <1>2, <1>3

LEMMA OptionsOfLine ==
  ASSUME NEW others \in OptionsType, NEW sel,
         sel.white \subseteq Sysno, sel.black \subseteq Sysno, sel.traceAll \in BOOLEAN
  PROVE  LET o == WithSelection(others, sel)
         IN  /\ o \in OptionsType
             /\ o.sysWhite = sel.white /\ o.sysBlack = sel.black /\ o.traceAll = sel.traceAll
  BY DEF WithSelection, OptionsType

LEMMA LineOptions ==
  ASSUME LineKept
  PROVE  /\ opts \in OptionsType
         /\ opts.sysWhite = selection.white /\ opts.sysBlack = selection.black
         /\ opts.traceAll = selection.traceAll
<1>1. line.others \in OptionsType /\ Table \subseteq Sysno
  BY CommandLineAssumption, TaskFilterAssumption DEF LineKept
<1>2. /\ selection.white \subseteq Table /\ selection.black \subseteq Table
      /\ selection.traceAll \in BOOLEAN
  BY SelectionTyped DEF LineKept, SelectionOf
<1> QED
  BY <1>1, <1>2, OptionsOfLine DEF LineKept

(* What the task filter promises, whatever command line it comes from.     *)
THEOREM LinesKeepPromises ==
  LineSpec => [](/\ FirstLevelDecides /\ BlacklistsOnlyRemove /\ WhitelistsOnlyAdd
                 /\ BlacklistsAloneTraceNothing /\ KeysMeanLists)
<1>1. LineKept => Inputs
  <2> SUFFICES ASSUME LineKept PROVE Inputs
    OBVIOUS
  <2>1. opts \in OptionsType
    BY LineOptions
  <2>2. /\ forks \in [Tid -> Tid \cup {NoPid}]
        /\ task \in [tid : Tid, pid : Tid, uid : Uid, comm : Comm]
    BY TaskFilterAssumption DEF LineKept
  <2> QED
    BY <2>1, <2>2 DEF Inputs
<1>2. LineKept => /\ FirstLevelDecides /\ BlacklistsOnlyRemove /\ WhitelistsOnlyAdd
                  /\ BlacklistsAloneTraceNothing /\ KeysMeanLists
  BY <1>1, LevelsHold, BlacklistsHold, WhitelistsHold, SilenceHolds, KeysHold
<1> QED
  BY <1>2, LineStays, PTL

-----------------------------------------------------------------------------
(* Plain lists are never refused: their tokens are calls by name, and a    *)
(* name is kept once.                                                      *)
LEMMA PlainTokens ==
  ASSUME NEW spec \in Seq(TokenType), Plain(spec), NEW t \in Expanded(spec)
  PROVE  t = Call(t.id) /\ t.id \in Table
<1>1. \A x \in Range(spec) : x \in TokenType
  BY DEF Range
<1>2. CASE \E x \in Range(spec) : IsGroup(x) /\ \E c \in Range(Members[x.id]) : t = Call(c)
  <2>1. PICK x \in Range(spec) : IsGroup(x) /\ \E c \in Range(Members[x.id]) : t = Call(c)
    BY <1>2
  <2>2. PICK c \in Range(Members[x.id]) : t = Call(c)
    BY <2>1
  <2>3. Named(x) \subseteq Table /\ Named(x) = Range(Members[x.id])
    BY <2>1 DEF Plain, IsGroup, Named
  <2> QED
    BY <2>2, <2>3, CallParts
<1>3. CASE t \in Range(spec) /\ ~IsGroup(t) /\ t.kind # "all"
  <2>1. t.kind = "name" /\ t.groups = <<>>
    BY <1>1, <1>3 DEF TokenType, Plain, IsGroup
  <2>2. t.id \in Table
    BY <1>3, <2>1 DEF Plain, Named
  <2>3. t = [kind |-> t.kind, id |-> t.id, groups |-> t.groups]
    BY <1>1, <1>3 DEF TokenType
  <2> QED
    BY <2>1, <2>2, <2>3 DEF Call
<1> QED
  BY <1>2, <1>3, ExpandedTokens

LEMMA PlainIsAccepted ==
  ASSUME NEW spec \in Seq(TokenType), NEW noSpec \in Seq(TokenType), NEW rules,
         Plain(spec), Plain(noSpec)
  PROVE  ~BlackRefused(noSpec) /\ ~WhiteRefused(spec, noSpec, rules)
<1>1. ~BlackRefused(noSpec)
  <2>1. \A t \in Expanded(noSpec) : t = Call(t.id) /\ t.id \in Table
    BY PlainTokens
  <2> QED
    BY <2>1, CallParts DEF BlackRefused
<1>2. \A t \in WhiteTokens(spec) : t = Call(t.id) /\ t.id \in Table
  <2>1. CASE SawAll(spec)
    BY <2>1, CallParts DEF WhiteTokens
  <2>2. CASE ~SawAll(spec)
    BY <2>2, PlainTokens DEF WhiteTokens
  <2> QED
    BY <2>1, <2>2
<1>3. \A t \in WhiteTokens(spec) : Resolves(t) /\ t.groups = <<>>
  BY <1>2, CallParts
<1>4. Live(spec, noSpec) \subseteq WhiteTokens(spec)
  BY DEF Live
<1>5. \A t, u \in Live(spec, noSpec) : t.id = u.id => t = u
  BY <1>2, <1>4
<1>6. Twice(spec) = {}
  <2>1. \A i \in DOMAIN spec : ~(spec[i].kind = "number" /\ spec[i].groups = <<>>)
    BY DEF Plain, Range
  <2>2. Repeated(spec) = {}
    BY <2>1 DEF Repeated
  <2> QED
    BY <2>2 DEF Twice
<1>7. FiltersKnown(<<>>, Registry(rules))
  BY DEF FiltersKnown, Uses
<1>8. \A t \in Live(spec, noSpec) : FiltersKnown(t.groups, Registry(rules))
  BY <1>3, <1>4, <1>7
<1> QED
  BY <1>1, <1>3, <1>5, <1>6, <1>8 DEF WhiteRefused, Refuses

(* The kernel admits exactly the calls that -s means and --no-syscall does *)
(* not (expand_spec and select, syscall_select.rs:218-334; the sysno       *)
(* filters of syscall.c), for any table, any groups and lists of any       *)
(* length, and plain lists are never refused.                              *)
THEOREM SelectionMeansLists == LineSpec => []SelectionDecides
<1>1. LineKept => SelectionDecides
  <2> SUFFICES ASSUME LineKept PROVE SelectionDecides
    OBVIOUS
  <2> DEFINE spec == line.spec
             noSpec == line.noSpec
             rules == line.rules
             wanted == (Meant(spec) \cap Table) \ Meant(noSpec)
  <2>1. spec \in Seq(TokenType) /\ noSpec \in Seq(TokenType)
    BY CommandLineAssumption DEF LineKept
  <2>2. selection = select(spec, noSpec, rules)
    BY DEF LineKept, SelectionOf
  <2>3. \A c : SysnoAdmitted(MapsOf(opts, Table), c)
                 <=> (selection.traceAll \/ c \in selection.white) /\ c \notin selection.black
    BY LineOptions DEF SysnoAdmitted, MapsOf
  <2>4. selection.ok =>
          /\ selection.enable <=> wanted # {}
          /\ selection.enable =>
               \A c \in Table : SysnoAdmitted(MapsOf(opts, Table), c) <=> c \in wanted
    <3>1. CASE SawAll(noSpec)
      <4>1. Meant(noSpec) = Table
        BY <3>1, Zenon DEF Meant, SawAll
      <4> QED
        BY <2>2, <3>1, <4>1, AllExcluded
    <3>2. CASE ~SawAll(noSpec) /\ (BlackRefused(noSpec) \/ WhiteRefused(spec, noSpec, rules))
      BY <2>2, <3>2, SelectionRefused DEF Nothing
    <3>3. CASE ~SawAll(noSpec) /\ ~BlackRefused(noSpec) /\ ~WhiteRefused(spec, noSpec, rules)
      <4>1. /\ {t.id : t \in Live(spec, noSpec)} = wanted
            /\ BlackIds(noSpec) = Meant(noSpec)
        BY <3>3, LiveIsWanted
      <4>2. /\ selection.enable <=> Live(spec, noSpec) # {}
            /\ selection.white = wanted /\ selection.black = Meant(noSpec)
            /\ selection.traceAll = SawAll(spec)
        BY <2>2, <3>3, <4>1, SelectionMade
      <4>3. SawAll(spec) => wanted = Table \ Meant(noSpec)
        BY DEF Meant, SawAll
      <4>4. Live(spec, noSpec) # {} <=> wanted # {}
        BY <4>1
      <4> HIDE DEF wanted
      <4>5. \A c \in wanted : c \notin Meant(noSpec)
        BY DEF wanted
      <4> QED
        BY <2>3, <4>2, <4>3, <4>4, <4>5
    <3> QED
      BY <3>1, <3>2, <3>3
  <2>5. Plain(spec) /\ Plain(noSpec) => selection.ok
    <3> SUFFICES ASSUME Plain(spec), Plain(noSpec) PROVE selection.ok
      OBVIOUS
    <3>1. CASE SawAll(noSpec)
      BY <2>2, <3>1, AllExcluded
    <3>2. CASE ~SawAll(noSpec)
      <4>1. ~BlackRefused(noSpec) /\ ~WhiteRefused(spec, noSpec, rules)
        BY <2>1, PlainIsAccepted
      <4> QED
        BY <2>2, <3>2, <4>1, SelectionMade
    <3> QED
      BY <3>1, <3>2
  <2> QED
    BY <2>4, <2>5 DEF SelectionDecides
<1> QED
  BY <1>1, LineStays, PTL

-----------------------------------------------------------------------------
(* The first string argument that is read on entry, or 0.                  *)
LEMMA FirstStringFound ==
  ASSUME NEW c \in Table
  PROVE  LET args == ArgsOf[c]
             text(i) == args[i].string /\ args[i].enter
         IN  \A a \in 1..Len(args) :
               a = FirstString(c) <=> text(a) /\ \A i \in 1..(a - 1) : ~text(i)
<1> DEFINE text(i) == ArgsOf[c][i].string /\ ArgsOf[c][i].enter
           I == {i \in 1..Len(ArgsOf[c]) : text(i)}
<1>0. Len(ArgsOf[c]) \in Nat
  BY SyscallSelectAssumption
<1>1. FirstString(c) = IF I # {} THEN Min(I) ELSE 0
  BY DEF FirstString, SelectInSeq
<1>2. I \in SUBSET Nat /\ \A j \in 1..Len(ArgsOf[c]) : j \in I <=> text(j)
  OBVIOUS
<1> HIDE DEF I, text
<1> SUFFICES ASSUME NEW a \in 1..Len(ArgsOf[c])
             PROVE  a = FirstString(c) <=> text(a) /\ \A i \in 1..(a - 1) : ~text(i)
  BY DEF text
<1>3. \A i \in 1..(a - 1) : i \in 1..Len(ArgsOf[c]) /\ i < a
  BY <1>0
<1>4. CASE I # {}
  <2>1. Min(I) \in I /\ \A n \in I : Min(I) <= n
    BY <1>2, <1>4, LeastIsMin
  <2>2. ASSUME a = Min(I) PROVE text(a) /\ \A i \in 1..(a - 1) : ~text(i)
    BY <1>2, <1>3, <2>1, <2>2
  <2>3. ASSUME text(a), \A i \in 1..(a - 1) : ~text(i) PROVE a = Min(I)
    <3>1. Min(I) \in 1..Len(ArgsOf[c]) /\ text(Min(I)) /\ Min(I) <= a
      BY <1>2, <2>1, <2>3 DEF I
    <3>2. Min(I) \notin 1..(a - 1)
      BY <2>3, <3>1
    <3> QED
      BY <1>0, <3>1, <3>2
  <2> QED
    BY <1>1, <1>4, <2>2, <2>3
<1>5. CASE I = {}
  BY <1>1, <1>2, <1>5
<1> QED
  BY <1>4, <1>5

(* A rule goes where it belongs.                                           *)
LEMMA TargetBelongs ==
  ASSUME NEW c \in Table, NEW gs \in Seq(Seq(Nat)), NEW g \in DOMAIN gs, NEW rule,
         NEW a \in DOMAIN ArgsOf[c]
  PROVE  a = Target(c, gs, g, rule) <=> Belongs(a, ArgsOf[c], gs, g, rule)
<1> DEFINE args == ArgsOf[c]
<1>1. args \in Seq([string : BOOLEAN, enter : BOOLEAN])
  BY SyscallSelectAssumption
<1>2. /\ DOMAIN args = 1..Len(args) /\ Len(args) \in Nat /\ a \in 1..Len(args)
      /\ g \in 1..Len(gs) /\ Len(gs) \in Nat
  BY <1>1
<1>3. CASE Len(gs) > 1
  <2>1. Target(c, gs, g, rule) = IF g <= Len(args) THEN g ELSE 0
    <3>1. \A n \in Nat : n > 1 => n # 1
      OBVIOUS
    <3>2. Len(gs) # 1
      BY <1>2, <1>3, <3>1, Zenon
    <3> QED
      BY <1>3, <3>2, Zenon DEF Target
  <2>2. Belongs(a, args, gs, g, rule) <=> a = g
    <3>1. \A n \in Nat : n > 1 => n # 1
      OBVIOUS
    <3>2. Len(gs) # 1
      BY <1>2, <1>3, <3>1, Zenon
    <3> QED
      BY <1>3, <3>2, Zenon DEF Belongs
  <2> QED
    BY <1>2, <2>1, <2>2
<1>4. CASE Len(gs) = 1 /\ rule.is_str
  <2>1. Target(c, gs, g, rule) = FirstString(c)
    BY <1>4 DEF Target
  <2>2. Belongs(a, args, gs, g, rule)
          <=> args[a].string /\ args[a].enter /\ \A i \in 1..(a - 1) : ~(args[i].string /\ args[i].enter)
    BY <1>4 DEF Belongs
  <2> QED
    BY <1>2, <2>1, <2>2, FirstStringFound
<1>5. CASE Len(gs) = 1 /\ ~rule.is_str
  <2>1. Target(c, gs, g, rule) = IF args = <<>> THEN 0 ELSE 1
    BY <1>5 DEF Target
  <2>2. Belongs(a, args, gs, g, rule) <=> a = 1
    BY <1>5 DEF Belongs
  <2> QED
    BY <1>1, <1>2, <2>1, <2>2
<1>6. Len(gs) = 1 \/ Len(gs) > 1
  <2>1. \A n \in Nat : \A h \in 1..n : n = 1 \/ n > 1
    OBVIOUS
  <2> QED
    BY <1>2, <2>1, Zenon
<1> QED
  BY <1>3, <1>4, <1>5, <1>6, Zenon

LEMMA NoUses == ASSUME NEW c, NEW registry PROVE Placed(c, <<>>, registry) = {}
  BY DEF Placed, Uses

(* The rules that a token places on an argument.                           *)
LEMMA RulesPlaced ==
  ASSUME NEW c \in Table, NEW gs \in Seq(Seq(Nat)), NEW a \in DOMAIN ArgsOf[c], NEW r
  PROVE  [arg |-> a, rule |-> r] \in Placed(c, gs, Registry(line.rules))
           <=> \E g \in DOMAIN gs : r \in RulesOf(gs[g]) /\ Belongs(a, ArgsOf[c], gs, g, r)
<1> DEFINE Of(g, i) == Registry(line.rules)[gs[g][i] + 1]
<1>1. [arg |-> a, rule |-> r] \in Placed(c, gs, Registry(line.rules))
        <=> \E u \in Uses(gs) : [arg |-> a, rule |-> r]
                = [arg |-> Target(c, gs, u[1], Of(u[1], u[2])), rule |-> Of(u[1], u[2])]
  BY Zenon DEF Placed
<1>2. \A u : u \in Uses(gs) <=> \E g \in DOMAIN gs : \E i \in DOMAIN gs[g] : u = <<g, i>>
  BY DEF Uses
<1>3. \A b, q : [arg |-> a, rule |-> r] = [arg |-> b, rule |-> q] <=> a = b /\ r = q
  OBVIOUS
<1>4. \A g : r \in RulesOf(gs[g]) <=> \E i \in DOMAIN gs[g] : r = Of(g, i)
  BY DEF RulesOf, Range
<1> HIDE DEF Of
<1>5. ASSUME NEW u \in Uses(gs),
             [arg |-> a, rule |-> r] = [arg |-> Target(c, gs, u[1], Of(u[1], u[2])), rule |-> Of(u[1], u[2])]
      PROVE  \E g \in DOMAIN gs : r \in RulesOf(gs[g]) /\ Belongs(a, ArgsOf[c], gs, g, r)
  <2>1. PICK g \in DOMAIN gs : \E i \in DOMAIN gs[g] : u = <<g, i>>
    BY <1>2
  <2>2. PICK i \in DOMAIN gs[g] : u = <<g, i>>
    BY <2>1
  <2>3. u[1] = g /\ u[2] = i
    BY <2>2
  <2>4. a = Target(c, gs, g, r) /\ r = Of(g, i)
    BY <1>3, <1>5, <2>3, Zenon
  <2>5. r \in RulesOf(gs[g])
    BY <1>4, <2>4
  <2>6. Belongs(a, ArgsOf[c], gs, g, r)
    BY <2>4, TargetBelongs
  <2> QED
    BY <2>5, <2>6
<1>6. ASSUME NEW g \in DOMAIN gs, r \in RulesOf(gs[g]), Belongs(a, ArgsOf[c], gs, g, r)
      PROVE  \E u \in Uses(gs) : [arg |-> a, rule |-> r]
                = [arg |-> Target(c, gs, u[1], Of(u[1], u[2])), rule |-> Of(u[1], u[2])]
  <2>1. PICK i \in DOMAIN gs[g] : r = Of(g, i)
    BY <1>4, <1>6
  <2>2. a = Target(c, gs, g, r)
    BY <1>6, TargetBelongs
  <2>3. <<g, i>> \in Uses(gs) /\ <<g, i>>[1] = g /\ <<g, i>>[2] = i
    BY <1>2
  <2> QED
    BY <2>1, <2>2, <2>3
<1> QED
  BY <1>1, <1>5, <1>6

(* The token that a selected call comes from: there is one, and every      *)
(* other token that names the call has no filters.                         *)
LEMMA TokenOfCall ==
  ASSUME NEW spec \in Seq(TokenType), NEW noSpec, NEW rules, ~SawAll(spec),
         ~WhiteRefused(spec, noSpec, rules), NEW t \in Live(spec, noSpec)
  PROVE  /\ t.groups \in Seq(Seq(Nat))
         /\ \A x \in Live(spec, noSpec) : x.id = t.id => x = t
         /\ \A x \in Range(spec) : t.id \in Named(x) => x.groups = <<>> \/ x = t
         /\ t.groups = <<>> \/ (t \in Range(spec) /\ t.id \in Named(t))
<1>1. WhiteTokens(spec) = Expanded(spec)
  BY DEF WhiteTokens
<1>2. t \in Expanded(spec) /\ t.id \notin BlackIds(noSpec)
  BY <1>1 DEF Live
<1>3. \A x \in Expanded(spec) : Resolves(x)
  BY <1>1, Zenon DEF WhiteRefused, Refuses
<1>4. \A x \in Live(spec, noSpec) : x.id = t.id => x = t
  BY Zenon DEF WhiteRefused, Refuses
<1>5. ASSUME NEW x \in Range(spec), t.id \in Named(x), x.groups # <<>> PROVE x = t
  <2>1. ~IsGroup(x) /\ x.kind # "all"
    BY <1>5 DEF IsGroup, SawAll
  <2>2. x \in Expanded(spec)
    BY <2>1, ExpandedTokens
  <2>3. Named(x) = {x.id}
    BY <1>3, <2>2 DEF Resolves, Named
  <2>4. x \in Live(spec, noSpec)
    BY <1>1, <1>2, <1>5, <2>2, <2>3 DEF Live
  <2> QED
    BY <1>4, <1>5, <2>3, <2>4
<1>6. t.groups \in Seq(Seq(Nat)) /\ (t.groups = <<>> \/ (t \in Range(spec) /\ t.id \in Named(t)))
  <2>1. CASE \E x \in Range(spec) : IsGroup(x) /\ \E c \in Range(Members[x.id]) : t = Call(c)
    <3>1. t.groups = <<>>
      BY <2>1, CallParts
    <3> QED
      BY <3>1
  <2>2. CASE t \in Range(spec)
    <3>1. t \in TokenType
      BY <2>2 DEF Range
    <3>2. Named(t) = {t.id}
      BY <1>2, <1>3 DEF Resolves, Named
    <3> QED
      BY <2>2, <3>1, <3>2 DEF TokenType
  <2> QED
    BY <1>2, <2>1, <2>2, ExpandedTokens
<1> QED
  BY <1>4, <1>5, <1>6

(* Its filters are the filters of the call.                                *)
LEMMA FiltersOfCall ==
  ASSUME NEW spec, NEW noSpec, NEW rules, ~SawAll(noSpec), ~BlackRefused(noSpec),
         ~WhiteRefused(spec, noSpec, rules), NEW t \in Live(spec, noSpec), t.id \in Table,
         \A x \in Live(spec, noSpec) : x.id = t.id => x = t
  PROVE  select(spec, noSpec, rules).filters[t.id] = Placed(t.id, t.groups, Registry(rules))
<1> DEFINE same == {x \in Live(spec, noSpec) : x.id = t.id}
<1>1. same = {t}
  OBVIOUS
<1>2. select(spec, noSpec, rules).filters[t.id]
        = UNION {Placed(t.id, x.groups, Registry(rules)) : x \in same}
  BY SelectionMade
<1>3. UNION {Placed(t.id, x.groups, Registry(rules)) : x \in {t}}
        = Placed(t.id, t.groups, Registry(rules))
  OBVIOUS
<1> QED
  BY <1>1, <1>2, <1>3

(* The filters of a call that is traced are those of its token, each where *)
(* its group places it (apply_filter_groups, syscall_select.rs:350-388).   *)
THEOREM FiltersAreNamed == LineSpec => []FiltersSitWhereNamed
<1>1. LineKept => FiltersSitWhereNamed
  <2> DEFINE spec == line.spec
             noSpec == line.noSpec
             registry == Registry(line.rules)
             placed(x, c, a, r) ==
               \E g \in DOMAIN x.groups : r \in RulesOf(x.groups[g]) /\ Belongs(a, ArgsOf[c], x.groups, g, r)
  <2> SUFFICES ASSUME LineKept, NEW c \in selection.white, NEW a \in DOMAIN ArgsOf[c], NEW r
               PROVE  [arg |-> a, rule |-> r] \in selection.filters[c]
                        <=> ~SawAll(spec) /\ \E x \in Range(spec) : c \in Named(x) /\ placed(x, c, a, r)
    BY Zenon DEF FiltersSitWhereNamed, SawAll
  <2>1. spec \in Seq(TokenType) /\ selection = select(spec, noSpec, line.rules)
    BY CommandLineAssumption DEF LineKept, SelectionOf
  <2>2. ~SawAll(noSpec)
    BY <2>1, AllExcluded
  <2>3. ~BlackRefused(noSpec) /\ ~WhiteRefused(spec, noSpec, line.rules)
    <3> SUFFICES ASSUME BlackRefused(noSpec) \/ WhiteRefused(spec, noSpec, line.rules) PROVE FALSE
      OBVIOUS
    <3>1. selection = Nothing
      BY <2>1, <2>2, SelectionRefused
    <3> QED
      BY <3>1 DEF Nothing
  <2>4. PICK t \in Live(spec, noSpec) : t.id = c
    <3>1. selection.white = {t.id : t \in Live(spec, noSpec)}
      BY <2>1, <2>2, <2>3, SelectionMade
    <3> QED
      BY <3>1
  <2>5. c \in Table
    BY <2>1, SelectionTyped
  <2>6. CASE SawAll(spec)
    <3>1. \A x \in Live(spec, noSpec) : x = Call(x.id)
      BY <2>6, CallParts DEF Live, WhiteTokens
    <3>2. \A x \in Live(spec, noSpec) : x.id = t.id => x = t
      BY <3>1
    <3>3. t.groups = <<>>
      BY <3>1, CallParts
    <3>4. selection.filters[c] = {}
      BY <2>1, <2>2, <2>3, <2>4, <2>5, <3>2, <3>3, FiltersOfCall, NoUses
    <3> QED
      BY <2>6, <3>4
  <2>7. CASE ~SawAll(spec)
    <3>1. /\ t.groups \in Seq(Seq(Nat))
          /\ \A x \in Live(spec, noSpec) : x.id = t.id => x = t
          /\ \A x \in Range(spec) : t.id \in Named(x) => x.groups = <<>> \/ x = t
          /\ t.groups = <<>> \/ (t \in Range(spec) /\ t.id \in Named(t))
      BY <2>1, <2>3, <2>7, TokenOfCall
    <3>2. selection.filters[c] = Placed(c, t.groups, registry)
      BY <2>1, <2>2, <2>3, <2>4, <2>5, <3>1, FiltersOfCall
    <3>3. [arg |-> a, rule |-> r] \in selection.filters[c] <=> placed(t, c, a, r)
      BY <2>5, <3>1, <3>2, RulesPlaced
    <3>4. \A x : x.groups = <<>> => ~placed(x, c, a, r)
      OBVIOUS
    <3>5. \A x \in Range(spec) : c \in Named(x) => x.groups = <<>> \/ x = t
      BY <2>4, <3>1
    <3>6. t.groups = <<>> \/ (t \in Range(spec) /\ c \in Named(t))
      BY <2>4, <3>1
    <3> HIDE DEF placed
    <3> QED
      BY <2>7, <3>3, <3>4, <3>5, <3>6
  <2> QED
    BY <2>6, <2>7
<1> QED
  BY <1>1, LineStays, PTL
=============================================================================
