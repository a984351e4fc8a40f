--------------------------- MODULE SyscallSelect ---------------------------
(***************************************************************************)
(* What -s, --no-syscall and -f say of system calls: select() of           *)
(* src/config/syscall_select.rs, with the table of calls and the registry  *)
(* of filters that it asks.                                                *)
(*                                                                         *)
(* A token is a record [kind, id, groups]: "all", a %group, or a call by   *)
(* its name or by its number (id is the call in both cases); groups is     *)
(* what follows a colon, a sequence of sequences of filter names, and <<>> *)
(* without a colon.  The filter name k stands for f<k>.  A rule is a       *)
(* record [text, is_str] (w, b, addr and bx are for strings), an argument  *)
(* of a call is [string, enter]: its type is a string, it is read on entry *)
(* and not on return.                                                      *)
(***************************************************************************)
EXTENDS Naturals, FiniteSets, Sequences, SequencesExt

CONSTANTS Table,    \* the calls of the point table
          Members,  \* the calls of each %group, in order
          ArgsOf    \* the arguments of each call on its enter side

TokenType ==
  [kind : {"all", "group", "name", "number"}, id : Nat, groups : Seq(Seq(Nat))]

ASSUME SyscallSelectAssumption ==
  /\ Table \subseteq Nat
  /\ \A c \in Table : ArgsOf[c] \in Seq([string : BOOLEAN, enter : BOOLEAN])

Call(c) == [kind |-> "name", id |-> c, groups |-> <<>>]

(* FilterHelper::add_filter: a rule that is there already gets no index.   *)
Registry(rules) ==
  LET new == {i \in DOMAIN rules : \A j \in 1..(i - 1) : rules[j] # rules[i]}
  IN [k \in 1..Cardinality(new) |-> rules[CHOOSE i \in new : Cardinality({j \in new : j <= i}) = k]]

-----------------------------------------------------------------------------
(* Faulty: a list behind "all" counts again.                               *)
AllLast(spec) == spec # <<>> /\ spec[Len(spec)].kind = "all"

SawAll(spec) == \E t \in Range(spec) : t.kind = "all"

IsGroup(token) == token.kind = "group" /\ token.groups = <<>>

(* expand_spec: groups become their members, and a name is kept once.      *)
Expanded(spec) ==
  (UNION {Range([j \in DOMAIN Members[t.id] |-> Call(Members[t.id][j])]) : t \in {x \in Range(spec) : IsGroup(x)}})
    \cup {t \in Range(spec) : ~IsGroup(t) /\ t.kind # "all"}

(* A number without groups is kept as often as it is given.                *)
Repeated(spec) ==
  {spec[i] : i \in {j \in DOMAIN spec : /\ spec[j].kind = "number" /\ spec[j].groups = <<>>
                                        /\ \E k \in 1..(j - 1) : spec[k] = spec[j]}}

(* SyscallPointTable::resolve succeeds.                                    *)
Resolves(token) == token.kind \in {"name", "number"} /\ token.id \in Table

-----------------------------------------------------------------------------
(* apply_filter_groups: the filter f of the group g of a token goes to an  *)
(* argument of the call, or to none (0).                                   *)
FirstString(c) ==
  SelectInSeq(ArgsOf[c], LAMBDA arg : arg.string /\ arg.enter)

(* Faulty: the first argument takes whatever a lone group holds.           *)
TargetFirst(c, groups, g, rule) ==
  IF Len(groups) > 1
  THEN IF g <= Len(ArgsOf[c]) THEN g ELSE 0
  ELSE IF ArgsOf[c] = <<>> THEN 0 ELSE 1

Target(c, groups, g, rule) ==
  CASE Len(groups) > 1 -> IF g <= Len(ArgsOf[c]) THEN g ELSE 0
    [] Len(groups) = 1 /\ rule.is_str -> FirstString(c)
    [] OTHER -> IF ArgsOf[c] = <<>> THEN 0 ELSE 1

Uses(groups) == UNION {{<<g, i>> : i \in DOMAIN groups[g]} : g \in DOMAIN groups}

FiltersKnown(groups, registry) ==
  \A u \in Uses(groups) : groups[u[1]][u[2]] < Len(registry)

Placed(c, groups, registry) ==
  {[arg |-> Target(c, groups, u[1], registry[groups[u[1]][u[2]] + 1]),
    rule |-> registry[groups[u[1]][u[2]] + 1]] : u \in Uses(groups)}

-----------------------------------------------------------------------------
Nothing == [ok |-> FALSE, enable |-> FALSE, traceAll |-> FALSE, white |-> {}, black |-> {},
            filters |-> [c \in Table |-> {}]]

(* The loop over the whitelist refuses a call it does not know, one it has *)
(* already, and a filter it does not know; what the blacklist names is     *)
(* passed over before that.                                                *)
Refuses(tokens, live, twice, registry) ==
  \/ \E t \in tokens : ~Resolves(t)
  \/ \E t, u \in live : t # u /\ t.id = u.id
  \/ live \cap twice # {}
  \/ \E t \in live : ~FiltersKnown(t.groups, registry)

select(spec, noSpec, rules) ==
  LET all == SawAll(spec)
      blacks == Expanded(noSpec)
      black == {t.id : t \in blacks}
      tokens == IF all THEN {Call(c) : c \in Table} ELSE Expanded(spec)
      live == {t \in tokens : t.id \notin black}
      registry == Registry(rules)
  IN CASE SawAll(noSpec) -> [Nothing EXCEPT !.ok = TRUE, !.traceAll = TRUE]
       [] ~SawAll(noSpec) /\ (\E t \in blacks : ~Resolves(t) \/ t.groups # <<>>) -> Nothing
       [] OTHER ->
            IF Refuses(tokens, live, IF all THEN {} ELSE Repeated(spec), registry) THEN Nothing
            ELSE [ok |-> TRUE, enable |-> live # {}, traceAll |-> all,
                  white |-> {t.id : t \in live}, black |-> black,
                  filters |-> [c \in Table |->
                     UNION {Placed(c, t.groups, registry) : t \in {x \in live : x.id = c}}]]
=============================================================================
