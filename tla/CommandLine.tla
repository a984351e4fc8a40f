---------------------------- MODULE CommandLine ----------------------------
(***************************************************************************)
(* A command line and the run it starts: select() of SyscallSelect reads   *)
(* its calls and filters, the other options are those of TaskFilter.       *)
(***************************************************************************)
EXTENDS TaskFilter, SyscallSelect

CONSTANT Lines    \* records [spec, noSpec, rules, others]: -s, --no-syscall, -f, the rest

ASSUME CommandLineAssumption ==
  /\ Table \subseteq Sysno
  /\ \A l \in Lines :
       l.spec \in Seq(TokenType) /\ l.noSpec \in Seq(TokenType) /\ l.others \in Options

VARIABLES line,
          selection   \* of its calls and their filters

lineVars == <<vars, line, selection>>

SelectionOf(l) == select(l.spec, l.noSpec, l.rules)

(* build_config: the options of the module.                                *)
WithSelection(others, sel) ==
  [others EXCEPT !.sysWhite = sel.white, !.sysBlack = sel.black, !.traceAll = sel.traceAll]

(* Init, with the options that the line gives.                             *)
LineInit ==
  /\ line \in Lines
  /\ selection = SelectionOf(line)
  /\ opts = WithSelection(line.others, selection)
  /\ forks \in ForkLists
  /\ task \in Tasks

LineNext == UNCHANGED lineVars

LineSpec == LineInit /\ [][LineNext]_lineVars

-----------------------------------------------------------------------------
(* The calls that a list of tokens names, one token at a time.             *)
Named(token) ==
  IF token.kind = "group" THEN Range(Members[token.id]) ELSE {token.id}

Meant(spec) == IF \E t \in Range(spec) : t.kind = "all" THEN Table ELSE UNION {Named(t) : t \in Range(spec)}

(* Names of the table and groups only, without filters.                    *)
Plain(spec) == \A t \in Range(spec) :
  t.kind = "all" \/ (t.groups = <<>> /\ t.kind # "number" /\ Named(t) \subseteq Table)

(* The kernel admits the calls that the first list means and the second    *)
(* does not, in both trace modes, in whatever order and overlap the tokens *)
(* come, and the module runs iff there are any; and lists of names and     *)
(* groups are never refused as duplicates.                                 *)
SelectionDecides ==
  LET wanted == (Meant(line.spec) \cap Table) \ Meant(line.noSpec)
  IN /\ selection.ok =>
          /\ selection.enable <=> wanted # {}
          /\ selection.enable =>
               \A c \in Table : SysnoAdmitted(MapsOf(opts, Table), c) <=> c \in wanted
     /\ Plain(line.spec) /\ Plain(line.noSpec) => selection.ok

(* The rules that the names of one group stand for.                        *)
RulesOf(names) == {Registry(line.rules)[k + 1] : k \in Range(names)}

(* Rule r of group g of a token belongs to the argument a: of several      *)
(* groups each to the argument of its position, what a lone group holds to *)
(* the first string that is read on entry, or to the first argument if the *)
(* rule is about numbers.                                                  *)
Belongs(a, args, groups, g, r) ==
  LET text(i) == args[i].string /\ args[i].enter
  IN \/ Len(groups) > 1 /\ a = g
     \/ Len(groups) = 1 /\ ~r.is_str /\ a = 1
     \/ Len(groups) = 1 /\ r.is_str /\ text(a) /\ \A i \in 1..(a - 1) : ~text(i)

(* An argument of a call that is traced has the rules that its token gives *)
(* this place, and no others; a rule whose place the call does not have is *)
(* lost without a word, and so are all with -s all.  (Whether the argument *)
(* can take the rule is not asked: a text rule may sit on a number.)       *)
FiltersSitWhereNamed ==
  \A c \in selection.white : \A a \in DOMAIN ArgsOf[c] : \A r \in Range(line.rules) :
    [arg |-> a, rule |-> r] \in selection.filters[c] <=>
      /\ \A t \in Range(line.spec) : t.kind # "all"
      /\ \E t \in Range(line.spec) :
           /\ c \in Named(t)
           /\ \E g \in DOMAIN t.groups :
                r \in RulesOf(t.groups[g]) /\ Belongs(a, ArgsOf[c], t.groups, g, r)
=============================================================================
