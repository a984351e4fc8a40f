--------------------------- MODULE MCCommandLine ---------------------------
(***************************************************************************)
(* The options of MCTaskFilter with one -s list; every -s list of two      *)
(* tokens with two or three -f options, of which some are repeated; and    *)
(* every list of two plain tokens with a --no-syscall token.  Call 1 has   *)
(* a number and a string, call 2 a string that is read on return, call 3   *)
(* has nothing, call 9 is unknown.                                         *)
(***************************************************************************)
EXTENDS CommandLine, MCTaskFilter

Calls3 == {1, 2, 3}
SomeMembers == << <<1, 2>>, <<2, 3>>, <<3, 9>> >>
SomeArgs ==
  << <<[string |-> FALSE, enter |-> TRUE], [string |-> TRUE, enter |-> TRUE]>>,
     <<[string |-> TRUE, enter |-> FALSE]>>,
     <<>> >>

Tok(kind, id, groups) == [kind |-> kind, id |-> id, groups |-> groups]
Groups == {<< >>, << <<0>> >>, << <<1>> >>, << <<>>, <<0>> >>, << <<0>>, <<1>> >>}
Calls4 == {1, 2, 3, 9}
BareTokens == {Tok("all", 0, <<>>)} \cup {Tok("group", g, <<>>) : g \in DOMAIN SomeMembers}
                \cup {Tok(k, c, <<>>) : k \in {"name", "number"}, c \in Calls4}
Tokens == BareTokens \cup {Tok("name", c, g) : c \in Calls3, g \in Groups}
            \cup {Tok("number", 1, g) : g \in Groups}

Text(s) == [text |-> s, is_str |-> TRUE]
Number(s) == [text |-> s, is_str |-> FALSE]
RuleLists == {<<Text("a"), Number("b")>>, <<Text("a"), Text("a"), Number("b")>>,
              <<Number("b"), Number("b")>>}

L(spec, noSpec, rules, others) ==
  [spec |-> spec, noSpec |-> noSpec, rules |-> rules, others |-> others]

NoFilters ==
  [tidWhite |-> {}, tidBlack |-> {}, pidWhite |-> {}, pidBlack |-> {},
   uidWhite |-> {}, uidBlack |-> {}, commWhite |-> {}, commBlack |-> {},
   defaultCommBlack |-> {}, uidGroups |-> {}, sysWhite |-> {}, sysBlack |-> {},
   traceAll |-> TRUE, signal |-> FALSE, tsignal |-> FALSE]

SomeLines ==
  {L(<<Tok("group", 1, <<>>)>>, <<>>, <<>>, o) : o \in AnyOptions}
    \cup {L(s, <<>>, r, NoFilters) : s \in BoundedSeq(Tokens, 2), r \in RuleLists}
    \cup {L(s, n, <<>>, NoFilters) : s \in BoundedSeq(BareTokens, 2), n \in BoundedSeq(BareTokens, 1)}
=============================================================================
