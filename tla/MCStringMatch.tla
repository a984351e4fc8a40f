--------------------------- MODULE MCStringMatch ---------------------------
(***************************************************************************)
(* Two programs; two rules of one length, one that is one longer and one   *)
(* that is two longer, or a single rule; texts that start with some of the *)
(* rules or with none.                                                     *)
(***************************************************************************)
EXTENDS StringMatch

AB == {"a", "b"}
CloseRules == {<<"a">>, <<"b">>, <<"b", "a">>, <<"b", "a", "b">>}
OneRule == {<<"a">>}
SomeTexts == {<<"a">>, <<"b">>, <<"b", "a">>, <<"b", "a", "b">>}
=============================================================================
