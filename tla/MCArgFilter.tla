---------------------------- MODULE MCArgFilter ----------------------------
(***************************************************************************)
(* Up to three filters of one call, on scalars, buffers and strings.       *)
(***************************************************************************)
EXTENDS ArgFilter

R(kind, num, str) == [kind |-> kind, num |-> num, str |-> str]
A(kind, reg, mem, status) == [kind |-> kind, reg |-> reg, mem |-> mem, status |-> status]

(* bx:10, bx:17a, bx:7f (refused), bx:000258, and 21 in octal after zeros. *)
BxRules == {R("bx", 0, s) : s \in {<<1, 0>>, <<1, 7, 10>>, <<7, 15>>, <<6, 5, 5, 3>>,
                                  <<0, 0, 0, 2, 5, 7>>, [i \in 1..16 |-> IF i > 14 THEN 2 ELSE 0]}}
Values == {R("eq", 1, <<>>), R("gt", 1, <<>>), R("lt", 1, <<>>)}
Strings == {R("w", 0, <<5>>), R("b", 0, <<5, 6>>)}
Address == {R("addr", 0, <<10, 0, 0, 1>>)}
Missing == {R("none", 0, <<>>)}
SomeRules == BxRules \cup Values \cup Strings \cup Address \cup Missing

Bytes(first) == first \o [i \in 1..(8 - Len(first)) |-> 7]

Scalars == {A("scalar", n, <<>>, "saved") : n \in 0..2}
Buffers == {A("buffer", 0, m, "saved") : m \in {
              <<10, 0, 0, 1, 0, 0, 0, 0>>, Bytes(<<16>>), Bytes(<<25, 141>>),
              <<0, 0, 0, 0, 0, 0, 0, 18>>, Bytes(<<0, 0, 175>>)}}
Texts == {A("string", 0, <<5, 6, 7>>, "saved"), A("string", 0, <<6>>, "saved"),
          A("string", 0, <<>>, "unreadable"), A("string", 0, <<5, 6>>, "no room")}

SomePlacements == (Values \X Scalars) \cup (BxRules \X Buffers) \cup (Address \X Buffers)
                    \cup (Strings \X Texts) \cup (Missing \X Scalars)
                    \cup (Strings \X {A("buffer", 0, <<0, 0, 0, 0, 0, 0, 0, 128>>, "saved")})
                    \cup (Address \X Texts) \cup ({r \in BxRules : Len(r.str) > 14} \X Texts)
=============================================================================
