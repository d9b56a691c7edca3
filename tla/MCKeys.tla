------------------------------- MODULE MCKeys -------------------------------
(* A small instance of Keys for TLC: the plans with fewer digits.          *)
EXTENDS Keys, TLC

CONSTANTS US, GB, BR

MCEmailAlphabet == {"k", "K", "U+212A", "@", ".", " ", "U+3000"}
MCPhoneAlphabet == {"0", "1", "9", "+", " ", "tab"}

\* As in identity.py the country codes start no other, and the national numbers
\* are two digits long instead of ten; E.164 then admits three to five.
Plan(cc, trunk, mobile) == [cc |-> cc, len |-> 2, trunk |-> trunk, mobile |-> mobile]
MCPlans ==
     US :> Plan(<<"1">>, FALSE, FALSE)
  @@ GB :> Plan(<<"9", "1">>, TRUE, FALSE)
  @@ BR :> Plan(<<"9", "9">>, FALSE, TRUE)

\* Texts that differ in where a bar falls, and in length.
MCFacts ==
  LET a == <<"a">>
      plain == {a, <<"a", "a">>, <<"a", "|">>}
  IN  [id : {None, <<>>, a},
       type : plain, location : plain,
       resource : plain \cup {None, <<>>, <<"|">>, <<"|", "a">>, <<"a", "|", "a">>},
       time : {a, <<"b">>}]
=============================================================================
