-------------------------------- MODULE MCRouter --------------------------------
(* Router for TLC: templates and paths over the names a, b and "".          *)
EXTENDS RouterProperties

Empty == Literal("")
A == Literal("a")
B == Literal("b")
X == Field("none", "x")
Y == Field("none", "y")
Opt == Field("optional", "o")
Star == Field("star", "s")
Plus == Field("plus", "p")

MCNames == {"", "a", "b", ".", "..", "x", "y", "o", "s", "p"}

MCTemplates ==
  {<<Empty>>, <<A>>, <<X>>, <<Y>>, <<Y, B>>, <<A, B>>, <<A, X, B>>, <<X, A>>,
   <<Opt>>, <<Opt, X>>, <<Opt, B>>, <<A, Opt>>, <<X, Opt, Star>>,
   <<Star>>, <<Star, A>>, <<A, Star, B>>, <<B, Star>>,
   <<Plus>>, <<Plus, B>>, <<A, Plus>>, <<X, Plus, A>>,
   <<B, DotDot, A>>, <<A, Dot, B, DotDot>>, <<DotDot, A, B>>,
   <<B, DotDot, DotDot>>, <<A, DotDot>>}

MCPaths ==
  BoundedSeq({"a", "b"}, 3)
    \cup {<<"a", "b", "b", "a">>, <<"b", "a", "b", "b">>,
          <<".", "a", ".", "b">>, <<"a", "..", "b">>, <<"b", "a", "..", "..", "a">>,
          <<"a", "b", "..">>, <<"..", "b", "a">>, <<"b", "..">>, <<"a", "">>}
=============================================================================
