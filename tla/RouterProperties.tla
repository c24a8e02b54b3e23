---------------------------- MODULE RouterProperties ----------------------------
(***************************************************************************)
(* What a router promises, defined without a tree: which templates match a *)
(* path, which of them wins, and what its fields stand for.                *)
(* The order in which templates win is the one that the comment on         *)
(* operator< gives (router.cpp:78-83), not the one the tree is sorted by,  *)
(* and the single place where the code follows another is named.           *)
(***************************************************************************)
EXTENDS Router

-----------------------------------------------------------------------------
(* Matches                                                                  *)

\* How many names a segment can take from the front of a path.
Takes(seg, p) ==
  CASE seg.kind = "literal" -> IF p # <<>> /\ p[1] = seg.name THEN {1} ELSE {}
    [] seg.kind = "none" -> {1} \cap 0 .. Len(p)
    [] seg.kind = "optional" -> {0, 1} \cap 0 .. Len(p)
    [] seg.kind = "star" -> 0 .. Len(p)
    [] seg.kind = "plus" -> 1 .. Len(p)

RECURSIVE Splits(_, _)

\* The ways to share out the names of p among the segments of t: how many
\* each of them takes.
Splits(t, p) ==
  IF t = <<>> THEN IF p = <<>> THEN {<<>>} ELSE {}
  ELSE UNION {{<<n>> \o rest :
                 rest \in Splits(Tail(t), SubSeq(p, n + 1, Len(p)))} :
              n \in Takes(Head(t), p)}

\* The matches of path p: a route and a way to share out its names.
Matches(p) ==
  UNION {{[route |-> k, split |-> s] : s \in Splits(Key(routes[k]), p)} :
         k \in Live}

\* "segments have precedence: literal, unique, optional, plus, star".
Documented == [literal |-> 0, none |-> 1, optional |-> 2, plus |-> 3, star |-> 4]

\* The enumeration that operator< compares has star before plus.
Followed ==
  [Documented EXCEPT !.star = Documented.plus, !.plus = Documented.star]

\* Preferred first: segment by segment in the order given, of the same kind the
\* longer; a template that is over before one whose further fields stand for
\* nothing.
Weight(match, order) ==
  LET key == Key(routes[match.route])
  IN  [i \in DOMAIN key |-> 100 * order[key[i].kind] - match.split[i]]

Before(a, b) ==
  \E i \in DOMAIN b :
    /\ i - 1 <= Len(a)
    /\ SubSeq(a, 1, i - 1) = SubSeq(b, 1, i - 1)
    /\ i \in DOMAIN a => a[i] < b[i]

Best(p, order) ==
  CHOOSE x \in Matches(p) : \A y \in Matches(p) \ {x} :
    Before(Weight(x, order), Weight(y, order))

\* The names the fields of a match stand for, field by field.
Captured(match, p) ==
  LET key == Key(routes[match.route])
      Start(i) == FoldLeft(+, 1, SubSeq(match.split, 1, i - 1))
      Piece(i) == SubSeq(p, Start(i), Start(i) + match.split[i] - 1)
      fields   == SelectSeq([i \in DOMAIN key |-> i],
                            LAMBDA i : key[i].kind # "literal")
  IN  [f \in DOMAIN fields |-> Piece(fields[f])]

\* A template has one segment at least, of which "" has an empty one.  A path
\* without segments is taken in the same way.
Meant(p) == IF p = <<>> THEN <<"">> ELSE p

\* The names the captures of a search stand for.
Captures(p) ==
  LET matches == Find(p).matches
      Piece(text) == SubSeq(Meant(p), text.from, text.to)
  IN  [i \in DOMAIN matches |-> Piece(matches[i].text)]

\* What a path amounts to, and that it has no dots.
ReducedPath(p) ==
  FoldLeft(LAMBDA at, name : Reduce(at, name = ".", name = "..", name),
           [left |-> <<>>, level |-> 0], p)

Plain(p) == \A i \in DOMAIN p : p[i] \notin {".", ".."}

-----------------------------------------------------------------------------
(* Properties                                                               *)

\* A path without dots finds a route exactly when some template matches it,
\* and of those the first in the documented order of precedence but for star and
\* plus, whatever order they were inserted in and however the tree is shared and
\* backtracked over.  Where a {*} competes with a {+} the code prefers the {*},
\* against the comment, and nowhere else.
FindsBest ==
  ~damaged => \A p \in Paths : Plain(p) =>
    LET q == Meant(p)
    IN  Find(p).resource =
          IF Matches(q) = {} THEN 0 ELSE Best(q, Followed).route

\* No template in the router has a literal or a many-segment field.
Rewound ==
  \A k \in Live : \A i \in DOMAIN Key(routes[k]) :
    Key(routes[k])[i].kind \in {"none", "optional"}

\* The fields of the route found are the last captures.  A literal or a many-
\* segment field that led nowhere may have left others before them; without
\* those in the router there are no others.
CapturesLast ==
  ~damaged => \A p \in Paths :
    LET q == Meant(p)
        fields == Captured(Best(q, Followed), q)
    IN  Plain(p) /\ Matches(q) # {} =>
          /\ IsSuffix(fields, Captures(p))
          /\ Rewound => fields = Captures(p)

\* A path with dots finds a route if the path they amount to does.
DotsResolved ==
  ~damaged => \A p \in Paths :
    LET reduced == ReducedPath(Meant(p))
    IN  (reduced.level = 0 /\ Matches(reduced.left) # {}) => Find(p).resource # 0

=============================================================================
