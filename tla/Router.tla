--------------------------------- MODULE Router ---------------------------------
(***************************************************************************)
(* The URL router of src/router: the search for the route of a path in the *)
(* tree that the insertions of RouterTree have made.  A path is a sequence *)
(* of names, parsed and decoded.                                           *)
(***************************************************************************)
EXTENDS RouterTree

CONSTANT
  Paths       \* the arguments of find(): sequences of names

-----------------------------------------------------------------------------
(* find_impl.  It changes nothing but the caller's matches object m: the   *)
(* captures written so far and the number n of those that count.  A        *)
(* capture is a range of the path's segments; rewinding only resets n.     *)

\* segment_template::match
Fits(seg, name) == seg.kind = "literal" => seg.name = name

HasModifier(seg) == seg.kind \in {"optional", "star", "plus"}

NoText == [from |-> 1, to |-> 0]
Text(i) == [from |-> i, to |-> i]

Push(m, id, text) ==
  LET capture == [id |-> id, text |-> text]
  IN  [n |-> m.n + 1,
       captures |-> SubSeq(m.captures, 1, m.n) \o <<capture>>
                      \o SubSeq(m.captures, m.n + 2, Len(m.captures))]

Fail(m) == [node |-> 0, m |-> m, move |-> FALSE, stop |-> FALSE]
Hit(n, m) == [Fail(m) EXCEPT !.node = n]
Move(n, m) == [Hit(n, m) EXCEPT !.move = TRUE]

\* Mutant: the captures are not rewound.
RewindNothing(n, r) == r

RewindTo(n, r) == IF r.node # 0 THEN r ELSE [r EXCEPT !.m.n = n]

RECURSIVE FindOptional(_, _), FindOptionalIn(_, _)

\* find_optional_resource: the node, or one below it that needs no input.
FindOptional(cur, m) ==
  IF nodes[cur].resource # 0 THEN Hit(cur, m)
  ELSE FindOptionalIn(nodes[cur].children, m)

FindOptionalIn(kids, m) ==
  IF kids = <<>> THEN Fail(m)
  ELSE LET seg == nodes[Head(kids)].seg
           r   == RewindTo(m.n, FindOptional(Head(kids),
                                             Push(m, seg.name, NoText)))
       IN  IF seg.kind \notin {"optional", "star"}
           THEN FindOptionalIn(Tail(kids), m)
           ELSE IF r.node # 0 THEN r ELSE FindOptionalIn(Tail(kids), r.m)

\* The path is over: it must not end above the root or below a leaf.
AtEnd(cur, level, m) ==
  IF level # 0 THEN Fail(m) ELSE FindOptional(cur, m)

\* More than one child might match, so each has to be tried.
Branches(kids, name) ==
  /\ Len(kids) > 1
  /\ \/ \E k \in ToSet(kids) : HasModifier(nodes[k].seg)
     \/ Cardinality({k \in ToSet(kids) : Fits(nodes[k].seg, name)}) > 1

\* A many-segment field takes nothing when the rest of the path goes back
\* beyond where it starts.
Blocked(path, i, seg) ==
  LET Count(j, Is(_)) == Cardinality({k \in i .. j : Is(path[k])})
      extra == IF seg.kind = "star" THEN 1 ELSE 0
  IN  \E j \in i .. Len(path) :
        /\ path[j] = ".."
        /\ Count(j, LAMBDA s : s = "..")
             >= Count(j, LAMBDA s : s \notin {".", ".."}) + extra

RECURSIVE TryMatch(_, _, _, _, _), TryChildren(_, _, _, _, _, _),
          TryMany(_, _, _, _, _, _, _)

\* Field c has taken the segments from i to before start, longest first; the
\* capture in slot gets its end when the rest matches.
TryMany(path, i, c, level, m, slot, start) ==
  LET plus  == nodes[c].seg.kind = "plus"
      first == IF plus THEN i + 1 ELSE i
      r     == TryMatch(path, start, c, level, m)
      text  == r.m.captures[slot].text
  IN  IF r.node # 0
      THEN [r EXCEPT !.m.captures[slot].text =
              IF start > first THEN [text EXCEPT !.to = start - 1]
              ELSE IF plus THEN text ELSE NoText]
      ELSE IF start = first THEN r
      ELSE TryMany(path, i, c, level, [r.m EXCEPT !.n = slot], slot, start - 1)

\* With the optional field, and without it.
TryOptional(path, i, c, level, m) ==
  LET id   == nodes[c].seg.name
      with == RewindTo(m.n, TryMatch(path, i + 1, c, level, Push(m, id, Text(i))))
  IN  IF with.node # 0 THEN with
      ELSE RewindTo(m.n, TryMatch(path, i, c, level, Push(with.m, id, NoText)))

\* A plain field; without a branch the loop in TryMatch goes on from it.
TryPlain(path, i, c, level, m, branch) ==
  LET taken == Push(m, nodes[c].seg.name, Text(i))
  IN  IF branch THEN RewindTo(m.n, TryMatch(path, i + 1, c, level, taken))
      ELSE Move(c, taken)

\* One child; a literal does not rewind the captures made below it.
TryChild(path, i, c, level, m, branch) ==
  LET seg == nodes[c].seg
  IN  CASE seg.kind = "literal" ->
             IF seg.name # path[i] THEN Fail(m)
             ELSE IF branch THEN TryMatch(path, i + 1, c, level, m)
             ELSE Move(c, m)
        [] seg.kind = "none" -> TryPlain(path, i, c, level, m, branch)
        [] seg.kind = "optional" -> TryOptional(path, i, c, level, m)
        [] seg.kind \in {"star", "plus"} ->
             IF Blocked(path, i, seg) THEN [Fail(m) EXCEPT !.stop = TRUE]
             ELSE TryMany(path, i, c, level, Push(m, seg.name, Text(i)),
                          m.n + 1, Len(path) + 1)

\* The loop over the children, in their order.
TryChildren(path, i, kids, level, m, branch) ==
  IF kids = <<>> THEN Fail(m)
  ELSE LET r == TryChild(path, i, Head(kids), level, m, branch)
       IN  IF r.node # 0 \/ r.stop THEN r
           ELSE TryChildren(path, i, Tail(kids), level, r.m, branch)

\* Mutant: a ".." is only counted.
BackOnlyCounted(path, i, cur, level, m) ==
  TryMatch(path, i + 1, cur, level - 1, m)

\* A "..": to the parent, whose child loses its capture, or one level less.
Back(path, i, cur, level, m) ==
  IF level <= 0 /\ cur # Root
  THEN TryMatch(path, i + 1, nodes[cur].parent, level,
                IF nodes[cur].seg.kind = "literal" THEN m
                ELSE [m EXCEPT !.n = @ - 1])
  ELSE TryMatch(path, i + 1, cur, level - 1, m)

\* A name below the root: what no child matches is one level more.
Forth(path, i, cur, level, m) ==
  LET kids == nodes[cur].children
      r    == TryChildren(path, i, kids, level, m, Branches(kids, path[i]))
  IN  IF r.move THEN TryMatch(path, i + 1, r.node, level, r.m)
      ELSE IF r.node # 0 THEN r
      ELSE TryMatch(path, i + 1, cur, level + 1, r.m)

\* The route of the rest of the path, from position i on.
TryMatch(path, i, cur, level, m) ==
  IF i > Len(path) THEN AtEnd(cur, level, m)
  ELSE IF path[i] = "." THEN TryMatch(path, i + 1, cur, level, m)
  ELSE IF path[i] = ".." THEN Back(path, i, cur, level, m)
  ELSE IF level < 0 THEN TryMatch(path, i + 1, cur, level + 1, m)
  ELSE Forth(path, i, cur, level, m)

\* find_impl replaces a path without segments, "" or "/", by "./", which is one
\* empty segment.
Searched(path) == IF path = <<>> THEN <<"">> ELSE path

\* find(): the resource, or 0, and the captures.
Find(path) ==
  LET r == TryMatch(Searched(path), 1, Root, 0, [n |-> 0, captures |-> <<>>])
  IN  IF r.node = 0 THEN [resource |-> 0, matches |-> <<>>]
      ELSE [resource |-> nodes[r.node].resource,
            matches |-> SubSeq(r.m.captures, 1, r.m.n)]
=============================================================================
