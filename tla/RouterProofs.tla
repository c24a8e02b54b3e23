------------------------------ MODULE RouterProofs ------------------------------
(***************************************************************************)
(* What the insertion of the router promises, proved for any set of        *)
(* templates and any number of calls of insert(), as long as no erase()    *)
(* has overwritten an index in use.                                        *)
(*                                                                         *)
(* The invariant: every node n of the pool has a key K[n], the segments    *)
(* from the root to n without the ids of fields; no two nodes have the     *)
(* same key, the children of a node extend its key by one segment and are  *)
(* sorted, and the resources of the live calls are at the nodes whose keys *)
(* are those of their templates.  Between two segments of a template the   *)
(* key of the current node is that of the template so far, reduced; the    *)
(* nodes that the call has added are a chain that ends there, and those it *)
(* found are as it found them but for the link to that chain.              *)
(***************************************************************************)
EXTENDS RouterTree, FiniteSetTheorems, SequenceTheorems, WellFoundedInduction, TLAPS

-----------------------------------------------------------------------------
(* Segments and sequences                                                   *)

\* Segments, the root's and those of keys, whose ids are dropped, included.
Segs == [kind : DOMAIN Rank, name : Names \cup {""}]

\* What operator== looks at.
KeySeg(seg) == IF seg.kind = "literal" THEN seg ELSE Field(seg.kind, "")

Keys(left) == [i \in 1 .. Len(left) |-> KeySeg(left[i])]

\* A nonempty set of naturals has a least element.
LEMMA Smallest ==
  ASSUME NEW T \in SUBSET Nat, T # {}
  PROVE  \E x \in T : \A y \in T : x <= y
<1> DEFINE R == OpToRel(<, Nat)
<1>1. IsWellFoundedOn(R, Nat) BY NatLessThanWellFounded
<1>2. \A x, y \in Nat : x < y => <<x, y>> \in R BY DEF OpToRel
<1> HIDE DEF R
<1>3. PICK x \in T : \A y \in T : ~ (<<y, x>> \in R) BY <1>1, WFMin
<1>4. ASSUME NEW y \in T PROVE x <= y
  <2>1. x \in Nat /\ y \in Nat OBVIOUS
  <2>2. ~(y < x) BY <1>2, <1>3, <2>1
  <2> QED BY <2>1, <2>2
<1> QED BY <1>4

\* Max of a nonempty bounded set of naturals.
LEMMA Largest ==
  ASSUME NEW N \in Nat, NEW T \in SUBSET (0 .. N), T # {}
  PROVE  Max(T) \in T /\ \A y \in T : Max(T) >= y
<1> DEFINE U == {x \in Nat : \A y \in T : x >= y}
<1>1. N \in U OBVIOUS
<1>2. PICK x \in U : \A y \in U : x <= y
  <2>1. U \in SUBSET Nat /\ U # {} BY <1>1
  <2> HIDE DEF U
  <2> QED BY <2>1, Smallest
<1>3. x \in T
  <2> SUFFICES ASSUME x \notin T PROVE FALSE OBVIOUS
  <2>1. PICK y \in T : TRUE OBVIOUS
  <2>2. x \in Nat /\ \A z \in T : z \in Nat /\ x >= z /\ x # z OBVIOUS
  <2>3. x - 1 \in Nat /\ \A z \in T : x - 1 >= z
    <3>1. y \in Nat /\ x >= y /\ x # y BY <2>2
    <3>2. x - 1 \in Nat BY <2>2, <3>1
    <3>3. ASSUME NEW z \in T PROVE x - 1 >= z
      <4>1. z \in Nat /\ x >= z /\ x # z BY <2>2
      <4> QED BY <2>2, <4>1
    <3> QED BY <3>2, <3>3
  <2>4. x <= x - 1 BY <1>2, <2>3
  <2> QED BY <2>2, <2>4
<1>4. \A y \in T : x >= y OBVIOUS
<1> QED BY <1>3, <1>4 DEF Max

\* A segment has a rank, and a key that is a segment.
LEMMA SegFacts ==
  ASSUME NEW a \in Segs
  PROVE  Rank[a.kind] \in Int /\ KeySeg(a) \in Segs
<1>1. a.kind \in {"literal", "none", "optional", "star", "plus"} BY DEF Segs, Rank
<1>2. Rank[a.kind] \in Int BY <1>1 DEF Rank
<1>3. KeySeg(a) \in Segs BY DEF KeySeg, Segs, Field
<1> QED BY <1>2, <1>3

\* operator== compares the keys.
LEMMA SameKey ==
  ASSUME NEW a \in Segs, NEW b \in Segs
  PROVE  Same(a, b) <=> KeySeg(a) = KeySeg(b)
<1>1. /\ a = [kind |-> a.kind, name |-> a.name]
      /\ b = [kind |-> b.kind, name |-> b.name]
  BY DEF Segs
<1>2. CASE a.kind = "literal" /\ b.kind = "literal"
  BY <1>1, <1>2 DEF Same, KeySeg
<1>3. CASE a.kind # b.kind
  <2>1. KeySeg(a).kind = a.kind /\ KeySeg(b).kind = b.kind
    BY <1>1 DEF KeySeg, Field
  <2> QED BY <1>3, <2>1 DEF Same
<1>4. CASE a.kind = b.kind /\ a.kind # "literal"
  BY <1>4 DEF Same, KeySeg, Field
<1> QED BY <1>2, <1>3, <1>4

\* What SubSeq returns, empty or not.
LEMMA Slice ==
  ASSUME NEW S, NEW s \in Seq(S), NEW m \in Nat, NEW n \in Nat,
         1 <= m, m <= n + 1, n <= Len(s)
  PROVE  /\ SubSeq(s, m, n) \in Seq(S) /\ Len(SubSeq(s, m, n)) = n - m + 1
         /\ \A i \in 1 .. n - m + 1 : SubSeq(s, m, n)[i] = s[m + i - 1]
<1>1. Len(s) \in Nat /\ \A i \in 1 .. Len(s) : s[i] \in S
  BY LenProperties, ElementOfSeq
<1>2. ASSUME NEW i \in m .. n PROVE s[i] \in S
  <2>1. i \in 1 .. Len(s) BY <1>1
  <2> QED BY <1>1, <2>1
<1>3. m \in Int /\ n \in Int OBVIOUS
<1>4. /\ SubSeq(s, m, n) \in Seq(S)
      /\ Len(SubSeq(s, m, n)) = IF m <= n THEN n - m + 1 ELSE 0
      /\ \A i \in 1 .. n - m + 1 : SubSeq(s, m, n)[i] = s[m + i - 1]
  BY <1>2, <1>3, SubSeqProperties
<1>5. (IF m <= n THEN n - m + 1 ELSE 0) = n - m + 1 OBVIOUS
<1> QED BY <1>4, <1>5

\* What \o returns on sequences of indexes.
LEMMA Joined ==
  ASSUME NEW a \in Seq(Nat), NEW b \in Seq(Nat)
  PROVE  /\ a \o b \in Seq(Nat) /\ Len(a \o b) = Len(a) + Len(b)
         /\ \A i \in 1 .. Len(a) : (a \o b)[i] = a[i]
         /\ \A i \in 1 .. Len(b) : (a \o b)[Len(a) + i] = b[i]
<1>1. /\ a \o b \in Seq(Nat) /\ Len(a \o b) = Len(a) + Len(b)
      /\ \A i \in 1 .. Len(a) + Len(b) : (a \o b)[i] = IF i <= Len(a) THEN a[i] ELSE b[i - Len(a)]
  BY ConcatProperties
<1>0. PICK k, l \in Nat : k = Len(a) /\ l = Len(b) BY LenProperties
<1>2. ASSUME NEW i \in 1 .. k PROVE i \in 1 .. k + l /\ i <= k
  OBVIOUS
<1>3. ASSUME NEW i \in 1 .. l PROVE k + i \in 1 .. k + l /\ ~(k + i <= k) /\ k + i - k = i
  OBVIOUS
<1>4. \A i \in 1 .. k : (a \o b)[i] = a[i] BY <1>0, <1>1, <1>2
<1>5. \A i \in 1 .. l : (a \o b)[k + i] = b[i] BY <1>0, <1>1, <1>3
<1> QED BY ONLY <1>0, <1>1, <1>4, <1>5

\* What InsertAt does to a list of children.
LEMMA InsertAtFacts ==
  ASSUME NEW s \in Seq(Nat), NEW p \in 0 .. Len(s), NEW k \in Nat
  PROVE  /\ InsertAt(s, p + 1, k) \in Seq(Nat)
         /\ Len(InsertAt(s, p + 1, k)) = Len(s) + 1
         /\ \A i \in 1 .. p : InsertAt(s, p + 1, k)[i] = s[i]
         /\ InsertAt(s, p + 1, k)[p + 1] = k
         /\ \A i \in p + 1 .. Len(s) : InsertAt(s, p + 1, k)[i + 1] = s[i]
<1>1. PICK n \in Nat : n = Len(s) BY LenProperties
<1>2. PICK q \in Nat : n = p + q
  <2>1. n - p \in Nat /\ n = p + (n - p) BY <1>1
  <2> QED BY <2>1
<1> DEFINE u == SubSeq(s, 1, p)
           v == SubSeq(s, p + 1, n)
<1>3. p \in Nat /\ p + 1 \in Nat /\ 1 <= p + 1 /\ p <= n /\ p + 1 <= n + 1 BY <1>1
<1>4. u \in Seq(Nat) /\ Len(u) = p /\ \A i \in 1 .. p : u[i] = s[i]
  <2>1. /\ u \in Seq(Nat) /\ Len(u) = p - 1 + 1
        /\ \A i \in 1 .. p - 1 + 1 : u[i] = s[1 + i - 1]
    BY <1>1, <1>3, Slice
  <2>2. p - 1 + 1 = p /\ \A i \in 1 .. p : 1 + i - 1 = i BY <1>3
  <2> HIDE DEF u
  <2> QED BY <2>1, <2>2
<1>5. v \in Seq(Nat) /\ Len(v) = q /\ \A i \in 1 .. q : v[i] = s[p + i]
  <2>1. /\ v \in Seq(Nat) /\ Len(v) = n - (p + 1) + 1
        /\ \A i \in 1 .. n - (p + 1) + 1 : v[i] = s[p + 1 + i - 1]
    BY ONLY s \in Seq(Nat), n \in Nat, n = Len(s), <1>3, Slice
  <2>2. n - (p + 1) + 1 = q /\ \A i \in 1 .. q : p + 1 + i - 1 = p + i BY <1>2, <1>3
  <2> HIDE DEF v
  <2> QED BY <2>1, <2>2
<1> HIDE DEF u, v
<1>a. u \in Seq(Nat) /\ v \in Seq(Nat) BY <1>4, <1>5
<1>b. Len(u) = p /\ Len(v) = q BY <1>4, <1>5
<1>6. <<k>> \in Seq(Nat) /\ Len(<<k>>) = 1 /\ <<k>>[1] = k OBVIOUS
<1>7. /\ u \o <<k>> \in Seq(Nat) /\ Len(u \o <<k>>) = p + 1
      /\ \A i \in 1 .. p : (u \o <<k>>)[i] = u[i]
      /\ \A i \in 1 .. 1 : (u \o <<k>>)[p + i] = <<k>>[i]
  BY ONLY <1>a, <1>b, <1>6, Joined
<1> DEFINE w == u \o <<k>>
<1> HIDE DEF w
<1>8. w \in Seq(Nat) /\ Len(w) = p + 1 BY <1>7 DEF w
<1>9. /\ w \o v \in Seq(Nat) /\ Len(w \o v) = p + 1 + q
      /\ \A i \in 1 .. p + 1 : (w \o v)[i] = w[i]
      /\ \A i \in 1 .. q : (w \o v)[p + 1 + i] = v[i]
  <2>1. w \in Seq(Nat) /\ v \in Seq(Nat) BY <1>a, <1>8
  <2>2. /\ w \o v \in Seq(Nat) /\ Len(w \o v) = Len(w) + Len(v)
        /\ \A i \in 1 .. Len(w) : (w \o v)[i] = w[i]
        /\ \A i \in 1 .. Len(v) : (w \o v)[Len(w) + i] = v[i]
    BY ONLY <2>1, Joined
  <2> QED BY ONLY <2>2, <1>b, <1>8
<1>10. w \o v = InsertAt(s, p + 1, k)
  <2>1. p + 1 - 1 = p BY <1>3
  <2>2. PICK j \in Nat : j = p + 1 /\ j - 1 = p BY <1>3
  <2>3. InsertAt(s, j, k) = SubSeq(s, 1, j - 1) \o <<k>> \o SubSeq(s, j, Len(s))
    BY DEF InsertAt
  <2> QED BY ONLY <2>2, <2>3, <1>1 DEF u, v, w
<1>11. ASSUME NEW i \in 1 .. p PROVE (w \o v)[i] = s[i]
  <2>1. i \in 1 .. p + 1 BY <1>3
  <2> QED BY <2>1, <1>4, <1>7, <1>9 DEF w
<1>12. (w \o v)[p + 1] = k
  <2>1. p + 1 \in 1 .. p + 1 /\ 1 \in 1 .. 1 BY <1>3
  <2> QED BY ONLY <2>1, <1>6, <1>7, <1>9 DEF w
<1>13. ASSUME NEW i \in p + 1 .. n PROVE (w \o v)[i + 1] = s[i]
  <2>1. PICK j \in 1 .. q : i = p + j
    <3>1. i - p \in 1 .. q /\ i = p + (i - p) BY <1>2, <1>3
    <3> QED BY <3>1
  <2>2. i + 1 = p + 1 + j BY <2>1, <1>3
  <2>3. (w \o v)[p + 1 + j] = v[j] BY ONLY j \in 1 .. q, <1>9
  <2>4. v[j] = s[p + j] BY ONLY j \in 1 .. q, <1>5
  <2> QED BY ONLY <2>1, <2>2, <2>3, <2>4
<1>14. p + 1 + q = n + 1 BY <1>2, <1>3
<1> QED BY ONLY <1>1, <1>9, <1>10, <1>11, <1>12, <1>13, <1>14

\* What RemoveAt does to a list of children.
LEMMA RemoveAtFacts ==
  ASSUME NEW s \in Seq(Nat), NEW p \in 1 .. Len(s)
  PROVE  /\ RemoveAt(s, p) \in Seq(Nat)
         /\ Len(RemoveAt(s, p)) = Len(s) - 1
         /\ \A i \in 1 .. p - 1 : RemoveAt(s, p)[i] = s[i]
         /\ \A i \in p .. Len(s) - 1 : RemoveAt(s, p)[i] = s[i + 1]
<1>1. PICK n \in Nat : n = Len(s) BY LenProperties
<1>2. PICK k, q \in Nat : p = k + 1 /\ n = k + 1 + q
  <2>1. p - 1 \in Nat /\ p = p - 1 + 1 /\ n - p \in Nat /\ n = p - 1 + 1 + (n - p) BY <1>1
  <2> QED BY <2>1
<1> DEFINE u == SubSeq(s, 1, k)
           v == SubSeq(s, k + 2, n)
<1>3. /\ k + 2 \in Nat /\ 1 <= k + 1 /\ k <= n /\ 1 <= k + 2 /\ k + 2 <= n + 1 /\ n <= n
      /\ 1 \in Nat /\ 1 <= 1
  BY <1>2
<1>4. u \in Seq(Nat) /\ Len(u) = k /\ \A i \in 1 .. k : u[i] = s[i]
  <2>1. /\ u \in Seq(Nat) /\ Len(u) = k - 1 + 1
        /\ \A i \in 1 .. k - 1 + 1 : u[i] = s[1 + i - 1]
    BY ONLY s \in Seq(Nat), n \in Nat, n = Len(s), k \in Nat, <1>3, Slice
  <2>2. k - 1 + 1 = k /\ \A i \in 1 .. k : 1 + i - 1 = i OBVIOUS
  <2> HIDE DEF u
  <2> QED BY <2>1, <2>2
<1>5. v \in Seq(Nat) /\ Len(v) = q /\ \A i \in 1 .. q : v[i] = s[k + 1 + i]
  <2>1. /\ v \in Seq(Nat) /\ Len(v) = n - (k + 2) + 1
        /\ \A i \in 1 .. n - (k + 2) + 1 : v[i] = s[k + 2 + i - 1]
    BY ONLY s \in Seq(Nat), n \in Nat, n = Len(s), <1>3, Slice
  <2>2. n - (k + 2) + 1 = q /\ \A i \in 1 .. q : k + 2 + i - 1 = k + 1 + i BY <1>2
  <2> HIDE DEF v
  <2> QED BY <2>1, <2>2
<1> HIDE DEF u, v
<1>a. u \in Seq(Nat) /\ v \in Seq(Nat) BY <1>4, <1>5
<1>b. Len(u) = k /\ Len(v) = q BY <1>4, <1>5
<1>6. /\ u \o v \in Seq(Nat) /\ Len(u \o v) = k + q
      /\ \A i \in 1 .. k : (u \o v)[i] = u[i]
      /\ \A i \in 1 .. q : (u \o v)[k + i] = v[i]
  BY ONLY <1>a, <1>b, Joined
<1>7. u \o v = RemoveAt(s, p)
  <2>1. p - 1 = k /\ p + 1 = k + 2 BY <1>2
  <2>2. RemoveAt(s, p) = SubSeq(s, 1, p - 1) \o SubSeq(s, p + 1, Len(s))
    BY DEF RemoveAt
  <2> QED BY ONLY <2>1, <2>2, <1>1 DEF u, v
<1>8. ASSUME NEW i \in 1 .. p - 1 PROVE (u \o v)[i] = s[i]
  <2>1. i \in 1 .. k BY <1>2
  <2> QED BY <2>1, <1>4, <1>6
<1>9. ASSUME NEW i \in p .. n - 1 PROVE (u \o v)[i] = s[i + 1]
  <2>1. PICK j \in 1 .. q : i = k + j /\ i + 1 = k + 1 + j
    <3>1. i - k \in 1 .. q /\ i = k + (i - k) /\ i + 1 = k + 1 + (i - k) BY <1>2
    <3> QED BY <3>1
  <2>2. (u \o v)[k + j] = v[j] BY ONLY j \in 1 .. q, <1>6
  <2>3. v[j] = s[k + 1 + j] BY ONLY j \in 1 .. q, <1>5
  <2> QED BY ONLY <2>1, <2>2, <2>3
<1>10. k + q = n - 1 BY <1>2
<1> QED BY ONLY <1>1, <1>6, <1>7, <1>8, <1>9, <1>10

\* What Front does.
LEMMA FrontFacts ==
  ASSUME NEW S, NEW s \in Seq(S), Len(s) >= 1
  PROVE  /\ Front(s) \in Seq(S) /\ Len(Front(s)) = Len(s) - 1
         /\ \A i \in 1 .. Len(s) - 1 : Front(s)[i] = s[i]
<1>0. Len(s) \in Nat /\ \A i \in 1 .. Len(s) : s[i] \in S BY LenProperties, ElementOfSeq
<1> DEFINE n == Len(s) - 1
<1>1. n \in Nat /\ \A i \in 1 .. n : s[i] \in S BY <1>0
<1> HIDE DEF n
<1>2. /\ SubSeq(s, 1, n) \in Seq(S) /\ Len(SubSeq(s, 1, n)) = IF 1 <= n THEN n - 1 + 1 ELSE 0
      /\ \A i \in 1 .. n - 1 + 1 : SubSeq(s, 1, n)[i] = s[1 + i - 1]
  BY <1>1, SubSeqProperties
<1>3. n - 1 + 1 = n /\ \A i \in 1 .. n : 1 + i - 1 = i BY <1>1
<1>4. SubSeq(s, 1, n) \in Seq(S) /\ Len(SubSeq(s, 1, n)) = n /\ \A i \in 1 .. n : SubSeq(s, 1, n)[i] = s[i]
  BY <1>1, <1>2, <1>3
<1>5. Front(s) = SubSeq(s, 1, n) BY DEF Front, n
<1> QED BY <1>4, <1>5 DEF n

-----------------------------------------------------------------------------
(* The tree                                                                 *)

\* A node of the pool.
Cell == [seg : Segs, resource : Nat, parent : Nat, children : Seq(Nat)]

\* Where the node belongs among its siblings.
Kind(ns, n) == Rank[ns[n].seg.kind]

\* The children are nodes that have n as their parent, each once, sorted.
Children(ns, n) ==
  LET kids == ns[n].children
  IN  /\ \A i \in 1 .. Len(kids) : kids[i] \in 2 .. Len(ns) /\ ns[kids[i]].parent = n
      /\ \A i, j \in 1 .. Len(kids) :
           i < j => kids[i] # kids[j] /\ Kind(ns, kids[i]) <= Kind(ns, kids[j])

\* A node is a child of its parent.
Hangs(ns, n) ==
  LET kids == ns[ns[n].parent].children
  IN  \E i \in 1 .. Len(kids) : kids[i] = n

\* The pool is a tree, and K is the key of its nodes.
Tree(ns, K) ==
  /\ ns \in Seq(Cell) /\ Len(ns) >= 1
  /\ K \in [1 .. Len(ns) -> Seq(Segs)]
  /\ K[1] = <<>>
  /\ \A n \in 2 .. Len(ns) :
       /\ ns[n].parent \in 1 .. n - 1
       /\ K[n] = Append(K[ns[n].parent], KeySeg(ns[n].seg))
       /\ Hangs(ns, n)
  /\ \A m, n \in 1 .. Len(ns) : K[m] = K[n] => m = n
  /\ \A n \in 1 .. Len(ns) : Children(ns, n)

\* The nodes of a pool have segments, ranked by an integer.
LEMMA KindInt ==
  ASSUME NEW ns \in Seq(Cell), NEW n \in 1 .. Len(ns)
  PROVE  Kind(ns, n) \in Int /\ ns[n].seg \in Segs /\ KeySeg(ns[n].seg) \in Segs
<1>1. ns[n] \in Cell BY ElementOfSeq
<1>2. ns[n].seg \in Segs BY <1>1 DEF Cell
<1> QED BY <1>2, SegFacts DEF Kind

\* A key and one more segment.
LEMMA AppendKey ==
  ASSUME NEW s \in Seq(Segs), NEW a \in Segs
  PROVE  Append(s, a) \in Seq(Segs) /\ Append(s, a) # <<>>
<1>1. Append(s, a) \in Seq(Segs) /\ Len(Append(s, a)) = Len(s) + 1
  BY AppendProperties
<1>2. Len(s) \in Nat /\ Len(<<>>) = 0 BY LenProperties
<1> QED BY <1>1, <1>2

\* The last segment of a key and the rest are unique.
LEMMA AppendSplits ==
  ASSUME NEW s \in Seq(Segs), NEW a \in Segs, NEW u \in Seq(Segs), NEW b \in Segs,
         Append(s, a) = Append(u, b)
  PROVE  s = u /\ a = b
<1>1. /\ Len(Append(s, a)) = Len(s) + 1 /\ Append(s, a)[Len(s) + 1] = a
      /\ \A i \in 1 .. Len(s) : Append(s, a)[i] = s[i]
  BY AppendProperties
<1>2. /\ Len(Append(u, b)) = Len(u) + 1 /\ Append(u, b)[Len(u) + 1] = b
      /\ \A i \in 1 .. Len(u) : Append(u, b)[i] = u[i]
  BY AppendProperties
<1>3. Len(s) \in Nat /\ Len(u) \in Nat BY LenProperties
<1>4. Len(s) = Len(u) BY <1>1, <1>2, <1>3
<1>5. \A i \in 1 .. Len(s) : s[i] = u[i] BY <1>1, <1>2, <1>4
<1>6. s = u BY <1>4, <1>5, SeqEqual
<1> QED BY ONLY <1>6, <1>1, <1>2, Append(s, a) = Append(u, b)

\* ms is ns and a leaf more, between the first p of the M children of cur and the
\* others.
Grown(ns, ms, N, cur, M, p) ==
  /\ Len(ns) = N /\ Len(ms) = N + 1
  /\ \A n \in 1 .. N : ms[n].seg = ns[n].seg /\ ms[n].parent = ns[n].parent
  /\ \A n \in 1 .. N : n # cur => ms[n].children = ns[n].children
  /\ ms[N + 1].parent = cur /\ ms[N + 1].children = <<>>
  /\ Len(ns[cur].children) = M /\ Len(ms[cur].children) = M + 1
  /\ ms[cur].children[p + 1] = N + 1
  /\ \A i \in 1 .. p :
       /\ ms[cur].children[i] = ns[cur].children[i]
       /\ Kind(ns, ns[cur].children[i]) <= Kind(ms, N + 1)
  /\ \A i \in p + 1 .. M :
       /\ ms[cur].children[i + 1] = ns[cur].children[i]
       /\ Kind(ms, N + 1) <= Kind(ns, ns[cur].children[i])

\* The children of the node that gets the new one are children still, sorted.
LEMMA GrowChildren ==
  ASSUME NEW ns \in Seq(Cell), NEW ms \in Seq(Cell), NEW N \in Nat, NEW cur \in 1 .. N,
         NEW M \in Nat, NEW p \in 0 .. M, Grown(ns, ms, N, cur, M, p), Children(ns, cur)
  PROVE  Children(ms, cur)
<1> DEFINE kids == ns[cur].children
           more == ms[cur].children
<1>0. /\ Len(ns) = N /\ Len(ms) = N + 1 /\ Len(kids) = M /\ Len(more) = M + 1
      /\ \A n \in 1 .. N : ms[n].seg = ns[n].seg /\ ms[n].parent = ns[n].parent
      /\ ms[N + 1].parent = cur /\ more[p + 1] = N + 1
      /\ \A i \in 1 .. p : more[i] = kids[i] /\ Kind(ns, kids[i]) <= Kind(ms, N + 1)
      /\ \A i \in p + 1 .. M : more[i + 1] = kids[i] /\ Kind(ms, N + 1) <= Kind(ns, kids[i])
  BY DEF Grown
<1>1. /\ \A i \in 1 .. M : kids[i] \in 2 .. N /\ ns[kids[i]].parent = cur
      /\ \A i, j \in 1 .. M : i < j => kids[i] # kids[j] /\ Kind(ns, kids[i]) <= Kind(ns, kids[j])
  <2>1. Len(ns[cur].children) = M /\ Len(ns) = N BY <1>0
  <2> QED BY ONLY <2>1, Children(ns, cur), Zenon DEF Children
<1>2. \A n \in 1 .. N : Kind(ms, n) = Kind(ns, n) BY <1>0 DEF Kind
<1>3. \A n \in 1 .. N + 1 : Kind(ms, n) \in Int BY <1>0, KindInt
<1> HIDE DEF kids, more
<1>4. ASSUME NEW i \in 1 .. M + 1
      PROVE  \/ i \in 1 .. p /\ i \in 1 .. M /\ more[i] = kids[i] /\ Kind(ms, kids[i]) <= Kind(ms, N + 1)
             \/ i = p + 1 /\ more[i] = N + 1
             \/ i - 1 \in p + 1 .. M /\ i - 1 \in 1 .. M /\ more[i] = kids[i - 1]
                /\ Kind(ms, N + 1) <= Kind(ms, kids[i - 1])
  <2>1. CASE i <= p
    <3>1. i \in 1 .. p /\ i \in 1 .. M BY <2>1
    <3>2. kids[i] \in 1 .. N BY <1>1, <3>1
    <3> QED BY <1>0, <1>2, <3>1, <3>2
  <2>2. CASE i = p + 1
    BY <1>0, <2>2
  <2>3. CASE i > p + 1
    <3>1. i - 1 \in p + 1 .. M /\ i - 1 \in 1 .. M /\ i - 1 + 1 = i BY <2>3
    <3>2. kids[i - 1] \in 1 .. N BY <1>1, <3>1
    <3>3. more[i - 1 + 1] = kids[i - 1] /\ Kind(ms, N + 1) <= Kind(ns, kids[i - 1])
      BY ONLY <1>0, <3>1
    <3>4. Kind(ms, kids[i - 1]) = Kind(ns, kids[i - 1]) BY <1>2, <3>2
    <3> QED BY ONLY <3>1, <3>3, <3>4
  <2> QED BY <2>1, <2>2, <2>3
<1>5. ASSUME NEW i \in 1 .. M + 1 PROVE more[i] \in 2 .. N + 1 /\ ms[more[i]].parent = cur
  <2>1. CASE more[i] = N + 1
    BY <1>0, <2>1
  <2>2. ASSUME NEW j \in 1 .. M, more[i] = kids[j] PROVE more[i] \in 2 .. N + 1 /\ ms[more[i]].parent = cur
    <3>1. kids[j] \in 2 .. N /\ ns[kids[j]].parent = cur BY <1>1
    <3>2. kids[j] \in 1 .. N /\ kids[j] \in 2 .. N + 1 BY <3>1
    <3> QED BY <1>0, <2>2, <3>1, <3>2
  <2> QED BY <1>4, <2>1, <2>2
<1>6. ASSUME NEW i \in 1 .. M + 1, NEW j \in 1 .. M + 1, i < j
      PROVE  more[i] # more[j] /\ Kind(ms, more[i]) <= Kind(ms, more[j])
  <2>0. \A k, l \in 1 .. M : k < l => kids[k] # kids[l] /\ Kind(ms, kids[k]) <= Kind(ms, kids[l])
    <3> SUFFICES ASSUME NEW k \in 1 .. M, NEW l \in 1 .. M, k < l
                 PROVE  kids[k] # kids[l] /\ Kind(ms, kids[k]) <= Kind(ms, kids[l])
      OBVIOUS
    <3>1. kids[k] \in 1 .. N /\ kids[l] \in 1 .. N BY <1>1
    <3> QED BY <3>1, <1>1, <1>2
  <2>1. \A k \in 1 .. M : kids[k] # N + 1 /\ Kind(ms, kids[k]) \in Int
    <3> SUFFICES ASSUME NEW k \in 1 .. M PROVE kids[k] # N + 1 /\ Kind(ms, kids[k]) \in Int
      OBVIOUS
    <3>1. kids[k] \in 2 .. N BY <1>1
    <3>2. kids[k] # N + 1 /\ kids[k] \in 1 .. N BY ONLY <3>1, N \in Nat
    <3> QED BY <3>2, <1>3
  <2>2. CASE i \in 1 .. p
    <3>1. i \in 1 .. M /\ more[i] = kids[i] /\ Kind(ms, kids[i]) <= Kind(ms, N + 1)
      BY <1>4, <2>2
    <3>2. CASE j \in 1 .. p
      <4>1. j \in 1 .. M /\ more[j] = kids[j] BY <1>4, <3>2
      <4>2. kids[i] # kids[j] /\ Kind(ms, kids[i]) <= Kind(ms, kids[j])
        BY ONLY <3>1, <4>1, <2>0, i < j
      <4> QED BY ONLY <3>1, <4>1, <4>2
    <3>3. CASE j = p + 1
      <4>1. more[j] = N + 1 BY <1>4, <3>3
      <4> QED BY <3>1, <4>1, <2>1
    <3>4. CASE j - 1 \in p + 1 .. M
      <4>1. j - 1 \in 1 .. M /\ more[j] = kids[j - 1] /\ i < j - 1 BY <1>4, <3>4, <2>2
      <4> QED BY <3>1, <4>1, <2>0
    <3> QED BY <3>2, <3>3, <3>4
  <2>3. CASE i = p + 1
    <3>1. more[i] = N + 1 BY <1>4, <2>3
    <3>2. j - 1 \in 1 .. M /\ more[j] = kids[j - 1] /\ Kind(ms, N + 1) <= Kind(ms, kids[j - 1])
      <4>1. ~(j \in 1 .. p) /\ j # p + 1 BY <1>6, <2>3
      <4> QED BY <4>1, <1>4
    <3> QED BY <3>1, <3>2, <2>1
  <2>4. CASE i - 1 \in p + 1 .. M
    <3>1. i - 1 \in 1 .. M /\ more[i] = kids[i - 1] BY <1>4, <2>4
    <3>2. j - 1 \in 1 .. M /\ more[j] = kids[j - 1] /\ i - 1 < j - 1 BY <1>4, <1>6, <2>4
    <3>3. kids[i - 1] # kids[j - 1] /\ Kind(ms, kids[i - 1]) <= Kind(ms, kids[j - 1])
      BY ONLY <3>1, <3>2, <2>0
    <3> QED BY ONLY <3>1, <3>2, <3>3
  <2> QED BY <2>2, <2>3, <2>4
<1> QED BY <1>0, <1>5, <1>6 DEF Children, more

\* A node whose children have not changed has them still.
LEMMA ChildrenKept ==
  ASSUME NEW ns, NEW ms, NEW n, Children(ns, n), ms[n].children = ns[n].children,
         \A i \in 1 .. Len(ns[n].children) :
           LET k == ns[n].children[i]
           IN  k \in 2 .. Len(ms) /\ ms[k].seg = ns[k].seg /\ ms[k].parent = ns[k].parent
  PROVE  Children(ms, n)
<1>k. PICK kids : kids = ns[n].children OBVIOUS
<1>1. \A i \in 1 .. Len(kids) :
        /\ kids[i] \in 2 .. Len(ms) /\ ms[kids[i]].parent = n
        /\ Kind(ms, kids[i]) = Kind(ns, kids[i])
  BY <1>k DEF Children, Kind
<1>2. \A i, j \in 1 .. Len(kids) :
        i < j => kids[i] # kids[j] /\ Kind(ns, kids[i]) <= Kind(ns, kids[j])
  BY <1>k DEF Children
<1>3. ms[n].children = kids BY ONLY <1>k, ms[n].children = ns[n].children
<1> QED BY ONLY <1>1, <1>2, <1>3 DEF Children

\* The keys of the nodes after a child of cur has been added.
Longer(K, N, cur, key) ==
  [n \in 1 .. N + 1 |-> IF n = N + 1 THEN Append(K[cur], key) ELSE K[n]]

\* A tree with a leaf more is a tree.
LEMMA Grow ==
  ASSUME NEW ns, NEW K, Tree(ns, K), NEW ms \in Seq(Cell), NEW N \in Nat, NEW cur \in 1 .. N,
         NEW M \in Nat, NEW p \in 0 .. M, Grown(ns, ms, N, cur, M, p),
         \A i \in 1 .. M : KeySeg(ns[ns[cur].children[i]].seg) # KeySeg(ms[N + 1].seg)
  PROVE  Tree(ms, Longer(K, N, cur, KeySeg(ms[N + 1].seg)))
<1> DEFINE new == KeySeg(ms[N + 1].seg)
           L == Longer(K, N, cur, new)
<1>0. \A n \in 1 .. N + 1 : n = N + 1 \/ n \in 1 .. N BY ONLY N \in Nat
<1>a. /\ Len(ns) = N /\ Len(ms) = N + 1 /\ Len(ns[cur].children) = M
      /\ \A n \in 1 .. N : ms[n].seg = ns[n].seg /\ ms[n].parent = ns[n].parent
      /\ \A n \in 1 .. N : n # cur => ms[n].children = ns[n].children
      /\ ms[N + 1].parent = cur /\ ms[N + 1].children = <<>>
  BY DEF Grown
<1>1. /\ ns \in Seq(Cell) /\ N >= 1
      /\ K \in [1 .. N -> Seq(Segs)] /\ K[1] = <<>>
      /\ \A n \in 2 .. N :
           /\ ns[n].parent \in 1 .. n - 1
           /\ K[n] = Append(K[ns[n].parent], KeySeg(ns[n].seg))
           /\ Hangs(ns, n)
      /\ \A m, n \in 1 .. N : K[m] = K[n] => m = n
      /\ \A n \in 1 .. N : Children(ns, n)
  BY <1>a DEF Tree
<1>b. Children(ms, cur)
  <2>1. Children(ns, cur) /\ ns \in Seq(Cell) BY <1>1
  <2> QED BY <2>1, GrowChildren, Zenon
<1>c. ASSUME NEW i \in 1 .. M
      PROVE  \E j \in 1 .. Len(ms[cur].children) : ms[cur].children[j] = ns[cur].children[i]
  <2>1. CASE i \in 1 .. p
    <3>1. i \in 1 .. M + 1 OBVIOUS
    <3> QED BY <2>1, <3>1 DEF Grown
  <2>2. CASE i \in p + 1 .. M
    <3>1. i + 1 \in 1 .. M + 1 OBVIOUS
    <3> QED BY <2>2, <3>1 DEF Grown
  <2> QED BY <2>1, <2>2
<1>d. \E j \in 1 .. Len(ms[cur].children) : ms[cur].children[j] = N + 1
  <2>1. p + 1 \in 1 .. M + 1 OBVIOUS
  <2> QED BY <2>1 DEF Grown
<1>2. new \in Segs /\ \A n \in 1 .. N : KeySeg(ns[n].seg) \in Segs
  <2>1. N + 1 \in 1 .. Len(ms) BY <1>a
  <2> QED BY <1>1, <1>a, <2>1, KindInt
<1>3. /\ L \in [1 .. N + 1 -> Seq(Segs)]
      /\ L[N + 1] = Append(K[cur], new)
      /\ \A n \in 1 .. N : L[n] = K[n]
  <2>1. Append(K[cur], new) \in Seq(Segs) BY <1>1, <1>2, AppendKey
  <2>2. N + 1 \in 1 .. N + 1 /\ \A n \in 1 .. N : n \in 1 .. N + 1 /\ n # N + 1 OBVIOUS
  <2> QED BY <1>0, <1>1, <2>1, <2>2 DEF Longer
<1>4. ASSUME NEW n \in 1 .. N PROVE K[n] # Append(K[cur], new)
  <2>1. CASE n = 1
    BY <1>1, <1>2, <2>1, AppendKey
  <2>2. CASE n \in 2 .. N
    <3>0. ns[n].parent \in 1 .. n - 1 BY <1>1, <2>2
    <3>a. ns[n].parent \in 1 .. N BY ONLY <3>0, <2>2, N \in Nat
    <3>1. PICK m \in 1 .. N : m = ns[n].parent BY <3>a
    <3>2. K[n] = Append(K[m], KeySeg(ns[n].seg)) BY <1>1, <2>2, <3>1
    <3>3. SUFFICES ASSUME K[n] = Append(K[cur], new) PROVE FALSE OBVIOUS
    <3>4. K[m] \in Seq(Segs) /\ K[cur] \in Seq(Segs) BY <1>1
    <3>5. Append(K[cur], new) = Append(K[m], KeySeg(ns[n].seg)) BY <3>2, <3>3
    <3>5a. KeySeg(ns[n].seg) \in Segs BY <1>2
    <3>6. K[cur] = K[m] /\ new = KeySeg(ns[n].seg)
      <4> HIDE DEF new
      <4>1. PICK u, v \in Seq(Segs) : u = K[cur] /\ v = K[m] BY <3>4
      <4>2. PICK a, b \in Segs : a = new /\ b = KeySeg(ns[n].seg) BY <3>5a, <1>2
      <4>3. Append(u, a) = Append(v, b) BY ONLY <3>5, <4>1, <4>2
      <4>4. u = v /\ a = b BY ONLY <4>3, u \in Seq(Segs), v \in Seq(Segs), a \in Segs, b \in Segs, AppendSplits
      <4> QED BY ONLY <4>1, <4>2, <4>4
    <3>7. m = cur BY <1>1, <3>6
    <3>8. PICK i \in 1 .. Len(ns[cur].children) : ns[cur].children[i] = n
      <4>1. Hangs(ns, n) BY <1>1, <2>2
      <4> QED BY ONLY <4>1, <3>1, <3>7 DEF Hangs
    <3> QED BY <1>a, <3>6, <3>8
  <2> QED BY <2>1, <2>2
<1> HIDE DEF L
<1>5. L[1] = <<>> BY <1>1, <1>3
<1>6. ASSUME NEW n \in 2 .. N + 1
      PROVE  /\ ms[n].parent \in 1 .. n - 1
             /\ L[n] = Append(L[ms[n].parent], KeySeg(ms[n].seg))
             /\ Hangs(ms, n)
  <2>1. CASE n = N + 1
    <3>1. ms[n].parent = cur /\ cur \in 1 .. n - 1 BY <1>a, <2>1
    <3>2. L[n] = Append(L[cur], KeySeg(ms[n].seg)) BY <1>3, <2>1
    <3>3. Hangs(ms, n) BY <1>d, <2>1, <3>1 DEF Hangs
    <3> QED BY ONLY <3>1, <3>2, <3>3
  <2>2. CASE n \in 2 .. N
    <3>1. n \in 1 .. N /\ ms[n].parent = ns[n].parent /\ ms[n].seg = ns[n].seg BY <1>a, <2>2
    <3>a. ns[n].parent \in 1 .. n - 1 BY <1>1, <2>2
    <3>b. ns[n].parent \in 1 .. N BY ONLY <3>a, <2>2, N \in Nat
    <3>2. PICK m \in 1 .. N : m = ns[n].parent /\ m \in 1 .. n - 1 BY <3>a, <3>b
    <3>3. K[n] = Append(K[m], KeySeg(ns[n].seg)) BY <1>1, <2>2, <3>2
    <3>4. L[n] = K[n] /\ L[m] = K[m] BY <1>3, <3>1
    <3>5. PICK i \in 1 .. Len(ns[m].children) : ns[m].children[i] = n
      BY <1>1, <2>2, <3>2 DEF Hangs
    <3>6. \E i1 \in 1 .. Len(ms[m].children) : ms[m].children[i1] = n
      <4>1. CASE m = cur
        BY <1>a, <1>c, <3>5, <4>1
      <4>2. CASE m # cur
        <5>1. ms[m].children = ns[m].children BY <1>a, <4>2
        <5> QED BY <5>1, <3>5
      <4> QED BY <4>1, <4>2
    <3>7. Hangs(ms, n) BY <3>1, <3>2, <3>6 DEF Hangs
    <3> QED BY ONLY <3>1, <3>2, <3>3, <3>4, <3>7
  <2> QED BY <2>1, <2>2
<1>7. ASSUME NEW m \in 1 .. N + 1, NEW n \in 1 .. N + 1, L[m] = L[n] PROVE m = n
  <2>1. (m = N + 1 \/ m \in 1 .. N) /\ (n = N + 1 \/ n \in 1 .. N) BY <1>0
  <2> HIDE DEF new
  <2>2. CASE m = N + 1 /\ n \in 1 .. N
    <3>1. K[n] = Append(K[cur], new) BY ONLY <1>3, <1>7, <2>2
    <3> QED BY ONLY <1>4, <2>2, <3>1
  <2>3. CASE n = N + 1 /\ m \in 1 .. N
    <3>1. K[m] = Append(K[cur], new) BY ONLY <1>3, <1>7, <2>3
    <3> QED BY ONLY <1>4, <2>3, <3>1
  <2>4. CASE m \in 1 .. N /\ n \in 1 .. N
    <3>1. K[m] = K[n] BY ONLY <1>3, <1>7, <2>4
    <3> QED BY ONLY <1>1, <2>4, <3>1
  <2> QED BY ONLY <2>1, <2>2, <2>3, <2>4
<1>8. ASSUME NEW n \in 1 .. N + 1 PROVE Children(ms, n)
  <2>1. CASE n = cur
    BY <1>b, <2>1
  <2>2. CASE n = N + 1
    <3>1. Len(ms[n].children) = 0 BY <1>a, <2>2
    <3> QED BY <3>1 DEF Children
  <2>3. CASE n \in 1 .. N /\ n # cur
    <3>1. Children(ns, n) /\ ms[n].children = ns[n].children BY <1>1, <1>a, <2>3
    <3>2. ASSUME NEW i \in 1 .. Len(ns[n].children)
          PROVE  LET k == ns[n].children[i]
                 IN  k \in 2 .. Len(ms) /\ ms[k].seg = ns[k].seg /\ ms[k].parent = ns[k].parent
      <4>1. ns[n].children[i] \in 2 .. N BY <1>a, <3>1 DEF Children
      <4>2. PICK k \in 2 .. N : k = ns[n].children[i] BY <4>1
      <4>3. k \in 1 .. N /\ k \in 2 .. Len(ms) BY <1>a
      <4> QED BY <1>a, <4>2, <4>3
    <3> QED BY ONLY <3>1, <3>2, ChildrenKept
  <2> QED BY ONLY <1>0, n \in 1 .. N + 1, <2>1, <2>2, <2>3
<1>9. N + 1 >= 1 OBVIOUS
<1> QED BY ONLY <1>3, <1>5, <1>6, <1>7, <1>8, <1>9, <1>a, ms \in Seq(Cell) DEF Tree, L, new

\* ms is ns without its last node, the q-th of the M children of p.
Pruned(ns, ms, N, p, M, q) ==
  /\ Len(ns) = N /\ Len(ms) = N - 1
  /\ \A n \in 1 .. N - 1 : ms[n].seg = ns[n].seg /\ ms[n].parent = ns[n].parent
  /\ \A n \in 1 .. N - 1 : n # p => ms[n].children = ns[n].children
  /\ Len(ns[p].children) = M /\ Len(ms[p].children) = M - 1
  /\ ns[p].children[q] = N
  /\ \A i \in 1 .. q - 1 : ms[p].children[i] = ns[p].children[i]
  /\ \A i \in q .. M - 1 : ms[p].children[i] = ns[p].children[i + 1]

\* The children of the node that loses one are children still, sorted.
LEMMA PruneChildren ==
  ASSUME NEW ns, NEW ms, NEW N \in Nat, NEW p \in 1 .. N, NEW M \in Nat, NEW q \in 1 .. M,
         Pruned(ns, ms, N, p, M, q), Children(ns, p)
  PROVE  Children(ms, p)
<1> DEFINE kids == ns[p].children
           less == ms[p].children
           From(i) == IF i < q THEN i ELSE i + 1
<1>0. /\ Len(ns) = N /\ Len(ms) = N - 1 /\ Len(kids) = M
      /\ \A n \in 1 .. N - 1 : ms[n].seg = ns[n].seg /\ ms[n].parent = ns[n].parent
      /\ \A i \in 1 .. q - 1 : less[i] = kids[i]
      /\ \A i \in q .. M - 1 : less[i] = kids[i + 1]
  BY DEF Pruned
<1>1. /\ \A i \in 1 .. M : kids[i] \in 2 .. N /\ ns[kids[i]].parent = p
      /\ \A i, j \in 1 .. M : i < j => kids[i] # kids[j] /\ Kind(ns, kids[i]) <= Kind(ns, kids[j])
  BY <1>0 DEF Children
<1>2. kids[q] = N /\ Len(less) = M - 1 BY DEF Pruned
<1>3. ASSUME NEW i \in 1 .. M - 1 PROVE From(i) \in 1 .. M /\ From(i) # q /\ less[i] = kids[From(i)]
  <2>1. CASE i < q
    <3>1. i \in 1 .. q - 1 /\ i \in 1 .. M /\ i # q BY <2>1
    <3> QED BY <1>0, <2>1, <3>1
  <2>2. CASE ~(i < q)
    <3>1. i \in q .. M - 1 /\ i + 1 \in 1 .. M /\ i + 1 # q BY <2>2
    <3> QED BY <1>0, <2>2, <3>1
  <2> QED BY <2>1, <2>2
<1>4. ASSUME NEW i \in 1 .. M - 1, NEW j \in 1 .. M - 1, i < j PROVE From(i) < From(j)
  BY <1>4
<1> HIDE DEF kids, less, From
<1>6. ASSUME NEW i \in 1 .. M, i # q
      PROVE  kids[i] \in 2 .. N - 1 /\ ms[kids[i]].parent = p /\ Kind(ms, kids[i]) = Kind(ns, kids[i])
  <2>1. kids[i] # N
    <3>1. CASE i < q
      BY <1>1, <1>2, <3>1
    <3>2. CASE q < i
      BY <1>1, <1>2, <3>2
    <3> QED BY <1>6, <3>1, <3>2
  <2>2. PICK k \in 2 .. N - 1 : k = kids[i]
    <3>1. kids[i] \in 2 .. N BY <1>1
    <3>2. kids[i] \in 2 .. N - 1 BY <2>1, <3>1
    <3> QED BY <3>2
  <2>3. k \in 1 .. N - 1 OBVIOUS
  <2>4. ms[k].parent = p /\ Kind(ms, k) = Kind(ns, k) BY <1>0, <1>1, <2>2, <2>3 DEF Kind
  <2> QED BY <2>2, <2>4
<1>7. ASSUME NEW i \in 1 .. M - 1 PROVE less[i] \in 2 .. N - 1 /\ ms[less[i]].parent = p
  <2>1. From(i) \in 1 .. M /\ From(i) # q /\ less[i] = kids[From(i)] BY <1>3
  <2> QED BY <1>6, <2>1
<1>8. ASSUME NEW i \in 1 .. M - 1, NEW j \in 1 .. M - 1, i < j
      PROVE  less[i] # less[j] /\ Kind(ms, less[i]) <= Kind(ms, less[j])
  <2>1. PICK k, l \in 1 .. M : k = From(i) /\ l = From(j) BY <1>3
  <2>2. k # q /\ l # q /\ less[i] = kids[k] /\ less[j] = kids[l] BY <1>3, <2>1
  <2>3. k < l BY <1>4, <1>8, <2>1
  <2>4. kids[k] # kids[l] /\ Kind(ns, kids[k]) <= Kind(ns, kids[l]) BY <1>1, <2>3
  <2>5. Kind(ms, kids[k]) = Kind(ns, kids[k]) /\ Kind(ms, kids[l]) = Kind(ns, kids[l]) BY <1>6, <2>2
  <2> QED BY ONLY <2>2, <2>4, <2>5
<1> QED
  BY ONLY <1>0, <1>2, <1>7, <1>8 DEF Children, less

\* The keys of the nodes without the last one.
Shorter(K, N) == [n \in 1 .. N - 1 |-> K[n]]

\* A tree without its last node, which is a leaf, is a tree.
LEMMA Prune ==
  ASSUME NEW ns, NEW K, Tree(ns, K), NEW ms \in Seq(Cell), NEW N \in Nat, N >= 2,
         NEW p \in 1 .. N, NEW M \in Nat, NEW q \in 1 .. M,
         Pruned(ns, ms, N, p, M, q), ns[N].children = <<>>, ns[N].parent = p
  PROVE  Tree(ms, Shorter(K, N))
<1> DEFINE L == Shorter(K, N)
<1>0. /\ Len(ns) = N /\ Len(ms) = N - 1 /\ Len(ns[p].children) = M /\ Len(ms[p].children) = M - 1
      /\ \A n \in 1 .. N - 1 : ms[n].seg = ns[n].seg /\ ms[n].parent = ns[n].parent
      /\ \A n \in 1 .. N - 1 : n # p => ms[n].children = ns[n].children
      /\ ns[p].children[q] = N
  BY DEF Pruned
<1>1. /\ ns \in Seq(Cell) /\ N >= 1
      /\ K \in [1 .. N -> Seq(Segs)] /\ K[1] = <<>>
      /\ \A n \in 2 .. N :
           /\ ns[n].parent \in 1 .. n - 1
           /\ K[n] = Append(K[ns[n].parent], KeySeg(ns[n].seg))
           /\ Hangs(ns, n)
      /\ \A m, n \in 1 .. N : K[m] = K[n] => m = n
      /\ \A n \in 1 .. N : Children(ns, n)
  BY <1>0 DEF Tree
<1>2. Children(ns, p) BY <1>1
<1>3. Children(ms, p) BY <1>2, PruneChildren, Zenon
<1>4. L \in [1 .. N - 1 -> Seq(Segs)] /\ \A n \in 1 .. N - 1 : L[n] = K[n] /\ n \in 1 .. N
  <2>1. \A n \in 1 .. N - 1 : n \in 1 .. N BY ONLY N \in Nat
  <2>2. \A n \in 1 .. N - 1 : K[n] \in Seq(Segs) BY <1>1, <2>1
  <2> QED BY ONLY <2>1, <2>2 DEF L, Shorter
<1> HIDE DEF L
<1>5. L[1] = <<>>
  <2>1. 1 \in 1 .. N - 1 OBVIOUS
  <2> QED BY <2>1, <1>1, <1>4
<1>6. ASSUME NEW n \in 2 .. N - 1
      PROVE  /\ ms[n].parent \in 1 .. n - 1
             /\ L[n] = Append(L[ms[n].parent], KeySeg(ms[n].seg))
             /\ Hangs(ms, n)
  <2>1. n \in 1 .. N - 1 /\ n \in 2 .. N /\ n # N OBVIOUS
  <2>2. ms[n].parent = ns[n].parent /\ ms[n].seg = ns[n].seg BY <1>0, <2>1
  <2>3. PICK m \in 1 .. n - 1 : m = ns[n].parent BY <1>1, <2>1
  <2>4. m \in 1 .. N - 1 OBVIOUS
  <2>5. K[n] = Append(K[m], KeySeg(ns[n].seg)) /\ Hangs(ns, n) BY <1>1, <2>1, <2>3
  <2>6. PICK i \in 1 .. Len(ns[m].children) : ns[m].children[i] = n BY <2>3, <2>5 DEF Hangs
  <2>7. \E j \in 1 .. Len(ms[m].children) : ms[m].children[j] = n
    <3>1. CASE m = p
      <4>1. i \in 1 .. M /\ i # q BY <1>0, <2>1, <2>6, <3>1
      <4>2. PICK j \in 1 .. M - 1 : ms[p].children[j] = ns[p].children[i]
        <5>1. CASE i < q
          <6>1. i \in 1 .. q - 1 /\ i \in 1 .. M - 1 BY <4>1, <5>1
          <6> QED BY <6>1 DEF Pruned
        <5>2. CASE i > q
          <6>1. i - 1 \in q .. M - 1 /\ i - 1 \in 1 .. M - 1 /\ i - 1 + 1 = i BY <4>1, <5>2
          <6>2. ms[p].children[i - 1] = ns[p].children[i - 1 + 1] BY <6>1 DEF Pruned
          <6> QED BY <6>1, <6>2
        <5> QED BY <4>1, <5>1, <5>2
      <4> QED BY <1>0, <4>2, <2>6, <3>1
    <3>2. CASE m # p
      <4>1. ms[m].children = ns[m].children BY <1>0, <2>4, <3>2
      <4> QED BY <4>1, <2>6
    <3> QED BY <3>1, <3>2
  <2>8. Hangs(ms, n) BY <2>2, <2>3, <2>7 DEF Hangs
  <2>9. L[n] = K[n] /\ L[m] = K[m] BY <1>4, <2>1, <2>4
  <2> QED BY ONLY <2>2, <2>3, <2>5, <2>8, <2>9
<1>7. ASSUME NEW m \in 1 .. N - 1, NEW n \in 1 .. N - 1, L[m] = L[n] PROVE m = n
  BY <1>1, <1>4, <1>7
<1>8. ASSUME NEW n \in 1 .. N - 1 PROVE Children(ms, n)
  <2>1. CASE n = p
    BY <2>1, <1>3
  <2>2. CASE n # p
    <3>0. n \in 1 .. N OBVIOUS
    <3>1. Children(ns, n) /\ ms[n].children = ns[n].children BY <1>0, <1>1, <2>2, <3>0
    <3>2. ASSUME NEW i \in 1 .. Len(ns[n].children)
          PROVE  LET k == ns[n].children[i]
                 IN  k \in 2 .. Len(ms) /\ ms[k].seg = ns[k].seg /\ ms[k].parent = ns[k].parent
      <4>1. ns[n].children[i] \in 2 .. N /\ ns[ns[n].children[i]].parent = n BY <1>0, <3>1 DEF Children
      <4>2. ns[n].children[i] # N BY <4>1, <2>2
      <4>3. PICK k \in 2 .. N - 1 : k = ns[n].children[i] BY <4>1, <4>2
      <4>4. k \in 1 .. N - 1 /\ k \in 2 .. Len(ms) BY <1>0
      <4> QED BY <1>0, <4>3, <4>4
    <3> QED BY ONLY <3>1, <3>2, ChildrenKept
  <2> QED BY <2>1, <2>2
<1>9. N - 1 >= 1 OBVIOUS
<1> QED BY ONLY <1>0, <1>4, <1>5, <1>6, <1>7, <1>8, <1>9, ms \in Seq(Cell) DEF Tree, L

-----------------------------------------------------------------------------
(* What an insertion does to the pool                                       *)

\* ms is ns with other children of n.
Assigned(ns, ms, n, kids) ==
  /\ ms \in Seq(Cell) /\ Len(ms) = Len(ns)
  /\ \A m \in 1 .. Len(ns) : m # n => ms[m] = ns[m]
  /\ ms[n].children = kids
  /\ ms[n].seg = ns[n].seg /\ ms[n].parent = ns[n].parent /\ ms[n].resource = ns[n].resource

\* What assigning the children of a node changes.
LEMMA AssignChildren ==
  ASSUME NEW ns \in Seq(Cell), NEW n \in 1 .. Len(ns), NEW kids \in Seq(Nat)
  PROVE  Assigned(ns, [ns EXCEPT ![n].children = kids], n, kids)
<1> DEFINE ms == [ns EXCEPT ![n].children = kids]
<1>1. ns[n] \in Cell BY ElementOfSeq
<1> DEFINE cell == [ns[n] EXCEPT !.children = kids]
<1>2. /\ cell \in Cell /\ cell.children = kids
      /\ cell.seg = ns[n].seg /\ cell.parent = ns[n].parent /\ cell.resource = ns[n].resource
  BY <1>1 DEF Cell
<1>3. ms = [ns EXCEPT ![n] = cell] OBVIOUS
<1> HIDE DEF cell, ms
<1>4. ms \in Seq(Cell) /\ Len(ms) = Len(ns) /\ \A i \in 1 .. Len(ns) : ms[i] = IF i = n THEN cell ELSE ns[i]
  BY ONLY <1>2, <1>3, ns \in Seq(Cell), n \in 1 .. Len(ns), ExceptSeq
<1>5. Assigned(ns, ms, n, kids)
  BY ONLY <1>2, <1>4, n \in 1 .. Len(ns) DEF Assigned
<1> QED BY <1>5 DEF ms

\* A new node at the end of the pool.
LEMMA AddNode ==
  ASSUME NEW ns \in Seq(Cell), NEW seg \in Segs, NEW cur \in 1 .. Len(ns)
  PROVE  /\ Append(ns, Node(seg, cur)) \in Seq(Cell)
         /\ Len(Append(ns, Node(seg, cur))) = Len(ns) + 1
         /\ \A m \in 1 .. Len(ns) : Append(ns, Node(seg, cur))[m] = ns[m]
         /\ Append(ns, Node(seg, cur))[Len(ns) + 1]
              = [seg |-> seg, resource |-> 0, parent |-> cur, children |-> <<>>]
<1>1. Len(ns) \in Nat BY LenProperties
<1>2. <<>> \in Seq(Nat) BY EmptySeq
<1>3. cur \in Nat BY <1>1
<1>4. Node(seg, cur) \in Cell BY <1>2, <1>3 DEF Cell, Node
<1>5. Node(seg, cur) = [seg |-> seg, resource |-> 0, parent |-> cur, children |-> <<>>] BY DEF Node
<1> QED BY ONLY <1>4, <1>5, ns \in Seq(Cell), AppendProperties

\* SortedInsert puts the new child where the order of the segments wants it.
LEMMA Placed ==
  ASSUME NEW ns, NEW K, Tree(ns, K), NEW N \in Nat, N = Len(ns), NEW cur \in 1 .. N, NEW seg \in Segs,
         NEW as, as = Append(ns, Node(seg, cur)),
         NEW M \in Nat, M = Len(ns[cur].children)
  PROVE  \E p \in 0 .. M :
           /\ SortedInsert(as, ns[cur].children, N + 1) = InsertAt(ns[cur].children, p + 1, N + 1)
           /\ \A i \in 1 .. p : Kind(ns, ns[cur].children[i]) <= Rank[seg.kind]
           /\ \A i \in p + 1 .. M : Rank[seg.kind] <= Kind(ns, ns[cur].children[i])
<1> DEFINE kids == ns[cur].children
           stay == {i \in DOMAIN kids : ~Precedes(as[N + 1].seg, as[kids[i]].seg)}
           p == Max(stay \cup {0})
<1>1. ns \in Seq(Cell) /\ ns[cur] \in Cell BY ElementOfSeq DEF Tree
<1>2. kids \in Seq(Nat) /\ DOMAIN kids = 1 .. M BY <1>1, LenProperties DEF Cell
<1>3. /\ \A i \in 1 .. M : kids[i] \in 1 .. N
      /\ \A i, j \in 1 .. M : i < j => Kind(ns, kids[i]) <= Kind(ns, kids[j])
  <2>1. Children(ns, cur) BY DEF Tree
  <2>2. \A i \in 1 .. M : kids[i] \in 2 .. N BY <2>1 DEF Children
  <2>3. \A k \in 2 .. N : k \in 1 .. N OBVIOUS
  <2>4. \A i, j \in 1 .. M : i < j => Kind(ns, kids[i]) <= Kind(ns, kids[j]) BY <2>1 DEF Children
  <2> QED BY ONLY <2>2, <2>3, <2>4
<1>4. as[N + 1].seg = seg /\ \A m \in 1 .. N : as[m] = ns[m]
  <2>1. cur \in 1 .. Len(ns) /\ ns \in Seq(Cell) BY <1>1
  <2>2. /\ \A m \in 1 .. Len(ns) : Append(ns, Node(seg, cur))[m] = ns[m]
        /\ Append(ns, Node(seg, cur))[Len(ns) + 1]
             = [seg |-> seg, resource |-> 0, parent |-> cur, children |-> <<>>]
    BY ONLY <2>1, seg \in Segs, AddNode
  <2>3. as[N + 1] = [seg |-> seg, resource |-> 0, parent |-> cur, children |-> <<>>]
    BY <2>2
  <2>4. \A m \in 1 .. N : as[m] = ns[m] BY <2>2
  <2> QED BY <2>3, <2>4
<1>5. Rank[seg.kind] \in Int BY SegFacts
<1>6. \A i \in 1 .. M : Kind(ns, kids[i]) \in Int BY <1>1, <1>3, KindInt
<1>7. \A i \in 1 .. M : i \in stay <=> Kind(ns, kids[i]) <= Rank[seg.kind]
  <2> SUFFICES ASSUME NEW i \in 1 .. M PROVE i \in stay <=> Kind(ns, kids[i]) <= Rank[seg.kind]
    OBVIOUS
  <2>1. as[kids[i]] = ns[kids[i]] BY <1>3, <1>4
  <2>2. i \in stay <=> ~(Rank[seg.kind] < Kind(ns, kids[i]))
    BY <1>2, <1>4, <2>1 DEF Precedes, Kind
  <2>3. Kind(ns, kids[i]) \in Int BY <1>6
  <2>4. PICK r, k \in Int : r = Rank[seg.kind] /\ k = Kind(ns, kids[i]) BY <1>5, <2>3
  <2>5. ~(r < k) <=> k <= r OBVIOUS
  <2> HIDE DEF stay, kids
  <2> QED BY ONLY <2>2, <2>4, <2>5
<1>8. stay \cup {0} \in SUBSET (0 .. M) /\ stay \cup {0} # {} BY <1>2
<1>9. SortedInsert(as, kids, N + 1) = InsertAt(kids, p + 1, N + 1) BY DEF SortedInsert
<1> HIDE DEF stay, kids
<1>10. p \in stay \cup {0} /\ \A y \in stay \cup {0} : p >= y
  BY <1>8, Largest
<1> HIDE DEF p
<1>11. p \in 0 .. M BY <1>8, <1>10
<1>12. ASSUME NEW i \in 1 .. p PROVE Kind(ns, kids[i]) <= Rank[seg.kind]
  <2>1. p \in stay /\ p \in 1 .. M /\ i \in 1 .. M BY <1>10, <1>11
  <2>2. Kind(ns, kids[p]) <= Rank[seg.kind] BY <1>7, <2>1
  <2>3. CASE i < p
    <3>1. Kind(ns, kids[i]) <= Kind(ns, kids[p]) BY <1>3, <2>1, <2>3
    <3>2. Kind(ns, kids[i]) \in Int /\ Kind(ns, kids[p]) \in Int BY <1>6, <2>1
    <3> QED BY ONLY <2>2, <3>1, <3>2, <1>5
  <2>4. i < p \/ i = p BY <1>11
  <2> QED BY <2>2, <2>3, <2>4
<1>13. ASSUME NEW i \in p + 1 .. M PROVE Rank[seg.kind] <= Kind(ns, kids[i])
  <2>1. i \in 1 .. M /\ ~(p >= i) BY <1>11
  <2>2. ~(Kind(ns, kids[i]) <= Rank[seg.kind]) BY <1>7, <1>10, <2>1
  <2>3. Kind(ns, kids[i]) \in Int BY <1>6, <2>1
  <2> QED BY ONLY <1>5, <2>2, <2>3
<1> QED BY ONLY <1>9, <1>11, <1>12, <1>13 DEF kids

\* The children that ns has in the first N nodes, but for k, are there in ms.
ChildrenStay(ns, ms, N, k) ==
  \A n \in 1 .. N : \A i \in 1 .. Len(ns[n].children) :
    ns[n].children[i] # k =>
      \E j \in 1 .. Len(ms[n].children) : ms[n].children[j] = ns[n].children[i]

\* ms is as with its node new among the children of cur.
Adopted(as, ms, cur, new) ==
  ms = [as EXCEPT ![cur].children = SortedInsert(as, @, new)]

\* No child of cur is the segment.
Unlike(ns, cur, seg) ==
  \A i \in 1 .. Len(ns[cur].children) : ~Same(ns[ns[cur].children[i]].seg, seg)

\* ms is ns with a new node.
Extended(ns, K, N, cur, seg, ms) ==
  /\ Tree(ms, Longer(K, N, cur, KeySeg(seg)))
  /\ Len(ms) = N + 1
  /\ \A n \in 1 .. N : ms[n].resource = ns[n].resource /\ ms[n].parent = ns[n].parent
  /\ ms[N + 1].resource = 0 /\ ms[N + 1].parent = cur /\ ms[N + 1].children = <<>>
  /\ ChildrenStay(ns, ms, N, 0)
  /\ \E M \in Nat : \E p \in 0 .. M : Grown(ns, ms, N, cur, M, p)

\* Extend.
LEMMA ExtendTree ==
  ASSUME NEW ns, NEW K, Tree(ns, K), NEW N \in Nat, N = Len(ns), NEW cur \in 1 .. N, NEW seg \in Segs,
         NEW as, as = Append(ns, Node(seg, cur)),
         NEW ms, Adopted(as, ms, cur, N + 1), Unlike(ns, cur, seg)
  PROVE  Extended(ns, K, N, cur, seg, ms)
<1>0. \A i \in 1 .. Len(ns[cur].children) : ~Same(ns[ns[cur].children[i]].seg, seg) BY DEF Unlike
<1>1. ns \in Seq(Cell) /\ ns[cur] \in Cell BY ElementOfSeq DEF Tree
<1>2. PICK kids \in Seq(Nat) : kids = ns[cur].children BY <1>1 DEF Cell
<1>3. PICK M \in Nat : M = Len(kids) BY LenProperties
<1>4. /\ as \in Seq(Cell) /\ Len(as) = N + 1 /\ \A m \in 1 .. N : as[m] = ns[m]
      /\ as[N + 1] = [seg |-> seg, resource |-> 0, parent |-> cur, children |-> <<>>]
  <2>1. cur \in 1 .. Len(ns) /\ ns \in Seq(Cell) BY <1>1
  <2>2. /\ Append(ns, Node(seg, cur)) \in Seq(Cell)
        /\ Len(Append(ns, Node(seg, cur))) = Len(ns) + 1
        /\ \A m \in 1 .. Len(ns) : Append(ns, Node(seg, cur))[m] = ns[m]
        /\ Append(ns, Node(seg, cur))[Len(ns) + 1]
             = [seg |-> seg, resource |-> 0, parent |-> cur, children |-> <<>>]
    BY ONLY <2>1, seg \in Segs, AddNode
  <2>3. as \in Seq(Cell) /\ Len(as) = N + 1 BY <2>2
  <2>4. \A m \in 1 .. N : as[m] = ns[m] BY <2>2
  <2>5. as[N + 1] = [seg |-> seg, resource |-> 0, parent |-> cur, children |-> <<>>] BY <2>2
  <2> QED BY <2>3, <2>4, <2>5
<1>5. PICK p \in 0 .. M :
         /\ SortedInsert(as, kids, N + 1) = InsertAt(kids, p + 1, N + 1)
         /\ \A i \in 1 .. p : Kind(ns, kids[i]) <= Rank[seg.kind]
         /\ \A i \in p + 1 .. M : Rank[seg.kind] <= Kind(ns, kids[i])
  <2>1. M = Len(ns[cur].children) BY <1>2, <1>3
  <2>2. \E p \in 0 .. M :
           /\ SortedInsert(as, ns[cur].children, N + 1) = InsertAt(ns[cur].children, p + 1, N + 1)
           /\ \A i \in 1 .. p : Kind(ns, ns[cur].children[i]) <= Rank[seg.kind]
           /\ \A i \in p + 1 .. M : Rank[seg.kind] <= Kind(ns, ns[cur].children[i])
    BY <2>1, Placed, Zenon
  <2> QED BY ONLY <2>2, <1>2
<1>6. PICK more \in Seq(Nat) :
         /\ more = SortedInsert(as, kids, N + 1)
         /\ Len(more) = M + 1
         /\ \A i \in 1 .. p : more[i] = kids[i]
         /\ more[p + 1] = N + 1
         /\ \A i \in p + 1 .. M : more[i + 1] = kids[i]
  <2>1. p \in 0 .. Len(kids) /\ N + 1 \in Nat BY <1>3
  <2>2. /\ InsertAt(kids, p + 1, N + 1) \in Seq(Nat)
        /\ Len(InsertAt(kids, p + 1, N + 1)) = Len(kids) + 1
        /\ \A i \in 1 .. p : InsertAt(kids, p + 1, N + 1)[i] = kids[i]
        /\ InsertAt(kids, p + 1, N + 1)[p + 1] = N + 1
        /\ \A i \in p + 1 .. Len(kids) : InsertAt(kids, p + 1, N + 1)[i + 1] = kids[i]
    <3>1. PICK k \in Nat : k = N + 1 BY <2>1
    <3>2. /\ InsertAt(kids, p + 1, k) \in Seq(Nat)
          /\ Len(InsertAt(kids, p + 1, k)) = Len(kids) + 1
          /\ \A i \in 1 .. p : InsertAt(kids, p + 1, k)[i] = kids[i]
          /\ InsertAt(kids, p + 1, k)[p + 1] = k
          /\ \A i \in p + 1 .. Len(kids) : InsertAt(kids, p + 1, k)[i + 1] = kids[i]
      BY ONLY <2>1, kids \in Seq(Nat), k \in Nat, InsertAtFacts, Zenon
    <3> QED BY ONLY <3>1, <3>2, Zenon
  <2> QED BY ONLY <2>2, <1>3, <1>5
<1>7. ms = [as EXCEPT ![cur].children = more]
  <2>1. as[cur].children = kids BY <1>2, <1>4
  <2> QED BY <2>1, <1>6 DEF Adopted
<1>8. /\ ms \in Seq(Cell) /\ Len(ms) = N + 1
      /\ \A m \in 1 .. N + 1 : m # cur => ms[m] = as[m]
      /\ ms[cur].children = more
      /\ ms[cur].seg = as[cur].seg /\ ms[cur].parent = as[cur].parent /\ ms[cur].resource = as[cur].resource
  <2>1. as \in Seq(Cell) /\ cur \in 1 .. Len(as) BY <1>4
  <2>2. /\ ms \in Seq(Cell) /\ Len(ms) = Len(as)
        /\ \A m \in 1 .. Len(as) : m # cur => ms[m] = as[m]
        /\ ms[cur].children = more
        /\ ms[cur].seg = as[cur].seg /\ ms[cur].parent = as[cur].parent /\ ms[cur].resource = as[cur].resource
    <3>1. Assigned(as, [as EXCEPT ![cur].children = more], cur, more)
      BY ONLY <2>1, more \in Seq(Nat), AssignChildren, Zenon
    <3>2. Assigned(as, ms, cur, more) BY ONLY <1>7, <3>1
    <3> QED BY ONLY <3>2 DEF Assigned
  <2> QED BY ONLY <2>2, <1>4
<1>9. /\ \A n \in 1 .. N : ms[n].seg = ns[n].seg /\ ms[n].parent = ns[n].parent
                           /\ ms[n].resource = ns[n].resource
      /\ \A n \in 1 .. N : n # cur => ms[n].children = ns[n].children
  <2> SUFFICES ASSUME NEW n \in 1 .. N
               PROVE  /\ ms[n].seg = ns[n].seg /\ ms[n].parent = ns[n].parent
                      /\ ms[n].resource = ns[n].resource
                      /\ n # cur => ms[n].children = ns[n].children
    OBVIOUS
  <2>1. n \in 1 .. N + 1 /\ as[n] = ns[n] BY <1>4
  <2>2. CASE n = cur
    BY <1>8, <2>1, <2>2
  <2>3. CASE n # cur
    BY <1>8, <2>1, <2>3
  <2> QED BY <2>2, <2>3
<1>10. ms[N + 1] = [seg |-> seg, resource |-> 0, parent |-> cur, children |-> <<>>]
  <2>1. N + 1 \in 1 .. N + 1 /\ N + 1 # cur OBVIOUS
  <2> QED BY ONLY <2>1, <1>4, <1>8
<1>11. /\ ms[N + 1].seg = seg /\ ms[N + 1].resource = 0 /\ ms[N + 1].parent = cur
       /\ ms[N + 1].children = <<>> /\ Kind(ms, N + 1) = Rank[seg.kind]
  BY ONLY <1>10 DEF Kind
<1>12. Grown(ns, ms, N, cur, M, p)
  <2>1. /\ Len(ns) = N /\ Len(ms) = N + 1
        /\ \A n \in 1 .. N : ms[n].seg = ns[n].seg /\ ms[n].parent = ns[n].parent
        /\ \A n \in 1 .. N : n # cur => ms[n].children = ns[n].children
        /\ ms[N + 1].parent = cur /\ ms[N + 1].children = <<>>
    BY ONLY <1>8, <1>9, <1>11, N = Len(ns)
  <2>2. /\ Len(ns[cur].children) = M /\ Len(ms[cur].children) = M + 1
        /\ ms[cur].children[p + 1] = N + 1
    BY ONLY <1>2, <1>3, <1>6, <1>8
  <2>3. /\ \A i \in 1 .. p :
             /\ ms[cur].children[i] = ns[cur].children[i]
             /\ Kind(ns, ns[cur].children[i]) <= Kind(ms, N + 1)
        /\ \A i \in p + 1 .. M :
             /\ ms[cur].children[i + 1] = ns[cur].children[i]
             /\ Kind(ms, N + 1) <= Kind(ns, ns[cur].children[i])
    BY ONLY <1>2, <1>5, <1>6, <1>8, <1>11
  <2> QED BY ONLY <2>1, <2>2, <2>3 DEF Grown
<1>13. ASSUME NEW i \in 1 .. M PROVE KeySeg(ns[ns[cur].children[i]].seg) # KeySeg(ms[N + 1].seg)
  <2>1. Children(ns, cur) BY DEF Tree
  <2>2. kids[i] \in 2 .. N BY <2>1, <1>2, <1>3 DEF Children
  <2>3. kids[i] \in 1 .. Len(ns) BY <2>2
  <2>4. ns[kids[i]].seg \in Segs BY <1>1, <2>3, KindInt
  <2>5. ~Same(ns[kids[i]].seg, seg) BY <1>0, <1>2, <1>3
  <2>6. KeySeg(ns[kids[i]].seg) # KeySeg(seg) BY ONLY <2>4, <2>5, seg \in Segs, SameKey
  <2> QED BY ONLY <2>6, <1>2, <1>11
<1>14. Tree(ms, Longer(K, N, cur, KeySeg(ms[N + 1].seg)))
  <2>1. ms \in Seq(Cell) BY <1>8
  <2>2. \A i \in 1 .. M : KeySeg(ns[ns[cur].children[i]].seg) # KeySeg(ms[N + 1].seg)
    BY <1>13
  <2> QED BY ONLY Tree(ns, K), N \in Nat, cur \in 1 .. N, M \in Nat, p \in 0 .. M, <2>1, <2>2, <1>12, Grow, Zenon
<1>15. ChildrenStay(ns, ms, N, 0)
  <2> SUFFICES ASSUME NEW n \in 1 .. N, NEW i \in 1 .. Len(ns[n].children)
               PROVE  \E j \in 1 .. Len(ms[n].children) : ms[n].children[j] = ns[n].children[i]
    BY DEF ChildrenStay
  <2>1. CASE n # cur
    <3>1. ms[n].children = ns[n].children BY <1>9, <2>1
    <3> QED BY <3>1
  <2>2. CASE n = cur /\ i \in 1 .. p
    <3>1. i \in 1 .. M + 1 /\ more[i] = kids[i] BY <1>6, <2>2
    <3> QED BY ONLY <3>1, <2>2, <1>2, <1>6, <1>8
  <2>3. CASE n = cur /\ i \in p + 1 .. M
    <3>1. i + 1 \in 1 .. M + 1 /\ more[i + 1] = kids[i] BY <1>6, <2>3
    <3> QED BY ONLY <3>1, <2>3, <1>2, <1>6, <1>8
  <2>4. n = cur => i \in 1 .. M BY <1>2, <1>3
  <2>5. \A k \in 1 .. M : k \in 1 .. p \/ k \in p + 1 .. M OBVIOUS
  <2> QED BY ONLY <2>1, <2>2, <2>3, <2>4, <2>5
<1>16. /\ Tree(ms, Longer(K, N, cur, KeySeg(seg)))
       /\ Len(ms) = N + 1
       /\ \A n \in 1 .. N : ms[n].resource = ns[n].resource /\ ms[n].parent = ns[n].parent
       /\ ms[N + 1].resource = 0 /\ ms[N + 1].parent = cur /\ ms[N + 1].children = <<>>
       /\ ChildrenStay(ns, ms, N, 0)
  BY ONLY <1>8, <1>9, <1>11, <1>14, <1>15
<1>17. \E m \in Nat : \E i \in 0 .. m : Grown(ns, ms, N, cur, m, i)
  BY ONLY <1>12, M \in Nat, p \in 0 .. M, Zenon
<1> QED BY ONLY <1>16, <1>17 DEF Extended

\* erase() takes the child c of p out.
TakenOut(ns, p, c) ==
  \E q \in 1 .. Len(ns[p].children) :
    /\ ns[p].children[q] = c
    /\ Assigned(ns, EraseChild(ns, p, c), p, RemoveAt(ns[p].children, q))

\* Without damage, that is all that it does.
LEMMA Erased ==
  ASSUME NEW ns \in Seq(Cell), NEW c, Hangs(ns, c), NEW p \in 1 .. Len(ns), p = ns[c].parent,
         ~EraseDamages(ns, p, c)
  PROVE  TakenOut(ns, p, c)
<1>a. PICK kids \in Seq(Nat) : kids = ns[p].children
  <2>1. ns[p] \in Cell BY ElementOfSeq
  <2> QED BY <2>1 DEF Cell
<1>b. PICK M \in Nat : M = Len(kids) BY LenProperties
<1>c. \E i \in 1 .. M : kids[i] = c BY <1>a, <1>b DEF Hangs
<1> SUFFICES \E i \in 1 .. M : kids[i] = c /\ Assigned(ns, EraseChild(ns, p, c), p, RemoveAt(kids, i))
  BY <1>a, <1>b DEF TakenOut
<1> DEFINE q == CHOOSE i \in DOMAIN kids : kids[i] = c
           kept == RemoveAt(kids, q)
<1>1. q \in 1 .. M /\ kids[q] = c
  <2>1. DOMAIN kids = 1 .. M BY <1>b, LenProperties
  <2> QED BY <1>c, <2>1
<1>2. EraseChild(ns, p, c) = IF kept # <<>>
        THEN [ns EXCEPT ![p].children = Append(Front(kept), Last(kids))]
        ELSE [ns EXCEPT ![p].children = <<>>, ![p].parent = IF p = Root THEN @ ELSE c]
  BY <1>a DEF EraseChild
<1> HIDE DEF q
<1>3. /\ kept \in Seq(Nat) /\ Len(kept) = M - 1
      /\ \A i \in 1 .. q - 1 : kept[i] = kids[i]
      /\ \A i \in q .. M - 1 : kept[i] = kids[i + 1]
  <2>1. q \in 1 .. Len(kids) BY <1>1, <1>b
  <2>2. /\ RemoveAt(kids, q) \in Seq(Nat) /\ Len(RemoveAt(kids, q)) = Len(kids) - 1
        /\ \A i \in 1 .. q - 1 : RemoveAt(kids, q)[i] = kids[i]
        /\ \A i \in q .. Len(kids) - 1 : RemoveAt(kids, q)[i] = kids[i + 1]
    BY ONLY <2>1, kids \in Seq(Nat), RemoveAtFacts
  <2> QED BY <1>b, <2>2
<1> HIDE DEF kept
<1>4. CASE M = 1
  <2>1. p = Root BY <1>4, <1>a, <1>b DEF EraseDamages
  <2>2. kept = <<>> BY <1>3, <1>4, EmptySeq
  <2> DEFINE f == [ns EXCEPT ![p].children = kept]
  <2>3. EraseChild(ns, p, c) = [f EXCEPT ![p].parent = f[p].parent]
    BY <1>2, <2>1, <2>2
  <2>4. Assigned(ns, f, p, kept)
    BY ONLY <1>3, ns \in Seq(Cell), p \in 1 .. Len(ns), AssignChildren, Zenon
  <2> HIDE DEF f
  <2>5. f \in Seq(Cell) /\ p \in 1 .. Len(f) BY <2>4 DEF Assigned
  <2>6. f[p] \in Cell BY <2>5, ElementOfSeq
  <2>7. [f[p] EXCEPT !.parent = f[p].parent] = f[p] BY <2>6 DEF Cell
  <2>8. [f EXCEPT ![p] = f[p]] = f BY <2>5
  <2>9. EraseChild(ns, p, c) = f BY <2>3, <2>7, <2>8
  <2> QED BY ONLY <1>1, <2>4, <2>9 DEF kept
<1>5. CASE M # 1
  <2>1. Last(kids) = kids[M] /\ kids[M] # c BY <1>5, <1>a, <1>b DEF EraseDamages, Last
  <2>2. q # M BY <1>1, <2>1
  <2>3. PICK m \in Nat : M = m + 1 /\ q \in 1 .. m /\ m >= 1
    <3>1. M - 1 \in Nat /\ M = M - 1 + 1 /\ q \in 1 .. M - 1 /\ M - 1 >= 1 BY <1>1, <2>2
    <3> QED BY <3>1
  <2>4. Len(kept) = m /\ kept[m] = kids[M]
    <3>1. m \in q .. M - 1 /\ M - 1 = m BY <2>3
    <3> QED BY <1>3, <2>3, <3>1
  <2>5. kept # <<>>
    <3>1. Len(<<>>) = 0 OBVIOUS
    <3> QED BY <2>3, <2>4, <3>1
  <2>6. Append(Front(kept), Last(kids)) = kept
    <3>1. Len(kept) >= 1 BY <2>3, <2>4
    <3>2. /\ Front(kept) \in Seq(Nat) /\ Len(Front(kept)) = Len(kept) - 1
          /\ \A i \in 1 .. Len(kept) - 1 : Front(kept)[i] = kept[i]
      BY ONLY <1>3, <3>1, FrontFacts
    <3>3. PICK l \in Nat : m = l + 1
      <4>1. m - 1 \in Nat /\ m = m - 1 + 1 BY <2>3
      <4> QED BY <4>1
    <3>4. Len(Front(kept)) = l /\ \A i \in 1 .. l : Front(kept)[i] = kept[i]
      <4>1. Len(kept) - 1 = l BY <2>4, <3>3
      <4> QED BY <3>2, <4>1
    <3>5. kids[M] \in Nat
      <4>1. M \in 1 .. Len(kids) BY <1>b, <2>3
      <4> QED BY <4>1, ElementOfSeq
    <3>6. /\ Append(Front(kept), kids[M]) \in Seq(Nat)
          /\ Len(Append(Front(kept), kids[M])) = l + 1
          /\ \A i \in 1 .. l : Append(Front(kept), kids[M])[i] = Front(kept)[i]
          /\ Append(Front(kept), kids[M])[l + 1] = kids[M]
      <4>1. Front(kept) \in Seq(Nat) BY <3>2
      <4>2. /\ Append(Front(kept), kids[M]) \in Seq(Nat)
            /\ Len(Append(Front(kept), kids[M])) = Len(Front(kept)) + 1
            /\ \A i \in 1 .. Len(Front(kept)) : Append(Front(kept), kids[M])[i] = Front(kept)[i]
            /\ Append(Front(kept), kids[M])[Len(Front(kept)) + 1] = kids[M]
        BY ONLY <4>1, <3>5, AppendProperties
      <4> QED BY ONLY <4>2, <3>4
    <3>7. ASSUME NEW i \in 1 .. m PROVE Append(Front(kept), kids[M])[i] = kept[i]
      <4>1. i \in 1 .. l \/ i = l + 1 BY <3>3
      <4> QED BY ONLY <4>1, <3>3, <3>4, <3>6, <2>4
    <3>8. Append(Front(kept), kids[M]) = kept
      <4>1. Append(Front(kept), kids[M]) \in Seq(Nat) /\ kept \in Seq(Nat) BY <1>3, <3>6
      <4>2. Len(Append(Front(kept), kids[M])) = Len(kept) BY <2>4, <3>3, <3>6
      <4>3. \A i \in 1 .. Len(Append(Front(kept), kids[M])) : Append(Front(kept), kids[M])[i] = kept[i]
        BY <3>3, <3>6, <3>7
      <4> QED BY ONLY <4>1, <4>2, <4>3, SeqEqual
    <3> QED BY <2>1, <3>8
  <2>7. EraseChild(ns, p, c) = [ns EXCEPT ![p].children = kept]
    BY <1>2, <2>5, <2>6
  <2>8. Assigned(ns, [ns EXCEPT ![p].children = kept], p, kept)
    BY ONLY <1>3, ns \in Seq(Cell), p \in 1 .. Len(ns), AssignChildren, Zenon
  <2>9. Assigned(ns, EraseChild(ns, p, c), p, RemoveAt(kids, q))
    BY ONLY <2>7, <2>8 DEF kept
  <2> QED BY ONLY <1>1, <2>9
<1> QED BY ONLY <1>4, <1>5

\* ms is ns without its last node, a child of p.
Shrunk(ns, K, N, p, ms) ==
  /\ Tree(ms, Shorter(K, N))
  /\ Len(ms) = N - 1
  /\ \A n \in 1 .. N - 1 : ms[n].resource = ns[n].resource /\ ms[n].parent = ns[n].parent
  /\ ChildrenStay(ns, ms, N - 1, N)
  /\ \E M \in Nat : \E q \in 1 .. M : Pruned(ns, ms, N, p, M, q)

\* Ascend from a leaf without resource that is the newest node.
LEMMA EraseTree ==
  ASSUME NEW ns, NEW K, Tree(ns, K), NEW N \in Nat, N = Len(ns), N >= 2, ns[N].children = <<>>,
         NEW p, p = ns[N].parent, ~EraseDamages(ns, p, N),
         NEW ms, ms = Front(EraseChild(ns, p, N))
  PROVE  Shrunk(ns, K, N, p, ms)
<1>1. ns \in Seq(Cell) /\ N \in 2 .. Len(ns) BY DEF Tree
<1>2. p \in 1 .. N - 1 BY <1>1 DEF Tree
<1>3. p \in 1 .. N /\ p \in 1 .. Len(ns) /\ p # N BY <1>2
<1>4. PICK kids \in Seq(Nat) : kids = ns[p].children
  <2>1. ns[p] \in Cell BY <1>1, <1>3, ElementOfSeq
  <2> QED BY <2>1 DEF Cell
<1>5. PICK M \in Nat : M = Len(kids) BY LenProperties
<1>6. \E i \in 1 .. M : kids[i] = N
  <2>1. Hangs(ns, N) BY <1>1 DEF Tree
  <2> QED BY <2>1, <1>4, <1>5 DEF Hangs
<1>7. PICK q \in 1 .. M : kids[q] = N /\ Assigned(ns, EraseChild(ns, p, N), p, RemoveAt(kids, q))
  <2>1. ns \in Seq(Cell) BY <1>1
  <2>2. p \in 1 .. Len(ns) BY <1>3
  <2>3. Hangs(ns, N) BY <1>1 DEF Tree
  <2>4. TakenOut(ns, p, N)
    BY ONLY <2>1, <2>2, <2>3, p = ns[N].parent, ~EraseDamages(ns, p, N), Erased, Zenon
  <2> QED BY ONLY <2>4, <1>4, <1>5 DEF TakenOut
<1>8. /\ Len(RemoveAt(kids, q)) = M - 1
      /\ \A i \in 1 .. q - 1 : RemoveAt(kids, q)[i] = kids[i]
      /\ \A i \in q .. M - 1 : RemoveAt(kids, q)[i] = kids[i + 1]
  <2>1. q \in 1 .. Len(kids) BY <1>5
  <2>2. /\ RemoveAt(kids, q) \in Seq(Nat) /\ Len(RemoveAt(kids, q)) = Len(kids) - 1
        /\ \A i \in 1 .. q - 1 : RemoveAt(kids, q)[i] = kids[i]
        /\ \A i \in q .. Len(kids) - 1 : RemoveAt(kids, q)[i] = kids[i + 1]
    BY ONLY <2>1, kids \in Seq(Nat), RemoveAtFacts
  <2> QED BY <2>2, <1>5
<1>9. PICK es \in Seq(Cell) :
         /\ es = EraseChild(ns, p, N) /\ Len(es) = N
         /\ \A m \in 1 .. N : m # p => es[m] = ns[m]
         /\ es[p].children = RemoveAt(kids, q)
         /\ es[p].seg = ns[p].seg /\ es[p].parent = ns[p].parent /\ es[p].resource = ns[p].resource
  BY <1>7 DEF Assigned
<1>10. ms \in Seq(Cell) /\ Len(ms) = N - 1 /\ \A m \in 1 .. N - 1 : ms[m] = es[m]
  <2>1. Len(es) >= 1 BY <1>9
  <2>2. /\ Front(es) \in Seq(Cell) /\ Len(Front(es)) = Len(es) - 1
        /\ \A i \in 1 .. Len(es) - 1 : Front(es)[i] = es[i]
    BY ONLY <2>1, es \in Seq(Cell), FrontFacts
  <2> QED BY <2>2, <1>9
<1>11. ASSUME NEW n \in 1 .. N - 1
       PROVE  /\ ms[n].seg = ns[n].seg /\ ms[n].parent = ns[n].parent
              /\ ms[n].resource = ns[n].resource
              /\ n # p => ms[n].children = ns[n].children
  <2>0. n \in 1 .. N BY ONLY N \in Nat, n \in 1 .. N - 1
  <2>1. n \in 1 .. N /\ ms[n] = es[n] BY ONLY <2>0, <1>10, n \in 1 .. N - 1
  <2>2. CASE n = p
    BY ONLY <2>1, <2>2, <1>9
  <2>3. CASE n # p
    BY ONLY <2>1, <2>3, <1>9
  <2> QED BY <2>2, <2>3
<1>12. ms[p].children = RemoveAt(kids, q) BY ONLY <1>2, <1>9, <1>10
<1>13. Pruned(ns, ms, N, p, M, q)
  BY ONLY <1>4, <1>5, <1>7, <1>8, <1>10, <1>11, <1>12, N = Len(ns) DEF Pruned
<1>14. Tree(ms, Shorter(K, N))
  <2>1. ms \in Seq(Cell) /\ ns[N].parent = p BY <1>10
  <2> QED BY ONLY <2>1, <1>3, <1>13, Tree(ns, K), N \in Nat, N >= 2, M \in Nat, q \in 1 .. M,
              ns[N].children = <<>>, Prune, Zenon
<1>15. ChildrenStay(ns, ms, N - 1, N)
  <2> SUFFICES ASSUME NEW n \in 1 .. N - 1, NEW i \in 1 .. Len(ns[n].children), ns[n].children[i] # N
               PROVE  \E j \in 1 .. Len(ms[n].children) : ms[n].children[j] = ns[n].children[i]
    BY DEF ChildrenStay
  <2>1. CASE n # p
    BY <2>1, <1>11
  <2>2. CASE n = p /\ i < q
    <3>1. i \in 1 .. M BY <2>2, <1>4, <1>5
    <3>2. i \in 1 .. q - 1 /\ i \in 1 .. M - 1 BY <3>1, <2>2
    <3> QED BY ONLY <3>2, <2>2, <1>4, <1>8, <1>12
  <2>3. CASE n = p /\ i > q
    <3>1. i \in 1 .. M BY <2>3, <1>4, <1>5
    <3>2. i - 1 \in q .. M - 1 /\ i - 1 \in 1 .. M - 1 /\ i - 1 + 1 = i BY <3>1, <2>3
    <3>3. RemoveAt(kids, q)[i - 1] = kids[i - 1 + 1] BY ONLY <3>2, <1>8
    <3> QED BY ONLY <3>2, <3>3, <2>3, <1>4, <1>8, <1>12
  <2>4. n = p => i # q BY <1>4, <1>7
  <2>5. n = p => i \in 1 .. M BY <1>4, <1>5
  <2>6. \A k \in 1 .. M : k # q => k < q \/ k > q OBVIOUS
  <2> QED BY ONLY <2>1, <2>2, <2>3, <2>4, <2>5, <2>6
<1>16. \E m \in Nat : \E i \in 1 .. m : Pruned(ns, ms, N, p, m, i)
  BY ONLY <1>13, M \in Nat, q \in 1 .. M, Zenon
<1> QED BY ONLY <1>10, <1>11, <1>14, <1>15, <1>16 DEF Shrunk

-----------------------------------------------------------------------------
(* The segments one by one                                                  *)

\* Before the first segment.
Start == [nodes |-> nodes, cur |-> Root, level |-> 0, damaged |-> FALSE, lost |-> FALSE]

\* The recursive function of Inserted exists: the segments are taken one by one.
LEMMA InsertedRun ==
  ASSUME NEW t, Len(t) \in Nat
  PROVE  \E at : /\ at[0] = Start
                 /\ \A i \in 1 .. Len(t) : at[i] = InsertSegment(at[i - 1], t[i])
                 /\ Inserted(t) = at[Len(t)]
<1> DEFINE Step(a, i) == InsertSegment(a, t[i])
           Body(n, f) == [i \in 0 .. n |-> IF i = 0 THEN Start ELSE Step(f[i - 1], i)]
           T == {n \in Nat : ~ \E f : f = Body(n, f)}
           at == CHOOSE f : f = Body(Len(t), f)
<1>1. Inserted(t) = at[Len(t)] BY DEF Inserted, Start
<1> HIDE DEF Step
<1>2. T = {}
  <2> SUFFICES ASSUME T # {} PROVE FALSE OBVIOUS
  <2>1. T \in SUBSET Nat OBVIOUS
  <2>2. PICK n \in T : \A m \in T : n <= m BY <2>1, Smallest
  <2>3. n # 0
    <3> DEFINE f == [i \in 0 .. 0 |-> Start]
    <3>1. f = Body(0, f) OBVIOUS
    <3> HIDE DEF f, Body
    <3>2. 0 \notin T BY <3>1
    <3> QED BY <3>2
  <2>4. n - 1 \in Nat /\ n - 1 \notin T BY <2>2, <2>3
  <2>5. PICK f : f = Body(n - 1, f) BY <2>4
  <2> DEFINE g == [i \in 0 .. n |-> IF i = n THEN Step(f[n - 1], n) ELSE f[i]]
  <2>6. \A i \in 0 .. n - 1 : f[i] = IF i = 0 THEN Start ELSE Step(f[i - 1], i) BY <2>5
  <2>7. ASSUME NEW i \in 0 .. n PROVE g[i] = Body(n, g)[i]
    <3>1. CASE i = n
      <4>1. n - 1 \in 0 .. n /\ n - 1 # n /\ i # 0 BY <2>4, <3>1, <2>3
      <4>2. g[n - 1] = f[n - 1] BY <4>1
      <4> QED BY <3>1, <4>1, <4>2
    <3>2. CASE i # n /\ i = 0
      <4>1. f[0] = Start BY <2>4, <2>6
      <4> QED BY <3>2, <4>1
    <3>3. CASE i # n /\ i # 0
      <4>1. i \in 0 .. n - 1 /\ i - 1 \in 0 .. n /\ i - 1 # n BY <2>4, <3>3
      <4>2. g[i - 1] = f[i - 1] /\ g[i] = f[i] BY <3>3, <4>1
      <4>3. f[i] = Step(f[i - 1], i) BY <2>6, <3>3, <4>1
      <4> QED BY <3>3, <4>2, <4>3
    <3> QED BY <3>1, <3>2, <3>3
  <2>8. g = Body(n, g) BY <2>7
  <2> HIDE DEF g, Body
  <2>9. n \notin T BY <2>8
  <2> QED BY <2>9
<1>3. at = Body(Len(t), at)
  <2>1. \E f : f = Body(Len(t), f) BY <1>2
  <2> HIDE DEF Body
  <2> QED BY <2>1
<1> HIDE DEF at
<1>4. at[0] = Start
  <2>1. 0 \in 0 .. Len(t) OBVIOUS
  <2> QED BY <1>3, <2>1
<1>5. ASSUME NEW i \in 1 .. Len(t) PROVE at[i] = Step(at[i - 1], i)
  <2>1. i \in 0 .. Len(t) /\ i # 0 OBVIOUS
  <2> QED BY <1>3, <2>1
<1>6. \A i \in 1 .. Len(t) : at[i] = InsertSegment(at[i - 1], t[i]) BY <1>5 DEF Step
<1> QED BY ONLY <1>1, <1>4, <1>6

\* A step of ReducedTemplate.
Reduction(r, seg) == Reduce(r, seg = Dot, seg = DotDot, seg)

\* The recursive function of ReducedTemplate exists.
LEMMA ReducedRun ==
  ASSUME NEW t, Len(t) \in Nat
  PROVE  \E r : /\ r[0] = [left |-> <<>>, level |-> 0]
                /\ \A i \in 1 .. Len(t) : r[i] = Reduction(r[i - 1], t[i])
                /\ ReducedTemplate(t) = r[Len(t)]
<1> DEFINE First == [left |-> <<>>, level |-> 0]
           Step(a, i) == Reduce(a, t[i] = Dot, t[i] = DotDot, t[i])
           Body(n, f) == [i \in 0 .. n |-> IF i = 0 THEN First ELSE Step(f[i - 1], i)]
           T == {n \in Nat : ~ \E f : f = Body(n, f)}
           at == CHOOSE f : f = Body(Len(t), f)
<1>1. ReducedTemplate(t) = at[Len(t)] BY DEF ReducedTemplate
<1> HIDE DEF Step, First
<1>2. T = {}
  <2> SUFFICES ASSUME T # {} PROVE FALSE OBVIOUS
  <2>1. T \in SUBSET Nat OBVIOUS
  <2>2. PICK n \in T : \A m \in T : n <= m BY <2>1, Smallest
  <2>3. n # 0
    <3> DEFINE f == [i \in 0 .. 0 |-> First]
    <3>1. f = Body(0, f) OBVIOUS
    <3> HIDE DEF f, Body
    <3>2. 0 \notin T BY <3>1
    <3> QED BY <3>2
  <2>4. n - 1 \in Nat /\ n - 1 \notin T BY <2>2, <2>3
  <2>5. PICK f : f = Body(n - 1, f) BY <2>4
  <2> DEFINE g == [i \in 0 .. n |-> IF i = n THEN Step(f[n - 1], n) ELSE f[i]]
  <2>6. \A i \in 0 .. n - 1 : f[i] = IF i = 0 THEN First ELSE Step(f[i - 1], i) BY <2>5
  <2>7. ASSUME NEW i \in 0 .. n PROVE g[i] = Body(n, g)[i]
    <3>1. CASE i = n
      <4>1. n - 1 \in 0 .. n /\ n - 1 # n /\ i # 0 BY <2>4, <3>1, <2>3
      <4>2. g[n - 1] = f[n - 1] BY <4>1
      <4> QED BY <3>1, <4>1, <4>2
    <3>2. CASE i # n /\ i = 0
      <4>1. f[0] = First BY <2>4, <2>6
      <4> QED BY <3>2, <4>1
    <3>3. CASE i # n /\ i # 0
      <4>1. i \in 0 .. n - 1 /\ i - 1 \in 0 .. n /\ i - 1 # n BY <2>4, <3>3
      <4>2. g[i - 1] = f[i - 1] /\ g[i] = f[i] BY <3>3, <4>1
      <4>3. f[i] = Step(f[i - 1], i) BY <2>6, <3>3, <4>1
      <4> QED BY <3>3, <4>2, <4>3
    <3> QED BY <3>1, <3>2, <3>3
  <2>8. g = Body(n, g) BY <2>7
  <2> HIDE DEF g, Body
  <2>9. n \notin T BY <2>8
  <2> QED BY <2>9
<1>3. at = Body(Len(t), at)
  <2>1. \E f : f = Body(Len(t), f) BY <1>2
  <2> HIDE DEF Body
  <2> QED BY <2>1
<1> HIDE DEF at
<1>4. at[0] = First
  <2>1. 0 \in 0 .. Len(t) OBVIOUS
  <2> QED BY <1>3, <2>1
<1>5. ASSUME NEW i \in 1 .. Len(t) PROVE at[i] = Step(at[i - 1], i)
  <2>1. i \in 0 .. Len(t) /\ i # 0 OBVIOUS
  <2> QED BY <1>3, <2>1
<1>6. \A i \in 1 .. Len(t) : at[i] = Reduction(at[i - 1], t[i]) BY <1>5 DEF Step, Reduction
<1> QED BY ONLY <1>1, <1>4, <1>6 DEF First

\* What is between two segments of a template inserted into nodes, whose keys are
\* K0: the old nodes are as they were and no leaf of theirs lacks a resource,
\* the new ones are a chain without resources that ends at the current node.
Worked(ns, cur, K, K0) ==
  /\ Len(nodes) \in Nat /\ Len(nodes) >= 1 /\ Len(nodes) <= Len(ns)
  /\ Tree(ns, K) /\ cur \in 1 .. Len(ns)
  /\ \A n \in 1 .. Len(nodes) : ns[n].resource = nodes[n].resource /\ K[n] = K0[n]
  /\ \A n \in 2 .. Len(nodes) :
       \/ ns[n].resource # 0
       \/ \E i \in 1 .. Len(ns[n].children) : ns[n].children[i] <= Len(nodes)
  /\ \A n \in Len(nodes) + 1 .. Len(ns) :
       ns[n].resource = 0 /\ (n > Len(nodes) + 1 => ns[n].parent = n - 1)
  /\ Len(ns) > Len(nodes) => cur = Len(ns) /\ ns[cur].children = <<>>

\* What a tree says of its nodes.
LEMMA TreeFacts ==
  ASSUME NEW ns, NEW K, Tree(ns, K)
  PROVE  /\ Len(ns) \in Nat /\ Len(ns) >= 1 /\ ns \in Seq(Cell)
         /\ \A n \in 1 .. Len(ns) :
              /\ ns[n] \in Cell /\ Len(ns[n].children) \in Nat
              /\ \A i \in 1 .. Len(ns[n].children) :
                   /\ ns[n].children[i] \in 2 .. Len(ns)
                   /\ ns[ns[n].children[i]].parent = n
                   /\ K[ns[n].children[i]] = Append(K[n], KeySeg(ns[ns[n].children[i]].seg))
<1>1. ns \in Seq(Cell) /\ Len(ns) >= 1 BY DEF Tree
<1>2. Len(ns) \in Nat BY <1>1, LenProperties
<1>3. ASSUME NEW n \in 1 .. Len(ns) PROVE ns[n] \in Cell /\ Len(ns[n].children) \in Nat
  <2>1. ns[n] \in Cell BY <1>1, ElementOfSeq
  <2>2. ns[n].children \in Seq(Nat) BY <2>1 DEF Cell
  <2> QED BY <2>1, <2>2, LenProperties
<1>4. ASSUME NEW n \in 1 .. Len(ns), NEW i \in 1 .. Len(ns[n].children)
      PROVE  /\ ns[n].children[i] \in 2 .. Len(ns)
             /\ ns[ns[n].children[i]].parent = n
             /\ K[ns[n].children[i]] = Append(K[n], KeySeg(ns[ns[n].children[i]].seg))
  <2>1. Children(ns, n) BY DEF Tree
  <2>2. ns[n].children[i] \in 2 .. Len(ns) /\ ns[ns[n].children[i]].parent = n BY <2>1 DEF Children
  <2>3. \A k \in 2 .. Len(ns) : K[k] = Append(K[ns[k].parent], KeySeg(ns[k].seg)) BY DEF Tree
  <2> QED BY ONLY <2>2, <2>3
<1> QED BY ONLY <1>1, <1>2, <1>3, <1>4

\* A new node below the current one becomes the current one.
LEMMA WorkExtend ==
  ASSUME NEW ns, NEW K, NEW K0, NEW cur, Worked(ns, cur, K, K0), NEW N \in Nat, N = Len(ns),
         NEW ms, NEW key, Tree(ms, Longer(K, N, cur, key)), Len(ms) = N + 1,
         \A n \in 1 .. N : ms[n].resource = ns[n].resource /\ ms[n].parent = ns[n].parent,
         ms[N + 1].resource = 0, ms[N + 1].parent = cur, ms[N + 1].children = <<>>,
         ChildrenStay(ns, ms, N, 0)
  PROVE  Worked(ms, N + 1, Longer(K, N, cur, key), K0)
<1> DEFINE L == Longer(K, N, cur, key)
<1>1. PICK o \in Nat : o = Len(nodes) /\ o >= 1 /\ o <= N BY DEF Worked
<1>2. /\ \A n \in 1 .. o : ns[n].resource = nodes[n].resource /\ K[n] = K0[n]
      /\ \A n \in 2 .. o :
           ns[n].resource # 0 \/ \E i \in 1 .. Len(ns[n].children) : ns[n].children[i] <= o
      /\ \A n \in o + 1 .. N : ns[n].resource = 0 /\ (n > o + 1 => ns[n].parent = n - 1)
      /\ N > o => cur = N
  BY <1>1 DEF Worked
<1>3. \A n \in 1 .. N : L[n] = K[n] BY DEF Longer
<1>4. ASSUME NEW n \in 1 .. o PROVE ms[n].resource = nodes[n].resource /\ L[n] = K0[n]
  <2>1. n \in 1 .. N BY <1>1
  <2> QED BY ONLY <2>1, <1>2, <1>3, n \in 1 .. o,
             \A m \in 1 .. N : ms[m].resource = ns[m].resource /\ ms[m].parent = ns[m].parent
<1>5. ASSUME NEW n \in 2 .. o
      PROVE  ms[n].resource # 0 \/ \E i \in 1 .. Len(ms[n].children) : ms[n].children[i] <= o
  <2>1. n \in 1 .. N BY <1>1
  <2>2. CASE ns[n].resource # 0
    BY <2>1, <2>2
  <2>3. ASSUME NEW i \in 1 .. Len(ns[n].children), ns[n].children[i] <= o
        PROVE  \E j \in 1 .. Len(ms[n].children) : ms[n].children[j] <= o
    <3>1. Tree(ns, K) BY DEF Worked
    <3>2. ns[n].children[i] \in 2 .. N BY <2>1, <3>1, TreeFacts
    <3>3. ns[n].children[i] # 0 BY <3>2
    <3>4. PICK j \in 1 .. Len(ms[n].children) : ms[n].children[j] = ns[n].children[i]
      BY <2>1, <3>3 DEF ChildrenStay
    <3> QED BY <2>3, <3>4
  <2> QED BY <1>2, <2>2, <2>3
<1>6. ASSUME NEW n \in o + 1 .. N + 1
      PROVE  ms[n].resource = 0 /\ (n > o + 1 => ms[n].parent = n - 1)
  <2>1. CASE n = N + 1
    <3>1. n > o + 1 => N > o /\ n - 1 = N BY <1>1, <2>1
    <3> QED BY <1>2, <2>1, <3>1
  <2>2. CASE n \in o + 1 .. N
    <3>1. n \in 1 .. N BY <1>1, <2>2
    <3>2. ms[n].resource = ns[n].resource /\ ms[n].parent = ns[n].parent BY <3>1
    <3> QED BY ONLY <2>2, <3>2, <1>2
  <2>3. n = N + 1 \/ n \in o + 1 .. N BY ONLY n \in o + 1 .. N + 1, o \in Nat, N \in Nat
  <2> QED BY ONLY <2>1, <2>2, <2>3
<1>7. Len(nodes) >= 1 /\ Len(nodes) <= Len(ms) /\ N + 1 \in 1 .. Len(ms) /\ Len(nodes) \in Nat
  BY <1>1
<1> QED
  BY ONLY <1>1, <1>4, <1>5, <1>6, <1>7, Len(ms) = N + 1, ms[N + 1].children = <<>>, Tree(ms, L)
  DEF Worked, L

\* A child of the current node becomes the current one.
LEMMA WorkVisit ==
  ASSUME NEW ns, NEW K, NEW K0, NEW cur, Worked(ns, cur, K, K0),
         NEW i \in 1 .. Len(ns[cur].children)
  PROVE  Worked(ns, ns[cur].children[i], K, K0)
<1>1. cur \in 1 .. Len(ns) /\ Tree(ns, K) /\ Len(nodes) \in Nat /\ Len(nodes) <= Len(ns) BY DEF Worked
<1>2. Len(ns) \in Nat /\ ns[cur].children[i] \in 2 .. Len(ns) BY <1>1, TreeFacts
<1>3. ns[cur].children[i] \in 1 .. Len(ns) BY <1>2
<1>4. ns[cur].children # <<>>
  <2>1. Len(<<>>) = 0 OBVIOUS
  <2> QED BY <2>1
<1>5. ~(Len(ns) > Len(nodes)) BY <1>4 DEF Worked
<1> QED BY <1>3, <1>5 DEF Worked

\* The parent becomes the current one, and nothing is deleted.
LEMMA WorkAscend ==
  ASSUME NEW ns, NEW K, NEW K0, NEW cur, Worked(ns, cur, K, K0), cur # 1,
         ~(cur = Len(ns) /\ ns[cur].resource = 0 /\ ns[cur].children = <<>>)
  PROVE  Worked(ns, ns[cur].parent, K, K0)
<1>1. cur \in 1 .. Len(ns) /\ Tree(ns, K) /\ Len(nodes) \in Nat /\ Len(nodes) <= Len(ns) BY DEF Worked
<1>2. Len(ns) \in Nat BY <1>1, TreeFacts
<1>3. cur \in 2 .. Len(ns) BY <1>1, <1>2
<1>4. ns[cur].parent \in 1 .. cur - 1 BY <1>1, <1>3 DEF Tree
<1>5. ns[cur].parent \in 1 .. Len(ns) BY ONLY <1>2, <1>3, <1>4
<1>6. ~(Len(ns) > Len(nodes))
  <2> SUFFICES ASSUME Len(ns) > Len(nodes) PROVE FALSE OBVIOUS
  <2>1. cur = Len(ns) /\ ns[cur].children = <<>> BY DEF Worked
  <2>2. cur \in Len(nodes) + 1 .. Len(ns) BY <1>1, <1>2, <2>1
  <2>3. ns[cur].resource = 0 BY <2>2 DEF Worked
  <2> QED BY <2>1, <2>3
<1> QED BY <1>5, <1>6 DEF Worked

\* The parent becomes the current one, and the newest node is deleted.
LEMMA WorkErase ==
  ASSUME NEW ns, NEW K, NEW K0, NEW cur, Worked(ns, cur, K, K0), NEW N \in Nat, N = Len(ns),
         cur # 1, cur = N, ns[N].resource = 0, ns[N].children = <<>>,
         NEW p, p = ns[N].parent, ~EraseDamages(ns, p, N),
         NEW ms, Shrunk(ns, K, N, p, ms)
  PROVE  Worked(ms, p, Shorter(K, N), K0) /\ Len(ms) = Len(nodes)
<1> DEFINE L == Shorter(K, N)
<1>0. /\ Tree(ms, L) /\ Len(ms) = N - 1
      /\ \A n \in 1 .. N - 1 : ms[n].resource = ns[n].resource /\ ms[n].parent = ns[n].parent
      /\ ChildrenStay(ns, ms, N - 1, N)
  BY DEF Shrunk
<1>1. PICK o \in Nat : o = Len(nodes) /\ o >= 1 /\ o <= N BY DEF Worked
<1>2. /\ \A n \in 1 .. o : ns[n].resource = nodes[n].resource /\ K[n] = K0[n]
      /\ \A n \in 2 .. o :
           ns[n].resource # 0 \/ \E i \in 1 .. Len(ns[n].children) : ns[n].children[i] <= o
      /\ \A n \in o + 1 .. N : ns[n].resource = 0 /\ (n > o + 1 => ns[n].parent = n - 1)
      /\ Tree(ns, K) /\ N \in 2 .. N
  BY <1>1 DEF Worked
<1>3. p \in 1 .. N - 1 /\ \A n \in 2 .. N : ns[n].parent \in 1 .. n - 1 BY <1>2 DEF Tree
<1>4. N > o
  <2> SUFFICES ASSUME ~(N > o) PROVE FALSE OBVIOUS
  <2>1. N \in 2 .. o BY <1>1, <1>2
  <2>2. PICK i \in 1 .. Len(ns[N].children) : ns[N].children[i] <= o BY <1>2, <2>1
  <2>3. Len(ns[N].children) = 0 OBVIOUS
  <2> QED BY <2>2, <2>3
<1>5. N - 1 = o
  <2> SUFFICES ASSUME N - 1 # o PROVE FALSE OBVIOUS
  <2>1. N > o + 1 /\ N \in o + 1 .. N BY <1>1, <1>4
  <2>2. p = N - 1 /\ p > o /\ p \in 1 .. Len(ns) BY <1>1, <1>2, <2>1
  <2>3. PICK M \in Nat : M = Len(ns[p].children) BY <1>2, <2>2, TreeFacts
  <2>f. \A i \in 1 .. Len(ns[p].children) :
          ns[p].children[i] \in 2 .. Len(ns) /\ ns[ns[p].children[i]].parent = p
    <3>1. Tree(ns, K) BY <1>2
    <3>2. p \in 1 .. Len(ns) BY <2>2
    <3> QED BY ONLY <3>1, <3>2, TreeFacts, Zenon
  <2>4. ASSUME NEW i \in 1 .. M PROVE ns[p].children[i] = N
    <3>0. i \in 1 .. Len(ns[p].children) BY <2>3
    <3>a. ns[p].children[i] \in 2 .. Len(ns) /\ ns[ns[p].children[i]].parent = p
      BY <3>0, <2>f, Zenon
    <3>1. PICK k \in 2 .. N : k = ns[p].children[i] /\ ns[k].parent = p BY <3>a
    <3>2. ns[k].parent \in 1 .. k - 1 BY <1>3
    <3>3. p = N - 1 /\ k \in 2 .. N /\ p \in 1 .. k - 1 BY <3>1, <3>2, <2>2
    <3>4. k = N BY ONLY <3>3, N \in Nat
    <3> QED BY ONLY <3>1, <3>4
  <2>5. \A i, j \in 1 .. M : i < j => ns[p].children[i] # ns[p].children[j]
    <3>1. Children(ns, p) BY <1>2, <2>2 DEF Tree
    <3> QED BY <2>3, <3>1 DEF Children
  <2>6. M = 1
    <3>1. Hangs(ns, N) BY <1>2 DEF Tree
    <3>2. M >= 1 BY <3>1, <2>3 DEF Hangs
    <3>3. ~(M >= 2)
      <4> SUFFICES ASSUME M >= 2 PROVE FALSE OBVIOUS
      <4>1. 1 \in 1 .. M /\ 2 \in 1 .. M /\ 1 < 2 OBVIOUS
      <4> QED BY ONLY <4>1, <2>4, <2>5
    <3> QED BY <3>2, <3>3
  <2>7. p # Root
    <3>1. p > o /\ o >= 1 /\ p \in Nat BY <1>1, <2>2
    <3> QED BY ONLY <3>1, o \in Nat DEF Root
  <2> QED BY <2>3, <2>6, <2>7 DEF EraseDamages
<1>6. \A n \in 1 .. o : L[n] = K[n] BY <1>5 DEF Shorter
<1>7. ASSUME NEW n \in 1 .. o PROVE ms[n].resource = nodes[n].resource /\ L[n] = K0[n]
  <2>1. n \in 1 .. N - 1 BY <1>5
  <2> QED BY ONLY <2>1, <1>0, <1>2, <1>6, n \in 1 .. o
<1>8. ASSUME NEW n \in 2 .. o
      PROVE  ms[n].resource # 0 \/ \E i \in 1 .. Len(ms[n].children) : ms[n].children[i] <= o
  <2>1. n \in 1 .. N - 1 /\ n \in 1 .. Len(ns) BY <1>5
  <2>2. CASE ns[n].resource # 0
    BY <1>0, <2>1, <2>2
  <2>3. ASSUME NEW i \in 1 .. Len(ns[n].children), ns[n].children[i] <= o
        PROVE  \E j \in 1 .. Len(ms[n].children) : ms[n].children[j] <= o
    <3>1. ns[n].children[i] # N BY <2>3, <1>5
    <3>2. PICK j \in 1 .. Len(ms[n].children) : ms[n].children[j] = ns[n].children[i]
      BY <1>0, <2>1, <3>1 DEF ChildrenStay
    <3> QED BY <2>3, <3>2
  <2> QED BY <1>2, <2>2, <2>3
<1>9. /\ Len(nodes) >= 1 /\ Len(nodes) <= Len(ms) /\ p \in 1 .. Len(ms) /\ Len(nodes) \in Nat
      /\ Len(ms) = Len(nodes)
  BY <1>0, <1>1, <1>3, <1>5
<1>10. /\ \A n \in Len(nodes) + 1 .. Len(ms) : FALSE
       /\ ~(Len(ms) > Len(nodes))
  BY ONLY <1>9
<1> HIDE DEF L
<1>11. Tree(ms, L) BY <1>0
<1>12. Worked(ms, p, L, K0)
  BY ONLY <1>1, <1>7, <1>8, <1>9, <1>10, <1>11 DEF Worked
<1> QED BY ONLY <1>9, <1>12 DEF L

\* kids is old, or old and the new node.
Beside(kids, old, new) ==
  \/ kids = old /\ \A i \in 1 .. Len(kids) : kids[i] # new
  \/ \E q \in 1 .. Len(kids) : kids[q] = new /\ RemoveAt(kids, q) = old

\* What the call has found is as it was, in the same order, but for a link to the
\* first node that it has added.
Untouched(ns) ==
  \A n \in 1 .. Len(nodes) :
    /\ ns[n].seg = nodes[n].seg /\ ns[n].parent = nodes[n].parent
    /\ Beside(ns[n].children, nodes[n].children, Len(nodes) + 1)

\* A list that is another without its q-th element.
LEMMA Removed ==
  ASSUME NEW a \in Seq(Nat), NEW b \in Seq(Nat), NEW M \in Nat, M = Len(a), NEW q \in 1 .. M,
         Len(b) = M - 1, \A i \in 1 .. q - 1 : b[i] = a[i], \A i \in q .. M - 1 : b[i] = a[i + 1]
  PROVE  RemoveAt(a, q) = b
<1>1. q \in 1 .. Len(a) OBVIOUS
<1>2. PICK c : c = RemoveAt(a, q) OBVIOUS
<1>3. /\ c \in Seq(Nat) /\ Len(c) = M - 1
      /\ \A i \in 1 .. q - 1 : c[i] = a[i]
      /\ \A i \in q .. M - 1 : c[i] = a[i + 1]
  BY ONLY <1>1, <1>2, a \in Seq(Nat), M = Len(a), RemoveAtFacts
<1>4. ASSUME NEW i \in 1 .. M - 1 PROVE c[i] = b[i]
  <2>1. i \in 1 .. q - 1 \/ i \in q .. M - 1 BY ONLY i \in 1 .. M - 1, M \in Nat, q \in 1 .. M
  <2> QED BY <1>3, <2>1
<1>5. c = b BY ONLY <1>3, <1>4, b \in Seq(Nat), Len(b) = M - 1, SeqEqual
<1> QED BY <1>2, <1>5

\* In a pool without new nodes nothing hangs on them.
LEMMA OldChildren ==
  ASSUME NEW ns, NEW K, Tree(ns, K), NEW n \in 1 .. Len(ns), NEW old, NEW new, new = Len(ns) + 1,
         Beside(ns[n].children, old, new)
  PROVE  ns[n].children = old
<1>1. PICK o \in Nat : o = Len(ns) BY TreeFacts
<1>2. \A i \in 1 .. Len(ns[n].children) : ns[n].children[i] \in 2 .. o BY <1>1, TreeFacts
<1>3. \A k \in 2 .. o : k # new BY <1>1
<1>4. \A i \in 1 .. Len(ns[n].children) : ns[n].children[i] # new BY ONLY <1>2, <1>3
<1> QED BY ONLY <1>4, Beside(ns[n].children, old, new) DEF Beside

\* A new node hangs on an old one only if it is the first.
LEMMA UntouchedGrows ==
  ASSUME NEW ns, NEW K, NEW K0, NEW cur, Worked(ns, cur, K, K0), Untouched(ns),
         NEW N \in Nat, N = Len(ns), NEW ms, NEW L, Tree(ms, L),
         NEW M \in Nat, NEW p \in 0 .. M, Grown(ns, ms, N, cur, M, p)
  PROVE  Untouched(ms)
<1>1. PICK o \in Nat : o = Len(nodes) /\ o >= 1 /\ o <= N BY DEF Worked
<1>2. Tree(ns, K) /\ (N > o => cur = N) /\ cur \in 1 .. N BY <1>1 DEF Worked
<1>3. /\ Len(ms) = N + 1
      /\ \A n \in 1 .. N : ms[n].seg = ns[n].seg /\ ms[n].parent = ns[n].parent
      /\ \A n \in 1 .. N : n # cur => ms[n].children = ns[n].children
      /\ Len(ns[cur].children) = M /\ Len(ms[cur].children) = M + 1
      /\ ms[cur].children[p + 1] = N + 1
      /\ \A i \in 1 .. p : ms[cur].children[i] = ns[cur].children[i]
      /\ \A i \in p + 1 .. M : ms[cur].children[i + 1] = ns[cur].children[i]
  BY DEF Grown
<1>4. ASSUME NEW n \in 1 .. o
      PROVE  /\ ms[n].seg = nodes[n].seg /\ ms[n].parent = nodes[n].parent
             /\ Beside(ms[n].children, nodes[n].children, o + 1)
  <2>1. n \in 1 .. N BY <1>1
  <2>2. /\ ns[n].seg = nodes[n].seg /\ ns[n].parent = nodes[n].parent
        /\ Beside(ns[n].children, nodes[n].children, o + 1)
    BY <1>1 DEF Untouched
  <2>3. CASE n # cur
    BY ONLY <1>3, <2>1, <2>2, <2>3
  <2>4. CASE n = cur
    <3>1. N = o BY ONLY <1>1, <1>2, <2>4, n \in 1 .. o, N \in Nat, o \in Nat
    <3>2. ns[n].children = nodes[n].children
      <4>1. Tree(ns, K) BY <1>2
      <4>2. PICK new : new = o + 1 OBVIOUS
      <4>3. Beside(ns[n].children, nodes[n].children, new) BY <2>2, <4>2
      <4>4. n \in 1 .. Len(ns) /\ new = Len(ns) + 1 BY <3>1, <4>2
      <4> QED BY ONLY <4>1, <4>3, <4>4, OldChildren, Zenon
    <3>3. PICK a : a = ns[n].children OBVIOUS
    <3>4. PICK b : b = ms[n].children OBVIOUS
    <3>5. a \in Seq(Nat)
      <4>1. ns[n] \in Cell BY <1>2, <2>1, TreeFacts
      <4> QED BY ONLY <3>3, <4>1 DEF Cell
    <3>6. b \in Seq(Nat)
      <4>1. n \in 1 .. Len(ms) BY ONLY <1>3, <2>1, N \in Nat
      <4>2. ms[n] \in Cell BY <4>1, TreeFacts
      <4> QED BY ONLY <3>4, <4>2 DEF Cell
    <3>0. PICK m \in Nat : m = M + 1 BY ONLY M \in Nat
    <3>7. PICK q \in 1 .. m : m = M + 1 /\ q = p + 1 BY ONLY <3>0, M \in Nat, p \in 0 .. M
    <3>8. Len(a) = m - 1 /\ Len(b) = m /\ b[q] = o + 1
      BY ONLY <1>3, <2>4, <3>1, <3>3, <3>4, <3>7, M \in Nat
    <3>9. ASSUME NEW i \in 1 .. q - 1 PROVE a[i] = b[i]
      <4>1. i \in 1 .. p BY ONLY <3>7, i \in 1 .. q - 1, p \in 0 .. M, M \in Nat
      <4> QED BY ONLY <1>3, <2>4, <3>3, <3>4, <4>1
    <3>10. ASSUME NEW i \in q .. m - 1 PROVE a[i] = b[i + 1]
      <4>1. i \in p + 1 .. M BY ONLY <3>7, i \in q .. m - 1, p \in 0 .. M, M \in Nat
      <4> QED BY ONLY <1>3, <2>4, <3>3, <3>4, <4>1
    <3>11. RemoveAt(b, q) = a
      BY ONLY <3>5, <3>6, <3>8, <3>9, <3>10, m \in Nat, q \in 1 .. m, Removed
    <3>12. Beside(b, a, o + 1) BY ONLY <3>8, <3>11, q \in 1 .. m DEF Beside
    <3> QED BY ONLY <1>3, <2>1, <2>2, <3>2, <3>3, <3>4, <3>12
  <2> QED BY <2>3, <2>4
<1> QED BY ONLY <1>1, <1>4 DEF Untouched

\* Taking the first new node away leaves what there was.
LEMMA UntouchedPruned ==
  ASSUME NEW ns, NEW K, Tree(ns, K), Untouched(ns), NEW o \in Nat, o = Len(nodes), NEW N \in Nat,
         N = o + 1, N = Len(ns), NEW p \in 1 .. o, NEW ms, NEW L, Tree(ms, L),
         NEW M \in Nat, NEW q \in 1 .. M, Pruned(ns, ms, N, p, M, q)
  PROVE  Untouched(ms)
<1>1. /\ Len(ms) = o
      /\ \A n \in 1 .. o : ms[n].seg = ns[n].seg /\ ms[n].parent = ns[n].parent
      /\ \A n \in 1 .. o : n # p => ms[n].children = ns[n].children
      /\ Len(ns[p].children) = M /\ Len(ms[p].children) = M - 1
      /\ ns[p].children[q] = o + 1
      /\ \A i \in 1 .. q - 1 : ms[p].children[i] = ns[p].children[i]
      /\ \A i \in q .. M - 1 : ms[p].children[i] = ns[p].children[i + 1]
  <2>1. N - 1 = o OBVIOUS
  <2> QED BY <2>1 DEF Pruned
<1>2. ASSUME NEW n \in 1 .. o
      PROVE  /\ ms[n].seg = nodes[n].seg /\ ms[n].parent = nodes[n].parent
             /\ Beside(ms[n].children, nodes[n].children, o + 1)
  <2>1. /\ ns[n].seg = nodes[n].seg /\ ns[n].parent = nodes[n].parent
        /\ Beside(ns[n].children, nodes[n].children, o + 1)
    BY DEF Untouched
  <2>2. CASE n # p
    BY ONLY <1>1, <2>1, <2>2, n \in 1 .. o
  <2>3. CASE n = p
    <3>1. PICK a : a = ns[n].children OBVIOUS
    <3>2. PICK b : b = ms[n].children OBVIOUS
    <3>3. a \in Seq(Nat)
      <4>1. n \in 1 .. Len(ns) OBVIOUS
      <4>2. ns[n] \in Cell BY <4>1, TreeFacts
      <4> QED BY ONLY <3>1, <4>2 DEF Cell
    <3>4. b \in Seq(Nat)
      <4>1. n \in 1 .. Len(ms) BY <1>1
      <4>2. ms[n] \in Cell BY <4>1, TreeFacts
      <4> QED BY ONLY <3>2, <4>2 DEF Cell
    <3>5. /\ Len(a) = M /\ Len(b) = M - 1 /\ a[q] = o + 1
          /\ \A i \in 1 .. q - 1 : b[i] = a[i]
          /\ \A i \in q .. M - 1 : b[i] = a[i + 1]
      BY ONLY <1>1, <2>3, <3>1, <3>2
    <3>6. RemoveAt(a, q) = b
      BY ONLY <3>3, <3>4, <3>5, M \in Nat, q \in 1 .. M, Removed
    <3>7. \A i, j \in 1 .. M : i < j => a[i] # a[j]
      <4>1. n \in 1 .. Len(ns) OBVIOUS
      <4>2. Children(ns, n) BY <4>1 DEF Tree
      <4> QED BY ONLY <3>1, <3>5, <4>2 DEF Children
    <3>8. \A i \in 1 .. M : a[i] = o + 1 => i = q
      <4> SUFFICES ASSUME NEW i \in 1 .. M, a[i] = o + 1, i # q PROVE FALSE OBVIOUS
      <4>1. i < q \/ q < i BY ONLY M \in Nat, i \in 1 .. M, q \in 1 .. M, i # q
      <4> QED BY ONLY <3>5, <3>7, <4>1, i \in 1 .. M, q \in 1 .. M, a[i] = o + 1
    <3>9. b = nodes[n].children
      <4>1. ~(\A i \in 1 .. Len(a) : a[i] # o + 1) BY ONLY <3>5, q \in 1 .. M
      <4>2. PICK i \in 1 .. M : a[i] = o + 1 /\ RemoveAt(a, i) = nodes[n].children
        BY ONLY <2>1, <3>1, <3>5, <4>1 DEF Beside
      <4>3. i = q BY <3>8, <4>2
      <4> QED BY ONLY <3>6, <4>2, <4>3
    <3>10. \A i \in 1 .. Len(b) : b[i] # o + 1
      <4>1. n \in 1 .. Len(ms) BY <1>1
      <4>2. \A i \in 1 .. Len(b) : b[i] \in 2 .. o BY <1>1, <3>2, <4>1, TreeFacts
      <4>3. \A k \in 2 .. o : k # o + 1 OBVIOUS
      <4> QED BY ONLY <4>2, <4>3
    <3>11. Beside(b, nodes[n].children, o + 1) BY ONLY <3>9, <3>10 DEF Beside
    <3> QED BY ONLY <1>1, <2>1, <3>2, <3>11, n \in 1 .. o
  <2> QED BY <2>2, <2>3
<1> QED BY ONLY <1>2, o = Len(nodes) DEF Untouched

\* With the new nodes gone the pool is what it was.
LEMMA UntouchedSame ==
  ASSUME NEW ns, NEW K, NEW K0, NEW cur, Worked(ns, cur, K, K0), Untouched(ns),
         Len(ns) = Len(nodes), nodes \in Seq(Cell)
  PROVE  ns = nodes
<1>1. PICK o \in Nat : o = Len(nodes) /\ o = Len(ns) BY DEF Worked
<1>2. Tree(ns, K) /\ \A n \in 1 .. o : ns[n].resource = nodes[n].resource BY <1>1 DEF Worked
<1>3. ns \in Seq(Cell) BY <1>2 DEF Tree
<1>4. ASSUME NEW n \in 1 .. o PROVE ns[n] = nodes[n]
  <2>1. /\ ns[n].seg = nodes[n].seg /\ ns[n].parent = nodes[n].parent
        /\ Beside(ns[n].children, nodes[n].children, o + 1)
    BY <1>1 DEF Untouched
  <2>2. ns[n].children = nodes[n].children
    <3>1. Tree(ns, K) BY <1>2
    <3>2. PICK new : new = o + 1 OBVIOUS
    <3>3. Beside(ns[n].children, nodes[n].children, new) BY <2>1, <3>2
    <3>4. n \in 1 .. Len(ns) /\ new = Len(ns) + 1 BY <1>1, <3>2
    <3> QED BY ONLY <3>1, <3>3, <3>4, OldChildren, Zenon
  <2>3. ns[n] \in Cell BY ONLY <1>1, <1>3, n \in 1 .. o, ElementOfSeq
  <2>4. nodes[n] \in Cell BY ONLY <1>1, nodes \in Seq(Cell), n \in 1 .. o, ElementOfSeq
  <2>5. ns[n].resource = nodes[n].resource BY <1>2
  <2>6. ns[n] = [seg |-> ns[n].seg, resource |-> ns[n].resource,
                 parent |-> ns[n].parent, children |-> ns[n].children]
    BY ONLY <2>3 DEF Cell
  <2>7. nodes[n] = [seg |-> nodes[n].seg, resource |-> nodes[n].resource,
                    parent |-> nodes[n].parent, children |-> nodes[n].children]
    BY ONLY <2>4 DEF Cell
  <2> QED BY ONLY <2>1, <2>2, <2>5, <2>6, <2>7
<1> QED BY ONLY <1>1, <1>3, <1>4, nodes \in Seq(Cell), SeqEqual

-----------------------------------------------------------------------------
(* The keys of the nodes are the reduced templates                          *)

\* The keys of a template with one more segment.
LEMMA KeysAppend ==
  ASSUME NEW s \in Seq(Segs), NEW a \in Segs
  PROVE  Keys(Append(s, a)) = Append(Keys(s), KeySeg(a)) /\ Keys(s) \in Seq(Segs)
<1>1. PICK n \in Nat : n = Len(s) BY LenProperties
<1>2. /\ Append(s, a) \in Seq(Segs) /\ Len(Append(s, a)) = n + 1
      /\ \A i \in 1 .. n : Append(s, a)[i] = s[i]
      /\ Append(s, a)[n + 1] = a
  <2>1. /\ Append(s, a) \in Seq(Segs) /\ Len(Append(s, a)) = Len(s) + 1
        /\ \A i \in 1 .. Len(s) : Append(s, a)[i] = s[i]
        /\ Append(s, a)[Len(s) + 1] = a
    BY ONLY s \in Seq(Segs), a \in Segs, AppendProperties
  <2> QED BY ONLY <2>1, <1>1
<1>3. Keys(s) = [i \in 1 .. n |-> KeySeg(s[i])] BY <1>1 DEF Keys
<1>4. \A i \in 1 .. n : s[i] \in Segs /\ KeySeg(s[i]) \in Segs
  <2> SUFFICES ASSUME NEW i \in 1 .. n PROVE s[i] \in Segs /\ KeySeg(s[i]) \in Segs OBVIOUS
  <2>1. s[i] \in Segs BY <1>1, ElementOfSeq
  <2> QED BY <2>1, SegFacts
<1> HIDE DEF Keys
<1>5. Keys(s) \in Seq(Segs) /\ Len(Keys(s)) = n
  BY <1>3, <1>4, IsASeq, SeqDef, LenProperties
<1>6. KeySeg(a) \in Segs BY SegFacts
<1>7. /\ Append(Keys(s), KeySeg(a)) \in Seq(Segs) /\ Len(Append(Keys(s), KeySeg(a))) = n + 1
      /\ \A i \in 1 .. n : Append(Keys(s), KeySeg(a))[i] = Keys(s)[i]
      /\ Append(Keys(s), KeySeg(a))[n + 1] = KeySeg(a)
  <2>1. Keys(s) \in Seq(Segs) BY <1>5
  <2>2. /\ Append(Keys(s), KeySeg(a)) \in Seq(Segs)
        /\ Len(Append(Keys(s), KeySeg(a))) = Len(Keys(s)) + 1
        /\ \A i \in 1 .. Len(Keys(s)) : Append(Keys(s), KeySeg(a))[i] = Keys(s)[i]
        /\ Append(Keys(s), KeySeg(a))[Len(Keys(s)) + 1] = KeySeg(a)
    BY ONLY <2>1, <1>6, AppendProperties
  <2> QED BY ONLY <2>2, <1>5
<1>8. Keys(Append(s, a)) = [i \in 1 .. n + 1 |-> KeySeg(Append(s, a)[i])] BY <1>2 DEF Keys
<1>9. Append(Keys(s), KeySeg(a)) = [i \in 1 .. n + 1 |-> Append(Keys(s), KeySeg(a))[i]]
  BY <1>7, LenProperties
<1>10. ASSUME NEW i \in 1 .. n + 1 PROVE Append(Keys(s), KeySeg(a))[i] = KeySeg(Append(s, a)[i])
  <2>1. CASE i \in 1 .. n
    BY <1>2, <1>3, <1>7, <2>1
  <2>2. CASE i = n + 1
    BY <1>2, <1>7, <2>2
  <2>3. i \in 1 .. n \/ i = n + 1 BY ONLY n \in Nat, i \in 1 .. n + 1
  <2> QED BY ONLY <2>1, <2>2, <2>3
<1> QED BY ONLY <1>5, <1>8, <1>9, <1>10

-----------------------------------------------------------------------------
(* One segment                                                              *)

\* What insert_impl carries from segment to segment.
Fields == {"nodes", "cur", "level", "damaged", "lost"}

\* What is between two segments while nothing is damaged; r is the template so
\* far, reduced.
Sound(at, r, K, K0) ==
  /\ Worked(at.nodes, at.cur, K, K0)
  /\ Untouched(at.nodes)
  /\ at.lost = FALSE
  /\ r \in [left : Seq(Segs), level : Int]
  /\ K[at.cur] = Keys(r.left)
  /\ at.level = r.level /\ r.level <= 0 /\ (r.level < 0 => at.cur = Root)

\* The same, damaged or not.
Going(at, r, K0) ==
  /\ DOMAIN at = Fields
  /\ at.damaged \in BOOLEAN
  /\ ~at.damaged => \E K : Sound(at, r, K, K0)

\* A segment changes fields only, and does not undo damage.
LEMMA DamageStays ==
  ASSUME NEW at, DOMAIN at = Fields, at.damaged \in BOOLEAN, NEW seg
  PROVE  /\ DOMAIN InsertSegment(at, seg) = Fields
         /\ InsertSegment(at, seg).damaged \in BOOLEAN
         /\ at.damaged => InsertSegment(at, seg).damaged
<1> DEFINE Stays(b) == DOMAIN b = Fields /\ b.damaged \in BOOLEAN /\ (at.damaged => b.damaged)
<1>1. Stays(Extend(at, seg))
  <2>1. DOMAIN Extend(at, seg) = Fields /\ Extend(at, seg).damaged = at.damaged
    BY DEF Extend, Fields
  <2> QED BY <2>1
<1>2. Stays(Descend(at, seg))
  <2> DEFINE kids == at.nodes[at.cur].children
             hits == {i \in DOMAIN kids : kids[i] \in DOMAIN at.nodes => Same(at.nodes[kids[i]].seg, seg)}
             k == kids[CHOOSE i \in hits : \A j \in hits : i <= j]
             a == [at EXCEPT !.cur = k]
             b == [at EXCEPT !.lost = TRUE]
  <2>1. Descend(at, seg) \in {Extend(at, seg), a, b}
    BY Zenon DEF Descend
  <2> HIDE DEF k, hits
  <2>2. DOMAIN a = Fields /\ DOMAIN b = Fields /\ a.damaged = at.damaged /\ b.damaged = at.damaged
    BY DEF Fields
  <2> HIDE DEF a, b
  <2>3. Stays(a) /\ Stays(b) BY <2>2
  <2> HIDE DEF Stays
  <2> QED BY ONLY <1>1, <2>1, <2>3, Zenon
<1>3. Stays(Ascend(at))
  <2> DEFINE p == at.nodes[at.cur].parent
             a == [at EXCEPT !.lost = TRUE]
             b == [at EXCEPT !.cur = p]
             ms == Front(EraseChild(at.nodes, p, at.cur))
             bad == EraseDamages(at.nodes, p, at.cur)
             worse == at.damaged \/ bad
             c == [at EXCEPT !.nodes = ms, !.cur = p, !.damaged = worse]
  <2>1. Ascend(at) \in {a, b, c} BY DEF Ascend, Fields
  <2>2. bad \in BOOLEAN BY DEF EraseDamages
  <2> HIDE DEF p, ms, bad
  <2>3. worse \in BOOLEAN /\ (at.damaged => worse) BY <2>2
  <2> HIDE DEF worse
  <2>4. DOMAIN a = Fields /\ DOMAIN b = Fields /\ DOMAIN c = Fields
        /\ a.damaged = at.damaged /\ b.damaged = at.damaged /\ c.damaged = worse
    BY DEF Fields
  <2> HIDE DEF a, b, c
  <2>5. Stays(a) /\ Stays(b) BY <2>4
  <2>6. Stays(c) BY <2>3, <2>4
  <2> HIDE DEF Stays
  <2> QED BY <2>1, <2>5, <2>6
<1>4. Stays([at EXCEPT !.level = @ - 1]) /\ Stays([at EXCEPT !.level = @ + 1]) /\ Stays(at)
  <2> DEFINE a == [at EXCEPT !.level = @ - 1]
             b == [at EXCEPT !.level = @ + 1]
  <2>1. DOMAIN a = Fields /\ DOMAIN b = Fields /\ a.damaged = at.damaged /\ b.damaged = at.damaged
    BY DEF Fields
  <2> HIDE DEF a, b
  <2>2. Stays(a) /\ Stays(b) BY <2>1
  <2> QED BY <2>2 DEF a, b
<1>5. InsertSegment(at, seg) \in {at, [at EXCEPT !.level = @ - 1], [at EXCEPT !.level = @ + 1], Ascend(at), Descend(at, seg)}
  BY DEF InsertSegment
<1>6. Stays(InsertSegment(at, seg))
  <2> HIDE DEF Stays
  <2> QED BY <1>2, <1>3, <1>4, <1>5
<1> QED BY <1>6

\* The keys of a template without its last segment.
LEMMA FrontKeys ==
  ASSUME NEW left \in Seq(Segs), left # <<>>
  PROVE  /\ Front(left) \in Seq(Segs) /\ Keys(Front(left)) \in Seq(Segs)
         /\ \E a \in Segs : Keys(left) = Append(Keys(Front(left)), a)
<1>1. PICK n \in Nat : n = Len(left) BY LenProperties
<1>2. n >= 1 BY <1>1, EmptySeq
<1>3. /\ Front(left) \in Seq(Segs) /\ Len(Front(left)) = n - 1
      /\ \A i \in 1 .. n - 1 : Front(left)[i] = left[i]
  BY <1>1, <1>2, FrontFacts
<1>4. left[n] \in Segs BY <1>1, <1>2, ElementOfSeq
<1>5. /\ Append(Front(left), left[n]) \in Seq(Segs)
      /\ Len(Append(Front(left), left[n])) = n - 1 + 1
      /\ \A i \in 1 .. n - 1 : Append(Front(left), left[n])[i] = Front(left)[i]
      /\ Append(Front(left), left[n])[n - 1 + 1] = left[n]
  BY <1>3, <1>4, AppendProperties
<1>6. Append(Front(left), left[n]) = left
  <2> DEFINE u == Append(Front(left), left[n])
  <2>1. Len(u) = n /\ u[n] = left[n] BY <1>5
  <2>2. ASSUME NEW i \in 1 .. n PROVE u[i] = left[i]
    <3>1. i \in 1 .. n - 1 \/ i = n BY <1>1
    <3> QED BY <1>3, <1>5, <2>1, <3>1
  <2>3. u \in Seq(Segs) BY <1>5
  <2> HIDE DEF u
  <2>4. u = left BY ONLY <2>1, <2>2, <2>3, <1>1, left \in Seq(Segs), SeqEqual
  <2> QED BY <2>4 DEF u
<1>7. Keys(left) = Append(Keys(Front(left)), KeySeg(left[n])) /\ Keys(Front(left)) \in Seq(Segs)
  BY <1>3, <1>4, <1>6, KeysAppend
<1> QED BY <1>3, <1>4, <1>7, SegFacts

\* Only the empty template has the root's key.
LEMMA EmptyKeys ==
  ASSUME NEW left \in Seq(Segs)
  PROVE  Keys(left) = <<>> <=> left = <<>>
<1>1. Len(left) \in Nat /\ (Len(left) = 0 <=> left = <<>>) BY LenProperties, EmptySeq
<1>2. Len(Keys(left)) = Len(left) BY <1>1 DEF Keys
<1>3. Keys(<<>>) = <<>> BY DEF Keys
<1>4. Len(<<>>) = 0 OBVIOUS
<1> QED BY <1>1, <1>2, <1>3, <1>4

\* A ".." below the root takes the last segment away.
LEMMA SoundAscend ==
  ASSUME NEW at, NEW r, NEW K, NEW K0, DOMAIN at = Fields, at.damaged = FALSE,
         Sound(at, r, K, K0), at.cur # Root, ~Ascend(at).damaged
  PROVE  r.left # <<>> /\ \E L : Sound(Ascend(at), [r EXCEPT !.left = Front(@)], L, K0)
<1>a. PICK ns : ns = at.nodes OBVIOUS
<1>b. PICK cur : cur = at.cur OBVIOUS
<1>c. PICK p : p = ns[cur].parent OBVIOUS
<1>1. Worked(ns, cur, K, K0) /\ Tree(ns, K) /\ cur \in 1 .. Len(ns) /\ cur # 1
  BY <1>a, <1>b DEF Sound, Worked, Root
<1>u. Untouched(ns) BY <1>a DEF Sound
<1>2. PICK N \in Nat : N = Len(ns) BY <1>1, TreeFacts
<1>3. cur \in 2 .. N /\ cur \in 1 .. N /\ cur \in Nat BY ONLY <1>1, <1>2
<1>4. /\ p \in 1 .. cur - 1 /\ K[cur] = Append(K[p], KeySeg(ns[cur].seg))
      /\ K \in [1 .. N -> Seq(Segs)] /\ ns \in Seq(Cell)
  BY ONLY <1>1, <1>2, <1>3, <1>c DEF Tree
<1>5. p \in 1 .. N /\ p # cur
  <2>1. p \in 1 .. cur - 1 BY <1>4
  <2> QED BY ONLY <1>3, <2>1, N \in Nat
<1>d. DOMAIN ns = 1 .. N BY ONLY <1>2, <1>4
<1>6. K[p] \in Seq(Segs) /\ KeySeg(ns[cur].seg) \in Segs
  BY ONLY <1>2, <1>3, <1>4, <1>5, KindInt
<1>7. r.left \in Seq(Segs) /\ r.level \in Int /\ K[cur] = Keys(r.left) BY <1>b DEF Sound
<1>8. r.left # <<>>
  <2>1. K[cur] # <<>> BY ONLY <1>4, <1>6, AppendKey
  <2> QED BY ONLY <1>7, <2>1, EmptyKeys
<1>9. Front(r.left) \in Seq(Segs) /\ K[p] = Keys(Front(r.left))
  <2>1. PICK a \in Segs : Keys(r.left) = Append(Keys(Front(r.left)), a) BY <1>7, <1>8, FrontKeys
  <2>2. Front(r.left) \in Seq(Segs) /\ Keys(Front(r.left)) \in Seq(Segs) BY <1>7, <1>8, FrontKeys
  <2>3. PICK s \in Seq(Segs) : s = K[p] BY <1>6
  <2>4. PICK b \in Segs : b = KeySeg(ns[cur].seg) BY <1>6
  <2>5. PICK u \in Seq(Segs) : u = Keys(Front(r.left)) BY <2>2
  <2>6. Append(s, b) = Append(u, a) BY ONLY <1>4, <1>7, <2>1, <2>3, <2>4, <2>5
  <2>7. s = u
    BY ONLY <2>6, a \in Segs, b \in Segs, s \in Seq(Segs), u \in Seq(Segs), AppendSplits
  <2> QED BY ONLY <2>2, <2>3, <2>5, <2>7
<1>10. at.level = 0 /\ r.level = 0 /\ at.lost = FALSE BY <1>1, <1>b DEF Sound, Root
<1>11. PICK rr : rr = [r EXCEPT !.left = Front(@)] OBVIOUS
<1>12. rr \in [left : Seq(Segs), level : Int] /\ rr.left = Front(r.left) /\ rr.level = 0
  BY <1>9, <1>10, <1>11 DEF Sound
<1>13. PICK drop \in BOOLEAN : drop <=> cur = Len(ns) /\ ns[cur].resource = 0 /\ ns[cur].children = <<>>
  <2> DEFINE d == cur = Len(ns) /\ ns[cur].resource = 0 /\ ns[cur].children = <<>>
  <2>1. d \in BOOLEAN OBVIOUS
  <2> QED BY <2>1
<1>14. CASE ~drop
  <2>1. PICK b : b = [at EXCEPT !.cur = p] OBVIOUS
  <2>2. Ascend(at) = b BY ONLY <1>a, <1>b, <1>c, <1>5, <1>d, <1>13, <1>14, <2>1 DEF Ascend
  <2>3. Worked(ns, p, K, K0) BY ONLY <1>1, <1>c, <1>13, <1>14, WorkAscend
  <2>4. b.nodes = ns /\ b.cur = p /\ b.level = 0 /\ b.lost = FALSE
    BY ONLY <1>10, <1>a, <2>1, DOMAIN at = Fields DEF Fields
  <2>5. Sound(b, rr, K, K0) BY ONLY <1>u, <1>9, <1>10, <1>12, <2>3, <2>4 DEF Sound
  <2> QED BY ONLY <1>8, <1>11, <2>2, <2>5
<1>15. CASE drop
  <2>1. PICK ms : ms = Front(EraseChild(ns, p, N)) OBVIOUS
  <2>2. PICK worse : worse = (at.damaged \/ EraseDamages(ns, p, N)) OBVIOUS
  <2>3. PICK b : b = [at EXCEPT !.nodes = ms, !.cur = p, !.damaged = worse] OBVIOUS
  <2>4. cur = N /\ N >= 2 /\ ns[N].children = <<>> /\ ns[N].resource = 0 /\ p = ns[N].parent
    BY ONLY <1>2, <1>3, <1>13, <1>15, <1>c
  <2>5. Ascend(at) = b
    BY ONLY <1>a, <1>b, <1>c, <1>5, <1>d, <1>2, <1>13, <1>15, <2>1, <2>2, <2>3, <2>4, Zenon DEF Ascend
  <2>6. b.nodes = ms /\ b.cur = p /\ b.level = 0 /\ b.lost = FALSE /\ b.damaged = worse
    BY ONLY <1>10, <2>3, DOMAIN at = Fields DEF Fields
  <2>7. ~EraseDamages(ns, p, N)
    <3>1. ~worse BY <2>5, <2>6
    <3> QED BY ONLY <2>2, <3>1
  <2>8. PICK L : L = Shorter(K, N) OBVIOUS
  <2>9. Shrunk(ns, K, N, p, ms)
    BY ONLY <1>1, <1>2, <2>1, <2>4, <2>7, EraseTree
  <2>10. Worked(ms, p, L, K0) /\ Len(ms) = Len(nodes)
    <3>1. Worked(ns, cur, K, K0) BY <1>1
    <3>2. cur # 1 BY <1>1
    <3>3. Worked(ms, p, Shorter(K, N), K0) /\ Len(ms) = Len(nodes)
      BY ONLY <1>2, <2>4, <2>7, <2>9, <3>1, <3>2, N \in Nat, WorkErase, Zenon
    <3> QED BY ONLY <2>8, <3>3
  <2>11. L[p] = K[p]
    <3>1. p \in 1 .. N - 1 BY ONLY <1>4, <2>4
    <3> QED BY ONLY <2>8, <3>1 DEF Shorter
  <2>12. Untouched(ms)
    <3>1. PICK M \in Nat : \E q \in 1 .. M : Pruned(ns, ms, N, p, M, q) BY <2>9 DEF Shrunk
    <3>2. PICK q \in 1 .. M : Pruned(ns, ms, N, p, M, q) BY <3>1
    <3>3. PICK o \in Nat : o = Len(nodes) /\ o = N - 1 /\ N = o + 1
      BY ONLY <2>4, <2>9, <2>10, N \in Nat DEF Shrunk
    <3>4. Tree(ns, K) BY <1>1
    <3>5. Tree(ms, L) BY <2>8, <2>9 DEF Shrunk
    <3>6. p \in 1 .. o BY ONLY <1>4, <2>4, <3>3
    <3>7. o = Len(nodes) /\ N = o + 1 BY <3>3
    <3> QED BY ONLY <1>2, <1>u, <3>2, <3>4, <3>5, <3>6, <3>7, N \in Nat, o \in Nat, M \in Nat, q \in 1 .. M,
                    UntouchedPruned, Zenon
  <2>13. Sound(b, rr, L, K0) BY ONLY <1>9, <1>10, <1>12, <2>6, <2>10, <2>11, <2>12 DEF Sound
  <2> QED BY ONLY <1>8, <1>11, <2>5, <2>13
<1> QED BY ONLY <1>14, <1>15, drop \in BOOLEAN

\* To a child, or to a new one.
LEMMA SoundDescend ==
  ASSUME NEW at, NEW r, NEW K, NEW K0, DOMAIN at = Fields,
         Sound(at, r, K, K0), r.level = 0, NEW seg \in Segs
  PROVE  \E L : Sound(Descend(at, seg), [r EXCEPT !.left = Append(@, seg)], L, K0)
<1>1. PICK ns : ns = at.nodes OBVIOUS
<1>2. PICK cur : cur = at.cur OBVIOUS
<1>3. PICK kids : kids = ns[cur].children OBVIOUS
<1>4. PICK hits : hits = {i \in DOMAIN kids : kids[i] \in DOMAIN ns => Same(ns[kids[i]].seg, seg)}
  OBVIOUS
<1>5. PICK h : h = CHOOSE i \in hits : \A j \in hits : i <= j OBVIOUS
<1>6. Descend(at, seg) = IF hits = {} THEN Extend(at, seg)
                         ELSE IF kids[h] \in DOMAIN ns THEN [at EXCEPT !.cur = kids[h]]
                         ELSE [at EXCEPT !.lost = TRUE]
  <2> DEFINE ks == at.nodes[at.cur].children
             hs == {i \in DOMAIN ks : ks[i] \in DOMAIN at.nodes => Same(at.nodes[ks[i]].seg, seg)}
             first == CHOOSE i \in hs : \A j \in hs : i <= j
             k == ks[first]
  <2>1. Descend(at, seg) = IF hs = {} THEN Extend(at, seg)
                           ELSE IF k \in DOMAIN at.nodes THEN [at EXCEPT !.cur = k]
                           ELSE [at EXCEPT !.lost = TRUE]
    BY Zenon DEF Descend
  <2>2. ks = kids BY ONLY <1>1, <1>2, <1>3
  <2> HIDE DEF ks
  <2>3. hs = hits BY ONLY <1>1, <1>4, <2>2, Zenon
  <2> HIDE DEF hs
  <2>4. first = h BY ONLY <1>5, <2>3, Zenon
  <2> HIDE DEF first
  <2>5. k = kids[h] BY ONLY <2>2, <2>4
  <2> HIDE DEF k
  <2> QED BY ONLY <1>1, <2>1, <2>3, <2>5, Zenon
<1>7. Worked(ns, cur, K, K0) /\ Tree(ns, K) /\ cur \in 1 .. Len(ns)
  BY <1>1, <1>2 DEF Sound, Worked
<1>u. Untouched(ns) BY <1>1 DEF Sound
<1>8. PICK N \in Nat : N = Len(ns) BY <1>7, TreeFacts
<1>9. ns \in Seq(Cell) /\ DOMAIN ns = 1 .. N /\ cur \in 1 .. N BY <1>7, <1>8, TreeFacts
<1>10. kids \in Seq(Nat)
  <2>1. ns[cur] \in Cell BY <1>7, TreeFacts
  <2> QED BY ONLY <1>3, <2>1 DEF Cell
<1>11. PICK M \in Nat : M = Len(kids) BY <1>10, LenProperties
<1>12. DOMAIN kids = 1 .. M BY ONLY <1>10, <1>11
<1>13. ASSUME NEW i \in 1 .. M
       PROVE  /\ kids[i] \in 1 .. N
              /\ K[kids[i]] = Append(K[cur], KeySeg(ns[kids[i]].seg))
              /\ ns[kids[i]].seg \in Segs
  <2>1. i \in 1 .. Len(ns[cur].children) BY ONLY <1>3, <1>11, i \in 1 .. M
  <2>2. /\ ns[cur].children[i] \in 2 .. Len(ns)
        /\ K[ns[cur].children[i]] = Append(K[cur], KeySeg(ns[ns[cur].children[i]].seg))
    BY ONLY <1>7, <2>1, TreeFacts
  <2>3. kids[i] \in 2 .. N /\ K[kids[i]] = Append(K[cur], KeySeg(ns[kids[i]].seg))
    BY ONLY <1>3, <1>8, <2>2
  <2>4. kids[i] \in 1 .. N BY ONLY <2>3, N \in Nat
  <2>5. ns[kids[i]].seg \in Segs BY ONLY <1>8, <1>9, <2>4, KindInt
  <2> QED BY ONLY <2>3, <2>4, <2>5
<1>14. \A i \in 1 .. M : i \in hits <=> Same(ns[kids[i]].seg, seg)
  BY ONLY <1>4, <1>9, <1>12, <1>13
<1>15. \A i \in hits : i \in 1 .. M BY ONLY <1>4, <1>12
<1>16. PICK rr : rr = [r EXCEPT !.left = Append(@, seg)] OBVIOUS
<1>17. /\ r.left \in Seq(Segs) /\ K[cur] = Keys(r.left) /\ at.level = 0 /\ at.lost = FALSE
       /\ rr \in [left : Seq(Segs), level : Int] /\ rr.left = Append(r.left, seg) /\ rr.level = 0
  <2>1. /\ r \in [left : Seq(Segs), level : Int] /\ K[cur] = Keys(r.left) /\ at.level = 0
        /\ at.lost = FALSE
    BY <1>2 DEF Sound
  <2>2. Append(r.left, seg) \in Seq(Segs) BY <2>1, AppendProperties
  <2> QED BY ONLY <1>16, <2>1, <2>2, r.level = 0
<1>18. Keys(rr.left) = Append(K[cur], KeySeg(seg)) BY <1>17, KeysAppend
<1>19. CASE hits = {}
  <2>1. Descend(at, seg) = Extend(at, seg) BY ONLY <1>6, <1>19
  <2>2. Unlike(ns, cur, seg)
    <3>1. \A i \in 1 .. M : ~Same(ns[kids[i]].seg, seg) BY ONLY <1>14, <1>19
    <3> QED BY ONLY <1>3, <1>11, <3>1 DEF Unlike
  <2>3. PICK as : as = Append(ns, Node(seg, cur)) OBVIOUS
  <2>4. PICK ms : ms = [as EXCEPT ![cur].children = SortedInsert(as, @, N + 1)] OBVIOUS
  <2>5. PICK b : b = [at EXCEPT !.nodes = ms, !.cur = N + 1] OBVIOUS
  <2>6. Extend(at, seg) = b
    BY ONLY <1>1, <1>2, <1>8, <2>3, <2>4, <2>5 DEF Extend
  <2>7. b.nodes = ms /\ b.cur = N + 1 /\ b.level = 0 /\ b.lost = FALSE
    BY ONLY <1>17, <2>5, DOMAIN at = Fields DEF Fields
  <2>8. Adopted(as, ms, cur, N + 1) BY ONLY <2>4 DEF Adopted
  <2>9. PICK L : L = Longer(K, N, cur, KeySeg(seg)) OBVIOUS
  <2>10. /\ Tree(ms, L) /\ Len(ms) = N + 1
         /\ \A n \in 1 .. N : ms[n].resource = ns[n].resource /\ ms[n].parent = ns[n].parent
         /\ ms[N + 1].resource = 0 /\ ms[N + 1].parent = cur /\ ms[N + 1].children = <<>>
         /\ ChildrenStay(ns, ms, N, 0)
         /\ \E m \in Nat : \E p \in 0 .. m : Grown(ns, ms, N, cur, m, p)
    <3>1. Tree(ns, K) BY <1>7
    <3>2. cur \in 1 .. N BY <1>9
    <3>3. Extended(ns, K, N, cur, seg, ms)
      BY ONLY <1>8, <2>2, <2>3, <2>8, <3>1, <3>2, N \in Nat, seg \in Segs, ExtendTree, Zenon
    <3> QED BY ONLY <2>9, <3>3 DEF Extended
  <2>11. Worked(ms, N + 1, L, K0)
    <3>1. Worked(ns, cur, K, K0) BY <1>7
    <3>2. PICK key : key = KeySeg(seg) OBVIOUS
    <3>3. Tree(ms, Longer(K, N, cur, key)) BY ONLY <2>9, <2>10, <3>2
    <3>4. Len(ms) = N + 1 BY <2>10
    <3>5. \A n \in 1 .. N : ms[n].resource = ns[n].resource /\ ms[n].parent = ns[n].parent BY <2>10
    <3>6. ms[N + 1].resource = 0 BY <2>10
    <3>7. ms[N + 1].parent = cur BY <2>10
    <3>8. ms[N + 1].children = <<>> BY <2>10
    <3>9. ChildrenStay(ns, ms, N, 0) BY <2>10
    <3>10. Worked(ms, N + 1, Longer(K, N, cur, key), K0)
      BY ONLY <1>8, <3>1, <3>3, <3>4, <3>5, <3>6, <3>7, <3>8, <3>9, N \in Nat, WorkExtend, Zenon
    <3> QED BY ONLY <2>9, <3>2, <3>10
  <2>12. L[N + 1] = Append(K[cur], KeySeg(seg)) BY ONLY <2>9, N \in Nat DEF Longer
  <2>13. Untouched(ms)
    <3>1. PICK m \in Nat : \E p \in 0 .. m : Grown(ns, ms, N, cur, m, p) BY <2>10
    <3>2. PICK p \in 0 .. m : Grown(ns, ms, N, cur, m, p) BY <3>1
    <3>3. Worked(ns, cur, K, K0) BY <1>7
    <3>4. Tree(ms, L) BY <2>10
    <3> QED BY ONLY <1>8, <1>u, <3>2, <3>3, <3>4, N \in Nat, m \in Nat, p \in 0 .. m, UntouchedGrows, Zenon
  <2>14. Sound(b, rr, L, K0) BY ONLY <1>17, <1>18, <2>7, <2>11, <2>12, <2>13 DEF Sound
  <2> QED BY ONLY <1>16, <2>1, <2>6, <2>14
<1>20. CASE hits # {}
  <2>1. h \in hits
    <3>1. hits \in SUBSET Nat BY ONLY <1>15, M \in Nat
    <3>2. \E i \in hits : \A j \in hits : i <= j BY ONLY <1>20, <3>1, Smallest
    <3> QED BY ONLY <1>5, <3>2
  <2>2. h \in 1 .. M BY ONLY <1>15, <2>1
  <2>3. kids[h] \in 1 .. N /\ Same(ns[kids[h]].seg, seg) BY ONLY <1>13, <1>14, <2>1, <2>2
  <2>4. PICK b : b = [at EXCEPT !.cur = kids[h]] OBVIOUS
  <2>5. Descend(at, seg) = b BY ONLY <1>6, <1>9, <1>20, <2>3, <2>4
  <2>6. b.nodes = ns /\ b.cur = kids[h] /\ b.level = 0 /\ b.lost = FALSE
    BY ONLY <1>1, <1>17, <2>4, DOMAIN at = Fields DEF Fields
  <2>7. Worked(ns, kids[h], K, K0)
    <3>1. h \in 1 .. Len(ns[cur].children) BY ONLY <1>3, <1>11, <2>2
    <3>2. Worked(ns, ns[cur].children[h], K, K0) BY ONLY <1>7, <3>1, WorkVisit
    <3> QED BY ONLY <1>3, <3>2
  <2>8. K[kids[h]] = Keys(rr.left)
    <3>1. ns[kids[h]].seg \in Segs BY ONLY <1>13, <2>2
    <3>2. KeySeg(ns[kids[h]].seg) = KeySeg(seg) BY ONLY <2>3, <3>1, seg \in Segs, SameKey
    <3>3. K[kids[h]] = Append(K[cur], KeySeg(ns[kids[h]].seg)) BY ONLY <1>13, <2>2
    <3> QED BY ONLY <1>18, <3>2, <3>3
  <2>9. Sound(b, rr, K, K0) BY ONLY <1>17, <1>u, <2>6, <2>7, <2>8 DEF Sound
  <2> QED BY ONLY <1>16, <2>5, <2>9
<1> QED BY ONLY <1>19, <1>20

\* Any segment.
LEMMA StepGood ==
  ASSUME NEW at, NEW r, NEW K0, Going(at, r, K0), NEW seg \in Segs
  PROVE  Going(InsertSegment(at, seg), Reduction(r, seg), K0)
<1> DEFINE b == InsertSegment(at, seg)
           rr == Reduction(r, seg)
<1>1. DOMAIN at = Fields /\ at.damaged \in BOOLEAN BY DEF Going
<1>2. DOMAIN b = Fields /\ b.damaged \in BOOLEAN /\ (at.damaged => b.damaged)
  BY <1>1, DamageStays
<1> SUFFICES ASSUME ~b.damaged PROVE \E L : Sound(b, rr, L, K0)
  BY <1>2 DEF Going
<1>3. at.damaged = FALSE BY <1>1, <1>2
<1>4. PICK K : Sound(at, r, K, K0) BY <1>3 DEF Going
<1>5. /\ at.lost = FALSE /\ at.level = r.level /\ r.level \in Int /\ r.level <= 0
      /\ r.left \in Seq(Segs) /\ K[at.cur] = Keys(r.left) /\ (r.level < 0 => at.cur = Root)
      /\ r \in [left : Seq(Segs), level : Int] /\ Worked(at.nodes, at.cur, K, K0)
      /\ Untouched(at.nodes)
  BY <1>4 DEF Sound
<1>6. CASE seg = Dot
  <2>1. Dot # DotDot BY DEF Dot, DotDot, Literal
  <2>2. b = at BY <1>6, <2>1 DEF InsertSegment
  <2>3. rr = r BY <1>6, <2>1 DEF Reduction, Reduce
  <2> QED BY <1>4, <2>2, <2>3
<1>7. CASE seg = DotDot
  <2>1. Dot # DotDot BY DEF Dot, DotDot, Literal
  <2>2. CASE at.cur = Root
    <3>1. b = [at EXCEPT !.level = @ - 1] BY <1>5, <1>7, <2>1, <2>2 DEF InsertSegment
    <3>2. r.left = <<>>
      <4>1. K[at.cur] = <<>> BY <1>5, <2>2 DEF Worked, Tree, Root
      <4> QED BY <1>5, <4>1, EmptyKeys
    <3>3. rr = [r EXCEPT !.level = @ - 1] BY <1>7, <2>1, <3>2 DEF Reduction, Reduce
    <3>4. b.nodes = at.nodes /\ b.cur = at.cur /\ b.lost = FALSE /\ b.level = r.level - 1
      BY <1>1, <1>5, <3>1 DEF Fields
    <3>5. rr \in [left : Seq(Segs), level : Int] /\ rr.left = r.left /\ rr.level = r.level - 1
      BY <1>5, <3>3
    <3> HIDE DEF b, rr
    <3>6. Sound(b, rr, K, K0) BY <1>5, <2>2, <3>4, <3>5 DEF Sound
    <3> QED BY <3>6
  <2>3. CASE at.cur # Root
    <3>1. b = Ascend(at) BY <1>5, <1>7, <2>1, <2>3 DEF InsertSegment
    <3>2. /\ r.left # <<>>
          /\ \E L : Sound(Ascend(at), [r EXCEPT !.left = Front(@)], L, K0)
      BY <1>1, <1>3, <1>4, <2>3, <3>1, SoundAscend
    <3>3. rr = [r EXCEPT !.left = Front(@)] BY <1>7, <2>1, <3>2 DEF Reduction, Reduce
    <3> QED BY <3>1, <3>2, <3>3
  <2> QED BY <2>2, <2>3
<1>8. CASE seg \notin {Dot, DotDot}
  <2>1. CASE r.level < 0
    <3>1. b = [at EXCEPT !.level = @ + 1] BY <1>5, <1>8, <2>1 DEF InsertSegment
    <3>3. rr = [r EXCEPT !.level = @ + 1] BY <1>8, <2>1 DEF Reduction, Reduce
    <3>4. b.nodes = at.nodes /\ b.cur = at.cur /\ b.lost = FALSE /\ b.level = r.level + 1
      BY <1>1, <1>5, <3>1 DEF Fields
    <3>5. rr \in [left : Seq(Segs), level : Int] /\ rr.left = r.left /\ rr.level = r.level + 1
      BY <1>5, <3>3
    <3> HIDE DEF b, rr
    <3>6. Sound(b, rr, K, K0) BY <1>5, <2>1, <3>4, <3>5 DEF Sound
    <3> QED BY <3>6
  <2>2. CASE ~(r.level < 0)
    <3>1. b = Descend(at, seg) BY <1>5, <1>8, <2>2 DEF InsertSegment
    <3>2. rr = [r EXCEPT !.left = Append(@, seg)] BY <1>8, <2>2 DEF Reduction, Reduce
    <3>3. r.level = 0 BY <1>5, <2>2
    <3>4. \E L : Sound(Descend(at, seg), [r EXCEPT !.left = Append(@, seg)], L, K0)
      BY <1>1, <1>4, <3>3, SoundDescend
    <3> QED BY <3>1, <3>2, <3>4
  <2> QED BY <2>1, <2>2
<1> QED BY <1>6, <1>7, <1>8

\* A whole template.
LEMMA InsertedGood ==
  ASSUME NEW t \in Templates, NEW K0, Going(Start, [left |-> <<>>, level |-> 0], K0)
  PROVE  Going(Inserted(t), ReducedTemplate(t), K0)
<1>1. t \in Seq(Segments) BY TemplateAssumption
<1>2. PICK n \in Nat : n = Len(t) BY <1>1, LenProperties
<1>3. \A i \in 1 .. n : t[i] \in Segs
  <2>1. \A i \in 1 .. n : t[i] \in Segments BY <1>1, <1>2, ElementOfSeq
  <2> QED BY <2>1 DEF Segments, Segs
<1>4. PICK at : /\ at[0] = Start
                /\ \A i \in 1 .. n : at[i] = InsertSegment(at[i - 1], t[i])
                /\ Inserted(t) = at[n]
  BY <1>2, InsertedRun
<1>5. PICK r : /\ r[0] = [left |-> <<>>, level |-> 0]
               /\ \A i \in 1 .. n : r[i] = Reduction(r[i - 1], t[i])
               /\ ReducedTemplate(t) = r[n]
  BY <1>2, ReducedRun
<1> DEFINE T == {i \in 0 .. n : ~Going(at[i], r[i], K0)}
<1>6. T = {}
  <2> SUFFICES ASSUME T # {} PROVE FALSE OBVIOUS
  <2>1. T \in SUBSET Nat OBVIOUS
  <2>2. PICK x \in T : \A y \in T : x <= y
    <3> HIDE DEF T
    <3> QED BY <2>1, Smallest
  <2>3. x \in 0 .. n /\ ~Going(at[x], r[x], K0) OBVIOUS
  <2>4. x # 0 BY <2>3, <1>4, <1>5
  <2>5. x \in 1 .. n /\ x - 1 \in 0 .. n /\ ~(x <= x - 1) BY <1>2, <2>3, <2>4
  <2>6. Going(at[x - 1], r[x - 1], K0) BY <2>2, <2>5
  <2>7. Going(InsertSegment(at[x - 1], t[x]), Reduction(r[x - 1], t[x]), K0)
    <3>1. t[x] \in Segs BY <1>3, <2>5
    <3> QED BY <2>6, <3>1, StepGood
  <2> QED BY <1>4, <1>5, <2>3, <2>5, <2>7
<1>7. n \in 0 .. n BY <1>2
<1> QED BY <1>4, <1>5, <1>6, <1>7

-----------------------------------------------------------------------------
(* The routes                                                               *)

\* Live, for any list of calls.
LiveIn(rs) ==
  {k \in 1 .. Len(rs) :
     /\ ~Throws(rs[k])
     /\ \A j \in k + 1 .. Len(rs) : Throws(rs[j]) \/ Key(rs[j]) # Key(rs[k])}

\* A call that throws leaves the live calls alone; another joins them and takes
\* the one with its key out.
LEMMA LiveAppend ==
  ASSUME NEW rs \in Seq(Templates), NEW t \in Templates, NEW L \in Nat, L = Len(rs)
  PROVE  /\ Append(rs, t) \in Seq(Templates) /\ Len(Append(rs, t)) = L + 1
         /\ Append(rs, t)[L + 1] = t
         /\ \A k \in 1 .. L : Append(rs, t)[k] = rs[k]
         /\ \A k \in LiveIn(rs) : k \in 1 .. L
         /\ Throws(t) => LiveIn(Append(rs, t)) = LiveIn(rs)
         /\ ~Throws(t) =>
              /\ \A k \in LiveIn(Append(rs, t)) :
                   k = L + 1 \/ (k \in LiveIn(rs) /\ Key(rs[k]) # Key(t))
              /\ L + 1 \in LiveIn(Append(rs, t))
              /\ \A k \in LiveIn(rs) :
                   Key(rs[k]) # Key(t) => k \in LiveIn(Append(rs, t))
<1> DEFINE s == Append(rs, t)
<1>1. /\ s \in Seq(Templates) /\ Len(s) = L + 1 /\ s[L + 1] = t
      /\ \A k \in 1 .. L : s[k] = rs[k]
  BY AppendProperties
<1> HIDE DEF s
<1>2. \A k : k \in LiveIn(rs) <=>
        /\ k \in 1 .. L /\ ~Throws(rs[k])
        /\ \A j \in k + 1 .. L : Throws(rs[j]) \/ Key(rs[j]) # Key(rs[k])
  BY DEF LiveIn
<1>3. \A k : k \in LiveIn(s) <=>
        /\ k \in 1 .. L + 1 /\ ~Throws(s[k])
        /\ \A j \in k + 1 .. L + 1 : Throws(s[j]) \/ Key(s[j]) # Key(s[k])
  BY <1>1 DEF LiveIn
<1>4. ASSUME NEW k \in 1 .. L
      PROVE  k \in LiveIn(s) <=> k \in LiveIn(rs) /\ (Throws(t) \/ Key(t) # Key(rs[k]))
  <2>1. k \in 1 .. L + 1 /\ s[k] = rs[k] /\ L + 1 \in k + 1 .. L + 1 BY <1>1
  <2>2. \A j \in k + 1 .. L : j \in k + 1 .. L + 1 /\ s[j] = rs[j] BY <1>1
  <2>3. \A j \in k + 1 .. L + 1 : j \in k + 1 .. L \/ j = L + 1 OBVIOUS
  <2>4. (\A j \in k + 1 .. L + 1 : Throws(s[j]) \/ Key(s[j]) # Key(s[k]))
          <=> /\ \A j \in k + 1 .. L : Throws(rs[j]) \/ Key(rs[j]) # Key(rs[k])
              /\ Throws(t) \/ Key(t) # Key(rs[k])
    <3>1. ASSUME \A j \in k + 1 .. L + 1 : Throws(s[j]) \/ Key(s[j]) # Key(s[k])
          PROVE  /\ \A j \in k + 1 .. L : Throws(rs[j]) \/ Key(rs[j]) # Key(rs[k])
                 /\ Throws(t) \/ Key(t) # Key(rs[k])
      <4>1. ASSUME NEW j \in k + 1 .. L PROVE Throws(rs[j]) \/ Key(rs[j]) # Key(rs[k])
        <5>1. j \in k + 1 .. L + 1 /\ s[j] = rs[j] BY <2>2
        <5>2. Throws(s[j]) \/ Key(s[j]) # Key(s[k]) BY <3>1, <5>1
        <5> QED BY ONLY <2>1, <5>1, <5>2
      <4>2. Throws(s[L + 1]) \/ Key(s[L + 1]) # Key(s[k]) BY <2>1, <3>1
      <4>3. Throws(t) \/ Key(t) # Key(rs[k]) BY ONLY <1>1, <2>1, <4>2
      <4> QED BY <4>1, <4>3
    <3>2. ASSUME \A j \in k + 1 .. L : Throws(rs[j]) \/ Key(rs[j]) # Key(rs[k]),
                 Throws(t) \/ Key(t) # Key(rs[k]), NEW j \in k + 1 .. L + 1
          PROVE  Throws(s[j]) \/ Key(s[j]) # Key(s[k])
      <4>1. CASE j \in k + 1 .. L
        <5>1. Throws(rs[j]) \/ Key(rs[j]) # Key(rs[k]) BY <3>2, <4>1
        <5>2. s[j] = rs[j] BY <2>2, <4>1
        <5> QED BY ONLY <2>1, <5>1, <5>2
      <4>2. CASE j = L + 1
        <5>1. s[j] = t BY <1>1, <4>2
        <5> QED BY ONLY <2>1, <3>2, <5>1
      <4> QED BY <2>3, <4>1, <4>2
    <3> QED BY <3>1, <3>2
  <2>5. Throws(s[k]) <=> Throws(rs[k]) BY ONLY <2>1
  <2> QED BY ONLY <1>2, <1>3, <2>1, <2>4, <2>5, k \in 1 .. L
<1>5. \A k \in 1 .. L + 1 : k \in 1 .. L \/ k = L + 1 OBVIOUS
<1>6. L + 1 \in LiveIn(s) <=> ~Throws(t)
  <2>1. L + 1 \in 1 .. L + 1 /\ ~ \E j \in L + 1 + 1 .. L + 1 : TRUE OBVIOUS
  <2> QED BY <1>1, <1>3, <2>1
<1>7. \A k \in LiveIn(rs) : k \in 1 .. L BY <1>2
<1>8. \A k \in LiveIn(s) : k \in 1 .. L + 1 BY <1>3
<1>9. ASSUME Throws(t) PROVE LiveIn(s) = LiveIn(rs)
  <2>1. \A k \in LiveIn(s) : k \in LiveIn(rs) BY <1>4, <1>5, <1>6, <1>8, <1>9
  <2>2. \A k \in LiveIn(rs) : k \in LiveIn(s) BY <1>4, <1>7, <1>9
  <2> QED BY <2>1, <2>2
<1>10. ASSUME ~Throws(t)
       PROVE  /\ \A k \in LiveIn(s) : k = L + 1 \/ (k \in LiveIn(rs) /\ Key(rs[k]) # Key(t))
              /\ \A k \in LiveIn(rs) : Key(rs[k]) # Key(t) => k \in LiveIn(s)
  <2>1. ASSUME NEW k \in LiveIn(s) PROVE k = L + 1 \/ (k \in LiveIn(rs) /\ Key(rs[k]) # Key(t))
    <3>1. k \in 1 .. L \/ k = L + 1 BY <1>5, <1>8
    <3>2. CASE k \in 1 .. L
      <4>1. Throws(t) \/ Key(t) # Key(rs[k]) BY <1>4, <3>2
      <4>2. Key(rs[k]) # Key(t) BY ONLY <4>1, <1>10
      <4>3. k \in LiveIn(rs) BY <1>4, <3>2
      <4> QED BY ONLY <4>2, <4>3
    <3> QED BY ONLY <3>1, <3>2
  <2>2. ASSUME NEW k \in LiveIn(rs), Key(rs[k]) # Key(t) PROVE k \in LiveIn(s)
    <3>1. Key(t) # Key(rs[k]) BY ONLY <2>2
    <3> QED BY <1>4, <1>7, <3>1
  <2> QED BY <2>1, <2>2
<1> QED BY <1>1, <1>6, <1>7, <1>9, <1>10 DEF s

\* ms is ns with a resource at cur.
Marked(ns, ms, cur, res) == ms = [ns EXCEPT ![cur].resource = res]

\* Nothing else has changed.
OnlyMarked(ns, ms, K, N, cur, res) ==
  /\ Tree(ms, K) /\ Len(ms) = N
  /\ \A n \in 1 .. N : n # cur => ms[n].resource = ns[n].resource
  /\ \A n \in 1 .. N : ms[n].parent = ns[n].parent /\ ms[n].children = ns[n].children
  /\ ms[cur].resource = res

\* Storing a resource leaves the tree alone.
LEMMA TreeStores ==
  ASSUME NEW ns, NEW K, Tree(ns, K), NEW N \in Nat, N = Len(ns), NEW cur \in 1 .. N, NEW res \in Nat,
         NEW ms, Marked(ns, ms, cur, res)
  PROVE  OnlyMarked(ns, ms, K, N, cur, res)
<1>1. ns \in Seq(Cell) /\ ns[cur] \in Cell BY ElementOfSeq DEF Tree
<1> DEFINE cell == [ns[cur] EXCEPT !.resource = res]
<1>2. cell \in Cell /\ cell.seg = ns[cur].seg /\ cell.parent = ns[cur].parent
      /\ cell.children = ns[cur].children /\ cell.resource = res
  BY <1>1 DEF Cell
<1>3. ms = [ns EXCEPT ![cur] = cell] BY DEF Marked
<1> HIDE DEF cell
<1>4. /\ ms \in Seq(Cell) /\ Len(ms) = N /\ ms[cur] = cell
      /\ \A n \in 1 .. N : n # cur => ms[n] = ns[n]
  BY <1>1, <1>2, <1>3, ExceptSeq
<1>5. \A n \in 1 .. N : /\ ms[n].seg = ns[n].seg /\ ms[n].parent = ns[n].parent
                        /\ ms[n].children = ns[n].children
  BY <1>2, <1>4
<1>6. \A n \in 1 .. N : Children(ns, n) BY DEF Tree
<1>7. ASSUME NEW n \in 1 .. N PROVE Children(ms, n)
  <2>1. \A i \in 1 .. Len(ns[n].children) :
           ns[n].children[i] \in 1 .. N /\ ns[n].children[i] \in 2 .. N
    BY <1>6 DEF Children
  <2>2. \A i \in 1 .. Len(ns[n].children) :
           /\ Kind(ms, ns[n].children[i]) = Kind(ns, ns[n].children[i])
           /\ ms[ns[n].children[i]].parent = ns[ns[n].children[i]].parent
    BY <1>5, <2>1 DEF Kind
  <2>3. Children(ns, n) /\ ms[n].children = ns[n].children BY <1>5, <1>6
  <2>4. \A i \in 1 .. Len(ns[n].children) :
           LET k == ns[n].children[i]
           IN  k \in 2 .. Len(ms) /\ ms[k].seg = ns[k].seg /\ ms[k].parent = ns[k].parent
    BY <1>4, <1>5, <2>1
  <2> QED BY ONLY <2>3, <2>4, ChildrenKept
<1>8. \A n \in 2 .. N : ns[n].parent \in 1 .. n - 1 /\ Hangs(ns, n)
                        /\ K[n] = Append(K[ns[n].parent], KeySeg(ns[n].seg))
  BY DEF Tree
<1>9. \A n \in 2 .. N : ms[n].parent \in 1 .. n - 1 /\ Hangs(ms, n)
                        /\ K[n] = Append(K[ms[n].parent], KeySeg(ms[n].seg))
  <2> TAKE n \in 2 .. N
  <2>1. n \in 1 .. N /\ ns[n].parent \in 1 .. N BY <1>8
  <2>2. /\ ms[n].seg = ns[n].seg /\ ms[n].parent = ns[n].parent
        /\ ms[ns[n].parent].children = ns[ns[n].parent].children
    BY <1>5, <2>1
  <2>3. Hangs(ns, n) BY <1>8
  <2>4. Hangs(ms, n) BY ONLY <2>2, <2>3 DEF Hangs
  <2> QED BY <1>8, <2>2, <2>4
<1>10. Tree(ms, K) BY <1>4, <1>7, <1>9 DEF Tree
<1> QED BY <1>2, <1>4, <1>5, <1>10 DEF OnlyMarked

-----------------------------------------------------------------------------
(* The invariant                                                            *)

\* The tree ns holds the live calls of rs, each at the node of its key.
Stored(ns, rs, K) ==
  /\ Tree(ns, K)
  /\ \A n \in 2 .. Len(ns) :
       ns[n].resource # 0 \/ \E i \in 1 .. Len(ns[n].children) : TRUE
  /\ \A n \in 1 .. Len(ns) :
       ns[n].resource # 0 =>
         ns[n].resource \in LiveIn(rs) /\ K[n] = Key(rs[ns[n].resource])
  /\ \A k \in LiveIn(rs) : \E n \in 1 .. Len(ns) : ns[n].resource = k

\* A call that has thrown has changed nothing.
Restored == ~damaged => StrongGuarantee

\* The inductive invariant.
IInv ==
  /\ routes \in Seq(Templates)
  /\ damaged \in BOOLEAN
  /\ ~damaged => \E K : Stored(nodes, routes, K)
  /\ Restored

\* Before the first segment.
LEMMA StartGood ==
  ASSUME NEW K, Stored(nodes, routes, K)
  PROVE  Going(Start, [left |-> <<>>, level |-> 0], K)
<1> DEFINE r == [left |-> <<>>, level |-> 0]
<1>1. Tree(nodes, K) BY DEF Stored
<1>2. Len(nodes) \in Nat /\ Len(nodes) >= 1 BY <1>1, TreeFacts
<1>3. \A n \in 2 .. Len(nodes) :
        \/ nodes[n].resource # 0
        \/ \E i \in 1 .. Len(nodes[n].children) : nodes[n].children[i] <= Len(nodes)
  <2> SUFFICES ASSUME NEW n \in 2 .. Len(nodes), nodes[n].resource = 0
               PROVE  \E i \in 1 .. Len(nodes[n].children) : nodes[n].children[i] <= Len(nodes)
    OBVIOUS
  <2>1. n \in 1 .. Len(nodes) BY <1>2
  <2>2. PICK i \in 1 .. Len(nodes[n].children) : TRUE BY DEF Stored
  <2>3. nodes[n].children[i] \in 2 .. Len(nodes) BY <1>1, <2>1, <2>2, TreeFacts
  <2> QED BY <1>2, <2>2, <2>3
<1>4. Worked(nodes, 1, K, K) BY <1>1, <1>2, <1>3 DEF Worked
<1>5. r \in [left : Seq(Segs), level : Int] /\ r.left = <<>> /\ r.level = 0 OBVIOUS
<1>6. /\ Start.nodes = nodes /\ Start.cur = 1 /\ Start.level = 0 /\ Start.lost = FALSE
      /\ Start.damaged = FALSE /\ DOMAIN Start = Fields
  BY DEF Start, Root, Fields
<1>7. K[1] = <<>> BY <1>1 DEF Tree
<1>8. Keys(r.left) = <<>>
  <2>1. <<>> \in Seq(Segs) OBVIOUS
  <2> QED BY <1>5, <2>1, EmptyKeys
<1> HIDE DEF r
<1>9. Untouched(nodes)
  <2> SUFFICES ASSUME NEW n \in 1 .. Len(nodes)
               PROVE  Beside(nodes[n].children, nodes[n].children, Len(nodes) + 1)
    BY DEF Untouched
  <2>1. \A i \in 1 .. Len(nodes[n].children) : nodes[n].children[i] \in 2 .. Len(nodes)
    BY <1>1, TreeFacts
  <2>2. \A k \in 2 .. Len(nodes) : k # Len(nodes) + 1 BY <1>2
  <2>3. \A i \in 1 .. Len(nodes[n].children) : nodes[n].children[i] # Len(nodes) + 1
    BY ONLY <2>1, <2>2
  <2> QED BY ONLY <2>3 DEF Beside
<1>10. Sound(Start, r, K, K) BY <1>4, <1>5, <1>6, <1>7, <1>8, <1>9 DEF Sound
<1> QED BY <1>6, <1>10 DEF Going, r

\* The key of a template, and of a node, are made alike.
LEMMA KeyOfTemplate ==
  ASSUME NEW t, ReducedTemplate(t).left \in Seq(Segs)
  PROVE  Key(t) = Keys(ReducedTemplate(t).left)
<1> DEFINE left == ReducedTemplate(t).left
<1>1. left \in Seq(Segs) /\ DOMAIN left = 1 .. Len(left) OBVIOUS
<1>2. Key(t) = [i \in DOMAIN left |-> IF left[i].kind = "literal" THEN left[i]
                                      ELSE Field(left[i].kind, "")]
  BY DEF Key
<1>3. Keys(left) = [i \in 1 .. Len(left) |-> IF left[i].kind = "literal" THEN left[i]
                                             ELSE Field(left[i].kind, "")]
  BY DEF Keys, KeySeg
<1> HIDE DEF left
<1> QED BY <1>1, <1>2, <1>3 DEF left

\* A template that leaves the root has added nothing.
LEMMA ThrowStep ==
  ASSUME NEW at, NEW r, NEW K, NEW K0, Stored(nodes, routes, K0), Sound(at, r, K, K0),
         r.level # 0, routes \in Seq(Templates), NEW t \in Templates, Throws(t)
  PROVE  Stored(at.nodes, Append(routes, t), K0)
<1> DEFINE ns == at.nodes
<1>1. Worked(ns, 1, K, K0) /\ at.cur = 1
  BY DEF Sound, Root
<1>2. PICK o \in Nat : o = Len(nodes) /\ o >= 1 /\ o <= Len(ns) BY <1>1 DEF Worked
<1>3. Len(ns) = o
  <2>1. Len(ns) > o => 1 = Len(ns) BY <1>1, <1>2 DEF Worked
  <2>2. Tree(ns, K) BY <1>1 DEF Worked
  <2>3. PICK q \in Nat : q = Len(ns) BY <2>2, TreeFacts
  <2> HIDE DEF ns
  <2> QED BY ONLY <1>2, <2>1, <2>3
<1>4. /\ Tree(ns, K)
      /\ \A n \in 1 .. o : ns[n].resource = nodes[n].resource /\ K[n] = K0[n]
      /\ \A n \in 2 .. o :
           ns[n].resource # 0 \/ \E i \in 1 .. Len(ns[n].children) : ns[n].children[i] <= o
  BY <1>1, <1>2 DEF Worked
<1>5. K = K0
  <2>1. K \in [1 .. o -> Seq(Segs)] BY <1>3, <1>4 DEF Tree
  <2>2. K0 \in [1 .. o -> Seq(Segs)] BY <1>2 DEF Stored, Tree
  <2> QED BY <1>4, <2>1, <2>2
<1>6. PICK L \in Nat : L = Len(routes) BY LenProperties
<1> DEFINE rs == Append(routes, t)
<1>7. /\ LiveIn(rs) = LiveIn(routes)
      /\ \A k \in LiveIn(routes) : rs[k] = routes[k]
  BY <1>6, LiveAppend
<1>8. \A n \in 1 .. o :
        nodes[n].resource # 0 =>
          nodes[n].resource \in LiveIn(routes) /\ K0[n] = Key(routes[nodes[n].resource])
  BY <1>2 DEF Stored
<1>9. \A k \in LiveIn(routes) : \E n \in 1 .. o : nodes[n].resource = k
  BY <1>2 DEF Stored
<1> HIDE DEF ns, rs
<1>10. \A n \in 1 .. o :
         ns[n].resource # 0 => ns[n].resource \in LiveIn(rs) /\ K0[n] = Key(rs[ns[n].resource])
  <2> SUFFICES ASSUME NEW n \in 1 .. o, NEW k, k = ns[n].resource, k # 0
               PROVE  k \in LiveIn(rs) /\ K0[n] = Key(rs[k])
    OBVIOUS
  <2>1. k = nodes[n].resource BY <1>4
  <2>2. k \in LiveIn(routes) /\ K0[n] = Key(routes[k]) BY <1>8, <2>1
  <2> QED BY <1>7, <2>2
<1>11. \A k \in LiveIn(rs) : \E n \in 1 .. o : ns[n].resource = k
  BY <1>4, <1>7, <1>9
<1>12. \A n \in 2 .. o : ns[n].resource # 0 \/ \E i \in 1 .. Len(ns[n].children) : TRUE
  BY <1>4
<1>13. Stored(ns, rs, K0)
  BY ONLY <1>3, <1>4, <1>5, <1>10, <1>11, <1>12 DEF Stored
<1> QED BY <1>13 DEF ns, rs

\* A template that leaves the root has taken all that it had added away.
LEMMA ThrowSame ==
  ASSUME NEW at, NEW r, NEW K, NEW K0, Sound(at, r, K, K0), r.level # 0, nodes \in Seq(Cell)
  PROVE  at.nodes = nodes
<1>1. PICK ns : ns = at.nodes OBVIOUS
<1>2. Worked(ns, 1, K, K0) /\ Untouched(ns) BY <1>1 DEF Sound, Root
<1>3. PICK o \in Nat : o = Len(nodes) /\ o >= 1 /\ o <= Len(ns) BY <1>2 DEF Worked
<1>4. Len(ns) = Len(nodes)
  <2>1. Len(ns) > o => 1 = Len(ns) BY <1>2, <1>3 DEF Worked
  <2>2. Tree(ns, K) BY <1>2 DEF Worked
  <2>3. PICK q \in Nat : q = Len(ns) BY <2>2, TreeFacts
  <2> QED BY ONLY <1>3, <2>1, <2>3
<1>5. ns = nodes BY ONLY <1>2, <1>4, nodes \in Seq(Cell), UntouchedSame, Zenon
<1> QED BY <1>1, <1>5

\* A template that stays inside the tree is stored at the node it leads to.
LEMMA StoreStep ==
  ASSUME NEW at, NEW r, NEW K, NEW K0, Stored(nodes, routes, K0), Sound(at, r, K, K0),
         routes \in Seq(Templates), NEW t \in Templates, ~Throws(t), r = ReducedTemplate(t),
         NEW L \in Nat, L = Len(routes),
         NEW ms, ms = [at.nodes EXCEPT ![at.cur].resource = L + 1]
  PROVE  Stored(ms, Append(routes, t), K)
<1> DEFINE ns == at.nodes
           cur == at.cur
           rs == Append(routes, t)
<1>1. Worked(ns, cur, K, K0) /\ Tree(ns, K) /\ cur \in 1 .. Len(ns) BY DEF Sound, Worked
<1>2. PICK o \in Nat : o = Len(nodes) /\ o >= 1 /\ o <= Len(ns) BY <1>1 DEF Worked
<1>3. PICK N \in Nat : N = Len(ns) BY <1>1, TreeFacts
<1>4. /\ \A n \in 1 .. o : ns[n].resource = nodes[n].resource /\ K[n] = K0[n]
      /\ \A n \in 2 .. o :
           ns[n].resource # 0 \/ \E i \in 1 .. Len(ns[n].children) : ns[n].children[i] <= o
      /\ \A n \in o + 1 .. N : ns[n].resource = 0 /\ (n > o + 1 => ns[n].parent = n - 1)
      /\ N > o => cur = N
  BY <1>1, <1>2, <1>3 DEF Worked
<1>5. /\ Tree(ms, K) /\ Len(ms) = N
      /\ \A n \in 1 .. N : n # cur => ms[n].resource = ns[n].resource
      /\ \A n \in 1 .. N : ms[n].parent = ns[n].parent /\ ms[n].children = ns[n].children
      /\ ms[cur].resource = L + 1
  <2>1. PICK res \in Nat : res = L + 1 OBVIOUS
  <2>2. Marked(ns, ms, cur, res) BY <2>1 DEF Marked
  <2>3. cur \in 1 .. N BY <1>1, <1>3
  <2>4. Tree(ns, K) BY <1>1
  <2>5. N = Len(ns) BY <1>3
  <2>6. N \in Nat /\ res \in Nat OBVIOUS
  <2> HIDE DEF ns, cur
  <2>7. OnlyMarked(ns, ms, K, N, cur, res)
    BY ONLY <2>2, <2>3, <2>4, <2>5, <2>6, TreeStores, Zenon
  <2> QED BY ONLY <2>1, <2>7 DEF OnlyMarked
<1>6. K[cur] = Key(t)
  <2>1. K[cur] = Keys(r.left) /\ r.left \in Seq(Segs) BY DEF Sound
  <2>2. Key(t) = Keys(ReducedTemplate(t).left) BY <2>1, KeyOfTemplate
  <2> QED BY <2>1, <2>2
<1>7. /\ rs[L + 1] = t
      /\ \A k \in 1 .. L : rs[k] = routes[k]
      /\ \A k \in LiveIn(routes) : k \in 1 .. L
      /\ \A k \in LiveIn(rs) : k = L + 1 \/ (k \in LiveIn(routes) /\ Key(routes[k]) # Key(t))
      /\ L + 1 \in LiveIn(rs)
      /\ \A k \in LiveIn(routes) : Key(routes[k]) # Key(t) => k \in LiveIn(rs)
  BY LiveAppend
<1>8. /\ \A n \in 1 .. o :
           nodes[n].resource # 0 =>
             nodes[n].resource \in LiveIn(routes) /\ K0[n] = Key(routes[nodes[n].resource])
      /\ \A k \in LiveIn(routes) : \E n \in 1 .. o : nodes[n].resource = k
  BY <1>2 DEF Stored
<1>9. \A m, n \in 1 .. N : K[m] = K[n] => m = n BY <1>1, <1>3 DEF Tree
<1>10. cur \in 1 .. N /\ o <= N BY <1>1, <1>2, <1>3
<1> HIDE DEF ns, cur, rs
<1>11. ASSUME NEW n \in 2 .. N
       PROVE  ms[n].resource # 0 \/ \E i \in 1 .. Len(ms[n].children) : TRUE
  <2>1. n \in 1 .. N BY <1>3
  <2>2. CASE n = cur BY <1>5, <2>2
  <2>3. CASE n # cur /\ n \in 2 .. o
    BY <1>4, <1>5, <2>1, <2>3
  <2>4. CASE n # cur /\ n \in o + 1 .. N
    <3>1. N > o /\ cur = N BY <1>2, <1>3, <1>4, <2>4
    <3>2. n + 1 \in o + 1 .. N /\ n + 1 > o + 1 /\ n + 1 \in 2 .. N /\ n + 1 - 1 = n
      BY <1>2, <1>3, <2>4, <3>1
    <3>3. ns[n + 1].parent = n BY <1>4, <3>2
    <3>4. Hangs(ns, n + 1) BY <1>1, <1>3, <3>2 DEF Tree
    <3>5. \E i \in 1 .. Len(ns[n].children) : TRUE BY ONLY <3>3, <3>4 DEF Hangs
    <3> QED BY <1>5, <2>1, <3>5
  <2>5. n \in 2 .. o \/ n \in o + 1 .. N BY ONLY <1>2, <1>3, n \in 2 .. N
  <2> QED BY <2>2, <2>3, <2>4, <2>5
<1>12. ASSUME NEW n \in 1 .. N, NEW k, k = ms[n].resource, k # 0
       PROVE  k \in LiveIn(rs) /\ K[n] = Key(rs[k])
  <2>1. CASE n = cur
    <3>1. k = L + 1 BY <1>5, <1>12, <2>1
    <3> QED BY <1>6, <1>7, <2>1, <3>1
  <2>2. CASE n # cur
    <3>1. k = ns[n].resource BY <1>5, <1>12, <2>2
    <3>2. n \in 1 .. o \/ n \in o + 1 .. N BY ONLY <1>2, <1>3, n \in 1 .. N
    <3>3. n \in 1 .. o BY <1>4, <1>12, <3>1, <3>2
    <3>4. k = nodes[n].resource /\ K[n] = K0[n] BY <1>4, <3>1, <3>3
    <3>5. k \in LiveIn(routes) /\ K[n] = Key(routes[k]) BY <1>8, <1>12, <3>3, <3>4
    <3>6. Key(routes[k]) # Key(t) BY <1>6, <1>9, <1>10, <2>2, <3>5
    <3>7. rs[k] = routes[k] BY <1>7, <3>5
    <3> QED BY <1>7, <3>5, <3>6, <3>7
  <2> QED BY <2>1, <2>2
<1>13. ASSUME NEW k \in LiveIn(rs) PROVE \E n \in 1 .. N : ms[n].resource = k
  <2>1. CASE k = L + 1 BY <1>5, <1>10, <2>1
  <2>2. CASE k \in LiveIn(routes) /\ Key(routes[k]) # Key(t)
    <3>1. PICK n \in 1 .. o : nodes[n].resource = k BY <1>8, <2>2
    <3>2. k # 0 /\ n \in 1 .. N BY <1>2, <1>7, <1>10, <2>2
    <3>3. K0[n] = Key(routes[k]) /\ K[n] = K0[n] BY <1>4, <1>8, <3>1, <3>2
    <3>4. n # cur BY <1>6, <2>2, <3>3
    <3>5. ms[n].resource = k BY <1>4, <1>5, <3>1, <3>2, <3>4
    <3> QED BY <3>2, <3>5
  <2> QED BY <1>7, <2>1, <2>2
<1>14. Stored(ms, rs, K)
  <2>1. \A n \in 2 .. N : ms[n].resource # 0 \/ \E i \in 1 .. Len(ms[n].children) : TRUE BY <1>11
  <2>2. \A n \in 1 .. N :
          ms[n].resource # 0 => ms[n].resource \in LiveIn(rs) /\ K[n] = Key(rs[ms[n].resource])
    BY <1>12
  <2>3. \A k \in LiveIn(rs) : \E n \in 1 .. N : ms[n].resource = k BY <1>13
  <2> QED BY ONLY <1>5, <2>1, <2>2, <2>3 DEF Stored
<1> QED BY <1>14 DEF rs

\* Every insertion keeps the invariant, those that throw included.
LEMMA IInvStep ==
  ASSUME IInv, [Next]_vars
  PROVE  IInv'
<1>1. CASE UNCHANGED vars
  <2>1. nodes' = nodes /\ routes' = routes /\ damaged' = damaged /\ before' = before
    BY <1>1 DEF vars
  <2>2. ~damaged' => \E K : Stored(nodes', routes', K) BY <2>1 DEF IInv
  <2>3. routes \in Seq(Templates) /\ damaged \in BOOLEAN BY DEF IInv
  <2>4. Restored' BY <2>1 DEF IInv, Restored, StrongGuarantee
  <2> QED BY <2>1, <2>2, <2>3, <2>4 DEF IInv, Stored, Tree, Children, Hangs, Kind
<1>2. ASSUME NEW t \in Templates, Insert(t) PROVE IInv'
  <2> DEFINE at == Inserted(t)
             r == ReducedTemplate(t)
             rs == Append(routes, t)
  <2>1. routes \in Seq(Templates) /\ rs \in Seq(Templates) BY AppendProperties DEF IInv
  <2>2. PICK L \in Nat : L = Len(routes) BY <2>1, LenProperties
  <2>3. /\ ~damaged /\ routes' = rs /\ damaged' = at.damaged
        /\ ~at.lost /\ at.level = 0 => nodes' = [at.nodes EXCEPT ![at.cur].resource = L + 1]
        /\ ~(~at.lost /\ at.level = 0) => nodes' = at.nodes
        /\ before' = IF ~at.lost /\ at.level # 0 THEN nodes ELSE <<>>
    BY <1>2, <2>2 DEF Insert
  <2>4. PICK K0 : Stored(nodes, routes, K0) BY <2>3 DEF IInv
  <2>5. Going(at, r, K0)
    <3>1. Going(Start, [left |-> <<>>, level |-> 0], K0) BY <2>4, StartGood
    <3> QED BY <3>1, InsertedGood
  <2>6. at.damaged \in BOOLEAN BY <2>5 DEF Going
  <2> HIDE DEF at, r, rs
  <2>7. ASSUME ~at.damaged PROVE \E ms, K : nodes' = ms /\ Stored(ms, rs, K)
    <3>1. PICK K : Sound(at, r, K, K0) BY <2>5, <2>7 DEF Going
    <3>2. at.lost = FALSE /\ at.level = r.level BY <3>1 DEF Sound
    <3>3. CASE r.level # 0
      <4>1. Throws(t) BY <3>3 DEF Throws, r
      <4>2. Stored(at.nodes, Append(routes, t), K0) BY <2>1, <2>4, <3>1, <3>3, <4>1, ThrowStep
      <4>3. nodes' = at.nodes BY <2>3, <3>2, <3>3
      <4> QED BY <4>2, <4>3 DEF rs
    <3>4. CASE r.level = 0
      <4>1. ~Throws(t) /\ r = ReducedTemplate(t) BY <3>4 DEF Throws, r
      <4> DEFINE ms == [at.nodes EXCEPT ![at.cur].resource = L + 1]
      <4>2. Stored(ms, Append(routes, t), K)
        BY <2>1, <2>2, <2>4, <3>1, <4>1, StoreStep
      <4>3. nodes' = ms BY <2>3, <3>2, <3>4
      <4> HIDE DEF ms
      <4> QED BY <4>2, <4>3 DEF rs
    <3> QED BY <3>3, <3>4
  <2>8. ~damaged' => \E K : Stored(nodes', routes', K)
    BY <2>3, <2>7
  <2>9. ASSUME ~at.damaged, before' # <<>> PROVE nodes' = before'
    <3>1. PICK K : Sound(at, r, K, K0) BY <2>5, <2>9 DEF Going
    <3>2. at.lost = FALSE /\ at.level = r.level BY <3>1 DEF Sound
    <3>3. r.level # 0 /\ before' = nodes BY <2>3, <2>9, <3>2
    <3>4. nodes \in Seq(Cell) BY <2>4 DEF Stored, Tree
    <3>5. at.nodes = nodes BY <3>1, <3>3, <3>4, ThrowSame
    <3> QED BY <2>3, <3>2, <3>3, <3>5
  <2>10. Restored' BY <2>3, <2>9 DEF Restored, StrongGuarantee
  <2> QED BY <2>1, <2>3, <2>6, <2>8, <2>10 DEF IInv, Stored, Tree, Children, Hangs, Kind
<1> QED BY ONLY <1>1, <1>2, [Next]_vars, Zenon DEF Next

\* The invariant always holds.
LEMMA Invariant == Spec => []IInv
<1>1. Init => IInv
  <2> SUFFICES ASSUME Init PROVE IInv OBVIOUS
  <2> DEFINE K == [n \in 1 .. 1 |-> <<>>]
  <2>1. nodes = <<[seg |-> [kind |-> "literal", name |-> ""], resource |-> 0,
                   parent |-> 0, children |-> <<>>]>>
        /\ routes = <<>> /\ damaged = FALSE /\ before = <<>>
    BY DEF Init, Node, Literal
  <2>2. [kind |-> "literal", name |-> ""] \in Segs BY DEF Segs, Rank
  <2>3. nodes \in Seq(Cell) /\ Len(nodes) = 1 /\ nodes[1].children = <<>> /\ nodes[1].resource = 0
    <3>0. PICK seg \in Segs : seg = [kind |-> "literal", name |-> ""] BY <2>2
    <3> DEFINE cell == [seg |-> seg, resource |-> 0, parent |-> 0, children |-> <<>>]
    <3>a. <<>> \in Seq(Nat) OBVIOUS
    <3>1. cell \in Cell /\ cell.children = <<>> /\ cell.resource = 0 BY ONLY <3>a, seg \in Segs DEF Cell
    <3>2. nodes = <<cell>> BY <2>1, <3>0
    <3> HIDE DEF cell
    <3> QED BY <3>1, <3>2
  <2>4. K \in [1 .. Len(nodes) -> Seq(Segs)] /\ K[1] = <<>> BY <2>3
  <2>5. \A n \in 1 .. Len(nodes) : n = 1 BY <2>3
  <2>6. \A n \in 2 .. Len(nodes) : FALSE BY <2>3
  <2>7. \A n \in 1 .. Len(nodes) : Children(nodes, n) BY <2>3, <2>5 DEF Children
  <2> HIDE DEF K
  <2>8. Tree(nodes, K) BY <2>3, <2>4, <2>5, <2>6, <2>7 DEF Tree
  <2>9. LiveIn(routes) = {}
    <3>1. routes = <<>> BY <2>1
    <3> QED BY ONLY <3>1 DEF LiveIn
  <2>10. Stored(nodes, routes, K) BY <2>3, <2>5, <2>6, <2>8, <2>9 DEF Stored
  <2>11. routes \in Seq(Templates)
    <3>1. routes = <<>> BY <2>1
    <3> QED BY ONLY <3>1
  <2>12. Restored BY <2>1 DEF Restored, StrongGuarantee
  <2> QED BY <2>1, <2>10, <2>11, <2>12 DEF IInv
<1>2. IInv /\ [Next]_vars => IInv' BY IInvStep
<1> QED BY <1>1, <1>2, PTL DEF Spec

-----------------------------------------------------------------------------
(* What it shows                                                            *)

\* As long as no erase() has gone wrong, the pool is a tree in which siblings
\* are different segments, sorted, and every leaf has a resource
\* (find_optional_resource asserts it).
THEOREM RouterWellFormed == Spec => []WellFormed
<1>1. IInv => WellFormed
  <2> SUFFICES ASSUME IInv, ~damaged, NEW n \in DOMAIN nodes
      PROVE  LET kids == nodes[n].children
             IN  /\ \A i \in DOMAIN kids :
                      kids[i] \in DOMAIN nodes /\ nodes[kids[i]].parent = n
                 /\ n # Root => n \in ToSet(nodes[nodes[n].parent].children)
                 /\ \A i, j \in DOMAIN kids : i < j =>
                      LET a == nodes[kids[i]].seg
                          b == nodes[kids[j]].seg
                      IN  ~Same(a, b) /\ ~Precedes(b, a)
                 /\ n # Root /\ kids = <<>> => nodes[n].resource # 0
    BY DEF WellFormed
  <2>1. PICK K : Stored(nodes, routes, K) BY DEF IInv
  <2>2. Tree(nodes, K) BY <2>1 DEF Stored
  <2>3. PICK N \in Nat : N = Len(nodes) BY <2>2, TreeFacts
  <2>4. nodes \in Seq(Cell) /\ DOMAIN nodes = 1 .. N /\ n \in 1 .. N
    BY <2>2, <2>3, TreeFacts
  <2>5. nodes[n] \in Cell BY <2>2, <2>3, <2>4, TreeFacts
  <2>6. PICK kids \in Seq(Nat) : kids = nodes[n].children BY <2>5 DEF Cell
  <2>7. PICK M \in Nat : M = Len(kids) BY LenProperties
  <2>8. DOMAIN kids = 1 .. M BY <2>7
  <2>9. Children(nodes, n) BY <2>2, <2>3, <2>4 DEF Tree
  <2>10. /\ \A i \in 1 .. M : kids[i] \in 2 .. N /\ nodes[kids[i]].parent = n
         /\ \A i, j \in 1 .. M :
              i < j => kids[i] # kids[j] /\ Kind(nodes, kids[i]) <= Kind(nodes, kids[j])
    BY ONLY <2>9, <2>3, <2>6, <2>7 DEF Children
  <2>11. \A i \in 1 .. M : kids[i] \in 1 .. N BY <2>10
  <2>12. ASSUME n # 1 PROVE n \in ToSet(nodes[nodes[n].parent].children)
    <3>1. n \in 2 .. N BY <2>3, <2>4, <2>12
    <3>2. Hangs(nodes, n) /\ nodes[n].parent \in 1 .. n - 1 BY <2>2, <2>3, <3>1 DEF Tree
    <3>3. nodes[n].parent \in 1 .. N BY <3>1, <3>2
    <3>4. PICK more : more = nodes[nodes[n].parent].children OBVIOUS
    <3>5. more \in Seq(Nat)
      <4>1. nodes[nodes[n].parent] \in Cell BY <2>2, <2>3, <3>3, TreeFacts
      <4> QED BY <3>4, <4>1 DEF Cell
    <3>6. PICK i \in 1 .. Len(more) : more[i] = n BY ONLY <3>2, <3>4 DEF Hangs
    <3>7. n \in ToSet(more) BY <3>5, <3>6 DEF ToSet
    <3> QED BY <3>4, <3>7
  <2>13. ASSUME NEW i \in 1 .. M, NEW j \in 1 .. M, i < j
         PROVE  /\ ~Same(nodes[kids[i]].seg, nodes[kids[j]].seg)
                /\ ~Precedes(nodes[kids[j]].seg, nodes[kids[i]].seg)
    <3>1. PICK x \in 1 .. N : x = kids[i] BY <2>11
    <3>2. PICK y \in 1 .. N : y = kids[j] BY <2>11
    <3>3. x # y /\ Kind(nodes, x) <= Kind(nodes, y) BY <2>10, <2>13, <3>1, <3>2
    <3>4. /\ nodes[x].seg \in Segs /\ Kind(nodes, x) \in Int
          /\ nodes[y].seg \in Segs /\ Kind(nodes, y) \in Int
      BY <2>3, <2>4, KindInt
    <3>5. K[x] # K[y] BY <2>2, <2>3, <3>3 DEF Tree
    <3>6. K[x] = Append(K[n], KeySeg(nodes[x].seg)) /\ K[y] = Append(K[n], KeySeg(nodes[y].seg))
      <4>1. x \in 2 .. N /\ y \in 2 .. N /\ nodes[x].parent = n /\ nodes[y].parent = n
        BY <2>10, <3>1, <3>2
      <4> QED BY <2>2, <2>3, <4>1 DEF Tree
    <3>7. KeySeg(nodes[x].seg) # KeySeg(nodes[y].seg) BY ONLY <3>5, <3>6
    <3>8. ~Same(nodes[x].seg, nodes[y].seg) BY <3>4, <3>7, SameKey
    <3>9. ~Precedes(nodes[y].seg, nodes[x].seg) BY ONLY <3>3, <3>4 DEF Precedes, Kind
    <3> QED BY <3>1, <3>2, <3>8, <3>9
  <2>14. ASSUME n # 1, kids = <<>> PROVE nodes[n].resource # 0
    <3>1. n \in 2 .. N BY <2>3, <2>4, <2>14
    <3>2. nodes[n].resource # 0 \/ \E i \in 1 .. Len(nodes[n].children) : TRUE
      BY <2>1, <2>3, <3>1 DEF Stored
    <3>3. M = 0 BY <2>7, <2>14
    <3> QED BY ONLY <2>6, <2>7, <3>2, <3>3
  <2> QED BY <2>4, <2>6, <2>8, <2>10, <2>11, <2>12, <2>13, <2>14 DEF Root
<1> QED BY <1>1, Invariant, PTL

\* As long as no erase() has gone wrong, the resource of every call of insert()
\* is in exactly one node until a call with an equal template replaces it, and
\* in none afterwards or if the call threw: the destructor deletes it once.
THEOREM RouterStoredOnce == Spec => []StoredOnce
<1>1. IInv => StoredOnce
  <2> SUFFICES ASSUME IInv, ~damaged, NEW k \in DOMAIN routes
      PROVE  Cardinality({n \in DOMAIN nodes : nodes[n].resource = k})
               = IF k \in Live THEN 1 ELSE 0
    BY DEF StoredOnce
  <2>1. PICK K : Stored(nodes, routes, K) BY DEF IInv
  <2>2. Tree(nodes, K) BY <2>1 DEF Stored
  <2>3. PICK N \in Nat : N = Len(nodes) BY <2>2, TreeFacts
  <2>4. DOMAIN nodes = 1 .. N BY <2>2, <2>3, TreeFacts
  <2>5. routes \in Seq(Templates) BY DEF IInv
  <2>6. PICK L \in Nat : L = Len(routes) BY <2>5, LenProperties
  <2>7. DOMAIN routes = 1 .. L BY <2>5, <2>6
  <2>8. Live = LiveIn(routes)
    <3>1. ASSUME NEW j \in 1 .. L
          PROVE  j \in Live <=> j \in LiveIn(routes)
      BY <2>6, <2>7 DEF Live, LiveIn, Replaced
    <3>2. (\A j \in Live : j \in 1 .. L) /\ (\A j \in LiveIn(routes) : j \in 1 .. L)
      BY <2>6, <2>7 DEF Live, LiveIn
    <3> QED BY <3>1, <3>2
  <2> DEFINE holders == {n \in DOMAIN nodes : nodes[n].resource = k}
  <2>9. /\ \A n \in 1 .. N :
             nodes[n].resource # 0 =>
               nodes[n].resource \in LiveIn(routes) /\ K[n] = Key(routes[nodes[n].resource])
        /\ \A j \in LiveIn(routes) : \E n \in 1 .. N : nodes[n].resource = j
    BY <2>1, <2>3 DEF Stored
  <2>10. k # 0 BY <2>7
  <2>11. CASE k \in LiveIn(routes)
    <3>1. PICK n \in 1 .. N : nodes[n].resource = k BY <2>9, <2>11
    <3>2. \A m \in 1 .. N : nodes[m].resource = k => m = n
      <4> SUFFICES ASSUME NEW m \in 1 .. N, nodes[m].resource = k PROVE m = n OBVIOUS
      <4>1. K[m] = Key(routes[k]) /\ K[n] = Key(routes[k]) BY <2>9, <2>10, <3>1
      <4> QED BY <2>2, <2>3, <4>1 DEF Tree
    <3>3. holders = {n} BY <2>4, <3>1, <3>2
    <3> QED BY <2>8, <2>11, <3>3, FS_Singleton
  <2>12. CASE k \notin LiveIn(routes)
    <3>1. holders = {} BY <2>4, <2>9, <2>10, <2>12
    <3> QED BY <2>8, <2>12, <3>1, FS_EmptySet
  <2> QED BY <2>11, <2>12
<1> QED BY <1>1, Invariant, PTL

\* As long as no erase() has gone wrong, an insertion that throws leaves every node,
\* link and resource as it was, and the children in their order: what breaks the
\* guarantee (StrongGuarantee, which a run refutes) is the damage and nothing else.
THEOREM ThrowRestores == Spec => [](~damaged => StrongGuarantee)
<1>1. IInv => (~damaged => StrongGuarantee) BY DEF IInv, Restored
<1> QED BY <1>1, Invariant, PTL

\* Only a ".." deletes a node.
LEMMA SegmentSpares ==
  ASSUME NEW at, DOMAIN at = Fields, NEW seg, seg # DotDot
  PROVE  DOMAIN InsertSegment(at, seg) = Fields /\ InsertSegment(at, seg).damaged = at.damaged
<1> DEFINE Spares(b) == DOMAIN b = Fields /\ b.damaged = at.damaged
<1>1. Spares(Extend(at, seg)) BY DEF Extend, Fields
<1>2. Spares(Descend(at, seg))
  <2> DEFINE kids == at.nodes[at.cur].children
             hits == {i \in DOMAIN kids : kids[i] \in DOMAIN at.nodes => Same(at.nodes[kids[i]].seg, seg)}
             k == kids[CHOOSE i \in hits : \A j \in hits : i <= j]
             a == [at EXCEPT !.cur = k]
             b == [at EXCEPT !.lost = TRUE]
  <2>1. Descend(at, seg) \in {Extend(at, seg), a, b} BY Zenon DEF Descend
  <2> HIDE DEF k, hits
  <2>2. Spares(a) /\ Spares(b) BY DEF Fields
  <2> HIDE DEF a, b, Spares
  <2> QED BY ONLY <1>1, <2>1, <2>2, Zenon
<1>3. Spares([at EXCEPT !.level = @ - 1]) /\ Spares([at EXCEPT !.level = @ + 1]) /\ Spares(at)
  BY DEF Fields
<1>4. InsertSegment(at, seg) \in {at, [at EXCEPT !.level = @ + 1], Descend(at, seg)}
  BY Zenon DEF InsertSegment
<1>5. Spares(InsertSegment(at, seg))
  <2> HIDE DEF Spares
  <2> QED BY ONLY <1>2, <1>3, <1>4, Zenon
<1> QED BY <1>5

\* When no template has a "..", no erase() is called and nothing is ever
\* damaged, so the two theorems above hold of every pool.
THEOREM WholeWithoutDotDot ==
  ASSUME \A t \in Templates : \A i \in 1 .. Len(t) : t[i] # DotDot
  PROVE  Spec => []~damaged
<1>1. ASSUME NEW t \in Templates PROVE Inserted(t).damaged = FALSE
  <2>1. t \in Seq(Segments) BY TemplateAssumption
  <2>2. PICK n \in Nat : n = Len(t) BY <2>1, LenProperties
  <2>3. PICK at : /\ at[0] = Start
                  /\ \A i \in 1 .. n : at[i] = InsertSegment(at[i - 1], t[i])
                  /\ Inserted(t) = at[n]
    BY <2>2, InsertedRun
  <2> DEFINE T == {i \in 0 .. n : ~(DOMAIN at[i] = Fields /\ at[i].damaged = FALSE)}
  <2>4. T = {}
    <3> SUFFICES ASSUME T # {} PROVE FALSE OBVIOUS
    <3>1. T \in SUBSET Nat OBVIOUS
    <3>2. PICK x \in T : \A y \in T : x <= y
      <4> HIDE DEF T
      <4> QED BY <3>1, Smallest
    <3>3. x \in 0 .. n /\ ~(DOMAIN at[x] = Fields /\ at[x].damaged = FALSE) OBVIOUS
    <3>4. DOMAIN at[0] = Fields /\ at[0].damaged = FALSE BY ONLY <2>3 DEF Start, Fields
    <3>5. x # 0 BY ONLY <3>3, <3>4
    <3>6. x \in 1 .. n /\ x - 1 \in 0 .. n /\ ~(x <= x - 1) BY ONLY <3>3, <3>5, n \in Nat
    <3>7. DOMAIN at[x - 1] = Fields /\ at[x - 1].damaged = FALSE BY <3>2, <3>6
    <3>8. t[x] # DotDot BY <2>2, <3>6
    <3> QED BY ONLY <2>3, <3>3, <3>6, <3>7, <3>8, SegmentSpares
  <2>5. n \in 0 .. n BY <2>2
  <2> QED BY <2>3, <2>4, <2>5
<1>2. Init => ~damaged BY DEF Init
<1>3. ~damaged /\ [Next]_vars => ~damaged'
  <2> SUFFICES ASSUME ~damaged, NEW t \in Templates, Insert(t) PROVE ~damaged'
    BY DEF Next, vars
  <2>1. damaged' = Inserted(t).damaged BY DEF Insert
  <2> QED BY <1>1, <2>1
<1> QED BY <1>2, <1>3, PTL DEF Spec
=============================================================================
