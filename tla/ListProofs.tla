------------------------------- MODULE ListProofs -------------------------------
(***************************************************************************)
(* What DoublyLinkedList promises, proved for any number of lists, any     *)
(* finite heap and any values.                                             *)
(*                                                                         *)
(* The invariant: there is a chain of addresses P[l] for every list l such *)
(* that head_, tail_ and the links of its nodes are those of the chain,    *)
(* no node is twice in a chain or in two of them, and the nodes in use are *)
(* the ones of the chains and the ones a move assignment left behind.      *)
(* Every call replaces the chain of one list (moves: of two) and does to   *)
(* the values along it what Deque says.                                    *)
(***************************************************************************)
EXTENDS DoublyLinkedList, FiniteSetTheorems, SequenceTheorems, TLAPS

-----------------------------------------------------------------------------
(* Walking a list                                                           *)

\* A node<T>.
Cell == [value : Values, prev : Link, next : Link]

\* A nonempty set of naturals has a least element.
LEMMA Smallest ==
  ASSUME NEW T \in SUBSET Nat, T # {}
  PROVE  \E x \in T : \A y \in T : x <= y
<1> DEFINE R == OpToRel(<, Nat)
<1>1. IsWellFoundedOn(R, Nat) BY NatLessThanWellFounded
<1>2. \A x, y \in Nat : x < y => <<x, y>> \in R BY DEF OpToRel
<1> HIDE DEF R
<1>3. PICK x \in T : \A y \in T : ~ (<<y, x>> \in R) BY <1>1, WFMin
<1>4. ASSUME NEW y \in T PROVE x <= y
  <2>1. x \in Nat /\ y \in Nat OBVIOUS
  <2>2. ~(y < x) BY <1>2, <1>3, <2>1
  <2> QED BY <2>1, <2>2
<1> QED BY <1>4

\* The heap is finite.
LEMMA NodesCounted == Cardinality(Nodes) \in Nat
BY HeapAssumption, FS_CardinalityType

\* How many numbers two intervals have.
LEMMA Intervals == \A n \in Nat : Cardinality(1 .. n) = n /\ Cardinality(0 .. n - 1) = n
<1> SUFFICES ASSUME NEW n \in Nat PROVE Cardinality(1 .. n) = n /\ Cardinality(0 .. n - 1) = n
  OBVIOUS
<1>1. Cardinality(1 .. n) = IF 1 > n THEN 0 ELSE n - 1 + 1 BY FS_Interval
<1>2. Cardinality(0 .. n - 1) = IF 0 > n - 1 THEN 0 ELSE n - 1 - 0 + 1
  <2>1. n - 1 \in Int OBVIOUS
  <2> QED BY <2>1, FS_Interval
<1> QED BY <1>1, <1>2

\* A chain has no more nodes than there are addresses.
LEMMA ShortEnough ==
  ASSUME NEW s \in Seq(Nodes), \A i, j \in 1 .. Len(s) : s[i] = s[j] => i = j
  PROVE  Len(s) <= Cardinality(Nodes)
<1>1. s \in Injection(1 .. Len(s), Nodes)
  BY LenProperties DEF Injection, IsInjective
<1>2. Cardinality(1 .. Len(s)) <= Cardinality(Nodes) BY <1>1, FS_Injection, HeapAssumption
<1>3. Len(s) \in Nat BY LenProperties
<1>4. Cardinality(1 .. Len(s)) = Len(s) BY <1>3, Intervals
<1> QED BY <1>2, <1>4

\* From start, link leads from each node of s to the next, and then nowhere.
Leads(s, start, link) ==
  /\ \A i, j \in 1 .. Len(s) : s[i] = s[j] => i = j
  /\ start = IF s = <<>> THEN Null ELSE s[1]
  /\ \A i \in 1 .. Len(s) :
       /\ s[i] \notin Unused
       /\ heap[s[i]][link] = IF i = Len(s) THEN Null ELSE s[i + 1]

\* A walk along the links of a chain meets its nodes and then nullptr: the
\* recursive function in Walk is the chain, by induction on its index.
LEMMA Walked ==
  ASSUME NEW s \in Seq(Nodes), NEW start, NEW link, Leads(s, start, link)
  PROVE  Walk(start, link) = s
<1>l. /\ \A i, j \in 1 .. Len(s) : s[i] = s[j] => i = j
      /\ start = IF s = <<>> THEN Null ELSE s[1]
      /\ \A i \in 1 .. Len(s) :
           /\ s[i] \notin Unused
           /\ heap[s[i]][link] = IF i = Len(s) THEN Null ELSE s[i + 1]
  BY DEF Leads
<1> DEFINE N == Cardinality(Nodes)
           Onward(x) == IF x \in Unused \cup {Null} THEN Null ELSE heap[x][link]
           Body(f) == [i \in 0 .. N |-> IF i = 0 THEN start
                                        ELSE IF f[i - 1] \in Unused \cup {Null} THEN Null
                                             ELSE heap[f[i - 1]][link]]
           w == [i \in 0 .. N |-> IF i < Len(s) THEN s[i + 1] ELSE Null]
<1>n. N \in Nat /\ Len(s) \in Nat /\ Len(s) <= N
  BY <1>l, NodesCounted, ShortEnough, LenProperties
<1>e. \A i \in 1 .. Len(s) : s[i] \in Nodes /\ s[i] # Null
  BY ElementOfSeq, HeapAssumption
<1> HIDE DEF N
<1>1. Body(w) = w
  <2> SUFFICES ASSUME NEW i \in 0 .. N PROVE Body(w)[i] = w[i] OBVIOUS
  <2>1. CASE i = 0
    <3>1. s = <<>> <=> Len(s) = 0 BY EmptySeq
    <3> QED BY <2>1, <3>1, <1>l, <1>n
  <2>2. CASE i # 0
    <3>1. i - 1 \in 0 .. N /\ w[i - 1] = IF i - 1 < Len(s) THEN s[i] ELSE Null BY <2>2, <1>n
    <3>2. Body(w)[i] = Onward(w[i - 1]) BY <2>2
    <3>3. CASE i - 1 < Len(s)
      <4>1. i \in 1 .. Len(s) /\ w[i - 1] = s[i] BY <2>2, <3>1, <3>3, <1>n
      <4>2. Onward(s[i]) = IF i = Len(s) THEN Null ELSE s[i + 1] BY <4>1, <1>e, <1>l
      <4>3. w[i] = IF i = Len(s) THEN Null ELSE s[i + 1] BY <4>1, <1>n
      <4> QED BY <3>2, <4>1, <4>2, <4>3
    <3>4. CASE ~(i - 1 < Len(s))
      <4>1. w[i - 1] = Null /\ w[i] = Null BY <3>1, <3>4, <1>n
      <4> QED BY <3>2, <4>1
    <3> QED BY <3>3, <3>4
  <2> QED BY <2>1, <2>2
<1>2. ASSUME NEW f, f = Body(f) PROVE f = w
  <2> DEFINE T == {i \in 0 .. N : f[i] # w[i]}
  <2>1. T = {}
    <3> SUFFICES ASSUME T # {} PROVE FALSE OBVIOUS
    <3>1. T \in SUBSET Nat BY <1>n
    <3>2. PICK i \in T : \A j \in T : i <= j BY <3>1, Smallest
    <3>3. i \in 0 .. N /\ f[i] # w[i] OBVIOUS
    <3>4. i # 0
      <4>1. f[0] = start BY <1>2, <1>n
      <4>2. w[0] = start
        <5>1. s = <<>> <=> Len(s) = 0 BY EmptySeq
        <5> QED BY <5>1, <1>l, <1>n
      <4> QED BY <3>3, <4>1, <4>2
    <3>5. i - 1 \in 0 .. N /\ i - 1 \notin T BY <3>2, <3>3, <3>4, <1>n
    <3>6. f[i - 1] = w[i - 1] BY <3>5
    <3>7. Body(f)[i] = Onward(f[i - 1]) /\ Body(w)[i] = Onward(w[i - 1]) BY <3>3, <3>4
    <3> HIDE DEF Body, w
    <3> QED BY <3>3, <3>6, <3>7, <1>1, <1>2
  <2>2. f = [i \in 0 .. N |-> f[i]] BY <1>2
  <2>3. w = [i \in 0 .. N |-> w[i]] OBVIOUS
  <2> QED BY <2>1, <2>2, <2>3
<1> DEFINE at == CHOOSE f : f = Body(f)
           met == {i \in 0 .. N : at[i] # Null}
<1>3. Walk(start, link) = [i \in 1 .. Cardinality(met) |-> at[i - 1]] BY DEF Walk, N
<1>4. at = w
  <2> HIDE DEF Body, w
  <2> QED BY <1>1, <1>2
<1> HIDE DEF at
<1>5. met = 0 .. Len(s) - 1 BY <1>4, <1>n, <1>e
<1>6. Cardinality(met) = Len(s) BY <1>5, <1>n, Intervals
<1>7. \A i \in 1 .. Len(s) : at[i - 1] = s[i] BY <1>4, <1>n
<1>8. s = [i \in 1 .. Len(s) |-> s[i]] BY LenProperties
<1> HIDE DEF met
<1> QED BY <1>3, <1>6, <1>7, <1>8

-----------------------------------------------------------------------------
(* The inductive invariant                                                  *)

\* The nodes of a chain, that it has none twice, and the values along it.
On(s) == {s[i] : i \in 1 .. Len(s)}
Distinct(s) == \A i, j \in 1 .. Len(s) : s[i] = s[j] => i = j
Data(h, s) == [i \in 1 .. Len(s) |-> h[s[i]].value]
\* What head_ and tail_ hold.
First(s) == IF Len(s) = 0 THEN Null ELSE s[1]
Last(s) == IF Len(s) = 0 THEN Null ELSE s[Len(s)]

\* The nodes of s exist in h, and each points to its neighbours.
Joined(h, s) ==
  \A i \in 1 .. Len(s) :
    /\ s[i] \in Nodes /\ h[s[i]] \in Cell
    /\ h[s[i]].prev = IF i = 1 THEN Null ELSE s[i - 1]
    /\ h[s[i]].next = IF i = Len(s) THEN Null ELSE s[i + 1]

\* P gives the chains of the lists in a state with these values of the variables:
\* a list that is not alive is empty, no two share a node, and every node in use
\* is in one of them or lost.
Listing(P, h, hd, tl, av, lo) ==
  /\ \A l \in Lists : /\ hd[l] = First(P[l]) /\ tl[l] = Last(P[l])
                      /\ Joined(h, P[l]) /\ Distinct(P[l])
  /\ \A l \in Lists \ av : Len(P[l]) = 0
  /\ \A l, m \in Lists : l # m => On(P[l]) \cap On(P[m]) = {}
  /\ \A l \in Lists : On(P[l]) \cap lo = {}
  /\ \A n \in Nodes : h[n] # Free <=> n \in lo \/ \E l \in Lists : n \in On(P[l])

Chains == [Lists -> Seq(Nodes)]

\* heap, head_ and tail_ hold nodes, values and addresses.
TypeOK ==
  /\ heap \in [Nodes -> Cell \cup {Free}]
  /\ head \in [Lists -> Link] /\ tail \in [Lists -> Link]
  /\ alive \subseteq Lists /\ lost \subseteq Nodes

Listed(P) == Listing(P, heap, head, tail, alive, lost)
IInv == TypeOK /\ \E P \in Chains : Listed(P)

-----------------------------------------------------------------------------
(* What the operators of the model are when the chains are known            *)

\* nullptr is no address, and a freed node is no node.
LEMMA Kinds == Null \notin Nodes /\ Free \notin Cell
BY HeapAssumption DEF Cell, Link

\* A chain is a sequence of addresses.
LEMMA Chained ==
  ASSUME NEW P \in Chains, NEW l \in Lists
  PROVE  P[l] \in Seq(Nodes) /\ Len(P[l]) \in Nat
BY LenProperties DEF Chains

\* What size(), begin() and print() meet, what a walk from the tail meets, what
\* erase_all deletes, and the elements.
LEMMA Walks ==
  ASSUME NEW P \in Chains, Listed(P), NEW l \in Lists
  PROVE  /\ Forward(l) = P[l]
         /\ Backward(l) = [i \in 1 .. Len(P[l]) |-> P[l][Len(P[l]) + 1 - i]]
         /\ Erased(l) = On(P[l])
         /\ Contents(l) = Data(heap, P[l])
<1> DEFINE s == P[l]
           n == Len(s)
           r == [i \in 1 .. n |-> s[n + 1 - i]]
<1>1. s \in Seq(Nodes) /\ n \in Nat BY Chained
<1>2. /\ head[l] = First(s) /\ tail[l] = Last(s) /\ Joined(heap, s) /\ Distinct(s)
  BY DEF Listed, Listing
<1> HIDE DEF s
<1>3. \A i \in 1 .. n : /\ s[i] \notin Unused /\ s[i] \in Nodes
                        /\ heap[s[i]]["next"] = IF i = n THEN Null ELSE s[i + 1]
                        /\ heap[s[i]]["prev"] = IF i = 1 THEN Null ELSE s[i - 1]
  BY <1>2, Kinds DEF Joined, Unused, Cell
<1>4. s = <<>> <=> n = 0 BY <1>1, EmptySeq
<1>5. Forward(l) = s
  <2>1. \A i, j \in 1 .. Len(s) : s[i] = s[j] => i = j BY <1>2 DEF Distinct
  <2>2. head[l] = IF s = <<>> THEN Null ELSE s[1] BY <1>2, <1>4 DEF First
  <2>3. \A i \in 1 .. Len(s) :
          /\ s[i] \notin Unused
          /\ heap[s[i]]["next"] = IF i = Len(s) THEN Null ELSE s[i + 1]
    BY <1>3
  <2>4. Walk(head[l], "next") = s
    <3>1. Leads(s, head[l], "next") BY <2>1, <2>2, <2>3 DEF Leads
    <3> QED BY ONLY <1>1, <3>1, Walked, Zenon
  <2> QED BY <2>4 DEF Forward
<1>6. r \in Seq(Nodes) /\ Len(r) = n /\ \A i \in 1 .. n : r[i] = s[n + 1 - i]
  <2>1. \A i \in 1 .. n : n + 1 - i \in 1 .. n BY <1>1
  <2>2. r \in [1 .. n -> Nodes] BY <2>1, <1>3
  <2> QED BY <2>2, <1>1
<1>7. Backward(l) = r
  <2>1. \A i, j \in 1 .. Len(r) : r[i] = r[j] => i = j
    <3> SUFFICES ASSUME NEW i \in 1 .. n, NEW j \in 1 .. n, r[i] = r[j] PROVE i = j BY <1>6
    <3>1. n + 1 - i \in 1 .. n /\ n + 1 - j \in 1 .. n BY <1>1
    <3>2. n + 1 - i = n + 1 - j BY <3>1, <1>2, <1>6 DEF Distinct
    <3> QED BY <3>2, <1>1
  <2>2. tail[l] = IF r = <<>> THEN Null ELSE r[1]
    <3>1. r = <<>> <=> n = 0 BY <1>6, EmptySeq
    <3>2. n # 0 => r[1] = s[n] BY <1>1, <1>6
    <3> QED BY <3>1, <3>2, <1>2 DEF Last
  <2>3. \A i \in 1 .. Len(r) :
          /\ r[i] \notin Unused
          /\ heap[r[i]]["prev"] = IF i = Len(r) THEN Null ELSE r[i + 1]
    <3> SUFFICES ASSUME NEW i \in 1 .. n
                 PROVE  /\ r[i] \notin Unused
                        /\ heap[r[i]]["prev"] = IF i = n THEN Null ELSE r[i + 1]
      BY <1>6
    <3>1. n + 1 - i \in 1 .. n /\ r[i] = s[n + 1 - i] BY <1>1, <1>6
    <3>2. n + 1 - i = 1 <=> i = n BY <1>1
    <3>3. i # n => r[i + 1] = s[n + 1 - i - 1]
      <4>1. i # n => i + 1 \in 1 .. n /\ n + 1 - (i + 1) = n + 1 - i - 1 BY <1>1
      <4> QED BY <4>1, <1>6
    <3> HIDE DEF r
    <3> QED BY <3>1, <3>2, <3>3, <1>3
  <2> HIDE DEF r
  <2>4. r \in Seq(Nodes) BY <1>6
  <2>5. Walk(tail[l], "prev") = r
    <3>1. Leads(r, tail[l], "prev") BY <2>1, <2>2, <2>3 DEF Leads
    <3> QED BY ONLY <2>4, <3>1, Walked, Zenon
  <2> QED BY <2>5 DEF Backward
<1>8. Erased(l) = On(s)
  <2>1. \A j \in 1 .. n : \A k \in 1 .. j - 1 : r[k] # head[l]
    <3> SUFFICES ASSUME NEW j \in 1 .. n, NEW k \in 1 .. j - 1 PROVE r[k] # head[l] OBVIOUS
    <3>1. r[k] = s[n + 1 - k] /\ n + 1 - k \in 1 .. n /\ n + 1 - k # 1 /\ 1 \in 1 .. n
      BY <1>1, <1>6
    <3>2. head[l] = s[1] BY <3>1, <1>1, <1>2 DEF First
    <3> QED BY <3>1, <3>2, <1>2 DEF Distinct
  <2>2. DOMAIN r = 1 .. n OBVIOUS
  <2>3. Erased(l) = {r[i] : i \in 1 .. n}
    <3>1. {j \in DOMAIN r : \A k \in 1 .. j - 1 : r[k] # head[l]} = 1 .. n BY <2>1, <2>2
    <3> HIDE DEF r
    <3> QED BY <1>7, <3>1 DEF Erased
  <2>4. {r[i] : i \in 1 .. n} = On(s)
    <3>1. \A i \in 1 .. n : r[i] \in On(s)
      <4> SUFFICES ASSUME NEW i \in 1 .. n PROVE r[i] \in On(s) OBVIOUS
      <4>1. n + 1 - i \in 1 .. n BY <1>1
      <4> QED BY <4>1, <1>6 DEF On
    <3>2. \A i \in 1 .. n : \E j \in 1 .. n : s[i] = r[j]
      <4> SUFFICES ASSUME NEW i \in 1 .. n PROVE \E j \in 1 .. n : s[i] = r[j] OBVIOUS
      <4>1. n + 1 - i \in 1 .. n /\ n + 1 - (n + 1 - i) = i BY <1>1
      <4> QED BY <4>1, <1>6
    <3> HIDE DEF r
    <3> QED BY <3>1, <3>2 DEF On
  <2> QED BY <2>3, <2>4
<1>9. Contents(l) = Data(heap, s) BY <1>5, <1>1, LenProperties DEF Contents, Data
<1> QED BY <1>5, <1>7, <1>8, <1>9 DEF s

\* The part of Walks that is needed of the state after a step.
Read ==
  \A P \in Chains : Listed(P) =>
    \A l \in Lists :
      /\ Forward(l) = P[l]
      /\ Contents(l) = Data(heap, P[l])

\* Walks, for all chains.
LEMMA ReadNow == Read
BY Walks DEF Read

\* The same, after a step.
LEMMA ReadNext == Read'
BY ReadNow, PTL

\* The contents as Deque sees them.
View == [l \in Lists |-> Contents(l)]

\* A chain whose nodes have not changed.
LEMMA DataKept ==
  ASSUME NEW s, NEW h, NEW g, \A i \in 1 .. Len(s) : g[s[i]] = h[s[i]]
  PROVE  Data(g, s) = Data(h, s) /\ (Joined(h, s) => Joined(g, s))
<1>1. Data(g, s) = Data(h, s)
  <2>1. \A i \in 1 .. Len(s) : g[s[i]].value = h[s[i]].value OBVIOUS
  <2> QED BY <2>1 DEF Data
<1>2. Joined(h, s) => Joined(g, s) BY DEF Joined
<1> QED BY <1>1, <1>2

-----------------------------------------------------------------------------
(* What a call does to the chains                                           *)

\* A call that makes s the chain of l, takes nodes that were free, frees the ones
\* s has not kept, and touches no other list.
LEMMA Update ==
  ASSUME TypeOK, NEW P \in Chains, Listed(P), NEW l \in Lists,
         NEW s \in Seq(Nodes), Distinct(s), Joined(heap', s),
         heap' \in [Nodes -> Cell \cup {Free}],
         head' = [head EXCEPT ![l] = First(s)], tail' = [tail EXCEPT ![l] = Last(s)],
         \A n \in Nodes : n \notin On(P[l]) /\ n \notin On(s) => heap'[n] = heap[n],
         \A n \in On(s) : n \in On(P[l]) \/ heap[n] = Free,
         \A n \in On(P[l]) : n \in On(s) \/ heap'[n] = Free,
         alive' \subseteq Lists, l \in alive' \/ Len(s) = 0,
         \A m \in Lists : m # l => (m \in alive' <=> m \in alive),
         lost' = lost
  PROVE  IInv' /\ View' = [View EXCEPT ![l] = Data(heap', s)]
<1> DEFINE Q == [P EXCEPT ![l] = s]
<1>1. Q \in Chains /\ Q[l] = s /\ \A m \in Lists : m # l => Q[m] = P[m] BY DEF Chains
<1>2. /\ \A m \in Lists : /\ head[m] = First(P[m]) /\ tail[m] = Last(P[m])
                          /\ Joined(heap, P[m]) /\ Distinct(P[m])
      /\ \A m \in Lists \ alive : Len(P[m]) = 0
      /\ \A k, m \in Lists : k # m => On(P[k]) \cap On(P[m]) = {}
      /\ \A m \in Lists : On(P[m]) \cap lost = {}
      /\ \A n \in Nodes : heap[n] # Free <=> n \in lost \/ \E m \in Lists : n \in On(P[m])
  BY DEF Listed, Listing
<1> HIDE DEF Q
<1>3. \A m \in Lists : /\ \A n \in On(P[m]) : n \in Nodes /\ heap[n] # Free
                       /\ \A i \in 1 .. Len(P[m]) : P[m][i] \in On(P[m])
  BY <1>2, Kinds DEF On, Joined
<1>4. \A n \in On(s) : n \in Nodes /\ heap'[n] # Free BY Kinds DEF On, Joined
<1>5. TypeOK' BY DEF TypeOK, First, Last, Link, Joined, On
<1>6. ASSUME NEW m \in Lists, m # l
      PROVE  \A n \in On(P[m]) : n \notin On(P[l]) /\ n \notin On(s) /\ heap'[n] = heap[n]
  <2> SUFFICES ASSUME NEW n \in On(P[m]) PROVE n \notin On(P[l]) /\ n \notin On(s) /\ heap'[n] = heap[n]
    OBVIOUS
  <2>1. n \in Nodes /\ heap[n] # Free BY <1>3
  <2>2. n \notin On(P[l]) BY <1>2, <1>6
  <2>3. n \notin On(s) BY <2>1, <2>2
  <2> QED BY <2>1, <2>2, <2>3
<1>7. ASSUME NEW m \in Lists, m # l PROVE Joined(heap', P[m]) /\ Data(heap', P[m]) = Data(heap, P[m])
  <2>1. \A i \in 1 .. Len(P[m]) : heap'[P[m][i]] = heap[P[m][i]] BY <1>3, <1>6, <1>7
  <2> QED BY <2>1, <1>2, DataKept
<1>8. \A m \in Lists : /\ head'[m] = First(Q[m]) /\ tail'[m] = Last(Q[m])
                       /\ Joined(heap', Q[m]) /\ Distinct(Q[m])
  BY <1>1, <1>2, <1>7 DEF TypeOK
<1>9. \A m \in Lists \ alive' : Len(Q[m]) = 0 BY <1>1, <1>2
<1>10. ASSUME NEW k \in Lists, NEW m \in Lists, k # m PROVE On(Q[k]) \cap On(Q[m]) = {}
  <2>1. CASE k = l BY <1>1, <1>6, <1>10, <2>1
  <2>2. CASE m = l BY <1>1, <1>6, <1>10, <2>2
  <2>3. CASE k # l /\ m # l BY <1>1, <1>2, <1>10, <2>3
  <2> QED BY <2>1, <2>2, <2>3
<1>11. \A m \in Lists : On(Q[m]) \cap lost' = {}
  <2>1. On(s) \cap lost = {}
    <3> SUFFICES ASSUME NEW n \in On(s), n \in lost PROVE FALSE OBVIOUS
    <3>1. n \in Nodes /\ heap[n] # Free BY <1>2, <1>4
    <3> QED BY <3>1, <1>2
  <2> QED BY <2>1, <1>1, <1>2
<1>12. \A n \in Nodes : heap'[n] # Free <=> n \in lost' \/ \E m \in Lists : n \in On(Q[m])
  <2> SUFFICES ASSUME NEW n \in Nodes
               PROVE  heap'[n] # Free <=> n \in lost \/ \E m \in Lists : n \in On(Q[m])
    OBVIOUS
  <2>1. CASE n \in On(s) BY <2>1, <1>1, <1>4
  <2>2. CASE n \notin On(s) /\ n \in On(P[l])
    <3>1. heap'[n] = Free BY <2>2
    <3>2. n \notin lost BY <2>2, <1>2
    <3>3. \A m \in Lists : n \notin On(Q[m]) BY <2>2, <1>1, <1>2
    <3> QED BY <3>1, <3>2, <3>3
  <2>3. CASE n \notin On(s) /\ n \notin On(P[l])
    <3>1. heap'[n] = heap[n] BY <2>3
    <3>2. (\E m \in Lists : n \in On(Q[m])) <=> \E m \in Lists : n \in On(P[m]) BY <2>3, <1>1
    <3> QED BY <3>1, <3>2, <1>2
  <2> QED BY <2>1, <2>2, <2>3
<1>13. Listed(Q)' BY <1>8, <1>9, <1>10, <1>11, <1>12 DEF Listed, Listing
<1>14. IInv' BY <1>1, <1>5, <1>13 DEF IInv
<1>15. \A m \in Lists : Contents(m) = Data(heap, P[m]) BY ReadNow DEF Read
<1>16. \A m \in Lists : Contents(m)' = Data(heap', Q[m]) BY ReadNext, <1>1, <1>13 DEF Read
<1>17. View' = [View EXCEPT ![l] = Data(heap', s)]
  <2>1. \A m \in Lists : Contents(m)' = IF m = l THEN Data(heap', s) ELSE Contents(m)
    BY <1>1, <1>7, <1>15, <1>16
  <2> QED BY <2>1 DEF View
<1> QED BY <1>14, <1>17

\* What the invariant says of one list.
LEMMA OneList ==
  ASSUME TypeOK, NEW P \in Chains, Listed(P), NEW l \in Lists
  PROVE  /\ P[l] \in Seq(Nodes) /\ Len(P[l]) \in Nat
         /\ head[l] = First(P[l]) /\ tail[l] = Last(P[l])
         /\ Joined(heap, P[l]) /\ Distinct(P[l])
         /\ l \notin alive => Len(P[l]) = 0
         /\ Empty(l) <=> Len(P[l]) = 0
         /\ head[l] = tail[l] <=> Len(P[l]) <= 1
         /\ View[l] = Data(heap, P[l])
         /\ \A n \in Unused : n \in Nodes /\ heap[n] = Free /\ n \notin On(P[l])
<1>1. P[l] \in Seq(Nodes) /\ Len(P[l]) \in Nat BY Chained
<1>2. /\ head[l] = First(P[l]) /\ tail[l] = Last(P[l])
      /\ Joined(heap, P[l]) /\ Distinct(P[l])
      /\ l \notin alive => Len(P[l]) = 0
  BY DEF Listed, Listing
<1>3. \A i \in 1 .. Len(P[l]) : P[l][i] \in Nodes /\ heap[P[l][i]] # Free
  BY <1>2, Kinds DEF Joined
<1>4. Empty(l) <=> Len(P[l]) = 0 BY <1>1, <1>2, <1>3, Kinds DEF Empty, First
<1>5. head[l] = tail[l] <=> Len(P[l]) <= 1
  <2>1. CASE Len(P[l]) = 0 BY <1>2, <2>1 DEF First, Last
  <2>2. CASE Len(P[l]) # 0
    <3>1. head[l] = P[l][1] /\ tail[l] = P[l][Len(P[l])] BY <1>2, <2>2 DEF First, Last
    <3>2. 1 \in 1 .. Len(P[l]) /\ Len(P[l]) \in 1 .. Len(P[l]) BY <1>1, <2>2
    <3>3. P[l][1] = P[l][Len(P[l])] => Len(P[l]) = 1 BY <3>2, <1>2 DEF Distinct
    <3> QED BY <1>1, <2>2, <3>1, <3>3
  <2> QED BY <2>1, <2>2
<1>6. View[l] = Data(heap, P[l]) BY ReadNow DEF Read, View
<1>7. \A n \in Unused : n \in Nodes /\ heap[n] = Free /\ n \notin On(P[l]) BY <1>3 DEF Unused, On
<1> QED BY <1>1, <1>2, <1>4, <1>5, <1>6, <1>7

\* A change of one list, as an operation of Deque.
LEMMA Effect ==
  ASSUME NEW l \in alive, NEW x, NEW r, View' = [View EXCEPT ![l] = x], result' = r, UNCHANGED alive
  PROVE  Deque!Returns(l, x, r)
BY DEF Deque!Returns, View

\* A new node, with one of its links set.
LEMMA NodeFacts ==
  ASSUME NEW v \in Values, NEW k \in Link
  PROVE  /\ NewNode(v) \in Cell /\ NewNode(v).value = v
         /\ NewNode(v).prev = Null /\ NewNode(v).next = Null
         /\ [NewNode(v) EXCEPT !.prev = k] = [value |-> v, prev |-> k, next |-> Null]
         /\ [NewNode(v) EXCEPT !.next = k] = [value |-> v, prev |-> Null, next |-> k]
         /\ [value |-> v, prev |-> k, next |-> Null] \in Cell
         /\ [value |-> v, prev |-> Null, next |-> k] \in Cell
BY DEF NewNode, Cell, Link

\* A node, after one of its links has been set.
LEMMA CellUpdate ==
  ASSUME NEW c \in Cell, NEW k \in Link
  PROVE  /\ [c EXCEPT !.prev = k] = [value |-> c.value, prev |-> k, next |-> c.next]
         /\ [c EXCEPT !.next = k] = [value |-> c.value, prev |-> c.prev, next |-> k]
         /\ [c EXCEPT !.prev = k] \in Cell /\ [c EXCEPT !.next = k] \in Cell
BY DEF Cell

\* A chain with a node put behind it.
LEMMA Appended ==
  ASSUME NEW s \in Seq(Nodes), NEW n \in Nodes, n \notin On(s), Distinct(s)
  PROVE  /\ Append(s, n) \in Seq(Nodes) /\ Distinct(Append(s, n))
         /\ On(Append(s, n)) = On(s) \cup {n}
         /\ Len(Append(s, n)) = Len(s) + 1
         /\ \A i \in 1 .. Len(s) : Append(s, n)[i] = s[i]
         /\ Append(s, n)[Len(s) + 1] = n
<1> DEFINE t == Append(s, n)
<1>1. /\ t \in Seq(Nodes) /\ Len(t) = Len(s) + 1 /\ Len(s) \in Nat
      /\ \A i \in 1 .. Len(s) : t[i] = s[i]
      /\ t[Len(s) + 1] = n
  BY AppendProperties, LenProperties
<1> HIDE DEF t
<1>2. \A i \in 1 .. Len(s) : s[i] # n BY DEF On
<1>3. Distinct(t) BY <1>1, <1>2 DEF Distinct
<1>4. On(t) = On(s) \cup {n}
  <2>1. \A i \in 1 .. Len(t) : i \in 1 .. Len(s) \/ i = Len(s) + 1 BY <1>1
  <2>2. Len(s) + 1 \in 1 .. Len(t) /\ \A i \in 1 .. Len(s) : i \in 1 .. Len(t) BY <1>1
  <2> QED BY <1>1, <2>1, <2>2 DEF On
<1> QED BY <1>1, <1>3, <1>4 DEF t

\* A chain with a node put in front of it.
LEMMA Prepended ==
  ASSUME NEW s \in Seq(Nodes), NEW n \in Nodes, n \notin On(s), Distinct(s)
  PROVE  /\ <<n>> \o s \in Seq(Nodes) /\ Distinct(<<n>> \o s)
         /\ On(<<n>> \o s) = On(s) \cup {n}
         /\ Len(<<n>> \o s) = Len(s) + 1
         /\ (<<n>> \o s)[1] = n
         /\ \A i \in 1 .. Len(s) : (<<n>> \o s)[i + 1] = s[i]
<1> DEFINE t == <<n>> \o s
<1>0. Len(s) \in Nat /\ <<n>> \in Seq(Nodes) /\ Len(<<n>>) = 1 /\ <<n>>[1] = n BY LenProperties
<1>1. /\ t \in Seq(Nodes) /\ Len(t) = Len(s) + 1 /\ Len(s) \in Nat
      /\ \A i \in 1 .. Len(t) : t[i] = IF i <= 1 THEN <<n>>[i] ELSE s[i - 1]
  BY <1>0, ConcatProperties
<1> HIDE DEF t
<1>2. t[1] = n BY <1>0, <1>1
<1>3. \A i \in 1 .. Len(s) : t[i + 1] = s[i]
  <2> SUFFICES ASSUME NEW i \in 1 .. Len(s) PROVE t[i + 1] = s[i] OBVIOUS
  <2>1. i + 1 \in 1 .. Len(t) /\ ~(i + 1 <= 1) /\ i + 1 - 1 = i BY <1>1
  <2> QED BY <1>1, <2>1
<1>4. \A i \in 1 .. Len(s) : s[i] # n BY DEF On
<1>5. \A i \in 1 .. Len(t) : i = 1 \/ (i - 1 \in 1 .. Len(s) /\ t[i] = s[i - 1])
  BY <1>1
<1>6. Distinct(t)
  <2> SUFFICES ASSUME NEW i \in 1 .. Len(t), NEW j \in 1 .. Len(t), t[i] = t[j] PROVE i = j BY DEF Distinct
  <2>1. CASE i = 1 BY <2>1, <1>2, <1>4, <1>5
  <2>2. CASE j = 1 BY <2>2, <1>2, <1>4, <1>5
  <2>3. CASE i # 1 /\ j # 1
    <3>1. i - 1 = j - 1 BY <2>3, <1>5 DEF Distinct
    <3> QED BY <3>1, <1>1
  <2> QED BY <2>1, <2>2, <2>3
<1>7. On(t) = On(s) \cup {n}
  <2>1. 1 \in 1 .. Len(t) /\ \A i \in 1 .. Len(s) : i + 1 \in 1 .. Len(t) BY <1>1
  <2>2. \A x \in On(t) : x \in On(s) \cup {n} BY <1>2, <1>5 DEF On
  <2>3. \A x \in On(s) : x \in On(t) BY <1>3, <2>1 DEF On
  <2>4. n \in On(t) BY <1>2, <2>1 DEF On
  <2> QED BY <2>2, <2>3, <2>4
<1> QED BY <1>1, <1>2, <1>3, <1>6, <1>7 DEF t

\* A chain without its first and without its last node.
LEMMA Shortened ==
  ASSUME NEW s \in Seq(Nodes), Distinct(s), Len(s) >= 2
  PROVE  LET t == Tail(s)
             u == SubSeq(s, 1, Len(s) - 1)
         IN  /\ t \in Seq(Nodes) /\ Len(t) = Len(s) - 1
             /\ \A i \in 1 .. Len(t) : t[i] = s[i + 1] /\ i + 1 \in 1 .. Len(s)
             /\ Distinct(t) /\ On(t) = On(s) \ {s[1]}
             /\ u \in Seq(Nodes) /\ Len(u) = Len(s) - 1
             /\ \A i \in 1 .. Len(u) : u[i] = s[i] /\ i \in 1 .. Len(s)
             /\ Distinct(u) /\ On(u) = On(s) \ {s[Len(s)]}
<1> DEFINE t == Tail(s)
           u == SubSeq(s, 1, Len(s) - 1)
<1>0. Len(s) \in Nat /\ s # <<>> BY LenProperties, EmptySeq
<1>1. t \in Seq(Nodes) /\ Len(t) = Len(s) - 1 /\ \A i \in 1 .. Len(t) : t[i] = s[i + 1]
  BY <1>0, HeadTailProperties
<1>2. \A i \in 1 .. Len(t) : i + 1 \in 1 .. Len(s) BY <1>0, <1>1
<1>3. u \in Seq(Nodes) /\ Len(u) = Len(s) - 1 /\ \A i \in 1 .. Len(s) - 1 : u[i] = s[i]
  <2>1. \A i \in 1 .. Len(s) - 1 : s[i] \in Nodes BY <1>0, ElementOfSeq
  <2>2. Len(s) - 1 \in Int /\ 1 \in Int /\ 1 <= Len(s) - 1 BY <1>0
  <2>3. /\ u \in Seq(Nodes)
        /\ Len(u) = IF 1 <= Len(s) - 1 THEN Len(s) - 1 - 1 + 1 ELSE 0
        /\ \A i \in 1 .. Len(s) - 1 - 1 + 1 : u[i] = s[1 + i - 1]
    BY <2>1, <2>2, SubSeqProperties
  <2>4. Len(s) - 1 - 1 + 1 = Len(s) - 1 /\ \A i \in 1 .. Len(s) - 1 : 1 + i - 1 = i BY <1>0
  <2> HIDE DEF u
  <2> QED BY <2>2, <2>3, <2>4
<1>4. \A i \in 1 .. Len(u) : u[i] = s[i] /\ i \in 1 .. Len(s) BY <1>0, <1>3
<1> HIDE DEF t, u
<1>5. Distinct(t)
  <2> SUFFICES ASSUME NEW i \in 1 .. Len(t), NEW j \in 1 .. Len(t), t[i] = t[j] PROVE i = j BY DEF Distinct
  <2>1. i + 1 = j + 1 BY <1>1, <1>2 DEF Distinct
  <2> QED BY <2>1, <1>0, <1>1
<1>6. Distinct(u) BY <1>4 DEF Distinct
<1>7. On(t) = On(s) \ {s[1]}
  <2>1. \A i \in 1 .. Len(t) : t[i] \in On(s) /\ t[i] # s[1]
    <3> SUFFICES ASSUME NEW i \in 1 .. Len(t) PROVE t[i] \in On(s) /\ t[i] # s[1] OBVIOUS
    <3>1. t[i] = s[i + 1] /\ i + 1 \in 1 .. Len(s) /\ 1 \in 1 .. Len(s) /\ i + 1 # 1 BY <1>0, <1>1, <1>2
    <3> QED BY <3>1 DEF Distinct, On
  <2>2. \A i \in 1 .. Len(s) : s[i] # s[1] => s[i] \in On(t)
    <3> SUFFICES ASSUME NEW i \in 1 .. Len(s), s[i] # s[1] PROVE s[i] \in On(t) OBVIOUS
    <3>1. i - 1 \in 1 .. Len(t) /\ i - 1 + 1 = i BY <1>0, <1>1
    <3> QED BY <3>1, <1>1 DEF On
  <2> QED BY <2>1, <2>2 DEF On
<1>8. On(u) = On(s) \ {s[Len(s)]}
  <2>1. \A i \in 1 .. Len(u) : u[i] \in On(s) /\ u[i] # s[Len(s)]
    <3> SUFFICES ASSUME NEW i \in 1 .. Len(u) PROVE u[i] \in On(s) /\ u[i] # s[Len(s)] OBVIOUS
    <3>1. u[i] = s[i] /\ i \in 1 .. Len(s) /\ Len(s) \in 1 .. Len(s) /\ i # Len(s) BY <1>0, <1>3, <1>4
    <3> QED BY <3>1 DEF Distinct, On
  <2>2. \A i \in 1 .. Len(s) : s[i] # s[Len(s)] => s[i] \in On(u)
    <3> SUFFICES ASSUME NEW i \in 1 .. Len(s), s[i] # s[Len(s)] PROVE s[i] \in On(u) OBVIOUS
    <3>1. i \in 1 .. Len(u) BY <1>0, <1>3
    <3> QED BY <3>1, <1>4 DEF On
  <2> QED BY <2>1, <2>2 DEF On
<1> QED BY <1>1, <1>2, <1>3, <1>4, <1>5, <1>6, <1>7, <1>8 DEF t, u

-----------------------------------------------------------------------------
(* The calls: each keeps the invariant and is the operation of Deque that   *)
(* has its name                                                             *)

\* The new node goes behind the chain, and the old tail_ learns of it.
LEMMA PushBackStep ==
  ASSUME TypeOK, NEW P \in Chains, Listed(P), NEW l \in Lists, NEW v \in Values, PushBack(l, v)
  PROVE  IInv' /\ Deque!PushBack(l, v)
<1> DEFINE s == P[l]
<1>1. /\ s \in Seq(Nodes) /\ Len(s) \in Nat
      /\ head[l] = First(s) /\ tail[l] = Last(s)
      /\ Joined(heap, s) /\ Distinct(s)
      /\ Empty(l) <=> Len(s) = 0
      /\ View[l] = Data(heap, s)
      /\ \A n \in Unused : n \in Nodes /\ heap[n] = Free /\ n \notin On(s)
  BY OneList
<1>2. l \in alive /\ result' = Void /\ UNCHANGED <<alive, lost>> BY DEF PushBack
<1>3. PICK n \in Unused :
        /\ tail' = [tail EXCEPT ![l] = n]
        /\ Empty(l) => /\ heap' = [heap EXCEPT ![n] = NewNode(v)]
                       /\ head' = [head EXCEPT ![l] = n]
        /\ ~Empty(l) => /\ heap' = [heap EXCEPT
                             ![n] = [NewNode(v) EXCEPT !.prev = tail[l]],
                             ![tail[l]].next = n]
                        /\ UNCHANGED head
  BY DEF PushBack
<1> DEFINE t == Append(s, n)
           c == [value |-> v, prev |-> Last(s), next |-> Null]
<1> HIDE DEF s
<1>4. n \in Nodes /\ heap[n] = Free /\ n \notin On(s) /\ \A i \in 1 .. Len(s) : s[i] # n
  BY <1>1 DEF On
<1>5. /\ t \in Seq(Nodes) /\ Distinct(t) /\ On(t) = On(s) \cup {n} /\ Len(t) = Len(s) + 1
      /\ \A i \in 1 .. Len(s) : t[i] = s[i]
      /\ t[Len(s) + 1] = n
  BY <1>1, <1>4, Appended
<1> HIDE DEF t
<1>6. Last(s) \in Link /\ c \in Cell /\ c.value = v /\ c.prev = Last(s) /\ c.next = Null
  BY <1>1 DEF Last, Link, Joined, Cell
<1> HIDE DEF c
<1>7. Len(s) # 0 => /\ Last(s) = s[Len(s)] /\ Len(s) \in 1 .. Len(s)
                    /\ heap[s[Len(s)]] \in Cell /\ s[Len(s)] \in Nodes
  BY <1>1 DEF Last, Joined
\* What the heap holds after the call.
<1>8. /\ heap' \in [Nodes -> Cell \cup {Free}]
      /\ heap'[n] = c
      /\ \A m \in Nodes : m # n /\ (Len(s) # 0 => m # s[Len(s)]) => heap'[m] = heap[m]
      /\ Len(s) # 0 => heap'[s[Len(s)]] = [heap[s[Len(s)]] EXCEPT !.next = n]
  <2>1. CASE Len(s) = 0
    <3>1. c = NewNode(v) BY <2>1 DEF c, NewNode, Last
    <3> QED BY <2>1, <3>1, <1>1, <1>3, <1>4, <1>6 DEF TypeOK
  <2>2. CASE Len(s) # 0
    <3>1. c = [NewNode(v) EXCEPT !.prev = tail[l]]
      <4>1. [NewNode(v) EXCEPT !.prev = Last(s)] = [value |-> v, prev |-> Last(s), next |-> Null]
        BY ONLY <1>6, NodeFacts
      <4> QED BY <4>1, <1>1 DEF c
    <3>2. heap' = [heap EXCEPT ![n] = c, ![s[Len(s)]].next = n]
      BY <2>2, <3>1, <1>1, <1>3, <1>7
    <3>3. s[Len(s)] # n BY <1>4, <1>7, <2>2
    <3>4. [heap[s[Len(s)]] EXCEPT !.next = n] \in Cell BY <1>4, <1>7, <2>2, CellUpdate DEF Link
    <3>5. heap' = [[heap EXCEPT ![n] = c] EXCEPT ![s[Len(s)]] = [heap[s[Len(s)]] EXCEPT !.next = n]]
      BY <3>2, <3>3, <1>4, <1>7, <2>2 DEF TypeOK
    <3> QED BY <2>2, <3>3, <3>4, <3>5, <1>4, <1>6, <1>7 DEF TypeOK
  <2> QED BY <2>1, <2>2
<1>9. /\ Joined(heap', t)
      /\ \A i \in 1 .. Len(s) : heap'[t[i]].value = heap[s[i]].value
  <2>1. ASSUME NEW i \in 1 .. Len(s)
        PROVE  /\ t[i] = s[i] /\ t[i] \in Nodes /\ heap'[t[i]] \in Cell
               /\ heap'[t[i]].value = heap[s[i]].value
               /\ heap'[t[i]].prev = IF i = 1 THEN Null ELSE s[i - 1]
               /\ heap'[t[i]].next = IF i = Len(s) THEN n ELSE s[i + 1]
    <3>1. /\ t[i] = s[i] /\ s[i] \in Nodes /\ s[i] # n /\ heap[s[i]] \in Cell
          /\ heap[s[i]].prev = IF i = 1 THEN Null ELSE s[i - 1]
          /\ heap[s[i]].next = IF i = Len(s) THEN Null ELSE s[i + 1]
      BY <1>1, <1>4, <1>5 DEF Joined
    <3>2. CASE i = Len(s)
      <4>1. heap'[s[i]] = [heap[s[i]] EXCEPT !.next = n] BY <3>2, <1>1, <1>8
      <4>2. heap'[s[i]] = [value |-> heap[s[i]].value, prev |-> heap[s[i]].prev, next |-> n]
            /\ heap'[s[i]] \in Cell
        <5>1. n \in Link BY <1>4 DEF Link
        <5>2. [heap[s[i]] EXCEPT !.next = n] = [value |-> heap[s[i]].value, prev |-> heap[s[i]].prev, next |-> n]
              /\ [heap[s[i]] EXCEPT !.next = n] \in Cell
          BY ONLY <3>1, <5>1, CellUpdate
        <5> QED BY <4>1, <5>2
      <4> QED BY <3>1, <3>2, <4>2
    <3>3. CASE i # Len(s)
      <4>1. s[i] # s[Len(s)] BY <3>3, <1>1 DEF Distinct
      <4>2. heap'[s[i]] = heap[s[i]] BY <3>1, <4>1, <1>8
      <4> QED BY <3>1, <3>3, <4>2
    <3> QED BY <3>2, <3>3
  <2>2. Joined(heap', t)
    <3> SUFFICES ASSUME NEW i \in 1 .. Len(s) + 1
                 PROVE  /\ t[i] \in Nodes /\ heap'[t[i]] \in Cell
                        /\ heap'[t[i]].prev = IF i = 1 THEN Null ELSE t[i - 1]
                        /\ heap'[t[i]].next = IF i = Len(s) + 1 THEN Null ELSE t[i + 1]
      BY <1>5 DEF Joined
    <3>1. CASE i = Len(s) + 1
      <4>1. t[i] = n /\ heap'[t[i]] = c BY <3>1, <1>5, <1>8
      <4>2. Last(s) = IF i = 1 THEN Null ELSE t[i - 1]
        <5>1. Len(s) # 0 => t[i - 1] = s[Len(s)] BY <3>1, <1>1, <1>5
        <5> QED BY <3>1, <5>1, <1>1 DEF Last
      <4> QED BY <3>1, <4>1, <4>2, <1>4, <1>6
    <3>2. CASE i \in 1 .. Len(s)
      <4>1. i # 1 => t[i - 1] = s[i - 1] BY <3>2, <1>1, <1>5
      <4>2. t[i + 1] = IF i = Len(s) THEN n ELSE s[i + 1] BY <3>2, <1>1, <1>5
      <4>3. i # Len(s) + 1 BY <3>2, <1>1
      <4> QED BY <3>2, <2>1, <4>1, <4>2, <4>3
    <3> QED BY <3>1, <3>2, <1>1
  <2> QED BY <2>1, <2>2
<1>10. head' = [head EXCEPT ![l] = First(t)] /\ tail' = [tail EXCEPT ![l] = Last(t)]
  <2>1. Last(t) = n BY <1>1, <1>5 DEF Last
  <2>2. First(t) = IF Len(s) = 0 THEN n ELSE head[l] BY <1>1, <1>5 DEF First
  <2>3. Len(s) # 0 => head' = [head EXCEPT ![l] = head[l]] BY <1>1, <1>3 DEF TypeOK
  <2> QED BY <2>1, <2>2, <2>3, <1>1, <1>3
<1>11. IInv' /\ View' = [View EXCEPT ![l] = Data(heap', t)]
  <2>1. \A m \in Nodes : m \notin On(P[l]) /\ m \notin On(t) => heap'[m] = heap[m]
    BY <1>5, <1>7, <1>8 DEF On, s
  <2>2. \A m \in On(t) : m \in On(P[l]) \/ heap[m] = Free BY <1>4, <1>5 DEF s
  <2>3. \A m \in On(P[l]) : m \in On(t) BY <1>5 DEF s
  <2>4. alive' \subseteq Lists /\ l \in alive' /\ lost' = lost BY <1>2 DEF TypeOK
  <2>5. \A m \in Lists : m # l => (m \in alive' <=> m \in alive) BY <1>2
  <2>6. heap' \in [Nodes -> Cell \cup {Free}] BY <1>8
  <2>7. t \in Seq(Nodes) /\ Distinct(t) /\ Joined(heap', t) BY <1>5, <1>9
  <2> QED BY <1>10, <2>1, <2>2, <2>3, <2>4, <2>5, <2>6, <2>7, Update
<1>12. Data(heap', t) = Append(Data(heap, s), v)
  <2>1. \A i \in 1 .. Len(s) : heap[s[i]].value \in Values BY <1>1 DEF Joined, Cell
  <2>2. Data(heap, s) \in Seq(Values) /\ Len(Data(heap, s)) = Len(s) BY <2>1, <1>1 DEF Data
  <2>3. /\ Append(Data(heap, s), v) \in Seq(Values)
        /\ Len(Append(Data(heap, s), v)) = Len(s) + 1
        /\ \A i \in 1 .. Len(s) : Append(Data(heap, s), v)[i] = heap[s[i]].value
        /\ Append(Data(heap, s), v)[Len(s) + 1] = v
    BY <2>2, AppendProperties DEF Data
  <2>4. heap'[t[Len(s) + 1]].value = v BY <1>5, <1>6, <1>8
  <2>5. Data(heap', t) \in Seq(Values) /\ Len(Data(heap', t)) = Len(s) + 1
    <3>1. \A i \in 1 .. Len(t) : heap'[t[i]].value \in Values BY <1>9 DEF Joined, Cell
    <3> QED BY <3>1, <1>1, <1>5 DEF Data
  <2>6. \A i \in 1 .. Len(s) + 1 : Data(heap', t)[i] = Append(Data(heap, s), v)[i]
    <3> SUFFICES ASSUME NEW i \in 1 .. Len(s) + 1
                 PROVE  Data(heap', t)[i] = Append(Data(heap, s), v)[i]
      OBVIOUS
    <3>1. Data(heap', t)[i] = heap'[t[i]].value BY <1>5 DEF Data
    <3>2. i \in 1 .. Len(s) \/ i = Len(s) + 1 BY <1>1
    <3> QED BY <3>1, <3>2, <2>3, <2>4, <1>9
  <2> QED BY <2>3, <2>5, <2>6, SeqEqual
<1>13. Deque!Returns(l, Append(View[l], v), Void) BY <1>1, <1>2, <1>11, <1>12, Effect
<1> QED BY <1>11, <1>13 DEF Deque!PushBack, View

\* The values along a chain.
LEMMA DataType ==
  ASSUME NEW s \in Seq(Nodes), NEW h, Joined(h, s)
  PROVE  /\ Data(h, s) \in Seq(Values) /\ Len(Data(h, s)) = Len(s)
         /\ \A i \in 1 .. Len(s) : Data(h, s)[i] = h[s[i]].value
         /\ Data(h, s) = <<>> <=> Len(s) = 0
<1>0. Len(s) \in Nat BY LenProperties
<1>1. \A i \in 1 .. Len(s) : h[s[i]].value \in Values BY DEF Joined, Cell
<1>2. Data(h, s) \in Seq(Values) /\ Len(Data(h, s)) = Len(s) BY <1>0, <1>1 DEF Data
<1>3. \A i \in 1 .. Len(s) : Data(h, s)[i] = h[s[i]].value BY DEF Data
<1>4. Data(h, s) = <<>> <=> Len(s) = 0 BY <1>0, <1>2, EmptySeq
<1> QED BY <1>2, <1>3, <1>4

\* The new node goes in front of the chain, and the old head_ learns of it.
LEMMA PushFrontStep ==
  ASSUME TypeOK, NEW P \in Chains, Listed(P), NEW l \in Lists, NEW v \in Values, PushFront(l, v)
  PROVE  IInv' /\ Deque!PushFront(l, v)
<1> DEFINE s == P[l]
<1>1. /\ s \in Seq(Nodes) /\ Len(s) \in Nat
      /\ head[l] = First(s) /\ tail[l] = Last(s)
      /\ Joined(heap, s) /\ Distinct(s)
      /\ Empty(l) <=> Len(s) = 0
      /\ View[l] = Data(heap, s)
      /\ \A n \in Unused : n \in Nodes /\ heap[n] = Free /\ n \notin On(s)
  BY OneList
<1>2. l \in alive /\ result' = Void /\ UNCHANGED <<alive, lost>> BY DEF PushFront
<1>3. PICK n \in Unused :
        /\ head' = [head EXCEPT ![l] = n]
        /\ Empty(l) => /\ heap' = [heap EXCEPT ![n] = NewNode(v)]
                       /\ tail' = [tail EXCEPT ![l] = n]
        /\ ~Empty(l) => /\ heap' = [heap EXCEPT
                             ![n] = [NewNode(v) EXCEPT !.next = head[l]],
                             ![head[l]].prev = n]
                        /\ UNCHANGED tail
  BY DEF PushFront
<1> DEFINE t == <<n>> \o s
           c == [value |-> v, prev |-> Null, next |-> First(s)]
<1> HIDE DEF s
<1>4. n \in Nodes /\ heap[n] = Free /\ n \notin On(s) /\ \A i \in 1 .. Len(s) : s[i] # n
  BY <1>1 DEF On
<1>5. /\ t \in Seq(Nodes) /\ Distinct(t) /\ On(t) = On(s) \cup {n} /\ Len(t) = Len(s) + 1
      /\ t[1] = n
      /\ \A i \in 1 .. Len(s) : t[i + 1] = s[i]
  BY <1>1, <1>4, Prepended
<1> HIDE DEF t
<1>6. First(s) \in Link /\ c \in Cell /\ c.value = v /\ c.prev = Null /\ c.next = First(s)
  BY <1>1 DEF First, Link, Joined, Cell
<1> HIDE DEF c
<1>7. Len(s) # 0 => /\ First(s) = s[1] /\ 1 \in 1 .. Len(s)
                    /\ heap[s[1]] \in Cell /\ s[1] \in Nodes
  BY <1>1 DEF First, Joined
\* What the heap holds after the call.
<1>8. /\ heap' \in [Nodes -> Cell \cup {Free}]
      /\ heap'[n] = c
      /\ \A m \in Nodes : m # n /\ (Len(s) # 0 => m # s[1]) => heap'[m] = heap[m]
      /\ Len(s) # 0 => heap'[s[1]] = [heap[s[1]] EXCEPT !.prev = n]
  <2>1. CASE Len(s) = 0
    <3>1. c = NewNode(v) BY <2>1 DEF c, NewNode, First
    <3> QED BY <2>1, <3>1, <1>1, <1>3, <1>4, <1>6 DEF TypeOK
  <2>2. CASE Len(s) # 0
    <3>1. c = [NewNode(v) EXCEPT !.next = head[l]]
      <4>1. [NewNode(v) EXCEPT !.next = First(s)] = [value |-> v, prev |-> Null, next |-> First(s)]
        BY ONLY <1>6, NodeFacts
      <4> QED BY <4>1, <1>1 DEF c
    <3>2. heap' = [heap EXCEPT ![n] = c, ![s[1]].prev = n]
      BY <2>2, <3>1, <1>1, <1>3, <1>7
    <3>3. s[1] # n BY <1>4, <1>7, <2>2
    <3>4. [heap[s[1]] EXCEPT !.prev = n] \in Cell BY <1>4, <1>7, <2>2, CellUpdate DEF Link
    <3>5. heap' = [[heap EXCEPT ![n] = c] EXCEPT ![s[1]] = [heap[s[1]] EXCEPT !.prev = n]]
      BY <3>2, <3>3, <1>4, <1>7, <2>2 DEF TypeOK
    <3> QED BY <2>2, <3>3, <3>4, <3>5, <1>4, <1>6, <1>7 DEF TypeOK
  <2> QED BY <2>1, <2>2
<1>9. ASSUME NEW i \in 1 .. Len(s)
      PROVE  /\ t[i + 1] = s[i] /\ t[i + 1] \in Nodes /\ heap'[t[i + 1]] \in Cell
             /\ heap'[t[i + 1]].value = heap[s[i]].value
             /\ heap'[t[i + 1]].prev = IF i = 1 THEN n ELSE s[i - 1]
             /\ heap'[t[i + 1]].next = IF i = Len(s) THEN Null ELSE s[i + 1]
  <2>1. /\ t[i + 1] = s[i] /\ s[i] \in Nodes /\ s[i] # n /\ heap[s[i]] \in Cell
        /\ heap[s[i]].prev = IF i = 1 THEN Null ELSE s[i - 1]
        /\ heap[s[i]].next = IF i = Len(s) THEN Null ELSE s[i + 1]
    BY <1>1, <1>4, <1>5 DEF Joined
  <2>2. CASE i = 1
    <3>1. heap'[s[i]] = [heap[s[i]] EXCEPT !.prev = n] BY <2>2, <1>1, <1>8
    <3>2. n \in Link BY <1>4 DEF Link
    <3>3. [heap[s[i]] EXCEPT !.prev = n] = [value |-> heap[s[i]].value, prev |-> n, next |-> heap[s[i]].next]
          /\ [heap[s[i]] EXCEPT !.prev = n] \in Cell
      BY ONLY <2>1, <3>2, CellUpdate
    <3> QED BY <2>1, <2>2, <3>1, <3>3
  <2>3. CASE i # 1
    <3>1. s[i] # s[1] BY <2>3, <1>1 DEF Distinct
    <3>2. heap'[s[i]] = heap[s[i]] BY <2>1, <3>1, <1>8
    <3> QED BY <2>1, <2>3, <3>2
  <2> QED BY <2>2, <2>3
<1>10. Joined(heap', t)
  <2> SUFFICES ASSUME NEW i \in 1 .. Len(s) + 1
               PROVE  /\ t[i] \in Nodes /\ heap'[t[i]] \in Cell
                      /\ heap'[t[i]].prev = IF i = 1 THEN Null ELSE t[i - 1]
                      /\ heap'[t[i]].next = IF i = Len(s) + 1 THEN Null ELSE t[i + 1]
    BY <1>5 DEF Joined
  <2>1. CASE i = 1
    <3>1. t[i] = n /\ heap'[t[i]] = c BY <2>1, <1>5, <1>8
    <3>2. First(s) = IF i = Len(s) + 1 THEN Null ELSE t[i + 1]
      <4>1. Len(s) # 0 => t[i + 1] = s[1] BY <2>1, <1>1, <1>5
      <4> QED BY <2>1, <4>1, <1>1 DEF First
    <3> QED BY <2>1, <3>1, <3>2, <1>4, <1>6
  <2>2. CASE i # 1
    <3>1. PICK j \in 1 .. Len(s) : j = i - 1 /\ i = j + 1 BY <2>2, <1>1
    <3>2. t[i - 1] = IF j = 1 THEN n ELSE s[j - 1]
      <4>1. j # 1 => j - 1 \in 1 .. Len(s) /\ j - 1 + 1 = i - 1 BY <3>1, <1>1
      <4>2. j = 1 => i - 1 = 1 BY <3>1
      <4> QED BY <4>1, <4>2, <1>5
    <3>3. j # Len(s) => t[i + 1] = s[j + 1]
      <4>1. j # Len(s) => j + 1 \in 1 .. Len(s) /\ j + 1 + 1 = i + 1 BY <3>1, <1>1
      <4> QED BY <4>1, <1>5
    <3>4. i = Len(s) + 1 <=> j = Len(s) BY <3>1, <1>1
    <3> QED BY <2>2, <3>1, <3>2, <3>3, <3>4, <1>9
  <2> QED BY <2>1, <2>2
<1>11. head' = [head EXCEPT ![l] = First(t)] /\ tail' = [tail EXCEPT ![l] = Last(t)]
  <2>1. First(t) = n BY <1>1, <1>5 DEF First
  <2>2. Last(t) = IF Len(s) = 0 THEN n ELSE tail[l]
    <3>1. Len(s) # 0 => t[Len(s) + 1] = s[Len(s)] BY <1>1, <1>5
    <3> QED BY <3>1, <1>1, <1>5 DEF Last
  <2>3. Len(s) # 0 => tail' = [tail EXCEPT ![l] = tail[l]] BY <1>1, <1>3 DEF TypeOK
  <2> QED BY <2>1, <2>2, <2>3, <1>1, <1>3
<1>12. IInv' /\ View' = [View EXCEPT ![l] = Data(heap', t)]
  <2>1. \A m \in Nodes : m \notin On(P[l]) /\ m \notin On(t) => heap'[m] = heap[m]
    BY <1>5, <1>7, <1>8 DEF On, s
  <2>2. \A m \in On(t) : m \in On(P[l]) \/ heap[m] = Free BY <1>4, <1>5 DEF s
  <2>3. \A m \in On(P[l]) : m \in On(t) BY <1>5 DEF s
  <2>4. alive' \subseteq Lists /\ l \in alive' /\ lost' = lost BY <1>2 DEF TypeOK
  <2>5. \A m \in Lists : m # l => (m \in alive' <=> m \in alive) BY <1>2
  <2>6. heap' \in [Nodes -> Cell \cup {Free}] BY <1>8
  <2>7. t \in Seq(Nodes) /\ Distinct(t) /\ Joined(heap', t) BY <1>5, <1>10
  <2> QED BY <1>11, <2>1, <2>2, <2>3, <2>4, <2>5, <2>6, <2>7, Update
<1>13. Data(heap', t) = <<v>> \o Data(heap, s)
  <2>1. /\ Data(heap, s) \in Seq(Values) /\ Len(Data(heap, s)) = Len(s)
        /\ \A i \in 1 .. Len(s) : Data(heap, s)[i] = heap[s[i]].value
    BY <1>1, DataType
  <2>2. /\ Data(heap', t) \in Seq(Values) /\ Len(Data(heap', t)) = Len(s) + 1
        /\ \A i \in 1 .. Len(s) + 1 : Data(heap', t)[i] = heap'[t[i]].value
    BY <1>5, <1>10, DataType
  <2>3. <<v>> \in Seq(Values) /\ Len(<<v>>) = 1 /\ <<v>>[1] = v OBVIOUS
  <2>4. /\ <<v>> \o Data(heap, s) \in Seq(Values) /\ Len(<<v>> \o Data(heap, s)) = 1 + Len(s)
        /\ \A i \in 1 .. 1 + Len(s) :
             (<<v>> \o Data(heap, s))[i] = IF i <= 1 THEN <<v>>[i] ELSE Data(heap, s)[i - 1]
    BY <2>1, <2>3, ConcatProperties
  <2>5. \A i \in 1 .. Len(s) + 1 : Data(heap', t)[i] = (<<v>> \o Data(heap, s))[i]
    <3> SUFFICES ASSUME NEW i \in 1 .. Len(s) + 1
                 PROVE  Data(heap', t)[i] = (<<v>> \o Data(heap, s))[i]
      OBVIOUS
    <3>1. Data(heap', t)[i] = heap'[t[i]].value BY <2>2
    <3>2. (<<v>> \o Data(heap, s))[i] = IF i <= 1 THEN <<v>>[i] ELSE Data(heap, s)[i - 1]
      BY <2>4, <1>1
    <3>3. CASE i = 1 BY <3>1, <3>2, <3>3, <2>3, <1>5, <1>6, <1>8
    <3>4. CASE i # 1
      <4>1. PICK j \in 1 .. Len(s) : j = i - 1 /\ i = j + 1 /\ ~(i <= 1) BY <3>4, <1>1
      <4> QED BY <3>1, <3>2, <4>1, <2>1, <1>9
    <3> QED BY <3>3, <3>4
  <2>6. Len(Data(heap', t)) = Len(<<v>> \o Data(heap, s)) BY <2>2, <2>4, <1>1
  <2>7. \A i \in 1 .. Len(Data(heap', t)) : Data(heap', t)[i] = (<<v>> \o Data(heap, s))[i]
    BY <2>2, <2>5
  <2> QED BY <2>2, <2>4, <2>6, <2>7, SeqEqual
<1>14. Deque!Returns(l, <<v>> \o View[l], Void) BY <1>1, <1>2, <1>12, <1>13, Effect
<1> QED BY <1>12, <1>14 DEF Deque!PushFront, View

\* The chain of a list that has no node.
LEMMA EmptyChain == \A h : <<>> \in Seq(Nodes) /\ Distinct(<<>>) /\ Joined(h, <<>>) /\ On(<<>>) = {}
                           /\ First(<<>>) = Null /\ Last(<<>>) = Null /\ Data(h, <<>>) = <<>>
<1>1. <<>> \in Seq(Nodes) /\ Len(<<>>) = 0 BY EmptySeq
<1>2. \A h : Data(h, <<>>) = <<>>
  <2> SUFFICES ASSUME NEW h PROVE Data(h, <<>>) = <<>> OBVIOUS
  <2>1. Joined(h, <<>>) BY <1>1 DEF Joined
  <2> QED BY <1>1, <2>1, DataType
<1> QED BY <1>1, <1>2 DEF Distinct, Joined, On, First, Last

\* A list that loses all of its nodes.
LEMMA Emptied ==
  ASSUME TypeOK, NEW P \in Chains, Listed(P), NEW l \in Lists, Delete(On(P[l])),
         head' = [head EXCEPT ![l] = Null], tail' = [tail EXCEPT ![l] = Null],
         alive' \subseteq Lists, \A m \in Lists : m # l => (m \in alive' <=> m \in alive),
         lost' = lost
  PROVE  IInv' /\ View' = [View EXCEPT ![l] = <<>>]
<1>1. heap' = [n \in Nodes |-> IF n \in On(P[l]) THEN Free ELSE heap[n]] BY DEF Delete
<1>2. heap' \in [Nodes -> Cell \cup {Free}] BY <1>1 DEF TypeOK
<1>3. PICK s \in Seq(Nodes) :
        /\ Len(s) = 0 /\ Distinct(s) /\ Joined(heap', s) /\ On(s) = {}
        /\ First(s) = Null /\ Last(s) = Null /\ Data(heap', s) = <<>>
  BY EmptyChain, EmptySeq
<1>4. /\ \A n \in Nodes : n \notin On(P[l]) /\ n \notin On(s) => heap'[n] = heap[n]
      /\ \A n \in On(s) : n \in On(P[l]) \/ heap[n] = Free
      /\ \A n \in On(P[l]) : n \in On(s) \/ heap'[n] = Free
  <2>1. On(P[l]) \subseteq Nodes BY OneList DEF On, Joined
  <2> QED BY <1>1, <1>3, <2>1
<1>5. head' = [head EXCEPT ![l] = First(s)] /\ tail' = [tail EXCEPT ![l] = Last(s)]
  BY <1>3
<1>6. l \in alive' \/ Len(s) = 0 BY <1>3
<1>7. IInv' /\ View' = [View EXCEPT ![l] = Data(heap', s)]
  <2>1. Distinct(s) /\ Joined(heap', s) /\ s \in Seq(Nodes) BY <1>3
  <2>2. \A n \in Nodes : n \notin On(P[l]) /\ n \notin On(s) => heap'[n] = heap[n] BY <1>4
  <2>3. \A n \in On(s) : n \in On(P[l]) \/ heap[n] = Free BY <1>4
  <2>4. \A n \in On(P[l]) : n \in On(s) \/ heap'[n] = Free BY <1>4
  <2>5. TypeOK /\ P \in Chains /\ Listed(P) /\ l \in Lists /\ alive' \subseteq Lists /\ lost' = lost
    OBVIOUS
  <2>6. \A m \in Lists : m # l => (m \in alive' <=> m \in alive) OBVIOUS
  <2> QED BY ONLY <1>2, <1>5, <1>6, <2>1, <2>2, <2>3, <2>4, <2>5, <2>6, Update
<1> QED BY <1>3, <1>7

\* The walk from the tail deletes every node of the list.
LEMMA EraseAllStep ==
  ASSUME TypeOK, NEW P \in Chains, Listed(P), NEW l \in Lists, EraseAll(l)
  PROVE  IInv' /\ Deque!EraseAll(l)
<1>1. Erased(l) = On(P[l]) BY Walks
<1>2. /\ Delete(On(P[l])) /\ l \in alive /\ alive' = alive /\ lost' = lost /\ result' = Void
      /\ head' = [head EXCEPT ![l] = Null] /\ tail' = [tail EXCEPT ![l] = Null]
  BY <1>1 DEF EraseAll
<1>3. alive' \subseteq Lists /\ \A m \in Lists : m # l => (m \in alive' <=> m \in alive)
  BY <1>2 DEF TypeOK
<1>4. IInv' /\ View' = [View EXCEPT ![l] = <<>>] BY <1>2, <1>3, Emptied
<1>5. Deque!Returns(l, <<>>, Void) BY <1>2, <1>4, Effect
<1> QED BY <1>4, <1>5 DEF Deque!EraseAll

\* The destructor does the same.
LEMMA DestroyStep ==
  ASSUME TypeOK, NEW P \in Chains, Listed(P), NEW l \in Lists, Destroy(l)
  PROVE  IInv' /\ Deque!Destroy(l)
<1>1. Erased(l) = On(P[l]) BY Walks
<1>2. /\ Delete(On(P[l])) /\ l \in alive /\ alive' = alive \ {l} /\ lost' = lost /\ result' = Void
      /\ head' = [head EXCEPT ![l] = Null] /\ tail' = [tail EXCEPT ![l] = Null]
  BY <1>1 DEF Destroy
<1>3. alive' \subseteq Lists /\ \A m \in Lists : m # l => (m \in alive' <=> m \in alive)
  BY <1>2 DEF TypeOK
<1>4. IInv' /\ View' = [View EXCEPT ![l] = <<>>] BY <1>2, <1>3, Emptied
<1> QED BY <1>2, <1>4 DEF Deque!Destroy, View

\* The branch of pop_front and pop_back for a list of one node.
LEMMA PopOnlyStep ==
  ASSUME TypeOK, NEW P \in Chains, Listed(P), NEW l \in Lists, PopOnly(l)
  PROVE  IInv' /\ Len(View[l]) = 1 /\ View[l] \in Seq(Values) /\ Deque!Returns(l, <<>>, Void)
<1>1. /\ P[l] \in Seq(Nodes) /\ Len(P[l]) \in Nat
      /\ head[l] = First(P[l]) /\ Joined(heap, P[l])
      /\ Empty(l) <=> Len(P[l]) = 0
      /\ head[l] = tail[l] <=> Len(P[l]) <= 1
      /\ View[l] = Data(heap, P[l])
  BY OneList
<1>2. /\ Delete({head[l]}) /\ l \in alive /\ alive' = alive /\ lost' = lost /\ result' = Void
      /\ head' = [head EXCEPT ![l] = Null] /\ tail' = [tail EXCEPT ![l] = Null]
      /\ ~Empty(l) /\ head[l] = tail[l]
  BY DEF PopOnly
<1>3. Len(P[l]) = 1
  <2>1. Len(P[l]) # 0 BY <1>1, <1>2, Zenon
  <2>2. Len(P[l]) <= 1 BY <1>1, <1>2, Zenon
  <2>3. PICK k \in Nat : k = Len(P[l]) BY <1>1
  <2>4. k # 0 /\ k <= 1 BY ONLY <2>1, <2>2, <2>3
  <2>5. k = 1 BY ONLY k \in Nat, <2>4
  <2> QED BY <2>3, <2>5
<1>4. On(P[l]) = {head[l]} BY <1>1, <1>3 DEF On, First
<1>5. alive' \subseteq Lists /\ \A m \in Lists : m # l => (m \in alive' <=> m \in alive)
  BY <1>2 DEF TypeOK
<1>6. IInv' /\ View' = [View EXCEPT ![l] = <<>>] BY <1>2, <1>4, <1>5, Emptied
<1>7. Deque!Returns(l, <<>>, Void) BY <1>2, <1>6, Effect
<1>8. Len(View[l]) = 1 /\ View[l] \in Seq(Values) BY <1>1, <1>3, DataType
<1> QED BY <1>6, <1>7, <1>8

\* Calls that leave the nodes alone.
LEMMA Kept ==
  ASSUME TypeOK, NEW P \in Chains, Listed(P), UNCHANGED <<heap, head, tail, lost>>,
         alive' \subseteq Lists, alive \subseteq alive'
  PROVE  IInv' /\ View' = View
<1>1. TypeOK' BY DEF TypeOK
<1>2. Listed(P)' BY DEF Listed, Listing
<1>3. \A l \in Lists : Contents(l) = Data(heap, P[l]) BY ReadNow DEF Read
<1>4. \A l \in Lists : Contents(l)' = Data(heap', P[l]) BY ReadNext, <1>2 DEF Read
<1>5. View' = View BY <1>3, <1>4 DEF View
<1> QED BY <1>1, <1>2, <1>5 DEF IInv

\* A list begins empty.
LEMMA DefaultConstructStep ==
  ASSUME TypeOK, NEW P \in Chains, Listed(P), NEW l \in Lists, DefaultConstruct(l)
  PROVE  IInv' /\ Deque!DefaultConstruct(l)
<1>1. /\ l \notin alive /\ alive' = alive \cup {l} /\ result' = Void
      /\ UNCHANGED <<heap, head, tail, lost>>
  BY DEF DefaultConstruct
<1>2. alive' \subseteq Lists /\ alive \subseteq alive' BY <1>1 DEF TypeOK
<1>3. IInv' /\ View' = View BY <1>1, <1>2, Kept
<1> QED BY <1>1, <1>3 DEF Deque!DefaultConstruct, View

\* A call that only returns something.
LEMMA Returned ==
  ASSUME TypeOK, NEW P \in Chains, Listed(P), NEW l \in alive, NEW r, result' = r,
         UNCHANGED <<heap, head, tail, alive, lost>>
  PROVE  IInv' /\ Deque!Returns(l, View[l], r)
<1>1. alive' \subseteq Lists /\ alive \subseteq alive' BY DEF TypeOK
<1>2. IInv' /\ View' = View BY <1>1, Kept
<1>3. View' = [View EXCEPT ![l] = View[l]] BY <1>2 DEF View, TypeOK
<1>4. Deque!Returns(l, View[l], r) BY <1>3, Effect
<1> QED BY <1>2, <1>4

\* The exception for an empty list, front, back and size.
LEMMA ReadSteps ==
  ASSUME TypeOK, NEW P \in Chains, Listed(P), NEW l \in Lists
  PROVE  /\ Throw(l) => IInv' /\ View[l] = <<>> /\ Deque!Returns(l, <<>>, OutOfRange)
         /\ Front(l) => IInv' /\ Deque!Front(l)
         /\ Back(l) => IInv' /\ Deque!Back(l)
         /\ Size(l) => IInv' /\ Deque!Size(l)
<1> DEFINE s == P[l]
<1>1. /\ s \in Seq(Nodes) /\ Len(s) \in Nat
      /\ head[l] = First(s) /\ tail[l] = Last(s) /\ Joined(heap, s)
      /\ Empty(l) <=> Len(s) = 0
      /\ View[l] = Data(heap, s)
  BY OneList
<1>2. Forward(l) = s BY Walks
<1> HIDE DEF s
<1>3. /\ View[l] \in Seq(Values) /\ Len(View[l]) = Len(s)
      /\ \A i \in 1 .. Len(s) : View[l][i] = heap[s[i]].value
      /\ View[l] = <<>> <=> Len(s) = 0
  BY <1>1, DataType
<1>4. ASSUME Throw(l) PROVE IInv' /\ View[l] = <<>> /\ Deque!Returns(l, <<>>, OutOfRange)
  <2>1. l \in alive /\ Empty(l) /\ result' = OutOfRange /\ UNCHANGED <<heap, head, tail, alive, lost>>
    BY <1>4 DEF Throw
  <2>2. IInv' /\ Deque!Returns(l, View[l], OutOfRange) BY <2>1, Returned
  <2> QED BY <2>1, <2>2, <1>1, <1>3
<1>5. ASSUME Front(l) PROVE IInv' /\ Deque!Front(l)
  <2>1. CASE Throw(l) BY <2>1, <1>4 DEF Deque!Front, Deque!Partial, View
  <2>2. CASE ~Empty(l) /\ ~Throw(l)
    <3>1. l \in alive /\ result' = heap[head[l]].value /\ UNCHANGED <<heap, head, tail, alive, lost>>
      BY <2>2, <1>5 DEF Front
    <3>2. head[l] = s[1] /\ 1 \in 1 .. Len(s) BY <1>1, <2>2 DEF First
    <3>3. result' = Head(View[l]) /\ View[l] # <<>> BY <3>1, <3>2, <1>3
    <3>4. IInv' /\ Deque!Returns(l, View[l], result') BY <3>1, Returned
    <3> QED BY <3>3, <3>4 DEF Deque!Front, Deque!Partial, View
  <2> QED BY <2>1, <2>2, <1>5 DEF Front
<1>6. ASSUME Back(l) PROVE IInv' /\ Deque!Back(l)
  <2>1. /\ l \in alive /\ UNCHANGED <<heap, head, tail, alive, lost>>
        /\ result' = IF tail[l] = Null THEN OutOfRange ELSE heap[tail[l]].value
    BY <1>6 DEF Back
  <2>2. IInv' /\ Deque!Returns(l, View[l], result') BY <2>1, Returned
  <2>3. CASE Len(s) = 0
    <3>1. tail[l] = Null /\ View[l] = <<>> BY <2>3, <1>1, <1>3 DEF Last
    <3> QED BY <2>1, <2>2, <3>1 DEF Deque!Back, Deque!Partial, View
  <2>4. CASE Len(s) # 0
    <3>1. tail[l] = s[Len(s)] /\ Len(s) \in 1 .. Len(s) BY <2>4, <1>1 DEF Last
    <3>2. tail[l] # Null
      <4>1. s[Len(s)] \in Nodes BY <3>1, <1>1 DEF Joined
      <4> QED BY <3>1, <4>1, Kinds
    <3>3. result' = View[l][Len(View[l])] /\ View[l] # <<>> BY <2>1, <2>4, <3>1, <3>2, <1>3
    <3> QED BY <2>2, <3>3 DEF Deque!Back, Deque!Partial, View
  <2> QED BY <2>3, <2>4
<1>7. ASSUME Size(l) PROVE IInv' /\ Deque!Size(l)
  <2>1. l \in alive /\ UNCHANGED <<heap, head, tail, alive, lost>> /\ result' = Len(s)
    BY <1>2, <1>7 DEF Size
  <2>2. IInv' /\ Deque!Returns(l, View[l], Len(View[l])) BY <2>1, <1>3, Returned
  <2> QED BY <2>2 DEF Deque!Size, View
<1> QED BY <1>4, <1>5, <1>6, <1>7

\* What is left when the only element is taken away.
LEMMA Single ==
  ASSUME NEW s \in Seq(Values), Len(s) = 1
  PROVE  s # <<>> /\ Tail(s) = <<>> /\ SubSeq(s, 1, Len(s) - 1) = <<>>
<1>1. s # <<>> BY EmptySeq
<1>2. Tail(s) \in Seq(Values) /\ Len(Tail(s)) = 0 BY <1>1, HeadTailProperties
<1>3. SubSeq(s, 1, Len(s) - 1) \in Seq(Values) /\ Len(SubSeq(s, 1, Len(s) - 1)) = 0
  <2>1. /\ \A i \in 1 .. 0 : s[i] \in Values
        /\ 1 \in Int /\ 0 \in Int
    OBVIOUS
  <2>2. SubSeq(s, 1, 0) \in Seq(Values) /\ Len(SubSeq(s, 1, 0)) = 0 BY <2>1, SubSeqProperties
  <2> QED BY <2>2
<1> QED BY <1>1, <1>2, <1>3, EmptySeq

\* The second node becomes the head and forgets its predecessor.
LEMMA PopFrontStep ==
  ASSUME TypeOK, NEW P \in Chains, Listed(P), NEW l \in Lists, PopFront(l)
  PROVE  IInv' /\ Deque!PopFront(l)
<1>1. CASE Throw(l)
  BY <1>1, ReadSteps DEF Deque!PopFront, Deque!Partial, View
<1>2. CASE PopOnly(l)
  <2>1. IInv' /\ Len(View[l]) = 1 /\ View[l] \in Seq(Values) /\ Deque!Returns(l, <<>>, Void)
    BY <1>2, PopOnlyStep
  <2>2. View[l] # <<>> /\ Tail(View[l]) = <<>> BY <2>1, Single
  <2> QED BY <2>1, <2>2 DEF Deque!PopFront, Deque!Partial, View
<1>3. CASE ~Throw(l) /\ ~PopOnly(l)
  <2> DEFINE s == P[l]
             t == Tail(s)
  <2>1. /\ s \in Seq(Nodes) /\ Len(s) \in Nat
        /\ head[l] = First(s) /\ tail[l] = Last(s)
        /\ Joined(heap, s) /\ Distinct(s)
        /\ head[l] = tail[l] <=> Len(s) <= 1
        /\ View[l] = Data(heap, s)
    BY OneList
  <2>2. /\ l \in alive /\ head[l] # tail[l] /\ result' = Void /\ UNCHANGED <<tail, alive, lost>>
        /\ head' = [head EXCEPT ![l] = heap[head[l]].next]
        /\ heap' = [heap EXCEPT ![heap[head[l]].next].prev = Null, ![head[l]] = Free]
    BY <1>3 DEF PopFront
  <2> HIDE DEF s
  <2>3. Len(s) >= 2
    <3>1. PICK k \in Nat : k = Len(s) BY <2>1
    <3>2. ~(k <= 1) BY <2>1, <2>2, <3>1, Zenon
    <3>3. k >= 2 BY ONLY k \in Nat, <3>2
    <3> QED BY <3>1, <3>3
  <2>4. /\ t \in Seq(Nodes) /\ Len(t) = Len(s) - 1
        /\ \A i \in 1 .. Len(t) : t[i] = s[i + 1] /\ i + 1 \in 1 .. Len(s)
        /\ Distinct(t) /\ On(t) = On(s) \ {s[1]}
    BY <2>1, <2>3, Shortened
  <2> HIDE DEF t
  <2>5. 1 \in 1 .. Len(s) /\ 2 \in 1 .. Len(s) /\ s[1] # s[2] BY <2>1, <2>3 DEF Distinct
  <2>6. /\ head[l] = s[1] /\ heap[head[l]].next = s[2]
        /\ s[1] \in Nodes /\ s[2] \in Nodes /\ heap[s[2]] \in Cell
    BY <2>1, <2>3, <2>5 DEF First, Joined
  <2>7. Null \in Link /\ [heap[s[2]] EXCEPT !.prev = Null] \in Cell
        /\ [heap[s[2]] EXCEPT !.prev = Null]
             = [value |-> heap[s[2]].value, prev |-> Null, next |-> heap[s[2]].next]
    <3>1. Null \in Link /\ heap[s[2]] \in Cell BY <2>6 DEF Link
    <3> QED BY ONLY <3>1, CellUpdate
  <2>8. /\ heap' \in [Nodes -> Cell \cup {Free}]
        /\ heap'[s[1]] = Free
        /\ heap'[s[2]] = [value |-> heap[s[2]].value, prev |-> Null, next |-> heap[s[2]].next]
        /\ heap'[s[2]] \in Cell
        /\ \A m \in Nodes : m # s[1] /\ m # s[2] => heap'[m] = heap[m]
    <3>1. heap' = [[heap EXCEPT ![s[2]] = [heap[s[2]] EXCEPT !.prev = Null]] EXCEPT ![s[1]] = Free]
      BY <2>2, <2>6
    <3> QED BY <3>1, <2>5, <2>6, <2>7 DEF TypeOK
  <2>9. ASSUME NEW i \in 1 .. Len(t)
        PROVE  /\ t[i] \in Nodes /\ heap'[t[i]] \in Cell
               /\ heap'[t[i]].value = heap[s[i + 1]].value
               /\ heap'[t[i]].prev = IF i = 1 THEN Null ELSE t[i - 1]
               /\ heap'[t[i]].next = IF i = Len(t) THEN Null ELSE t[i + 1]
    <3>1. /\ t[i] = s[i + 1] /\ i + 1 \in 1 .. Len(s) /\ s[i + 1] \in Nodes /\ heap[s[i + 1]] \in Cell
          /\ heap[s[i + 1]].prev = s[i]
          /\ heap[s[i + 1]].next = IF i + 1 = Len(s) THEN Null ELSE s[i + 1 + 1]
      <4>1. t[i] = s[i + 1] /\ i + 1 \in 1 .. Len(s) BY <2>4
      <4>2. i + 1 # 1 /\ i + 1 - 1 = i BY <2>1, <2>4
      <4> QED BY <4>1, <4>2, <2>1 DEF Joined
    <3>2. i + 1 = Len(s) <=> i = Len(t) BY <2>1, <2>4
    <3>3. i # Len(t) => t[i + 1] = s[i + 1 + 1]
      <4>1. i # Len(t) => i + 1 \in 1 .. Len(t) BY <2>1, <2>4
      <4> QED BY <4>1, <2>4
    <3>4. CASE i = 1
      <4>1. heap'[t[i]] = [value |-> heap[s[2]].value, prev |-> Null, next |-> heap[s[2]].next]
            /\ heap'[t[i]] \in Cell /\ s[i + 1] = s[2]
        BY <3>1, <3>4, <2>8
      <4> QED BY <3>1, <3>2, <3>3, <3>4, <4>1
    <3>5. CASE i # 1
      <4>1. i - 1 \in 1 .. Len(t) /\ i - 1 + 1 = i BY <3>5, <2>1, <2>4
      <4>2. t[i - 1] = s[i] BY <4>1, <2>4
      <4>3. i + 1 # 1 /\ i + 1 # 2 BY <3>5, <2>1, <2>4
      <4>4. s[i + 1] # s[1] /\ s[i + 1] # s[2] BY <3>1, <4>3, <2>1, <2>5 DEF Distinct
      <4>5. heap'[t[i]] = heap[s[i + 1]] BY <3>1, <4>4, <2>8
      <4> QED BY <3>1, <3>2, <3>3, <3>5, <4>2, <4>5
    <3> QED BY <3>4, <3>5
  <2>10. Joined(heap', t) BY <2>9 DEF Joined
  <2>11. head' = [head EXCEPT ![l] = First(t)] /\ tail' = [tail EXCEPT ![l] = Last(t)]
    <3>1. 1 \in 1 .. Len(t) /\ Len(t) \in 1 .. Len(t) /\ Len(t) # 0 /\ Len(t) + 1 = Len(s)
      BY <2>1, <2>3, <2>4
    <3>2. First(t) = s[2] BY <3>1, <2>4 DEF First
    <3>3. Last(t) = s[Len(s)] BY <3>1, <2>4 DEF Last
    <3>4. tail[l] = s[Len(s)] BY <2>1, <2>3 DEF Last
    <3>5. tail' = [tail EXCEPT ![l] = tail[l]] BY <2>2 DEF TypeOK
    <3> QED BY <3>2, <3>3, <3>4, <3>5, <2>2, <2>6
  <2>12. IInv' /\ View' = [View EXCEPT ![l] = Data(heap', t)]
    <3>1. \A m \in Nodes : m \notin On(P[l]) /\ m \notin On(t) => heap'[m] = heap[m]
      BY <2>5, <2>8 DEF On, s
    <3>2. \A m \in On(t) : m \in On(P[l]) \/ heap[m] = Free BY <2>4 DEF s
    <3>3. \A m \in On(P[l]) : m \in On(t) \/ heap'[m] = Free BY <2>4, <2>8 DEF s
    <3>4. TypeOK /\ P \in Chains /\ Listed(P) /\ l \in Lists /\ alive' \subseteq Lists /\ lost' = lost
      BY <2>2 DEF TypeOK
    <3>5. l \in alive' \/ Len(t) = 0 BY <2>2
    <3>6. \A m \in Lists : m # l => (m \in alive' <=> m \in alive) BY <2>2
    <3>7. heap' \in [Nodes -> Cell \cup {Free}] BY <2>8
    <3>8. t \in Seq(Nodes) /\ Distinct(t) /\ Joined(heap', t) BY <2>4, <2>10
    <3> QED BY ONLY <2>11, <3>1, <3>2, <3>3, <3>4, <3>5, <3>6, <3>7, <3>8, Update
  <2>13. /\ Data(heap, s) \in Seq(Values) /\ Len(Data(heap, s)) = Len(s)
         /\ \A i \in 1 .. Len(s) : Data(heap, s)[i] = heap[s[i]].value
         /\ Data(heap, s) = <<>> <=> Len(s) = 0
    BY <2>1, DataType
  <2>14. /\ Data(heap', t) \in Seq(Values) /\ Len(Data(heap', t)) = Len(t)
         /\ \A i \in 1 .. Len(t) : Data(heap', t)[i] = heap'[t[i]].value
    BY <2>4, <2>10, DataType
  <2>15. Data(heap, s) # <<>> BY <2>3, <2>13
  <2>16. /\ Tail(Data(heap, s)) \in Seq(Values) /\ Len(Tail(Data(heap, s))) = Len(s) - 1
         /\ \A i \in 1 .. Len(s) - 1 : Tail(Data(heap, s))[i] = Data(heap, s)[i + 1]
    BY <2>13, <2>15, HeadTailProperties
  <2>17. Data(heap', t) = Tail(Data(heap, s))
    <3>1. \A i \in 1 .. Len(t) : Data(heap', t)[i] = Tail(Data(heap, s))[i]
      <4> SUFFICES ASSUME NEW i \in 1 .. Len(t) PROVE Data(heap', t)[i] = Tail(Data(heap, s))[i]
        OBVIOUS
      <4>1. i + 1 \in 1 .. Len(s) /\ i \in 1 .. Len(s) - 1 BY <2>4
      <4>2. Tail(Data(heap, s))[i] = heap[s[i + 1]].value BY ONLY <4>1, <2>13, <2>16, Zenon
      <4>3. Data(heap', t)[i] = heap'[t[i]].value BY <2>14
      <4> QED BY <4>1, <4>2, <4>3, <2>9
    <3> QED BY <3>1, <2>4, <2>14, <2>16, SeqEqual
  <2>18. Deque!Returns(l, Tail(View[l]), Void) BY <2>1, <2>2, <2>12, <2>17, Effect
  <2>19. View[l] # <<>> BY <2>1, <2>15
  <2> QED BY <2>12, <2>18, <2>19 DEF Deque!PopFront, Deque!Partial, View
<1> QED BY <1>1, <1>2, <1>3

\* The last but one node becomes the tail and forgets its successor.
LEMMA PopBackStep ==
  ASSUME TypeOK, NEW P \in Chains, Listed(P), NEW l \in Lists, PopBack(l)
  PROVE  IInv' /\ Deque!PopBack(l)
<1>1. CASE Throw(l)
  BY <1>1, ReadSteps DEF Deque!PopBack, Deque!Partial, View
<1>2. CASE PopOnly(l)
  <2>1. IInv' /\ Len(View[l]) = 1 /\ View[l] \in Seq(Values) /\ Deque!Returns(l, <<>>, Void)
    BY <1>2, PopOnlyStep
  <2>2. View[l] # <<>> /\ SubSeq(View[l], 1, Len(View[l]) - 1) = <<>> BY <2>1, Single
  <2> QED BY <2>1, <2>2 DEF Deque!PopBack, Deque!Partial, View
<1>3. CASE ~Throw(l) /\ ~PopOnly(l)
  <2> DEFINE s == P[l]
             t == SubSeq(s, 1, Len(s) - 1)
  <2>1. /\ s \in Seq(Nodes) /\ Len(s) \in Nat
        /\ head[l] = First(s) /\ tail[l] = Last(s)
        /\ Joined(heap, s) /\ Distinct(s)
        /\ head[l] = tail[l] <=> Len(s) <= 1
        /\ View[l] = Data(heap, s)
    BY OneList
  <2>2. /\ l \in alive /\ head[l] # tail[l] /\ result' = Void /\ UNCHANGED <<head, alive, lost>>
        /\ tail' = [tail EXCEPT ![l] = heap[tail[l]].prev]
        /\ heap' = [heap EXCEPT ![heap[tail[l]].prev].next = Null, ![tail[l]] = Free]
    BY <1>3 DEF PopBack
  <2> HIDE DEF s
  <2>3. Len(s) >= 2
    <3>1. PICK k \in Nat : k = Len(s) BY <2>1
    <3>2. ~(k <= 1) BY <2>1, <2>2, <3>1, Zenon
    <3>3. k >= 2 BY ONLY k \in Nat, <3>2
    <3> QED BY <3>1, <3>3
  <2>4. /\ t \in Seq(Nodes) /\ Len(t) = Len(s) - 1
        /\ \A i \in 1 .. Len(t) : t[i] = s[i] /\ i \in 1 .. Len(s)
        /\ Distinct(t) /\ On(t) = On(s) \ {s[Len(s)]}
    BY <2>1, <2>3, Shortened
  <2> HIDE DEF t
  <2>5. PICK z \in 1 .. Len(s) : z = Len(s) - 1 /\ z = Len(t) BY <2>1, <2>3, <2>4
  <2>6. Len(s) \in 1 .. Len(s) /\ z # Len(s) /\ s[z] # s[Len(s)] BY <2>1, <2>3, <2>5 DEF Distinct
  <2>7. /\ tail[l] = s[Len(s)] /\ heap[tail[l]].prev = s[z]
        /\ s[Len(s)] \in Nodes /\ s[z] \in Nodes /\ heap[s[z]] \in Cell
    <3>1. tail[l] = s[Len(s)] BY <2>1, <2>3 DEF Last
    <3>2. Len(s) # 1
      <4>1. PICK k \in Nat : k = Len(s) BY <2>1
      <4>2. k >= 2 BY ONLY <2>3, <4>1
      <4>3. k # 1 BY ONLY k \in Nat, <4>2
      <4> QED BY <4>1, <4>3
    <3> QED BY <3>1, <3>2, <2>1, <2>5, <2>6 DEF Joined
  <2>8. [heap[s[z]] EXCEPT !.next = Null] \in Cell
        /\ [heap[s[z]] EXCEPT !.next = Null]
             = [value |-> heap[s[z]].value, prev |-> heap[s[z]].prev, next |-> Null]
    <3>1. Null \in Link /\ heap[s[z]] \in Cell BY <2>7 DEF Link
    <3> QED BY ONLY <3>1, CellUpdate
  <2>9. /\ heap' \in [Nodes -> Cell \cup {Free}]
        /\ heap'[s[Len(s)]] = Free
        /\ heap'[s[z]] = [value |-> heap[s[z]].value, prev |-> heap[s[z]].prev, next |-> Null]
        /\ heap'[s[z]] \in Cell
        /\ \A m \in Nodes : m # s[Len(s)] /\ m # s[z] => heap'[m] = heap[m]
    <3>1. heap' = [[heap EXCEPT ![s[z]] = [heap[s[z]] EXCEPT !.next = Null]]
                     EXCEPT ![s[Len(s)]] = Free]
      BY <2>2, <2>7
    <3> QED BY <3>1, <2>6, <2>7, <2>8 DEF TypeOK
  <2>10. ASSUME NEW i \in 1 .. Len(t)
         PROVE  /\ t[i] \in Nodes /\ heap'[t[i]] \in Cell
                /\ heap'[t[i]].value = heap[s[i]].value
                /\ heap'[t[i]].prev = IF i = 1 THEN Null ELSE t[i - 1]
                /\ heap'[t[i]].next = IF i = Len(t) THEN Null ELSE t[i + 1]
    <3>1. /\ t[i] = s[i] /\ i \in 1 .. Len(s) /\ i # Len(s) /\ s[i] \in Nodes /\ heap[s[i]] \in Cell
          /\ heap[s[i]].prev = IF i = 1 THEN Null ELSE s[i - 1]
          /\ heap[s[i]].next = s[i + 1]
      <4>1. t[i] = s[i] /\ i \in 1 .. Len(s) BY <2>4
      <4>2. i # Len(s) BY <2>1, <2>4
      <4> QED BY <4>1, <4>2, <2>1 DEF Joined
    <3>2. i # 1 => t[i - 1] = s[i - 1]
      <4>1. i # 1 => i - 1 \in 1 .. Len(t) BY <2>1, <2>4
      <4> QED BY <4>1, <2>4
    <3>3. i # Len(t) => t[i + 1] = s[i + 1]
      <4>1. i # Len(t) => i + 1 \in 1 .. Len(t) BY <2>1, <2>4
      <4> QED BY <4>1, <2>4
    <3>4. CASE i = Len(t)
      <4>1. s[i] = s[z] BY <3>4, <2>5
      <4>2. heap'[t[i]] = [value |-> heap[s[i]].value, prev |-> heap[s[i]].prev, next |-> Null]
            /\ heap'[t[i]] \in Cell
        BY <3>1, <4>1, <2>9
      <4> QED BY <3>1, <3>2, <3>4, <4>2
    <3>5. CASE i # Len(t)
      <4>1. i # z BY <3>5, <2>5
      <4>2. s[i] # s[z] /\ s[i] # s[Len(s)] BY <3>1, <4>1, <2>1, <2>6 DEF Distinct
      <4>3. heap'[t[i]] = heap[s[i]] BY <3>1, <4>2, <2>9
      <4> QED BY <3>1, <3>2, <3>3, <3>5, <4>3
    <3> QED BY <3>4, <3>5
  <2>11. Joined(heap', t) BY <2>10 DEF Joined
  <2>12. head' = [head EXCEPT ![l] = First(t)] /\ tail' = [tail EXCEPT ![l] = Last(t)]
    <3>1. 1 \in 1 .. Len(t) /\ Len(t) \in 1 .. Len(t) /\ Len(t) # 0 BY <2>1, <2>3, <2>4
    <3>2. First(t) = s[1] BY <3>1, <2>4 DEF First
    <3>3. Last(t) = s[z] BY <3>1, <2>4, <2>5 DEF Last
    <3>4. head[l] = s[1] BY <2>1, <2>3 DEF First
    <3>5. head' = [head EXCEPT ![l] = head[l]] BY <2>2 DEF TypeOK
    <3> QED BY <3>2, <3>3, <3>4, <3>5, <2>2, <2>7
  <2>13. IInv' /\ View' = [View EXCEPT ![l] = Data(heap', t)]
    <3>1. \A m \in Nodes : m \notin On(P[l]) /\ m \notin On(t) => heap'[m] = heap[m]
      BY <2>6, <2>9 DEF On, s
    <3>2. \A m \in On(t) : m \in On(P[l]) \/ heap[m] = Free BY <2>4 DEF s
    <3>3. \A m \in On(P[l]) : m \in On(t) \/ heap'[m] = Free BY <2>4, <2>9 DEF s
    <3>4. TypeOK /\ P \in Chains /\ Listed(P) /\ l \in Lists /\ alive' \subseteq Lists /\ lost' = lost
      BY <2>2 DEF TypeOK
    <3>5. l \in alive' \/ Len(t) = 0 BY <2>2
    <3>6. \A m \in Lists : m # l => (m \in alive' <=> m \in alive) BY <2>2
    <3>7. heap' \in [Nodes -> Cell \cup {Free}] BY <2>9
    <3>8. t \in Seq(Nodes) /\ Distinct(t) /\ Joined(heap', t) BY <2>4, <2>11
    <3> QED BY ONLY <2>12, <3>1, <3>2, <3>3, <3>4, <3>5, <3>6, <3>7, <3>8, Update
  <2>14. /\ Data(heap, s) \in Seq(Values) /\ Len(Data(heap, s)) = Len(s)
         /\ \A i \in 1 .. Len(s) : Data(heap, s)[i] = heap[s[i]].value
         /\ Data(heap, s) = <<>> <=> Len(s) = 0
    BY <2>1, DataType
  <2>15. /\ Data(heap', t) \in Seq(Values) /\ Len(Data(heap', t)) = Len(t)
         /\ \A i \in 1 .. Len(t) : Data(heap', t)[i] = heap'[t[i]].value
    BY <2>4, <2>11, DataType
  <2>16. Data(heap, s) # <<>> BY <2>3, <2>14
  <2>17. Data(heap', t) = SubSeq(Data(heap, s), 1, Len(Data(heap, s)) - 1)
    <3> DEFINE d == Data(heap, s)
    <3>1. /\ d \in Seq(Values) /\ Len(d) = Len(s) /\ \A i \in 1 .. Len(d) : d[i] \in Values
          /\ \A i \in 1 .. Len(s) : d[i] = heap[s[i]].value
      BY <2>14, ElementOfSeq
    <3> HIDE DEF d
    <3>2. \A i \in 1 .. Len(s) - 1 : d[i] \in Values BY <3>1, <2>1
    <3>3. Len(s) - 1 \in Int /\ 1 \in Int /\ 1 <= Len(s) - 1 BY <2>1, <2>3
    <3>4. /\ SubSeq(d, 1, Len(s) - 1) \in Seq(Values)
          /\ Len(SubSeq(d, 1, Len(s) - 1)) = IF 1 <= Len(s) - 1 THEN Len(s) - 1 - 1 + 1 ELSE 0
          /\ \A i \in 1 .. Len(s) - 1 - 1 + 1 : SubSeq(d, 1, Len(s) - 1)[i] = d[1 + i - 1]
      BY <3>2, <3>3, SubSeqProperties
    <3>5. Len(s) - 1 - 1 + 1 = Len(s) - 1 /\ \A i \in 1 .. Len(s) - 1 : 1 + i - 1 = i BY <2>1
    <3>6. /\ Len(SubSeq(d, 1, Len(s) - 1)) = Len(t)
          /\ \A i \in 1 .. Len(t) : SubSeq(d, 1, Len(s) - 1)[i] = d[i]
      BY <3>3, <3>4, <3>5, <2>4
    <3>7. \A i \in 1 .. Len(t) : Data(heap', t)[i] = SubSeq(d, 1, Len(s) - 1)[i]
      <4> SUFFICES ASSUME NEW i \in 1 .. Len(t)
                   PROVE  Data(heap', t)[i] = SubSeq(d, 1, Len(s) - 1)[i]
        OBVIOUS
      <4>1. i \in 1 .. Len(s) BY <2>4
      <4> QED BY <4>1, <3>1, <3>6, <2>10, <2>15
    <3>8. Data(heap', t) = SubSeq(d, 1, Len(s) - 1)
      <4>1. Data(heap', t) \in Seq(Values) /\ SubSeq(d, 1, Len(s) - 1) \in Seq(Values)
            /\ Len(Data(heap', t)) = Len(SubSeq(d, 1, Len(s) - 1))
        BY <3>4, <3>6, <2>15
      <4> QED BY <4>1, <3>7, <2>15, SeqEqual
    <3> QED BY <3>1, <3>8 DEF d
  <2>18. Deque!Returns(l, SubSeq(View[l], 1, Len(View[l]) - 1), Void)
    BY <2>1, <2>2, <2>13, <2>17, Effect
  <2>19. View[l] # <<>> BY <2>1, <2>16
  <2> QED BY <2>13, <2>18, <2>19 DEF Deque!PopBack, Deque!Partial, View
<1> QED BY <1>1, <1>2, <1>3

\* The copy has nodes of its own, with the same values.
LEMMA CopyConstructStep ==
  ASSUME TypeOK, NEW P \in Chains, Listed(P), NEW l \in Lists, NEW other \in Lists,
         CopyConstruct(l, other)
  PROVE  IInv' /\ Deque!CopyConstruct(l, other)
<1> DEFINE s == P[other]
<1>1. /\ s \in Seq(Nodes) /\ Len(s) \in Nat /\ Joined(heap, s) /\ View[other] = Data(heap, s)
      /\ \A n \in Unused : n \in Nodes /\ heap[n] = Free /\ n \notin On(s)
  BY OneList
<1>2. Forward(other) = s BY Walks
<1> HIDE DEF s
<1>3. /\ l \notin alive /\ other \in alive /\ alive' = alive \cup {l} /\ result' = Void
      /\ lost' = lost
  BY DEF CopyConstruct
<1> DEFINE Copied(f) ==
  \E to \in [1 .. Len(f) -> Unused] :
    /\ \A i, j \in 1 .. Len(f) : to[i] = to[j] => i = j
    /\ heap' = [n \in Nodes |->
         IF n \notin Elements(to)
         THEN heap[n]
         ELSE LET i == CHOOSE j \in 1 .. Len(f) : to[j] = n
              IN  [value |-> heap[f[i]].value,
                   prev  |-> IF i = 1 THEN Null ELSE to[i - 1],
                   next  |-> IF i = Len(f) THEN Null ELSE to[i + 1]]]
    /\ head' = [head EXCEPT ![l] = IF Len(f) = 0 THEN Null ELSE to[1]]
    /\ tail' = [tail EXCEPT ![l] = IF Len(f) = 0 THEN Null ELSE to[Len(f)]]
<1>c. Copied(s)
  <2>1. Copied(Forward(other)) BY Zenon DEF CopyConstruct
  <2> HIDE DEF Copied
  <2> QED BY ONLY <2>1, <1>2
<1>4. PICK t \in [1 .. Len(s) -> Unused] :
        /\ \A i, j \in 1 .. Len(s) : t[i] = t[j] => i = j
        /\ heap' = [n \in Nodes |->
             IF n \notin Elements(t)
             THEN heap[n]
             ELSE LET i == CHOOSE j \in 1 .. Len(s) : t[j] = n
                  IN  [value |-> heap[s[i]].value,
                       prev  |-> IF i = 1 THEN Null ELSE t[i - 1],
                       next  |-> IF i = Len(s) THEN Null ELSE t[i + 1]]]
        /\ head' = [head EXCEPT ![l] = IF Len(s) = 0 THEN Null ELSE t[1]]
        /\ tail' = [tail EXCEPT ![l] = IF Len(s) = 0 THEN Null ELSE t[Len(s)]]
  BY <1>c, Zenon
<1> HIDE DEF Copied
<1>5. \A i \in 1 .. Len(s) : t[i] \in Nodes /\ heap[t[i]] = Free /\ t[i] \in Unused
  BY <1>1, <1>4
<1>6. t \in Seq(Nodes) /\ Len(t) = Len(s)
  <2>1. t \in [1 .. Len(s) -> Nodes] BY <1>4, <1>5
  <2> QED BY <2>1, <1>1
<1>7. Elements(t) = On(t) BY <1>4, <1>6 DEF Elements, On
<1>8. Distinct(t) BY <1>4, <1>6 DEF Distinct
<1>9. ASSUME NEW i \in 1 .. Len(s)
      PROVE  heap'[t[i]] = [value |-> heap[s[i]].value,
                            prev  |-> IF i = 1 THEN Null ELSE t[i - 1],
                            next  |-> IF i = Len(s) THEN Null ELSE t[i + 1]]
  <2>1. t[i] \in Nodes /\ t[i] \in Elements(t) BY <1>5, <1>6, <1>7 DEF On
  <2>2. (CHOOSE j \in 1 .. Len(s) : t[j] = t[i]) = i BY <1>4
  <2> QED BY <2>1, <2>2, <1>4
<1>10. ASSUME NEW i \in 1 .. Len(s)
       PROVE  /\ t[i] \in Nodes /\ heap'[t[i]] \in Cell
              /\ heap'[t[i]].value = heap[s[i]].value
              /\ heap'[t[i]].prev = IF i = 1 THEN Null ELSE t[i - 1]
              /\ heap'[t[i]].next = IF i = Len(s) THEN Null ELSE t[i + 1]
  <2>1. heap[s[i]].value \in Values BY <1>1 DEF Joined, Cell
  <2>2. i # 1 => i - 1 \in 1 .. Len(s) BY <1>1
  <2>3. i # Len(s) => i + 1 \in 1 .. Len(s) BY <1>1
  <2>p. PICK p : p = IF i = 1 THEN Null ELSE t[i - 1] OBVIOUS
  <2>q. PICK q : q = IF i = Len(s) THEN Null ELSE t[i + 1] OBVIOUS
  <2>v. PICK v : v = heap[s[i]].value OBVIOUS
  <2>4. p \in Link /\ q \in Link /\ v \in Values BY <2>1, <2>2, <2>3, <2>p, <2>q, <2>v, <1>5 DEF Link
  <2>5. heap'[t[i]] = [value |-> v, prev |-> p, next |-> q] BY <2>p, <2>q, <2>v, <1>9, Zenon
  <2>6. /\ heap'[t[i]] \in Cell /\ heap'[t[i]].value = v
        /\ heap'[t[i]].prev = p /\ heap'[t[i]].next = q
    <3>1. PICK c : c = [value |-> v, prev |-> p, next |-> q] BY Zenon
    <3>2. c \in Cell /\ c.value = v /\ c.prev = p /\ c.next = q BY ONLY <2>4, <3>1 DEF Cell
    <3> QED BY ONLY <2>5, <3>1, <3>2, Zenon
  <2> QED BY <2>p, <2>q, <2>v, <2>6, <1>5, Zenon
<1>11. Joined(heap', t) BY <1>6, <1>10, Zenon DEF Joined
<1>12. \A m \in Nodes : m \notin On(t) => heap'[m] = heap[m] BY <1>4, <1>7
<1>13. heap' \in [Nodes -> Cell \cup {Free}]
  <2>1. \A m \in Nodes : heap'[m] \in Cell \cup {Free}
    <3> SUFFICES ASSUME NEW m \in Nodes PROVE heap'[m] \in Cell \cup {Free} OBVIOUS
    <3>1. CASE m \in On(t) BY <3>1, <1>6, <1>10 DEF On
    <3>2. CASE m \notin On(t) BY <3>2, <1>12 DEF TypeOK
    <3> QED BY <3>1, <3>2
  <2>2. heap' = [n \in Nodes |-> heap'[n]] BY <1>4
  <2> QED BY <2>1, <2>2
<1>14. Len(P[l]) = 0 /\ On(P[l]) = {}
  <2>1. Len(P[l]) = 0 BY <1>3, OneList
  <2> QED BY <2>1 DEF On
<1>15. IInv' /\ View' = [View EXCEPT ![l] = Data(heap', t)]
  <2>1. \A m \in Nodes : m \notin On(P[l]) /\ m \notin On(t) => heap'[m] = heap[m] BY <1>12
  <2>2. \A m \in On(t) : m \in On(P[l]) \/ heap[m] = Free BY <1>5, <1>6 DEF On
  <2>3. \A m \in On(P[l]) : m \in On(t) \/ heap'[m] = Free BY <1>14
  <2>4. TypeOK /\ P \in Chains /\ Listed(P) /\ l \in Lists /\ alive' \subseteq Lists /\ lost' = lost
    BY <1>3 DEF TypeOK
  <2>5. l \in alive' \/ Len(t) = 0 BY <1>3
  <2>6. \A m \in Lists : m # l => (m \in alive' <=> m \in alive) BY <1>3
  <2>7. t \in Seq(Nodes) /\ Distinct(t) /\ Joined(heap', t) BY <1>6, <1>8, <1>11
  <2>8. head' = [head EXCEPT ![l] = First(t)] /\ tail' = [tail EXCEPT ![l] = Last(t)]
    BY <1>4, <1>6 DEF First, Last
  <2> QED BY ONLY <2>1, <2>2, <2>3, <2>4, <2>5, <2>6, <2>7, <2>8, <1>13, Update
<1>16. Data(heap', t) = Data(heap, s)
  <2>1. \A i \in 1 .. Len(s) : heap'[t[i]].value = heap[s[i]].value BY <1>10
  <2> QED BY <2>1, <1>6 DEF Data
<1> QED BY <1>1, <1>3, <1>15, <1>16 DEF Deque!CopyConstruct, View

\* The chain of the source becomes the chain of the target, whose nodes are
\* lost; a list moved to itself loses its own.
LEMMA MoveAssignStep ==
  ASSUME TypeOK, NEW P \in Chains, Listed(P), NEW l \in Lists, NEW other \in Lists,
         MoveAssign(l, other)
  PROVE  IInv' /\ Deque!MoveAssign(l, other)
<1>1. PICK e \in Seq(Nodes) : /\ Len(e) = 0 /\ Distinct(e) /\ Joined(heap', e) /\ On(e) = {}
                              /\ First(e) = Null /\ Last(e) = Null /\ Data(heap', e) = <<>>
  BY EmptyChain, EmptySeq
<1> DEFINE Q == [P EXCEPT ![l] = P[other], ![other] = e]
<1>2. Q \in Chains
  <2>1. P[other] \in Seq(Nodes) BY DEF Chains
  <2> QED BY <2>1 DEF Chains
<1>3. \A m \in Lists : Q[m] = IF m = other THEN e ELSE IF m = l THEN P[other] ELSE P[m]
  BY DEF Chains
<1> HIDE DEF Q
<1>4. /\ \A m \in Lists : /\ head[m] = First(P[m]) /\ tail[m] = Last(P[m])
                          /\ Joined(heap, P[m]) /\ Distinct(P[m])
      /\ \A m \in Lists \ alive : Len(P[m]) = 0
      /\ \A k, m \in Lists : k # m => On(P[k]) \cap On(P[m]) = {}
      /\ \A m \in Lists : On(P[m]) \cap lost = {}
      /\ \A n \in Nodes : heap[n] # Free <=> n \in lost \/ \E m \in Lists : n \in On(P[m])
  BY DEF Listed, Listing
<1>5. /\ l \in alive /\ other \in alive /\ result' = Void /\ UNCHANGED <<heap, alive>>
      /\ head' = [head EXCEPT ![l] = head[other], ![other] = Null]
      /\ tail' = [tail EXCEPT ![l] = tail[other], ![other] = Null]
      /\ lost' = lost \cup On(P[l])
  <2>1. Forward(l) = P[l] /\ P[l] \in Seq(Nodes) BY Walks, Chained
  <2>2. Elements(P[l]) = On(P[l]) BY <2>1, LenProperties DEF Elements, On
  <2> QED BY <2>1, <2>2 DEF MoveAssign
<1>6. On(P[l]) \subseteq Nodes BY <1>4 DEF On, Joined
<1>7. TypeOK' BY <1>5, <1>6 DEF TypeOK, Link
<1>8. \A m \in Lists : /\ head'[m] = First(Q[m]) /\ tail'[m] = Last(Q[m])
                       /\ Joined(heap', Q[m]) /\ Distinct(Q[m])
  BY <1>1, <1>3, <1>4, <1>5 DEF TypeOK
<1>9. \A m \in Lists \ alive' : Len(Q[m]) = 0 BY <1>1, <1>3, <1>4, <1>5
<1>10. \A k, m \in Lists : k # m => On(Q[k]) \cap On(Q[m]) = {}
  <2> SUFFICES ASSUME NEW k \in Lists, NEW m \in Lists, k # m PROVE On(Q[k]) \cap On(Q[m]) = {}
    OBVIOUS
  <2>1. CASE k = other \/ m = other
    <3>1. Q[k] = e \/ Q[m] = e BY <2>1, <1>3
    <3> QED BY <3>1, <1>1
  <2>2. CASE k # other /\ m # other
    <3> DEFINE j == IF k = l THEN other ELSE k
               i == IF m = l THEN other ELSE m
    <3>1. Q[k] = P[j] /\ Q[m] = P[i] BY <2>2, <1>3
    <3>2. j \in Lists /\ i \in Lists /\ j # i BY <2>2
    <3> HIDE DEF j, i
    <3> QED BY <3>1, <3>2, <1>4
  <2> QED BY <2>1, <2>2
<1>11. \A m \in Lists : On(Q[m]) \cap lost' = {} BY <1>1, <1>3, <1>4, <1>5
<1>12. \A n \in Nodes : heap'[n] # Free <=> n \in lost' \/ \E m \in Lists : n \in On(Q[m])
  <2> SUFFICES ASSUME NEW n \in Nodes
               PROVE  (n \in lost \/ \E m \in Lists : n \in On(P[m]))
                      <=> (n \in lost' \/ \E m \in Lists : n \in On(Q[m]))
    BY <1>4, <1>5
  <2>1. ASSUME NEW m \in Lists, n \in On(P[m])
        PROVE  n \in lost' \/ \E k \in Lists : n \in On(Q[k])
    <3>1. CASE m = l BY <2>1, <3>1, <1>5
    <3>2. CASE m # l /\ m = other
      <4>1. Q[l] = P[m] BY <3>2, <1>3
      <4> QED BY <2>1, <4>1
    <3>3. CASE m # l /\ m # other
      <4>1. Q[m] = P[m] BY <3>3, <1>3
      <4> QED BY <2>1, <4>1
    <3> QED BY <3>1, <3>2, <3>3
  <2>2. ASSUME NEW m \in Lists, n \in On(Q[m])
        PROVE  \E k \in Lists : n \in On(P[k])
    BY <2>2, <1>1, <1>3
  <2> QED BY <2>1, <2>2, <1>5
<1>13. Listed(Q)' BY <1>8, <1>9, <1>10, <1>11, <1>12 DEF Listed, Listing
<1>14. IInv' BY <1>2, <1>7, <1>13 DEF IInv
<1>15. View' = [View EXCEPT ![l] = View[other], ![other] = <<>>]
  <2>1. \A m \in Lists : Contents(m) = Data(heap, P[m]) BY ReadNow DEF Read
  <2>2. \A m \in Lists : Contents(m)' = Data(heap', Q[m]) BY ReadNext, <1>2, <1>13 DEF Read
  <2>3. \A m \in Lists : Contents(m)' = IF m = other THEN <<>>
                                        ELSE IF m = l THEN Contents(other) ELSE Contents(m)
    BY <2>1, <2>2, <1>1, <1>3, <1>5
  <2> QED BY <2>3 DEF View
<1> QED BY <1>5, <1>14, <1>15 DEF Deque!MoveAssign, View

-----------------------------------------------------------------------------
(* Theorems                                                                 *)

\* No list is alive and nothing is allocated.
LEMMA InitHolds == Init => IInv /\ Deque!Init
<1> SUFFICES ASSUME Init PROVE IInv /\ Deque!Init OBVIOUS
<1>1. PICK e \in Seq(Nodes) : /\ Len(e) = 0 /\ Distinct(e) /\ Joined(heap, e) /\ On(e) = {}
                              /\ First(e) = Null /\ Last(e) = Null /\ Data(heap, e) = <<>>
  BY EmptyChain, EmptySeq
<1> DEFINE P == [l \in Lists |-> e]
<1>2. P \in Chains /\ \A l \in Lists : P[l] = e BY DEF Chains
<1> HIDE DEF P
<1>3. TypeOK BY DEF Init, TypeOK, Link
<1>4. Listed(P)
  <2>1. \A l \in Lists : /\ head[l] = First(P[l]) /\ tail[l] = Last(P[l])
                         /\ Joined(heap, P[l]) /\ Distinct(P[l])
    BY <1>1, <1>2 DEF Init
  <2>2. \A n \in Nodes : heap[n] # Free <=> n \in lost \/ \E l \in Lists : n \in On(P[l])
    BY <1>1, <1>2 DEF Init
  <2> QED BY <2>1, <2>2, <1>1, <1>2 DEF Init, Listed, Listing
<1>5. \A l \in Lists : Contents(l) = <<>> BY <1>1, <1>2, <1>4, ReadNow DEF Read
<1>6. IInv BY <1>2, <1>3, <1>4 DEF IInv
<1> QED BY <1>5, <1>6 DEF Init, Deque!Init

\* Every call keeps the invariant and is a call of Deque.
LEMMA StepHolds ==
  ASSUME IInv, [Next]_vars
  PROVE  IInv' /\ [Deque!Next]_(Deque!vars)
<1>1. TypeOK BY DEF IInv
<1>2. PICK P \in Chains : Listed(P) BY DEF IInv
<1>3. ASSUME UNCHANGED vars PROVE IInv' /\ UNCHANGED Deque!vars
  <2>1. UNCHANGED <<heap, head, tail, lost>> /\ alive' = alive /\ result' = result BY <1>3 DEF vars
  <2>2. alive' \subseteq Lists /\ alive \subseteq alive' BY <2>1, <1>1 DEF TypeOK
  <2>3. IInv' /\ View' = View BY <1>1, <1>2, <2>1, <2>2, Kept
  <2> QED BY <2>1, <2>3 DEF Deque!vars, View
<1>4. ASSUME NEW l \in Lists,
             \/ DefaultConstruct(l) \/ Destroy(l) \/ EraseAll(l)
             \/ \E other \in Lists : CopyConstruct(l, other) \/ MoveAssign(l, other)
             \/ \E v \in Values : PushBack(l, v) \/ PushFront(l, v)
             \/ Size(l) \/ Front(l) \/ Back(l) \/ PopFront(l) \/ PopBack(l)
      PROVE  IInv' /\ Deque!Next
  <2>1. CASE DefaultConstruct(l) BY <2>1, <1>1, <1>2, DefaultConstructStep DEF Deque!Next
  <2>2. CASE Destroy(l) BY <2>2, <1>1, <1>2, DestroyStep DEF Deque!Next
  <2>3. CASE EraseAll(l) BY <2>3, <1>1, <1>2, EraseAllStep DEF Deque!Next
  <2>4. ASSUME NEW other \in Lists, CopyConstruct(l, other) PROVE IInv' /\ Deque!Next
    BY <2>4, <1>1, <1>2, CopyConstructStep DEF Deque!Next
  <2>5. ASSUME NEW other \in Lists, MoveAssign(l, other) PROVE IInv' /\ Deque!Next
    BY <2>5, <1>1, <1>2, MoveAssignStep DEF Deque!Next
  <2>6. ASSUME NEW v \in Values, PushBack(l, v) PROVE IInv' /\ Deque!Next
    BY <2>6, <1>1, <1>2, PushBackStep DEF Deque!Next
  <2>7. ASSUME NEW v \in Values, PushFront(l, v) PROVE IInv' /\ Deque!Next
    BY <2>7, <1>1, <1>2, PushFrontStep DEF Deque!Next
  <2>8. CASE Size(l) BY <2>8, <1>1, <1>2, ReadSteps DEF Deque!Next
  <2>9. CASE Front(l) BY <2>9, <1>1, <1>2, ReadSteps DEF Deque!Next
  <2>10. CASE Back(l) BY <2>10, <1>1, <1>2, ReadSteps DEF Deque!Next
  <2>11. CASE PopFront(l) BY <2>11, <1>1, <1>2, PopFrontStep DEF Deque!Next
  <2>12. CASE PopBack(l) BY <2>12, <1>1, <1>2, PopBackStep DEF Deque!Next
  <2> QED BY <2>1, <2>2, <2>3, <2>4, <2>5, <2>6, <2>7, <2>8, <2>9, <2>10, <2>11, <2>12, <1>4
<1>5. ASSUME Next PROVE IInv' /\ Deque!Next BY <1>4, <1>5 DEF Next
<1> QED BY <1>3, <1>5

\* The invariant implies the properties that TLC checks.
LEMMA Linkings ==
  ASSUME IInv
  PROVE  Linked /\ NothingDangles /\ LeakOnlyByMove
<1>1. TypeOK BY DEF IInv
<1>2. PICK P \in Chains : Listed(P) BY DEF IInv
<1>3. /\ \A m \in Lists : /\ head[m] = First(P[m]) /\ tail[m] = Last(P[m])
                          /\ Joined(heap, P[m]) /\ Distinct(P[m])
      /\ \A k, m \in Lists : k # m => On(P[k]) \cap On(P[m]) = {}
      /\ \A n \in Nodes : heap[n] # Free <=> n \in lost \/ \E m \in Lists : n \in On(P[m])
  BY <1>2 DEF Listed, Listing
<1>4. ASSUME NEW l \in Lists
      PROVE  /\ Forward(l) = P[l] /\ P[l] \in Seq(Nodes) /\ Len(P[l]) \in Nat
             /\ Backward(l) = [i \in 1 .. Len(P[l]) |-> P[l][Len(P[l]) + 1 - i]]
             /\ Elements(Forward(l)) = On(P[l])
             /\ Elements(Backward(l)) \subseteq On(P[l])
             /\ On(P[l]) \subseteq Nodes \ Unused
  <2>1. /\ Forward(l) = P[l] /\ P[l] \in Seq(Nodes) /\ Len(P[l]) \in Nat
        /\ Backward(l) = [i \in 1 .. Len(P[l]) |-> P[l][Len(P[l]) + 1 - i]]
    BY <1>1, <1>2, Walks, Chained
  <2>2. Elements(P[l]) = On(P[l]) BY <2>1, LenProperties DEF Elements, On
  <2>3. Elements(Backward(l)) \subseteq On(P[l])
    <3>1. \A i \in 1 .. Len(P[l]) : Len(P[l]) + 1 - i \in 1 .. Len(P[l]) BY <2>1
    <3> QED BY <2>1, <3>1 DEF Elements, On
  <2>4. On(P[l]) \subseteq Nodes \ Unused BY <1>3, Kinds DEF On, Joined, Unused
  <2> QED BY <2>1, <2>2, <2>3, <2>4
<1>5. Linked
  <2> SUFFICES ASSUME NEW l \in Lists
               PROVE  /\ Len(Forward(l)) = Len(Backward(l))
                      /\ \A i \in DOMAIN Forward(l) :
                           Forward(l)[i] = Backward(l)[Len(Forward(l)) + 1 - i]
                      /\ Forward(l) # <<>> => Forward(l)[Len(Forward(l))] = tail[l]
    BY DEF Linked
  <2> DEFINE s == P[l]
             n == Len(s)
  <2>1. /\ Forward(l) = s /\ s \in Seq(Nodes) /\ n \in Nat
        /\ Backward(l) = [i \in 1 .. n |-> s[n + 1 - i]]
    BY <1>4
  <2>2. DOMAIN s = 1 .. n BY <2>1, LenProperties
  <2>3. tail[l] = Last(s) BY <1>3
  <2> HIDE DEF s
  <2>4. \A i \in 1 .. n : n + 1 - i \in 1 .. n /\ n + 1 - (n + 1 - i) = i BY <2>1
  <2>5. Len(Backward(l)) = n
    <3>1. \A i \in 1 .. n : s[n + 1 - i] \in Nodes BY <2>1, <2>4, ElementOfSeq
    <3> QED BY <3>1, <2>1
  <2>6. \A i \in 1 .. n : s[i] = Backward(l)[n + 1 - i] BY <2>1, <2>4
  <2>7. s # <<>> => s[n] = tail[l]
    <3>1. s # <<>> => n # 0 BY <2>1, EmptySeq
    <3> QED BY <3>1, <2>3 DEF Last
  <2> QED BY <2>1, <2>2, <2>5, <2>6, <2>7
<1>6. NothingDangles
  <2>1. \A l \in Lists : Elements(Forward(l)) \cup Elements(Backward(l)) \subseteq Nodes \ Unused
    BY <1>4
  <2>2. \A l, m \in Lists : l # m => Elements(Forward(l)) \cap Elements(Forward(m)) = {}
    BY <1>3, <1>4
  <2> QED BY <2>1, <2>2 DEF NothingDangles
<1>7. LeakOnlyByMove
  <2>1. UNION {Elements(Forward(l)) : l \in Lists} = UNION {On(P[l]) : l \in Lists} BY <1>4
  <2>2. \A n \in Nodes : n \in Nodes \ Unused <=> n \in lost \/ \E m \in Lists : n \in On(P[m])
    BY <1>3 DEF Unused
  <2>3. lost \subseteq Nodes /\ \A m \in Lists : On(P[m]) \subseteq Nodes BY <1>1, <1>4 DEF TypeOK
  <2> QED BY <2>1, <2>2, <2>3 DEF LeakOnlyByMove
<1> QED BY <1>5, <1>6, <1>7

\* After every call, head_, tail_ and the links of list<T> are those of chains.
THEOREM Invariant == Spec => []IInv
<1>1. Init => IInv BY InitHolds
<1>2. IInv /\ [Next]_vars => IInv' BY StepHolds
<1> QED BY <1>1, <1>2, PTL DEF Spec

\* list<T> stores nodes, values and addresses where it should.
THEOREM TypeCorrect == Spec => []TypeOK
<1>1. IInv => TypeOK BY DEF IInv
<1> QED BY <1>1, Invariant, PTL

\* The next_ and the prev_ chains of a list are each other's reverse: erase_all
\* deletes what size() counts, and the assertions of the push functions hold.
THEOREM ChainsLinked == Spec => []Linked
<1>1. IInv => Linked BY Linkings
<1> QED BY <1>1, Invariant, PTL

\* No list reaches a deleted node and none shares one: nothing is deleted twice,
\* whatever copies, moves, insertions and removals came before.
THEOREM NodesOwned == Spec => []NothingDangles
<1>1. IInv => NothingDangles BY Linkings
<1> QED BY <1>1, Invariant, PTL

\* Every node is in a list or was in the target of a move assignment: no other
\* function of list<T> leaks.
THEOREM LeaksKnown == Spec => []LeakOnlyByMove
<1>1. IInv => LeakOnlyByMove BY Linkings
<1> QED BY <1>1, Invariant, PTL

\* list<T> implements the sequences of Deque: every call changes the elements and
\* returns (or throws) as promised.
THEOREM ImplementsDeque == Spec => DequeSpec
<1>1. Init => Deque!Init BY InitHolds
<1>2. IInv /\ [Next]_vars => [Deque!Next]_(Deque!vars) BY StepHolds
<1> QED BY <1>1, <1>2, Invariant, PTL DEF Spec, DequeSpec, Deque!Spec
=============================================================================
