------------------------------- MODULE RouterTree -------------------------------
(***************************************************************************)
(* The tree of the URL router of src/router: a pool of nodes for the       *)
(* segments of paths, and the insertion of a template.  The search is in   *)
(* Router.                                                                 *)
(*                                                                         *)
(* A segment is a literal or a replacement field with a modifier; a        *)
(* template is a sequence of segments, parsed and decoded.  The resource   *)
(* of the k-th call of insert() is k.  Indexes into the pool start at 1,   *)
(* so 1 is the root and 0 stands for "none".                               *)
(***************************************************************************)
EXTENDS Integers, Sequences, FiniteSets, SequencesExt

CONSTANTS
  Names,      \* names of literals and ids of fields
  Templates,  \* the arguments of insert(): sequences of segments
  MaxRoutes   \* bounds the calls of insert()

VARIABLES
  nodes,      \* impl::nodes_
  routes,     \* the templates insert() was called with, in order (history)
  before,     \* the pool before a call that threw, <<>> after any other call
  damaged     \* an erase() has overwritten an index that is in use

vars == <<nodes, routes, before, damaged>>

-----------------------------------------------------------------------------
(* Segments                                                                *)

Literal(name) == [kind |-> "literal", name |-> name]

\* {id}, {id?}, {id*} and {id+}: the kind is the modifier.
Field(kind, id) == [kind |-> kind, name |-> id]

Dot == Literal(".")
DotDot == Literal("..")

\* Literals, then the modifiers in the order of the enumeration.
Rank == [literal |-> 0, none |-> 1, optional |-> 2, star |-> 3, plus |-> 4]

Segments == [kind : DOMAIN Rank, name : Names]

ASSUME TemplateAssumption == Templates \subseteq Seq(Segments)

\* Mutant: the order of the comment on operator<, plus before star.
PlusPrecedes(a, b) ==
  LET rank == [Rank EXCEPT !.plus = Rank.star, !.star = Rank.plus]
  IN  rank[a.kind] < rank[b.kind]

Precedes(a, b) == Rank[a.kind] < Rank[b.kind]

\* Mutant: the ids are compared.
SameName(a, b) == a = b

\* operator==: the id of a field does not count.
Same(a, b) == a.kind = b.kind /\ (a.kind = "literal" => a.name = b.name)

-----------------------------------------------------------------------------
(* The pool                                                                *)

Root == 1

Node(seg, parent) ==
  [seg |-> seg, resource |-> 0, parent |-> parent, children |-> <<>>]

Init ==
  /\ nodes = <<Node(Literal(""), 0)>>
  /\ routes = <<>>
  /\ before = <<>>
  /\ damaged = FALSE

\* child_idx.erase(std::remove(...)) on node p, which has child c: the
\* memmove starts one element early and is as many bytes long as there are
\* elements, so it copies one byte (a whole index, in a pool this small) of
\* the last element over the one before it.  In front of the first child
\* lies parent_idx; the root's is never read and left alone here.
EraseChild(ns, p, c) ==
  LET kids == ns[p].children
      kept == RemoveAt(kids, CHOOSE i \in DOMAIN kids : kids[i] = c)
  IN  IF kept # <<>>
      THEN [ns EXCEPT ![p].children = Append(Front(kept), Last(kids))]
      ELSE [ns EXCEPT ![p].children = <<>>,
                      ![p].parent = IF p = Root THEN @ ELSE c]

\* What it overwrites is not what was there anyway.
EraseDamages(ns, p, c) ==
  IF Len(ns[p].children) = 1 THEN p # Root ELSE Last(ns[p].children) = c

\* The new child k moves left past the siblings it precedes, until one it does
\* not precede.
SortedInsert(ns, kids, k) ==
  LET stay == {i \in DOMAIN kids : ~Precedes(ns[k].seg, ns[kids[i]].seg)}
  IN  InsertAt(kids, Max(stay \cup {0}) + 1, k)

-----------------------------------------------------------------------------
(* insert_impl: the segments of the template one by one.  at.cur is the     *)
(* node reached, at.level counts the parents beyond the root, at.damaged   *)
(* is what EraseDamages says, and at.lost means that the code has used an  *)
(* index outside the pool, from where on its behaviour is undefined and    *)
(* the model does not follow it.                                           *)

\* A new child of the current node.
Extend(at, seg) ==
  LET new == Len(at.nodes) + 1
      ns  == Append(at.nodes, Node(seg, at.cur))
  IN  [at EXCEPT
         !.nodes = [ns EXCEPT ![at.cur].children = SortedInsert(ns, @, new)],
         !.cur = new]

\* To the first child that is the segment, or to a new one.
Descend(at, seg) ==
  LET kids == at.nodes[at.cur].children
      hits == {i \in DOMAIN kids : kids[i] \in DOMAIN at.nodes
                                     => Same(at.nodes[kids[i]].seg, seg)}
      k    == kids[CHOOSE i \in hits : \A j \in hits : i <= j]
  IN  IF hits = {} THEN Extend(at, seg)
      ELSE IF k \in DOMAIN at.nodes THEN [at EXCEPT !.cur = k]
      ELSE [at EXCEPT !.lost = TRUE]

\* Mutant: the node is not deleted.
AscendKeeps(at) == [at EXCEPT !.cur = at.nodes[at.cur].parent]

\* To the parent, deleting the newest node if nothing hangs on it.
Ascend(at) ==
  LET node == at.nodes[at.cur]
      p    == node.parent
      drop == /\ at.cur = Len(at.nodes)
              /\ node.resource = 0
              /\ node.children = <<>>
  IN  IF p \notin DOMAIN at.nodes THEN [at EXCEPT !.lost = TRUE]
      ELSE IF ~drop THEN [at EXCEPT !.cur = p]
      ELSE [at EXCEPT
              !.nodes = Front(EraseChild(@, p, at.cur)),
              !.cur = p,
              !.damaged = @ \/ EraseDamages(at.nodes, p, at.cur)]

InsertSegment(at, seg) ==
  CASE at.lost \/ seg = Dot -> at
    [] ~at.lost /\ seg = DotDot ->
         IF at.cur = Root THEN [at EXCEPT !.level = @ - 1] ELSE Ascend(at)
    [] ~at.lost /\ seg \notin {Dot, DotDot} ->
         IF at.level < 0 THEN [at EXCEPT !.level = @ + 1]
         ELSE Descend(at, seg)

\* Where the whole template leads.
Inserted(t) ==
  LET at[i \in 0 .. Len(t)] ==
        IF i = 0
        THEN [nodes |-> nodes, cur |-> Root, level |-> 0,
              damaged |-> FALSE, lost |-> FALSE]
        ELSE InsertSegment(at[i - 1], t[i])
  IN  at[Len(t)]

\* insert(): the resource is allocated, and stored (the one it replaces is not
\* deleted) or, when the template leaves the root, deleted before the throw.
Insert(t) ==
  LET at == Inserted(t)
      throws == ~at.lost /\ at.level # 0
      stores == ~at.lost /\ at.level = 0
  IN  /\ Len(routes) < MaxRoutes
      /\ ~damaged
      /\ routes' = Append(routes, t)
      /\ nodes' = IF stores
                  THEN [at.nodes EXCEPT ![at.cur].resource = Len(routes) + 1]
                  ELSE at.nodes
      /\ before' = IF throws THEN nodes ELSE <<>>
      /\ damaged' = at.damaged

Next == \E t \in Templates : Insert(t)

Spec == Init /\ [][Next]_vars

-----------------------------------------------------------------------------
(* What templates amount to                                                 *)

\* The segments left when every ".." has taken the segment before it away,
\* and how many took none; the segments after those are taken too.
Reduce(at, isDot, isDotDot, seg) ==
  CASE isDot -> at
    [] isDotDot -> IF at.left = <<>> THEN [at EXCEPT !.level = @ - 1]
                   ELSE [at EXCEPT !.left = Front(@)]
    [] ~isDot /\ ~isDotDot ->
         IF at.level < 0 THEN [at EXCEPT !.level = @ + 1]
         ELSE [at EXCEPT !.left = Append(@, seg)]

ReducedTemplate(t) ==
  LET at[i \in 0 .. Len(t)] ==
        IF i = 0 THEN [left |-> <<>>, level |-> 0]
        ELSE Reduce(at[i - 1], t[i] = Dot, t[i] = DotDot, t[i])
  IN  at[Len(t)]

Throws(t) == ReducedTemplate(t).level # 0

\* What a template is stored under: ids do not count.
Key(t) ==
  LET left == ReducedTemplate(t).left
  IN  [i \in DOMAIN left |-> IF left[i].kind = "literal" THEN left[i]
                             ELSE Field(left[i].kind, "")]

\* The calls of insert() whose resource is in the router.
Replaced(k) ==
  \E j \in k + 1 .. Len(routes) :
    ~Throws(routes[j]) /\ Key(routes[j]) = Key(routes[k])

Live == {k \in DOMAIN routes : ~Throws(routes[k]) /\ ~Replaced(k)}

-----------------------------------------------------------------------------
(* Properties                                                               *)

\* While no erase() has gone wrong the pool is a tree: children and parents
\* agree, siblings are different segments in their order, and a node on which
\* nothing hangs has a resource, as find_optional_resource asserts.
WellFormed ==
  ~damaged =>
    \A n \in DOMAIN nodes :
      LET kids == nodes[n].children
      IN  /\ \A i \in DOMAIN kids :
               kids[i] \in DOMAIN nodes /\ nodes[kids[i]].parent = n
          /\ n # Root => n \in ToSet(nodes[nodes[n].parent].children)
          /\ \A i, j \in DOMAIN kids : i < j =>
               LET a == nodes[kids[i]].seg
                   b == nodes[kids[j]].seg
               IN  ~Same(a, b) /\ ~Precedes(b, a)
          /\ n # Root /\ kids = <<>> => nodes[n].resource # 0

\* A resource is in one node as long as its template has not been inserted
\* again, so the destructor deletes it once; one whose insertion threw has
\* been deleted and is in none.
StoredOnce ==
  ~damaged =>
    \A k \in DOMAIN routes :
      Cardinality({n \in DOMAIN nodes : nodes[n].resource = k})
        = IF k \in Live THEN 1 ELSE 0

\* An insertion that throws leaves the tree as it was.
StrongGuarantee == before # <<>> => nodes = before
=============================================================================
