---------------------------- MODULE DoublyLinkedList ----------------------------
(***************************************************************************)
(* containers/list.hpp on an explicit heap: every function of list<T> with *)
(* the pointers it reads and writes, and every node it allocates and       *)
(* deletes.  The calls of one thread, one after the other; the copies that *)
(* run while another thread changes the list are in AdminSnapshot.         *)
(***************************************************************************)
EXTENDS Naturals, Sequences, FiniteSets

CONSTANTS Lists,      \* variables of type list<T>
          Nodes,      \* addresses operator new can return (bounds the heap)
          Values,
          Null,
          Free,       \* what an address that holds no node contains
          Void,
          OutOfRange

ASSUME HeapAssumption ==
  /\ IsFiniteSet(Nodes)
  /\ Null \notin Nodes
  /\ Free \notin [value : Values, prev : Nodes \cup {Null}, next : Nodes \cup {Null}]

VARIABLES heap,   \* the node<T> at each address, or Free
          head,   \* head_ of each list
          tail,   \* tail_ of each list
          alive,  \* the lists whose lifetime has begun and not ended
          lost,   \* nodes no list owned any more after a move (history)
          result  \* what the last call returned

vars == <<heap, head, tail, alive, lost, result>>

Link == Nodes \cup {Null}

\* node(value): both links are nullptr.
NewNode(v) == [value |-> v, prev |-> Null, next |-> Null]

Unused == {n \in Nodes : heap[n] = Free}

\* The nodes met from start along a link, until nullptr or freed memory; at
\* most one more than there are nodes, so that a cycle shows.
Walk(start, link) ==
  LET size == Cardinality(Nodes)
      at[i \in 0 .. size] ==
        IF i = 0 THEN start
        ELSE IF at[i - 1] \in Unused \cup {Null} THEN Null
             ELSE heap[at[i - 1]][link]
      met == {i \in 0 .. size : at[i] # Null}
  IN  [i \in 1 .. Cardinality(met) |-> at[i - 1]]

Forward(l)  == Walk(head[l], "next")
Backward(l) == Walk(tail[l], "prev")

Elements(s) == {s[i] : i \in DOMAIN s}

\* while (head_ != tail_) delete tail_; delete head_: the nodes erase_all
\* deletes, on its way from the tail to the head.
Erased(l) ==
  LET back == Backward(l)
  IN  {back[i] : i \in {j \in DOMAIN back : \A k \in 1 .. j - 1 : back[k] # head[l]}}

Delete(S) == heap' = [n \in Nodes |-> IF n \in S THEN Free ELSE heap[n]]

Empty(l) == head[l] = Null

Init ==
  /\ heap = [n \in Nodes |-> Free]
  /\ head = [l \in Lists |-> Null]
  /\ tail = [l \in Lists |-> Null]
  /\ alive = {}
  /\ lost = {}
  /\ result = Void

-----------------------------------------------------------------------------
(* Construction, assignment and destruction                                *)

DefaultConstruct(l) ==
  /\ l \notin alive
  /\ alive' = alive \cup {l}
  /\ result' = Void
  /\ UNCHANGED <<heap, head, tail, lost>>

\* Mutant: the copy shares the nodes of the original.
CopyShallow(l, other) ==
  /\ l \notin alive
  /\ other \in alive
  /\ alive' = alive \cup {l}
  /\ head' = [head EXCEPT ![l] = head[other]]
  /\ tail' = [tail EXCEPT ![l] = tail[other]]
  /\ result' = Void
  /\ UNCHANGED <<heap, lost>>

\* Starts empty and calls push_back for each element of other.
CopyConstruct(l, other) ==
  LET from == Forward(other)
      size == Len(from)
  IN  /\ l \notin alive
      /\ other \in alive
      /\ alive' = alive \cup {l}
      /\ result' = Void
      /\ UNCHANGED lost
      /\ \E to \in [1 .. size -> Unused] :
           /\ \A i, j \in 1 .. size : to[i] = to[j] => i = j
           /\ heap' = [n \in Nodes |->
                IF n \notin Elements(to)
                THEN heap[n]
                ELSE LET i == CHOOSE j \in 1 .. size : to[j] = n
                     IN  [value |-> heap[from[i]].value,
                          prev  |-> IF i = 1 THEN Null ELSE to[i - 1],
                          next  |-> IF i = size THEN Null ELSE to[i + 1]]]
           /\ head' = [head EXCEPT ![l] = IF size = 0 THEN Null ELSE to[1]]
           /\ tail' = [tail EXCEPT ![l] = IF size = 0 THEN Null ELSE to[size]]

\* Mutant: the source keeps its pointers.
MoveKeepsSource(l, other) ==
  /\ {l, other} \subseteq alive
  /\ head' = [head EXCEPT ![l] = head[other]]
  /\ tail' = [tail EXCEPT ![l] = tail[other]]
  /\ lost' = lost \cup Elements(Forward(l))
  /\ result' = Void
  /\ UNCHANGED <<heap, alive>>

\* Takes other's pointers and deletes nothing: the nodes the target had, or
\* its own when a list is moved to itself, belong to no list any more.
MoveAssign(l, other) ==
  /\ {l, other} \subseteq alive
  /\ head' = [head EXCEPT ![l] = head[other], ![other] = Null]
  /\ tail' = [tail EXCEPT ![l] = tail[other], ![other] = Null]
  /\ lost' = lost \cup Elements(Forward(l))
  /\ result' = Void
  /\ UNCHANGED <<heap, alive>>

\* ~list() calls erase_all().
Destroy(l) ==
  /\ l \in alive
  /\ alive' = alive \ {l}
  /\ Delete(Erased(l))
  /\ head' = [head EXCEPT ![l] = Null]
  /\ tail' = [tail EXCEPT ![l] = Null]
  /\ result' = Void
  /\ UNCHANGED lost

EraseAll(l) ==
  /\ l \in alive
  /\ Delete(Erased(l))
  /\ head' = [head EXCEPT ![l] = Null]
  /\ tail' = [tail EXCEPT ![l] = Null]
  /\ result' = Void
  /\ UNCHANGED <<alive, lost>>

-----------------------------------------------------------------------------
(* Insertion                                                                *)

PushBack(l, v) ==
  /\ l \in alive
  /\ \E n \in Unused :
       /\ tail' = [tail EXCEPT ![l] = n]
       /\ IF Empty(l)
          THEN /\ heap' = [heap EXCEPT ![n] = NewNode(v)]
               /\ head' = [head EXCEPT ![l] = n]
          ELSE /\ heap' = [heap EXCEPT
                             ![n] = [NewNode(v) EXCEPT !.prev = tail[l]],
                             ![tail[l]].next = n]
               /\ UNCHANGED head
  /\ result' = Void
  /\ UNCHANGED <<alive, lost>>

\* Mutant: the old head does not learn of its new predecessor.
PushFrontOneWay(l, v) ==
  /\ l \in alive
  /\ \E n \in Unused :
       /\ head' = [head EXCEPT ![l] = n]
       /\ heap' = [heap EXCEPT ![n] = [NewNode(v) EXCEPT !.next = head[l]]]
       /\ tail' = IF Empty(l) THEN [tail EXCEPT ![l] = n] ELSE tail
  /\ result' = Void
  /\ UNCHANGED <<alive, lost>>

PushFront(l, v) ==
  /\ l \in alive
  /\ \E n \in Unused :
       /\ head' = [head EXCEPT ![l] = n]
       /\ IF Empty(l)
          THEN /\ heap' = [heap EXCEPT ![n] = NewNode(v)]
               /\ tail' = [tail EXCEPT ![l] = n]
          ELSE /\ heap' = [heap EXCEPT
                             ![n] = [NewNode(v) EXCEPT !.next = head[l]],
                             ![head[l]].prev = n]
               /\ UNCHANGED tail
  /\ result' = Void
  /\ UNCHANGED <<alive, lost>>

-----------------------------------------------------------------------------
(* Removal and access                                                       *)

\* Throws out_of_range and changes nothing.
Throw(l) ==
  /\ l \in alive
  /\ Empty(l)
  /\ result' = OutOfRange
  /\ UNCHANGED <<heap, head, tail, alive, lost>>

\* Deletes the only node.
PopOnly(l) ==
  /\ l \in alive
  /\ ~Empty(l)
  /\ head[l] = tail[l]
  /\ Delete({head[l]})
  /\ head' = [head EXCEPT ![l] = Null]
  /\ tail' = [tail EXCEPT ![l] = Null]
  /\ result' = Void
  /\ UNCHANGED <<alive, lost>>

PopBack(l) ==
  \/ Throw(l)
  \/ PopOnly(l)
  \/ /\ l \in alive
     /\ head[l] # tail[l]
     /\ LET new_tail == heap[tail[l]].prev
        IN  /\ tail' = [tail EXCEPT ![l] = new_tail]
            /\ heap' = [heap EXCEPT ![new_tail].next = Null, ![tail[l]] = Free]
     /\ result' = Void
     /\ UNCHANGED <<head, alive, lost>>

\* Mutant: the old head is not deleted.
PopFrontKeepsNode(l) ==
  \/ Throw(l)
  \/ PopOnly(l)
  \/ /\ l \in alive
     /\ head[l] # tail[l]
     /\ LET new_head == heap[head[l]].next
        IN  /\ head' = [head EXCEPT ![l] = new_head]
            /\ heap' = [heap EXCEPT ![new_head].prev = Null]
     /\ result' = Void
     /\ UNCHANGED <<tail, alive, lost>>

PopFront(l) ==
  \/ Throw(l)
  \/ PopOnly(l)
  \/ /\ l \in alive
     /\ head[l] # tail[l]
     /\ LET new_head == heap[head[l]].next
        IN  /\ head' = [head EXCEPT ![l] = new_head]
            /\ heap' = [heap EXCEPT ![new_head].prev = Null, ![head[l]] = Free]
     /\ result' = Void
     /\ UNCHANGED <<tail, alive, lost>>

Front(l) ==
  \/ Throw(l)
  \/ /\ l \in alive
     /\ ~Empty(l)
     /\ result' = heap[head[l]].value
     /\ UNCHANGED <<heap, head, tail, alive, lost>>

\* Tests tail_ where the others test head_.
Back(l) ==
  /\ l \in alive
  /\ result' = IF tail[l] = Null THEN OutOfRange ELSE heap[tail[l]].value
  /\ UNCHANGED <<heap, head, tail, alive, lost>>

\* Counts the nodes; empty() is size() = 0.
Size(l) ==
  /\ l \in alive
  /\ result' = Len(Forward(l))
  /\ UNCHANGED <<heap, head, tail, alive, lost>>

Next ==
  \E l \in Lists :
    \/ DefaultConstruct(l) \/ Destroy(l) \/ EraseAll(l)
    \/ \E other \in Lists : CopyConstruct(l, other) \/ MoveAssign(l, other)
    \/ \E v \in Values : PushBack(l, v) \/ PushFront(l, v)
    \/ Size(l) \/ Front(l) \/ Back(l) \/ PopFront(l) \/ PopBack(l)

Spec == Init /\ [][Next]_vars

-----------------------------------------------------------------------------
(* Properties                                                               *)

\* The two chains of a list are each other's reverse, so erase_all, which
\* walks from the tail, meets the nodes that size(), begin() and print() meet,
\* and the assertion of push_back and push_front (nothing before head_,
\* nothing after tail_) never fails.
Linked ==
  \A l \in Lists :
    LET f == Forward(l)
        b == Backward(l)
    IN  /\ Len(f) = Len(b)
        /\ \A i \in DOMAIN f : f[i] = b[Len(f) + 1 - i]
        /\ f # <<>> => f[Len(f)] = tail[l]

\* No list reaches a deleted node, and none shares a node with another one:
\* nothing is deleted twice, whatever copies and moves came before.
NothingDangles ==
  /\ \A l \in Lists : Elements(Forward(l)) \cup Elements(Backward(l)) \subseteq Nodes \ Unused
  /\ \A l, m \in Lists :
       l # m => Elements(Forward(l)) \cap Elements(Forward(m)) = {}

\* Every node that was allocated and not deleted is in a list, except for the
\* nodes of lists that were assigned to: move assignment is the only leak.
LeakOnlyByMove ==
  Nodes \ Unused = lost \cup UNION {Elements(Forward(l)) : l \in Lists}

Contents(l) == [i \in DOMAIN Forward(l) |-> heap[Forward(l)[i]].value]

Deque == INSTANCE Deque WITH contents <- [l \in Lists |-> Contents(l)]

\* The lists behave as the sequences the tests take them for, and every call
\* returns what it should, exceptions included.
DequeSpec == Deque!Spec
=============================================================================
