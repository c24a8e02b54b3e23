--------------------------------- MODULE Deque ---------------------------------
(***************************************************************************)
(* What the functions of list.hpp promise, without nodes or pointers:      *)
(* lists are sequences, and a call returns a value, a size, nothing or an  *)
(* out_of_range exception.  DoublyLinkedList implements this.              *)
(***************************************************************************)
EXTENDS Naturals, Sequences

CONSTANTS Lists,      \* variables of type list<T>
          Values,
          Void,       \* the result of a call that returns nothing
          OutOfRange  \* the result of a call that throws

VARIABLES contents,   \* each list's elements, front first
          alive,      \* the lists whose lifetime has begun and not ended
          result      \* what the last call returned

vars == <<contents, alive, result>>

Init ==
  /\ contents = [l \in Lists |-> <<>>]
  /\ alive = {}
  /\ result = Void

\* l's elements become s and the call returns r.
Returns(l, s, r) ==
  /\ l \in alive
  /\ contents' = [contents EXCEPT ![l] = s]
  /\ result' = r
  /\ UNCHANGED alive

DefaultConstruct(l) ==
  /\ l \notin alive
  /\ alive' = alive \cup {l}
  /\ result' = Void
  /\ UNCHANGED contents

CopyConstruct(l, other) ==
  /\ l \notin alive
  /\ other \in alive
  /\ alive' = alive \cup {l}
  /\ contents' = [contents EXCEPT ![l] = contents[other]]
  /\ result' = Void

\* The source is left empty: when a list is moved to itself, that is the list.
MoveAssign(l, other) ==
  /\ {l, other} \subseteq alive
  /\ contents' = [contents EXCEPT ![l] = contents[other], ![other] = <<>>]
  /\ result' = Void
  /\ UNCHANGED alive

Destroy(l) ==
  /\ l \in alive
  /\ alive' = alive \ {l}
  /\ contents' = [contents EXCEPT ![l] = <<>>]
  /\ result' = Void

PushBack(l, v)  == Returns(l, Append(contents[l], v), Void)
PushFront(l, v) == Returns(l, <<v>> \o contents[l], Void)
EraseAll(l)     == Returns(l, <<>>, Void)
Size(l)         == Returns(l, contents[l], Len(contents[l]))

\* A call that throws on an empty list and leaves it as it is.
Partial(l, rest, r) ==
  IF contents[l] = <<>>
  THEN Returns(l, <<>>, OutOfRange)
  ELSE Returns(l, rest, r)

Front(l)    == Partial(l, contents[l], Head(contents[l]))
Back(l)     == Partial(l, contents[l], contents[l][Len(contents[l])])
PopFront(l) == Partial(l, Tail(contents[l]), Void)
PopBack(l)  ==
  Partial(l, SubSeq(contents[l], 1, Len(contents[l]) - 1), Void)

Next ==
  \E l \in Lists :
    \/ DefaultConstruct(l) \/ Destroy(l) \/ EraseAll(l)
    \/ \E other \in Lists : CopyConstruct(l, other) \/ MoveAssign(l, other)
    \/ \E v \in Values : PushBack(l, v) \/ PushFront(l, v)
    \/ Size(l) \/ Front(l) \/ Back(l) \/ PopFront(l) \/ PopBack(l)

Spec == Init /\ [][Next]_vars
=============================================================================
