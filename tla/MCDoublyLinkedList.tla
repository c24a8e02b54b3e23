--------------------------- MODULE MCDoublyLinkedList ---------------------------
(* DoublyLinkedList for TLC: addresses, lists and values are interchangeable. *)
EXTENDS DoublyLinkedList, TLC

Symmetric ==
  Permutations(Nodes) \cup Permutations(Lists) \cup Permutations(Values)
=============================================================================
