---------------------------- MODULE MCAdminSnapshot ----------------------------
(* AdminSnapshot for TLC: tasks and addresses are interchangeable.          *)
EXTENDS AdminSnapshot, TLC

Symmetric == Permutations(Tasks) \cup Permutations(Nodes)
=============================================================================
