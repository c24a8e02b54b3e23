-------------------------------- MODULE MCServer --------------------------------
(* Server for TLC: every task is assigned to the one who says hello.        *)
EXTENDS Server

CONSTANTS Hello, Alice

MCNameOf == [m \in Messages |-> IF m = Hello THEN Alice ELSE NoName]
MCAssignee == [k \in Tasks |-> Alice]
=============================================================================
