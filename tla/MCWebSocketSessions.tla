-------------------------- MODULE MCWebSocketSessions --------------------------
(* WebSocketSessions for TLC: what the messages say.                        *)
EXTENDS WebSocketSessions

CONSTANTS Hello,  \* a message of type "hello"
          Alice   \* the name in it, and the assignee of every update

MCNameOf == [m \in Messages |-> IF m = Hello THEN Alice ELSE NoName]
MCAssignee == [u \in Updates |-> Alice]
=============================================================================
