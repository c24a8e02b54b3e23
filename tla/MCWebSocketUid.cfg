\* One session announces its name while an update looks for it.
CONSTANTS
  Sessions = {s1}
  Timer = Timer
  Messages = {hello}
  Malformed = {}
  Updates = {u1}
  NoName = NoName
  NoMessage = NoMessage
  Nobody = Nobody
  Hello = hello
  Alice = Alice
  NameOf <- MCNameOf
  Assignee <- MCAssignee
SPECIFICATION Spec
INVARIANT NotAccessedConcurrently
CHECK_DEADLOCK FALSE
