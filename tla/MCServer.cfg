\* Two io threads, two tasks of one assignee, a session and its hello, and
\* a body and a message that do not parse.
CONSTANTS
  IoThreads = {io1, io2}
  Consumer = consumer
  Tasks = {k1, k2, bad}
  Malformed = {bad}
  NoTask = NoTask
  NoThread = NoThread
  Sessions = {s1}
  Timer = Timer
  Messages = {hello, oops}
  BadMessages = {oops}
  NoName = NoName
  NoMessage = NoMessage
  Nobody = Nobody
  Hello = hello
  Alice = Alice
  NameOf <- MCNameOf
  Assignee <- MCAssignee
SPECIFICATION FairSpec
INVARIANTS
  NothingStuck
  ToldInOrder
PROPERTY EventuallyTold
\* The server may have nothing left to do.
CHECK_DEADLOCK FALSE
