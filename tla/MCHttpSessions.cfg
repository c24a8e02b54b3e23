\* Two tasks, one with Connection: close, one that does not parse, a look at
\* the queue and an upgrade, over two connections; liveness, so no symmetry.
CONSTANTS
  Connections = {c1, c2}
  Requests <- Visitors
  Pipelined = 2
  NoReply = NoReply
SPECIFICATION FairSpec
INVARIANTS
  TypeOK
  AnswersInOrder
  NothingAfterClose
  AcknowledgedIsQueued
  DuplicateNeedsLoss
PROPERTIES
  BacklogServed
  SessionEnds
\* Every connection may have ended.
CHECK_DEADLOCK FALSE
