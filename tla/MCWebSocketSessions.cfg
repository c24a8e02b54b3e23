\* Two sessions, a hello, a message that is broadcast, one that does not
\* parse, and an update; no symmetry, for liveness is checked too.
CONSTANTS
  Sessions = {s1, s2}
  Timer = Timer
  Messages = {hello, m1, bad}
  Malformed = {bad}
  Updates = {u1}
  NoName = NoName
  NoMessage = NoMessage
  Nobody = Nobody
  Hello = hello
  Alice = Alice
  NameOf <- MCNameOf
  Assignee <- MCAssignee
SPECIFICATION FairSpec
INVARIANTS
  TypeOK
  RegistrySound
  NothingOutlives
  OneWriter
  DeliveredOnce
  BroadcastReaches
PROPERTIES
  DeliveryOrder
  EventuallyWritten
  EventuallyFreed
\* Every session may have ended.
CHECK_DEADLOCK FALSE
