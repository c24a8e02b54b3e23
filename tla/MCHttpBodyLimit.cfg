\* A body longer than the limit do_read sets.
CONSTANTS
  Connections = {c1}
  Requests <- Uploaders
  Pipelined = 2
  NoReply = NoReply
SPECIFICATION Spec
INVARIANT BodyLimited
CHECK_DEADLOCK FALSE
