\* The default of main.cpp:60: the main thread alone runs the io_context.
CONSTANTS
  IoThreads = {io1}
  Consumer = consumer
  Tasks = {k1, k2}
  Malformed = {}
  NoTask = NoTask
  NoThread = NoThread
SPECIFICATION FairSpec
PROPERTY EnqueuedConcurrently
CHECK_DEADLOCK FALSE
