\* Two io threads, the consumer, three good submissions and one whose body
\* does not parse; no symmetry, for liveness is checked too.
CONSTANTS
  IoThreads = {io1, io2}
  Consumer = consumer
  Tasks = {k1, k2, k3, bad}
  Malformed = {bad}
  NoTask = NoTask
  NoThread = NoThread
SPECIFICATION FairSpec
INVARIANTS
  TypeOK
  MutualExclusion
  SingleProcessor
  NoLostWakeup
  NoUnderflow
  CurrIsRunning
  CurrAfterReport
  OnePlace
PROPERTIES
  ServiceSpec
  ShutdownOrBlocked
\* The process ends after a signal or an uncaught exception.
CHECK_DEADLOCK FALSE
