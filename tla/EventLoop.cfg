\* A main loop and two other threads that make every call of the queue.
SPECIFICATION FairSpec
CONSTANTS
  l = l
  d1 = d1
  d2 = d2
  v1 = v1
  v2 = v2
  NoValue = NoValue
  Thread <- Threads
  Value <- Events
  Bounds = 2
  Loop <- l
  LoopEvents = {v1}
  UserCalls <- EveryCall
  Spurious = TRUE
INVARIANTS
  TypeOK
  WaitersCounted
  NoLostWakeup
  TermWakesAll
  NoMissedEvent
PROPERTIES
  ImplementsFifo
  FullQueueDrains
  ShutdownCompletes
