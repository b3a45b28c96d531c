SPECIFICATION Spec
CONSTANTS
  Tasks = {t1, t2}
  Workers = {w1, w2}
  Closers = {d1, d2}
  MinPoolSize = 0
  MaxPoolSize = 2
  QueueCapacity = 1
  TimedPoll = TRUE
  Awaited = {t1, t2}
  None = None
SYMMETRY Symmetry
INVARIANTS TypeOK WorkerCountExact OnePlace NotLost SignalMeansDone
PROPERTIES ShutdownDrains ImplementsExecutor
