SPECIFICATION FairSpec
CONSTANTS
  Tasks = {t1, t2}
  Workers = {w1, w2}
  Closers = {d1}
  MinPoolSize = 0
  MaxPoolSize = 2
  QueueCapacity = 9
  TimedPoll = FALSE
  Awaited = {t1, t2}
  None = None
PROPERTIES ShutdownSignalled
