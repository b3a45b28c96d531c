SPECIFICATION FairSpec
CONSTANTS
  Tasks = {t1, t2}
  Workers = {w1, w2}
  Closers = {}
  MinPoolSize = 0
  MaxPoolSize = 2
  QueueCapacity = 9
  TimedPoll = TRUE
  Awaited = {}
  None = None
PROPERTIES AcceptedCompletes
