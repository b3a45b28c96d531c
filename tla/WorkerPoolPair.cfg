SPECIFICATION Spec
CONSTANTS
  Tasks = {t1, t2, t3, t4}
  Workers = {w1, w2, w3}
  Closers = {d1}
  MinPoolSize = 2
  MaxPoolSize = 3
  QueueCapacity = 9
  TimedPoll = FALSE
  Awaited = {}
  None = None
SYMMETRY Symmetry
INVARIANTS PoolBound NoLostWakeup
