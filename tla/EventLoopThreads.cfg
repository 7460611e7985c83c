SPECIFICATION FairSpec
CONSTANTS
  t1 = t1
  t2 = t2
  k1 = k1
  k2 = k2
  k3 = k3
  Threads = {t1, t2}
  Tasks = {k1, k2, k3}
INVARIANTS TypeOK NoLostWakeup
PROPERTIES FunctorsRun QuitStops QueueSpec
CHECK_DEADLOCK FALSE
