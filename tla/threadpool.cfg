SPECIFICATION FairSpec
CONSTANTS
  Workers = {w1, w2}
  Tasks = {t1, t2, t3}
  MaxEmits = 1
  NoTask = NoTask
INVARIANTS TypeOK NoLostWakeup WorkConserving PostsInOrder StopDrains
PROPERTIES TaskCompletes StopReturns
