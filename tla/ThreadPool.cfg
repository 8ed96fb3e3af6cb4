\* Two workers, two submitters, three tasks that return, one destructor.
CONSTANTS
  Workers = {w1, w2}
  Submitters = {s1, s2}
  Tasks = {t1, t2, t3}
  Owner = owner
  None = none
SPECIFICATION FairSpec
INVARIANTS
  StartedInOrder
  NoLostWakeup
  JoinedMeansDrained
PROPERTIES
  ImplementsTaskPool
  AcceptedTasksFinish
  DestructorReturns
CHECK_DEADLOCK FALSE
