\* Three clients, two descriptors, two sub reactors: numbers are reused and the
\* three threads interleave.
CONSTANTS
  Conns = {c1, c2, c3}
  Fds = {4, 5}
  NumSub = 2
  MaxSend = 1
  None = none
SYMMETRY Symmetry
SPECIFICATION Spec
INVARIANTS
  RegistrationIsLive
  TableOwnsDescriptor
  BatchIsLive
  DestroysItsOwn
  NoOrphanDescriptor
PROPERTIES
  DiesOnlyOfEarlyData
  LostOnlyToStaleDelete
  ImplementsSessions
CHECK_DEADLOCK FALSE
