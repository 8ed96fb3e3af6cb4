\* Three clients: one that ends, one that it disturbs, one that joins in.
CONSTANTS
  Clients = {c1, c2, c3}
  Numbers <- MCNumbers
  Msgs = 2
  None = none
SPECIFICATION FairSpec
INVARIANTS OnlyTheEndedDisturb UndisturbedIsAnswered
PROPERTY EveryClientEnds
CHECK_DEADLOCK FALSE
