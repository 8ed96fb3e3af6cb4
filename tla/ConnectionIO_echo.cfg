\* A zero byte, small buffers, and a backlog that fills.
SPECIFICATION FairSpec
CONSTANTS
  MaxSaid = 7
  Zeros <- MCZeros
  ReadSize = 3
  Room = 4
INVARIANTS RepliesInOrder NothingLost
PROPERTIES ImplementsEcho EveryByteIsAnswered
CHECK_DEADLOCK FALSE
