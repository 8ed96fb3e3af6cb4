\* Two clients, one descriptor, one sub reactor, and fair threads.
CONSTANTS
  Conns = {c1, c2}
  Fds = {5}
  NumSub = 1
  MaxSend = 1
  None = none
SPECIFICATION FairSpec
PROPERTIES
  EndedIsClosed
  SentIsRead
CHECK_DEADLOCK FALSE
