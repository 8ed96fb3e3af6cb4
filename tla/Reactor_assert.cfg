\* The assertion of DeleteCOnnection against an early end of file.
CONSTANTS
  Conns = {c1, c2}
  Fds = {5}
  NumSub = 1
  MaxSend = 1
  None = none
SPECIFICATION Spec
INVARIANTS
  EntryIsFound
CHECK_DEADLOCK FALSE
