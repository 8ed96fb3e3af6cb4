\* SIGINT while a sub reactor's loop is running, with fair threads.
CONSTANTS
  Workers = {w1}
  Submitters <- MCMain
  Tasks <- MCTasks
  Owner = handler
  None = none
  Main = main
  MaxConns = 1
SPECIFICATION LFairSpec
PROPERTY InterruptExits
CHECK_DEADLOCK FALSE
