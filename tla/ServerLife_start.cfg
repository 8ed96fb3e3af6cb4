\* Two sub reactors, one connection each, SIGINT at any point, fair threads.
CONSTANTS
  Workers = {w1, w2}
  Submitters <- MCMain
  Tasks <- MCTasks
  Owner = handler
  None = none
  Main = main
  MaxConns = 1
SPECIFICATION LFairSpec
INVARIANTS LoopsHaveTheirServer StartIsNotRefused OrphansHaveNoLoop
PROPERTIES LoopsAreStarted EarlyInterruptExits
CHECK_DEADLOCK FALSE
