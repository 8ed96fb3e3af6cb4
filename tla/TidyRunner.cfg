\* Two threads, three files of any kind, any options, fair threads.
CONSTANTS
  NFiles = 3
  Workers = {w1, w2}
  None = none
SPECIFICATION FairSpec
INVARIANTS
  EachCheckedOnce
  JoinedIsQuiet
  ExitCodeTells
  NothingLeftBehind
PROPERTIES
  ScriptEnds
  SurvivorsGoOn
CHECK_DEADLOCK FALSE
