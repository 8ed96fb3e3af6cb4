\* Two files of two lines, below two levels of any of the configurations.
SPECIFICATION Spec
CONSTANTS
  NFiles = 2
  Depth = 2
  Categories = {c1, c2}
  c1 = c1
  c2 = c2
  None = None
  Configs <- MCConfigs
  CmdFilters <- MCCmdFilters
  Markers <- MCMarkers
  MaxLines = 2
INVARIANTS
  VerdictIsOwn
  ExitTells
CHECK_DEADLOCK FALSE
