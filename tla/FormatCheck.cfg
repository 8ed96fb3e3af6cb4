\* The two directories of PINE_FORMAT_DIRS.
CONSTANTS
  Files = {f1, f2, f3}
  NDirs = 2
SPECIFICATION Spec
INVARIANT ExitCodeTells
CHECK_DEADLOCK FALSE
