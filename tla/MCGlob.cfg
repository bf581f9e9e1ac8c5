SPECIFICATION Spec
CONSTANTS
  Chars = {"a", "b", "*"}
  MaxMask = 4
  MaxText = 4
CHECK_DEADLOCK FALSE
INVARIANTS TypeOK GlobCorrect
PROPERTIES Advances Terminates
