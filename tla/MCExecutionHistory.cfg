CONSTANTS
  Exec        = {e1, e2, e3, e4}
  IntMax      = 31
  DefaultSize = 2
  MaxSize     = 3
  Numbers     = {0, 1, 2, 3, 4, 5, 10, 11, 16, 17, 31, 32, 40}
SPECIFICATION Spec
SYMMETRY Symmetry
INVARIANTS PagesAreSlices NoRecordSkipped
CHECK_DEADLOCK FALSE
