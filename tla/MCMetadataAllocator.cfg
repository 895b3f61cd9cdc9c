SPECIFICATION Spec
CONSTANTS
  Thread = {t1, t2}
  Size = {1,2,3}
  PageSize = 4
  InitialSize = 1
  MaxAddress = 8
SYMMETRY Symmetry
INVARIANTS
  NoOverlap
  FreeIsFree
  NoLostPage
CHECK_DEADLOCK FALSE
