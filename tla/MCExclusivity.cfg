SPECIFICATION Spec
CONSTANTS
  Thread = {t1, t2}
  Variable = {x, y}
  Buffer = {b1, b2, b3, b4}
  Null = Null
  MaxReported = 2
SYMMETRY Symmetry
INVARIANTS
  ListExact
  LawOfExclusivity
  EndFindsAccess
PROPERTY
  NoFalseReport
