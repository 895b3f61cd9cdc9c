SPECIFICATION Spec
CONSTANTS
  Thread = {t1, t2}
  Key = {1, 2, 3}
  Node = {n1, n2, n3, n4}
  Null = Null
SYMMETRY Symmetry
INVARIANTS
  IInv
  NoLeak
  NoDangling
PROPERTIES
  ImplementsMap
  SearchDescends
