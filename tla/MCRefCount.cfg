SPECIFICATION Spec
CONSTANTS
  Thread = {t1, t2}
  Slot = {v1, v2, v3}
  Entry = {e1, e2}
  Inline = Inline
  Null = Null
  InlineMaxStrong = 1
  SideMaxStrong = 2
  InlineMaxUnowned = 2
  SideMaxUnowned = 3
  MaxWeak = 3
  MaxN = 2
  TakeWhileHeld = TRUE
  NonAtomicRule = "exclusive"
SYMMETRY Symmetry
INVARIANTS
  TypeOK
  CountsExact
  MemorySafe
  AssertionsHold
  NoLeak
PROPERTIES
  UniqueIsSole
  ImplementsLifecycle
