SPECIFICATION FairSpec
CONSTANTS
  Thread = {t1, t2}
  Slot = {v1, v2}
  Entry = {e1, e2}
  Inline = Inline
  Null = Null
  InlineMaxStrong = 1
  SideMaxStrong = 1
  InlineMaxUnowned = 1
  SideMaxUnowned = 3
  MaxWeak = 2
  MaxN = 1
  TakeWhileHeld = TRUE
  NonAtomicRule = "never"
PROPERTIES
  EventuallyFreed
  LockFree
