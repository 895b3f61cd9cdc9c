SPECIFICATION Spec
CONSTANTS
  InlineLayout <- NarrowLayout
  SideLayout <- WideLayout
  Address <- SmallAddresses
  UnusedLowBits = 2
  WeakBits = 2
  InitialUnowned = 1
  MaxN = 2
INVARIANTS
  WordsExact
  OutcomesExact
  UniqueExact
CHECK_DEADLOCK FALSE
