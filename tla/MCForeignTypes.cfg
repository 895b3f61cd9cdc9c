SPECIFICATION FairSpec
CONSTANTS
  Thread = {t1, t2}
  Record <- MCRecord
  Name <- MCName
  NameOf <- MCNameOf
  HasInit <- MCHasInit
  Superclass <- MCSuperclass
  None = None
INVARIANTS
  OneCanonical
  InitializedOnce
PROPERTY
  CallsReturn
