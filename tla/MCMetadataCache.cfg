SPECIFICATION FairSpec
CONSTANTS
  Thread = {t1, t2, t3}
  Key <- MCKey
  Cache <- MCCache
  CacheOf <- MCCacheOf
  Needs <- MCNeeds
  NoThread = NoThread
\* A cyclic dependency may hang the threads.
CHECK_DEADLOCK FALSE
INVARIANTS
  OneMetadata
  NoSelfWait
PROPERTY
  CallsReturn
