-------------------------- MODULE RefCountLifecycle --------------------------
(* The runtime's reference counting implements ObjectLifecycle.            *)
EXTENDS RefCount

\* The comments at the transitions in RefCount.h and HeapObject.cpp give the
\* state; it changes to FREED and DEAD when the memory is really given back.
LifecycleState ==
  IF alloc[Inline] = "live"
  THEN IF ~Bits.deiniting THEN "LIVE"
       ELSE IF StrongShare THEN "DEINITING" ELSE "DEINITED"
  ELSE IF Home # Inline /\ alloc[Home] = "live" THEN "FREED" ELSE "DEAD"

\* A weak reference is held by a variable, or by a thread that has emptied
\* its variable and not yet decremented the weak count.
WeakHolders ==
  WeakSlots \cup {t \in WeakCarriers : op[t] # "unownedFree"}

Lifecycle == INSTANCE ObjectLifecycle WITH
  Holder <- Slot \cup Thread,
  state <- LifecycleState,
  side <- Home # Inline,
  strong <- Strong,
  unowned <- Unowned,
  weak <- WeakHolders

\* Every step of every thread is a step of the object's life cycle or leaves
\* it as it is: deinit starts once, when the last strong reference goes, and
\* nothing brings the object back; memory goes when the last unowned and the
\* last weak reference have gone; a side table is never lost.
ImplementsLifecycle == Lifecycle!Spec

\* What RefCount.h says and the code does not do: the weak count held for the
\* unowned references is given back after the object's allocation
\* (decrementUnownedShouldFree and its callers), so the entry outlives the
\* object.
EntryOutlivesObject ==
  Home # Inline /\ alloc[Home] = "freed" => alloc[Inline] = "freed"
==============================================================================
