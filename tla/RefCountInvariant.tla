-------------------------- MODULE RefCountInvariant --------------------------
(***************************************************************************)
(* The inductive invariant of RefCount.  What a thread relies on between   *)
(* two of its steps is stated thread by thread (Fits, Placed, Relies and   *)
(* Alone); what the words and the allocations owe to all threads together  *)
(* is stated once.                                                         *)
(***************************************************************************)
EXTENDS RefCountLifecycle

Slots ==
  /\ \A t \in Thread : \A v \in src[t] \cup dst[t] : owner[v] = t
  /\ \A t \in Thread : src[t] \cap dst[t] = {}
  /\ \A v \in Slot : owner[v] = Null => ref[v] = "empty"
  /\ \A v \in Slot : wref[v] # Null => ref[v] = "weak" /\ wref[v] = Home

-----------------------------------------------------------------------------
(* What each operation takes from and puts into.                           *)

Holding(S, k) == \A v \in S : ref[v] = k

One(S) == \E v \in Slot : S = {v}

Fits(t) ==
  /\ op[t] \in {"none", "isUnique", "unownedCheck", "weakDestroy", "unownedFree", "dealloc"}
       => src[t] = {} /\ dst[t] = {}
  /\ op[t] \in {"retain", "unownedRetain"} =>
       src[t] = {} /\ dst[t] # {} /\ Holding(dst[t], "empty")
  /\ op[t] \in {"tryPin", "tryRetain", "weakLoad", "unownedRetainStrong", "weakInit", "weakTake"}
       => src[t] = {} /\ One(dst[t]) /\ Holding(dst[t], "empty")
  /\ op[t] = "weakAssign" => src[t] = {} /\ One(dst[t]) /\ Holding(dst[t], "weak")
  /\ op[t] = "weakCopy" =>
       /\ src[t] = {} /\ One(dst[t])
       /\ \A v \in dst[t] : ref[v] \in {"empty", "weak"} /\ wref[v] = Null
  /\ op[t] \in {"release", "fromOne"} =>
       src[t] # {} /\ dst[t] = {} /\ Holding(src[t], "strong")
  /\ op[t] = "fromOne" => One(src[t])
  /\ op[t] = "unpin" => One(src[t]) /\ dst[t] = {} /\ Holding(src[t], "pinned")
  /\ op[t] = "unownedRelease" =>
       src[t] # {} /\ dst[t] = {} /\ Holding(src[t], "unowned")
  /\ op[t] = "unownedDrop" =>
       One(src[t]) /\ dst[t] = {} /\ Holding(src[t], "unowned")
  /\ op[t] = "retainStrongAndRelease" =>
       One(src[t]) /\ One(dst[t]) /\ Holding(src[t], "unowned") /\ Holding(dst[t], "empty")
  /\ op[t] \in {"weakCopyAssign", "weakTakeAssign"} =>
       /\ One(src[t]) /\ One(dst[t]) /\ Holding(src[t], "weak") /\ Holding(dst[t], "weak")
       /\ \A v \in dst[t] : wref[v] = Null

-----------------------------------------------------------------------------
(* Where a thread can be in an operation.                                  *)

FormOps == {"weakInit", "weakAssign"}

EntryOps == {"weakLoad", "weakTake", "weakDestroy", "weakCopyAssign",
             "weakTakeAssign", "weakCopy"}

Placed(t) ==
  /\ op[t] = "none" <=> pc[t] = "idle"
  /\ pc[t] \in {"preflight", "install"} => op[t] \in FormOps \cup {"unownedRetain"}
  /\ pc[t] = "check" => op[t] \in FormOps \cup {"weakCopy"}
  /\ pc[t] = "free" => op[t] \in {"dealloc", "unownedFree"}
  /\ pc[t] = "delete" => op[t] \in WeakDec
  /\ pc[t] \in {"idle", "preflight", "free"} => loc[t] = Inline
  /\ pc[t] \in AtWord \cup {"check", "delete"} => loc[t] \in {Inline, Home}
  /\ \/ op[t] \in EntryOps \cup {"unownedFree"} /\ pc[t] \in AtWord \cup {"check", "delete"}
     \/ op[t] \in FormOps /\ pc[t] \in AtWord \cup {"check"}
     => loc[t] = Home /\ Home # Inline
  /\ op[t] \in WeakDec => pc[t] \in AtWord \cup {"delete", "free"}
  /\ op[t] = "dealloc" => pc[t] \in {"load", "cas", "free"}
  /\ pc[t] = "install" => loc[t] \in Entry \ {Home} /\ alloc[loc[t]] = "live"
  /\ pc[t] = "install" /\ op[t] \in FormOps /\ old[t].side = Null => ~old[t].deiniting
  /\ old[t].side # Null =>
       pc[t] \in {"cas", "store", "install"} /\ old[t].side = Home
       /\ (pc[t] # "install" => loc[t] = Inline)

\* The thread has seen the object alive and holds it.
Steady(t) ==
  \/ op[t] = "isUnique"
  \/ op[t] \in FormOps /\ pc[t] \in {"install", "load", "nload", "cas", "store"}

\* What the caller of an operation holds until the operation is over.
Relies(t) ==
  /\ op[t] \in {"retain", "tryPin", "weakTake"} \cup FormOps => HoldsStrong(t)
  /\ op[t] \in {"tryRetain", "unownedRetain"} => HoldsObject(t)
  /\ op[t] \in {"unownedRetainStrong", "unownedCheck"} => Owns(t, {"unowned"}) # {}
  /\ Steady(t) => Owns(t, {"strong", "pinned"}) # {} /\ deinitBy = Null
  /\ op[t] = "unownedDrop" => Owns(t, {"strong"}) # {}
  /\ op[t] = "weakLoad" =>
       HoldsStrong(t) \/ \E v \in Slot : owner[v] = t /\ wref[v] # Null
  /\ op[t] = "weakCopy" => \E v \in Slot : owner[v] = t /\ wref[v] # Null

\* Loads and stores that are not atomic are those of the only thread that
\* knows the object.
Alone(t) ==
  /\ pc[t] \in {"nload", "store"} \/ op[t] = "fromOne" => Exclusive(t)
  /\ pc[t] = "store" => old[t] = mem[loc[t]]
  /\ op[t] = "fromOne" => deinitBy = Null /\ Strong = src[t]

Local(t) == Fits(t) /\ Placed(t) /\ Relies(t) /\ Alone(t)

-----------------------------------------------------------------------------
(* The words.                                                              *)

StrongExact ==
  Cardinality(Strong) = Bits.strong + (IF Bits.deiniting THEN 0 ELSE 1)

UnownedExact ==
  Home # Inline \/ alloc[Inline] = "live" =>
    Bits.unowned = Cardinality(Unowned) + (IF StrongShare THEN 1 ELSE 0)

WeakExact ==
  Home # Inline =>
    Bits.weak = Cardinality(WeakSlots) + Cardinality(WeakCarriers)
                + (IF Bits.unowned > 0 THEN 1 ELSE 0)

\* The object is deinitialised by one thread, which alone can still use self.
Deinit ==
  /\ deinitBy # Null => Bits.deiniting
  /\ Bits.deiniting => \A v \in Strong : owner[v] = deinitBy
  /\ \A t \in Thread : op[t] = "dealloc" => Bits.deiniting /\ deinitBy = Null
  /\ \A t, u \in Thread : op[t] = "dealloc" /\ op[u] = "dealloc" => t = u

Pinned == {v \in Slot : ref[v] = "pinned"}

PinExact ==
  /\ Bits.pinned <=> Pinned # {}
  /\ \A v, w \in Pinned : v = w

-----------------------------------------------------------------------------
(* The allocations.                                                        *)

Freeing(t) == op[t] = "unownedFree"

\* The object is freed by one thread, when no unowned count is left.
FreeObject ==
  /\ \A t \in Thread : Freeing(t) => Bits.unowned = 0 /\ ~StrongShare
  /\ \A t, u \in Thread : Freeing(t) /\ Freeing(u) => t = u
  /\ \A t \in Thread : op[t] = "dealloc" /\ pc[t] = "free" =>
       Home = Inline /\ Bits.unowned = 1

\* The entry is deleted by one thread, when no weak count is left.
FreeEntry ==
  /\ \A t \in Thread : pc[t] = "delete" => Bits.weak = 0
  /\ \A t, u \in Thread : pc[t] = "delete" /\ pc[u] = "delete" => t = u

ObjectHeld == StrongShare \/ Unowned # {} \/ \E t \in Thread : Freeing(t)

EntryHeld == Bits.weak > 0 \/ \E t \in Thread : pc[t] = "delete"

ObjectAllocated == alloc[Inline] = "live" <=> ObjectHeld

EntryAllocated ==
  Home # Inline => alloc[Home] # "none" /\ (alloc[Home] = "live" <=> EntryHeld)

\* An entry is the object's, or private to the thread that may install it.
Entries ==
  /\ \A e \in Entry : mem[e].side = Null
  /\ \A e \in Entry : alloc[e] = "live" =>
       e = Home \/ \E t \in Thread : loc[t] = e /\ pc[t] \in {"install", "aborted"}
  /\ \A t, u \in Thread : pc[t] = "install" /\ pc[u] = "install" /\ loc[t] = loc[u] => t = u
  /\ abort = "none" => \A t \in Thread : pc[t] # "aborted"

IInv ==
  /\ Slots /\ (\A t \in Thread : Local(t))
  /\ StrongExact /\ UnownedExact /\ WeakExact /\ PinExact /\ Deinit
  /\ FreeObject /\ FreeEntry /\ ObjectAllocated /\ EntryAllocated /\ Entries
=============================================================================
