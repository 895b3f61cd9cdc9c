--------------------------- MODULE RefCountProofs ---------------------------
(***************************************************************************)
(* Proofs about RefCount for every set of threads, slots and entries and   *)
(* every width of the counts.                                              *)
(*                                                                         *)
(* First TypeOK, for every program.  Then, for programs that keep the two  *)
(* rules in Disciplined, that IInv of RefCountInvariant is inductive: one  *)
(* lemma per entry point and one per step of the runtime, whose names end  *)
(* in Kept.  From it the counts, memory safety, the assertions and the     *)
(* absence of leaks; then that each action is a step of ObjectLifecycle    *)
(* (lemmas that end in Lifecycle); then what isUniquelyReferenced says.    *)
(***************************************************************************)
EXTENDS RefCountInvariant, FiniteSetTheorems, TLAPS

\* The amounts by which operations change the counts are numbers.
LEMMA AmountsAreNumbers ==
  ASSUME TypeOK, NEW t \in Thread
  PROVE  Inc(t) \in Nat /\ Dec(t) \in Nat
<1>1. dst[t] \subseteq Slot /\ src[t] \subseteq Slot
  BY DEF TypeOK, ThreadType
<1>2. IsFiniteSet(dst[t]) /\ IsFiniteSet(src[t])
  BY <1>1, FS_Subset, SetsAssumption
<1>3. Cardinality(dst[t]) \in Nat /\ Cardinality(src[t]) \in Nat
  BY <1>2, FS_CardinalityType
<1> QED
  BY <1>3 DEF Inc, Dec

\* The words that operations build are words.
LEMMA WordsAreWords ==
  /\ \A s, u \in Nat : RefCountBits(s, u) \in Word
  /\ \A e \in Entry : SideTablePointer(e) \in Word
  /\ \A w \in Word : SideTableRefCountBits(w) \in Word
<1>1. \A s, u \in Nat : RefCountBits(s, u) \in Word
  BY DEF RefCountBits, Word
<1>2. \A e \in Entry : SideTablePointer(e) \in Word
  <2>1. \A w \in Word, e \in Entry : [w EXCEPT !.side = e] \in Word
    BY DEF Word
  <2> QED
    BY <1>1, <2>1 DEF SideTablePointer
<1>3. \A w \in Word : SideTableRefCountBits(w) \in Word
  BY DEF SideTableRefCountBits, Word
<1> QED
  BY <1>1, <1>2, <1>3

\* A new object has the right types.
LEMMA InitTypeOK == Init => TypeOK
<1> SUFFICES ASSUME Init PROVE TypeOK
  OBVIOUS
<1>1. PICK t \in Thread, v \in Slot :
        /\ mem = [l \in Loc |-> RefCountBits(0, IF l = Inline THEN 1 ELSE 0)]
        /\ alloc = [l \in Loc |-> IF l = Inline THEN "live" ELSE "none"]
        /\ pc = [u \in Thread |-> "idle"]
        /\ op = [u \in Thread |-> "none"]
        /\ loc = [u \in Thread |-> Inline]
        /\ old = [u \in Thread |-> RefCountBits(0, 0)]
        /\ src = [u \in Thread |-> {}]
        /\ dst = [u \in Thread |-> {}]
        /\ ref = [w \in Slot |-> IF w = v THEN "strong" ELSE "empty"]
        /\ owner = [w \in Slot |-> IF w = v THEN t ELSE Null]
        /\ wref = [w \in Slot |-> Null]
        /\ deinitBy = Null
        /\ abort = "none"
  BY DEF Init
<1>2. mem \in [Loc -> Word] /\ old \in [Thread -> Word]
  BY <1>1, WordsAreWords
<1> QED
  BY <1>1, <1>2 DEF TypeOK, MemoryType, ThreadType, SlotType, Stages, Ops, Loc

-----------------------------------------------------------------------------
(* What the building blocks of the actions do to the types.                *)

\* The ways a thread moves keep the types of what it has.
LEMMA EnterType ==
  ASSUME TypeOK, NEW t \in Thread, NEW o \in Ops, NEW p \in Stages, NEW l \in Loc,
         NEW S \in SUBSET Slot, NEW D \in SUBSET Slot, Enter(t, o, p, l, S, D)
  PROVE  /\ MemoryType' /\ ThreadType' /\ owner' \in [Slot -> Thread \cup {Null}]
         /\ deinitBy' = deinitBy /\ abort' = abort
<1>1. MemoryType'
  BY DEF TypeOK, MemoryType, Enter
<1>2. ThreadType'
  BY DEF TypeOK, ThreadType, Enter
<1> QED
  BY <1>1, <1>2 DEF TypeOK, SlotType, Enter

\* Leaving the runtime.
LEMMA LeaveType ==
  ASSUME TypeOK, NEW t \in Thread, Leave(t)
  PROVE  ThreadType'
<1>1. RefCountBits(0, 0) \in Word
  BY WordsAreWords
<1> QED
  BY <1>1 DEF TypeOK, ThreadType, Leave, Stages, Ops, Loc

\* Ending the program.
LEMMA AbortType ==
  ASSUME TypeOK, NEW t \in Thread, NEW reason, Abort(t, reason)
  PROVE  ThreadType'
BY DEF TypeOK, ThreadType, Abort, Stages

\* Going on to another stage, operation or location.
LEMMA ProceedType ==
  ASSUME TypeOK, NEW t \in Thread, NEW o \in Ops, NEW p \in Stages, NEW l \in Loc,
         Proceed(t, o, p, l)
  PROVE  /\ pc' \in [Thread -> Stages] /\ op' \in [Thread -> Ops]
         /\ loc' \in [Thread -> Loc] /\ old' \in [Thread -> Word]
<1>1. RefCountBits(0, 0) \in Word
  BY WordsAreWords
<1> QED
  BY <1>1 DEF TypeOK, ThreadType, Proceed

\* Variables take over what an operation consumed or made.
LEMMA SettleType ==
  ASSUME TypeOK, NEW t \in Thread,
         NEW k \in {"empty", "strong", "pinned", "unowned", "weak"},
         Settle(t, k), wref' = wref
  PROVE  SlotType'
BY DEF TypeOK, SlotType, Settle

\* A compare-exchange that succeeds stores a word.
LEMMA CommitType ==
  ASSUME TypeOK, NEW t \in Thread, NEW O, NEW w \in Word, Commit(t, O, w),
         alloc' = alloc
  PROVE  MemoryType' /\ Decides(t) /\ op[t] \in O /\ old[t].side = Null
BY DEF TypeOK, MemoryType, ThreadType, Commit, Attempts

\* A weak variable gets an entry, because weak counts are only in entries.
LEMMA StoreWeakType ==
  ASSUME TypeOK, NEW t \in Thread, NEW e \in Entry \cup {Null}, StoreWeak(t, e)
  PROVE  ThreadType' /\ SlotType'
<1>1. PICK d \in dst[t] :
        /\ ref' = [ref EXCEPT ![d] = "weak"]
        /\ wref' = [wref EXCEPT ![d] = e]
        /\ IF op[t] = "weakAssign" /\ wref[d] # Null
           THEN /\ Proceed(t, "weakDestroy", "load", wref[d])
                /\ dst' = [dst EXCEPT ![t] = {}]
                /\ UNCHANGED src
           ELSE Leave(t)
        /\ UNCHANGED owner
  BY DEF StoreWeak
<1>2. d \in Slot
  BY DEF TypeOK, ThreadType
<1>3. SlotType'
  BY <1>1, <1>2 DEF TypeOK, SlotType
<1>4. CASE op[t] = "weakAssign" /\ wref[d] # Null
  <2>1. wref[d] \in Loc /\ "weakDestroy" \in Ops /\ "load" \in Stages
    BY <1>2, <1>4 DEF TypeOK, SlotType, Loc, Ops, WeakDec, Stages
  <2>2. src' = src /\ dst' = [dst EXCEPT ![t] = {}]
    BY <1>1, <1>4
  <2> QED
    BY <1>1, <1>3, <1>4, <2>1, <2>2, ProceedType DEF TypeOK, ThreadType
<1>5. CASE ~(op[t] = "weakAssign" /\ wref[d] # Null)
  BY <1>1, <1>3, <1>5, LeaveType
<1> QED
  BY <1>4, <1>5

\* Going on in the side table.
LEMMA UseSideTableType ==
  ASSUME TypeOK, NEW t \in Thread, NEW e \in Entry \cup {Null}, UseSideTable(t, e)
  PROVE  /\ ThreadType' /\ SlotType'
         /\ abort' \in {"none", "retainUnowned", "retainOverflow",
                        "unownedOverflow", "weakOverflow"}
<1>1. CASE e # Null
  <2>1. e \in Loc /\ op[t] \in Ops /\ "load" \in Stages /\ "check" \in Stages
    BY <1>1 DEF TypeOK, ThreadType, Loc, Stages
  <2>2. /\ Proceed(t, op[t], IF op[t] = "unownedRetain" THEN "load" ELSE "check", e)
        /\ UNCHANGED <<src, dst, slotVars, abort>>
    BY <1>1 DEF UseSideTable
  <2> QED
    BY <2>1, <2>2, ProceedType DEF TypeOK, ThreadType, SlotType, slotVars
<1>2. CASE e = Null /\ op[t] = "unownedRetain"
  <2>1. Abort(t, "unownedOverflow") /\ UNCHANGED slotVars
    BY <1>2 DEF UseSideTable
  <2>2. abort' = "unownedOverflow"
    BY <2>1 DEF Abort
  <2> QED
    BY <2>1, <2>2, AbortType DEF TypeOK, SlotType, slotVars
<1>3. CASE e = Null /\ op[t] # "unownedRetain"
  <2>1. StoreWeak(t, Null) /\ UNCHANGED abort
    BY <1>3 DEF UseSideTable
  <2> QED
    BY <2>1, StoreWeakType DEF TypeOK
<1> QED
  BY <1>1, <1>2, <1>3

\* Moving a weak reference between variables.
LEMMA MoveType ==
  ASSUME TypeOK, NEW t \in Thread, NEW s \in Slot, NEW d \in Slot, Move(t, s, d)
  PROVE  SlotType'
BY DEF TypeOK, SlotType, Move

\* What follows a weak release.
LEMMA AfterDecrementWeakType ==
  ASSUME TypeOK, NEW t \in Thread, AfterDecrementWeak(t)
  PROVE  ThreadType' /\ SlotType'
<1> USE DEF TypeOK
<1>0. /\ {"weakLoad", "unownedFree", "weakCopy"} \subseteq Ops
      /\ {"load", "free", "check"} \subseteq Stages /\ Inline \in Loc
      /\ loc[t] \in Loc /\ src[t] \subseteq Slot /\ dst[t] \subseteq Slot
  BY DEF Ops, TryOps, WeakDec, Stages, Loc, ThreadType
<1>1. CASE op[t] = "weakDestroy" /\ Leave(t) /\ UNCHANGED slotVars
  BY <1>1, LeaveType DEF SlotType, slotVars
<1>2. CASE /\ Proceed(t, "weakLoad", "load", loc[t])
           /\ UNCHANGED <<src, dst, slotVars>>
  BY <1>0, <1>2, ProceedType DEF ThreadType, SlotType, slotVars
<1>3. CASE /\ op[t] = "unownedFree"
           /\ Proceed(t, op[t], "free", Inline)
           /\ UNCHANGED <<src, dst, slotVars>>
  BY <1>0, <1>3, ProceedType DEF ThreadType, SlotType, slotVars
<1>4. ASSUME NEW s \in src[t],
             IF wref[s] = Null
             THEN Leave(t)
             ELSE /\ Proceed(t, "weakCopy", "check", wref[s])
                  /\ src' = [src EXCEPT ![t] = {}]
                  /\ UNCHANGED dst,
             UNCHANGED slotVars
      PROVE  ThreadType' /\ SlotType'
  <2>1. SlotType'
    BY <1>4 DEF SlotType, slotVars
  <2>2. CASE wref[s] = Null
    BY <1>4, <2>1, <2>2, LeaveType
  <2>3. CASE wref[s] # Null
    <3>1. wref[s] \in Loc
      BY <1>0, <2>3 DEF SlotType, Loc
    <3> QED
      BY <1>0, <1>4, <2>1, <2>3, <3>1, ProceedType DEF ThreadType
  <2> QED
    BY <2>2, <2>3
<1>5. ASSUME NEW s \in src[t], NEW d \in dst[t], Move(t, s, d), Leave(t)
      PROVE  ThreadType' /\ SlotType'
  BY <1>0, <1>5, MoveType, LeaveType
<1> QED
  BY <1>1, <1>2, <1>3, <1>4, <1>5 DEF AfterDecrementWeak

-----------------------------------------------------------------------------
(* Every action keeps the types.                                           *)

\* A call that starts at the header word keeps the types.
LEMMA CallType ==
  ASSUME TypeOK, NEW t \in Thread, NEW o \in Ops, NEW S \in SUBSET Slot,
         NEW D \in SUBSET Slot, Call(t, o, S, D)
  PROVE  TypeOK'
<1>1. {"load", "nload"} \subseteq Stages /\ Inline \in Loc
  BY DEF Stages, Loc
<1>2. PICK p \in {"load", "nload"} : Enter(t, o, p, Inline, S, D)
  BY DEF Call
<1>3. UNCHANGED <<ref, wref>>
  BY DEF Call
<1> QED
  BY <1>1, <1>2, <1>3, EnterType DEF TypeOK, SlotType

\* A call keeps the types.
LEMMA EnterTypeOK ==
  ASSUME TypeOK, NEW t \in Thread, NEW o \in Ops, NEW p \in Stages, NEW l \in Loc,
         NEW S \in SUBSET Slot, NEW D \in SUBSET Slot, Enter(t, o, p, l, S, D),
         ref' = ref, wref' \in [Slot -> Entry \cup {Null}]
  PROVE  TypeOK'
BY EnterType DEF TypeOK, SlotType

\* Every entry point keeps the types.
LEMMA EntryPointType ==
  ASSUME TypeOK, NEW t \in Thread, EntryPoint(t)
  PROVE  TypeOK'
<1>0. /\ \A K : Owns(t, K) \subseteq Slot
      /\ Unused \subseteq Slot
      /\ \A S \in SUBSET Slot : Batches(S) \subseteq SUBSET Slot
      /\ {"load", "nload", "check", "preflight"} \subseteq Stages /\ Inline \in Loc
      /\ \A v \in Slot : wref[v] \in Entry \cup {Null} /\ (wref[v] # Null => wref[v] \in Loc)
  BY DEF Owns, Unused, Batches, Stages, Loc, TypeOK, SlotType
<1>a. {"retain", "release", "unpin", "tryPin", "unownedRetain", "unownedCheck",
       "fromOne", "isUnique",
       "weakInit", "weakAssign", "weakCopy", "weakDestroy", "weakTake",
       "weakCopyAssign", "weakTakeAssign", "unownedRelease", "weakLoad", "tryRetain",
       "unownedRetainStrong", "retainStrongAndRelease"} \subseteq Ops
  BY DEF Ops, TryOps, StrongDec, UnownedDec, WeakDec, Queries
<1>1. CASE swift_retain_n(t)
  BY <1>0, <1>a, <1>1, CallType DEF swift_retain_n
<1>2. CASE swift_release_n(t)
  BY <1>0, <1>a, <1>2, CallType DEF swift_release_n
<1>3. CASE swift_tryPin(t)
  BY <1>0, <1>a, <1>3, CallType DEF swift_tryPin
<1>4. CASE swift_unpin(t)
  BY <1>0, <1>a, <1>4, CallType DEF swift_unpin
<1>5. CASE swift_tryRetain(t)
  BY <1>0, <1>a, <1>5, CallType DEF swift_tryRetain
<1>6. CASE swift_unownedRetain_n(t)
  BY <1>0, <1>a, <1>6, CallType DEF swift_unownedRetain_n
<1>7. CASE swift_unownedRelease_n(t)
  BY <1>0, <1>a, <1>7, CallType DEF swift_unownedRelease_n
<1>8. CASE swift_unownedRetainStrong(t)
  BY <1>0, <1>a, <1>8, CallType DEF swift_unownedRetainStrong
<1>9. CASE swift_unownedRetainStrongAndRelease(t)
  BY <1>0, <1>a, <1>9, CallType DEF swift_unownedRetainStrongAndRelease
<1>10. CASE swift_unownedCheck(t)
  BY <1>0, <1>a, <1>10, CallType DEF swift_unownedCheck
<1>11. CASE swift_weakInit(t)
  <2>1. PICK v \in Unused : /\ Enter(t, "weakInit", "preflight", Inline, {}, {v})
                           /\ UNCHANGED <<ref, wref>>
    BY <1>11 DEF swift_weakInit
  <2>2. /\ {v} \in SUBSET Slot /\ {} \in SUBSET Slot
        /\ "weakInit" \in Ops /\ "preflight" \in Stages /\ Inline \in Loc
    BY <1>0, <1>a, <2>1
  <2>3. wref' \in [Slot -> Entry \cup {Null}]
    BY <1>0, <2>1 DEF TypeOK, SlotType
  <2> QED
    BY <2>1, <2>2, <2>3, EnterTypeOK
<1>12. CASE swift_weakAssign(t)
  <2>1. PICK v \in Owns(t, {"weak"}) :
          \/ /\ Enter(t, "weakAssign", "preflight", Inline, {}, {v})
             /\ UNCHANGED <<ref, wref>>
          \/ /\ wref[v] # Null
             /\ Enter(t, "weakDestroy", "load", wref[v], {}, {})
             /\ wref' = [wref EXCEPT ![v] = Null]
             /\ UNCHANGED ref
    BY <1>12 DEF swift_weakAssign
  <2>2. /\ {v} \in SUBSET Slot /\ {} \in SUBSET Slot /\ Inline \in Loc
        /\ {"weakAssign", "weakDestroy"} \subseteq Ops /\ {"preflight", "load"} \subseteq Stages
        /\ wref[v] # Null => wref[v] \in Loc
    BY <1>0, <1>a, <2>1
  <2>3. ref' = ref /\ wref' \in [Slot -> Entry \cup {Null}]
    BY <1>0, <2>1 DEF TypeOK, SlotType
  <2>4. CASE Enter(t, "weakAssign", "preflight", Inline, {}, {v})
    BY <2>2, <2>3, <2>4, EnterTypeOK
  <2>5. CASE wref[v] # Null /\ Enter(t, "weakDestroy", "load", wref[v], {}, {})
    BY <2>2, <2>3, <2>5, EnterTypeOK
  <2> QED
    BY <2>1, <2>4, <2>5
<1>13. CASE swift_weakLoadStrong(t)
  <2>1. PICK v \in Owns(t, {"weak"}), d \in Unused :
          /\ wref[v] # Null
          /\ Enter(t, "weakLoad", "load", wref[v], {}, {d})
          /\ UNCHANGED <<ref, wref>>
    BY <1>13 DEF swift_weakLoadStrong
  <2>2. /\ {d} \in SUBSET Slot /\ {} \in SUBSET Slot
        /\ "weakLoad" \in Ops /\ "load" \in Stages /\ wref[v] \in Loc
    BY <1>0, <1>a, <2>1
  <2>3. wref' \in [Slot -> Entry \cup {Null}]
    BY <1>0, <2>1 DEF TypeOK, SlotType
  <2> QED
    BY <2>1, <2>2, <2>3, EnterTypeOK
<1>14. CASE swift_weakTakeStrong(t)
  <2>1. PICK v \in Owns(t, {"weak"}), d \in Unused :
          /\ wref[v] # Null
          /\ Enter(t, "weakTake", "load", wref[v], {}, {d})
          /\ wref' = [wref EXCEPT ![v] = Null]
          /\ UNCHANGED ref
    BY <1>14 DEF swift_weakTakeStrong
  <2>2. /\ {d} \in SUBSET Slot /\ {} \in SUBSET Slot
        /\ "weakTake" \in Ops /\ "load" \in Stages /\ wref[v] \in Loc
    BY <1>0, <1>a, <2>1
  <2>3. wref' \in [Slot -> Entry \cup {Null}]
    BY <1>0, <2>1 DEF TypeOK, SlotType
  <2> QED
    BY <2>1, <2>2, <2>3, EnterTypeOK
<1>15. CASE swift_weakDestroy(t)
  <2>1. PICK v \in Owns(t, {"weak"}) :
          /\ ref' = [ref EXCEPT ![v] = "empty"]
          /\ owner' = [owner EXCEPT ![v] = Null]
          /\ wref' = [wref EXCEPT ![v] = Null]
          /\ IF wref[v] = Null
             THEN UNCHANGED <<pc, op, loc, old>>
             ELSE Proceed(t, "weakDestroy", "load", wref[v])
          /\ UNCHANGED <<mem, alloc, src, dst, deinitBy, abort>>
    BY <1>15 DEF swift_weakDestroy
  <2>2. SlotType' /\ MemoryType'
    BY <2>1 DEF TypeOK, SlotType, MemoryType
  <2>3. ThreadType'
    <3>1. CASE wref[v] = Null
      BY <2>1, <3>1 DEF TypeOK, ThreadType
    <3>2. CASE wref[v] # Null
      BY <1>0, <1>a, <2>1, <3>2, ProceedType DEF TypeOK, ThreadType
    <3> QED
      BY <3>1, <3>2
  <2> QED
    BY <2>1, <2>2, <2>3 DEF TypeOK
<1>16. CASE swift_weakCopyInit(t)
  <2>1. PICK s \in Owns(t, {"weak"}), d \in Unused :
          IF wref[s] = Null
          THEN /\ ref' = [ref EXCEPT ![d] = "weak"]
               /\ owner' = [owner EXCEPT ![d] = t]
               /\ UNCHANGED <<mem, alloc, threadVars, wref, deinitBy, abort>>
          ELSE /\ Enter(t, "weakCopy", "check", wref[s], {}, {d})
               /\ UNCHANGED <<ref, wref>>
    BY <1>16 DEF swift_weakCopyInit
  <2>2. CASE wref[s] = Null
    BY <1>0, <2>1, <2>2 DEF TypeOK, MemoryType, ThreadType, SlotType, threadVars
  <2>3. CASE wref[s] # Null
    <3>1. /\ {d} \in SUBSET Slot /\ {} \in SUBSET Slot
          /\ "weakCopy" \in Ops /\ "check" \in Stages /\ wref[s] \in Loc
      BY <1>0, <1>a, <2>1, <2>3
    <3>2. wref' \in [Slot -> Entry \cup {Null}]
      BY <1>0, <2>1, <2>3 DEF TypeOK, SlotType
    <3> QED
      BY <2>1, <2>3, <3>1, <3>2, EnterTypeOK
  <2> QED
    BY <2>2, <2>3
<1>17. CASE swift_weakTakeInit(t)
  <2>1. PICK s \in Owns(t, {"weak"}), d \in Unused :
          /\ Move(t, s, d)
          /\ UNCHANGED <<mem, alloc, threadVars, deinitBy, abort>>
    BY <1>17 DEF swift_weakTakeInit
  <2> QED
    BY <1>0, <2>1, MoveType DEF TypeOK, MemoryType, ThreadType, threadVars
<1>18. CASE swift_weakCopyAssign(t)
  <2>1. PICK s \in Owns(t, {"weak"}), d \in Owns(t, {"weak"}) :
          /\ wref[d] # Null \/ wref[s] # Null
          /\ IF wref[d] # Null
             THEN Enter(t, "weakCopyAssign", "load", wref[d], {s}, {d})
             ELSE Enter(t, "weakCopy", "check", wref[s], {}, {d})
          /\ wref' = [wref EXCEPT ![d] = Null]
          /\ UNCHANGED ref
    BY <1>18 DEF swift_weakCopyAssign
  <2>2. CASE wref[d] # Null
    <3>1. /\ {s} \in SUBSET Slot /\ {d} \in SUBSET Slot
          /\ "weakCopyAssign" \in Ops /\ "load" \in Stages /\ wref[d] \in Loc
      BY <1>0, <1>a, <2>1, <2>2
    <3>2. wref' \in [Slot -> Entry \cup {Null}]
      BY <1>0, <2>1, <2>2 DEF TypeOK, SlotType
    <3> QED
      BY <2>1, <2>2, <3>1, <3>2, EnterTypeOK
  <2>3. CASE wref[d] = Null
    <3>1. /\ {} \in SUBSET Slot /\ {d} \in SUBSET Slot
          /\ "weakCopy" \in Ops /\ "check" \in Stages /\ wref[s] \in Loc
      BY <1>0, <1>a, <2>1, <2>3
    <3>2. wref' \in [Slot -> Entry \cup {Null}]
      BY <1>0, <2>1, <2>3 DEF TypeOK, SlotType
    <3> QED
      BY <2>1, <2>3, <3>1, <3>2, EnterTypeOK
  <2> QED
    BY <2>2, <2>3
<1>19. CASE swift_weakTakeAssign(t)
  <2>1. PICK s \in Owns(t, {"weak"}), d \in Owns(t, {"weak"}) :
          IF wref[d] # Null
          THEN /\ Enter(t, "weakTakeAssign", "load", wref[d], {s}, {d})
               /\ wref' = [wref EXCEPT ![d] = Null]
               /\ UNCHANGED ref
          ELSE /\ Move(t, s, d)
               /\ UNCHANGED <<mem, alloc, threadVars, deinitBy, abort>>
    BY <1>19 DEF swift_weakTakeAssign
  <2>2. CASE wref[d] # Null
    <3>1. /\ {s} \in SUBSET Slot /\ {d} \in SUBSET Slot
          /\ "weakTakeAssign" \in Ops /\ "load" \in Stages /\ wref[d] \in Loc
      BY <1>0, <1>a, <2>1, <2>2
    <3>2. wref' \in [Slot -> Entry \cup {Null}]
      BY <1>0, <2>1, <2>2 DEF TypeOK, SlotType
    <3> QED
      BY <2>1, <2>2, <3>1, <3>2, EnterTypeOK
  <2>3. CASE wref[d] = Null
    BY <1>0, <2>1, <2>3, MoveType DEF TypeOK, MemoryType, ThreadType, threadVars
  <2> QED
    BY <2>2, <2>3
<1>20. CASE swift_setDeallocating(t)
  <2>1. PICK v \in Owns(t, {"strong"}) : /\ Enter(t, "fromOne", "nload", Inline, {v}, {})
                                        /\ UNCHANGED <<ref, wref>>
    BY <1>20 DEF swift_setDeallocating
  <2>2. /\ {v} \in SUBSET Slot /\ {} \in SUBSET Slot
        /\ "fromOne" \in Ops /\ "nload" \in Stages /\ Inline \in Loc
    BY <1>0, <1>a, <2>1
  <2> QED
    BY <2>1, <2>2, EnterTypeOK DEF TypeOK, SlotType
<1>21. CASE swift_isUniquelyReferenced_native(t)
  BY <1>0, <1>a, <1>21, CallType DEF swift_isUniquelyReferenced_native
<1> QED
  BY <1>1, <1>2, <1>3, <1>4, <1>5, <1>6, <1>7, <1>8, <1>9, <1>10, <1>11, <1>12,
     <1>13, <1>14, <1>15, <1>16, <1>17, <1>18, <1>19, <1>20, <1>21 DEF EntryPoint

\* Steps of the runtime, grouped as in RefCount: reads and slow paths first.
LEMMA ReadType ==
  ASSUME TypeOK, NEW t \in Thread,
         \/ Load(t) \/ ForwardToSideTable(t) \/ Refuse(t) \/ Query(t)
         \/ Overflow(t) \/ Retry(t)
  PROVE  TypeOK'
<1>0. loc[t] \in Loc /\ op[t] \in Ops /\ {"load", "nload", "cas", "store", "preflight"} \subseteq Stages
      /\ Inline \in Loc /\ old[t] \in Word
  BY DEF TypeOK, ThreadType, Stages, Loc
<1>1. CASE Load(t)
  <2>1. PICK w \in Readable(loc[t]) : old' = [old EXCEPT ![t] = w]
    BY <1>1 DEF Load
  <2>2. RefCountBits(0, 1) \in Word
    BY WordsAreWords
  <2>3. w \in Word
    BY <1>0, <2>2 DEF Readable, TypeOK, MemoryType
  <2>4. ThreadType'
    BY <1>0, <1>1, <2>1, <2>3 DEF Load, TypeOK, ThreadType
  <2> QED
    BY <1>1, <2>4 DEF Load, TypeOK, MemoryType, SlotType, slotVars
<1>2. CASE ForwardToSideTable(t)
  <2>1. old[t].side \in Loc
    BY <1>0, <1>2 DEF ForwardToSideTable, Loc, Word
  <2>2. PICK p \in {"load", "nload"} : Proceed(t, op[t], p, old[t].side)
    BY <1>2 DEF ForwardToSideTable, Again
  <2>3. ThreadType'
    BY <1>0, <1>2, <2>1, <2>2, ProceedType DEF ForwardToSideTable, TypeOK, ThreadType
  <2> QED
    BY <1>2, <2>3 DEF ForwardToSideTable, TypeOK, MemoryType, SlotType, slotVars
<1>3. CASE Refuse(t)
  <2>1. CASE Abort(t, "retainUnowned") /\ UNCHANGED owner
    <3>1. ThreadType' /\ abort' = "retainUnowned"
      BY <2>1, AbortType DEF Abort
    <3> QED
      BY <1>3, <2>1, <3>1 DEF Refuse, TypeOK, MemoryType, SlotType
  <2>2. CASE /\ owner' = [v \in Slot |-> IF v \in dst[t] THEN Null ELSE owner[v]]
             /\ Leave(t)
             /\ UNCHANGED abort
    <3>1. ThreadType'
      BY <2>2, LeaveType
    <3>2. SlotType' /\ MemoryType'
      BY <1>3, <2>2 DEF Refuse, TypeOK, SlotType, MemoryType
    <3> QED
      BY <1>3, <2>2, <3>1, <3>2 DEF Refuse, TypeOK
  <2> QED
    BY <1>3, <2>1, <2>2 DEF Refuse
<1>4. CASE Query(t)
  <2>1. ThreadType' /\ (abort' = abort \/ abort' = "retainUnowned")
    BY <1>4, LeaveType, AbortType DEF Query, Abort
  <2> QED
    BY <1>4, <2>1 DEF Query, TypeOK, SlotType, MemoryType, slotVars
<1>5. CASE Overflow(t)
  <2>1. MemoryType' /\ SlotType' /\ deinitBy' = deinitBy
    BY <1>5 DEF Overflow, TypeOK, SlotType, MemoryType, slotVars
  <2>2. CASE op[t] = "unownedRetain" /\ loc[t] = Inline
    <3>1. /\ Proceed(t, op[t], "preflight", Inline)
          /\ UNCHANGED <<dst, src, abort>>
      BY <1>5, <2>2 DEF Overflow
    <3> QED
      BY <1>0, <2>1, <3>1, ProceedType DEF TypeOK, ThreadType
  <2>3. CASE ~(op[t] = "unownedRetain" /\ loc[t] = Inline)
    <3>1. PICK reason \in {"retainOverflow", "unownedOverflow", "weakOverflow"} :
            Abort(t, reason)
      BY <1>5, <2>3 DEF Overflow
    <3>2. ThreadType' /\ abort' = reason
      BY <3>1, AbortType DEF Abort
    <3> QED
      BY <2>1, <3>2 DEF TypeOK
  <2> QED
    BY <2>2, <2>3
<1>6. CASE Retry(t)
  <2>1. ThreadType'
    BY <1>0, <1>6 DEF Retry, TypeOK, ThreadType, MemoryType
  <2> QED
    BY <1>6, <2>1 DEF Retry, TypeOK, MemoryType, SlotType, slotVars
<1> QED
  BY <1>1, <1>2, <1>3, <1>4, <1>5, <1>6

\* Strong and unowned counts.
LEMMA CountType ==
  ASSUME TypeOK, NEW t \in Thread,
         \/ IncrementStrong(t) \/ RetainStrongAndRelease(t) \/ DecrementStrong(t)
         \/ IncrementUnowned(t) \/ DecrementUnowned(t) \/ swift_slowDealloc(t)
  PROVE  TypeOK'
<1>0. /\ Inc(t) \in Nat /\ Dec(t) \in Nat /\ old[t] \in Word /\ loc[t] \in Loc
      /\ {"load", "nload", "free"} \subseteq Stages /\ Inline \in Loc
      /\ Again(t) \in {"load", "nload"}
      /\ {"unownedDrop", "unownedFree", "weakDestroy"} \subseteq Ops
  BY AmountsAreNumbers
     DEF TypeOK, ThreadType, Stages, Loc, Ops, UnownedDec, WeakDec, Again
<1>1. CASE IncrementStrong(t)
  <2>1. [old[t] EXCEPT !.strong = @ + Inc(t), !.pinned = @ \/ op[t] = "tryPin"] \in Word
    <3>1. \A w \in Word, a \in Nat, b \in BOOLEAN :
            [w EXCEPT !.strong = a, !.pinned = b] \in Word
      BY DEF Word
    <3>2. old[t].strong + Inc(t) \in Nat
      BY <1>0 DEF Word
    <3>3. (old[t].pinned \/ op[t] = "tryPin") \in BOOLEAN
      OBVIOUS
    <3> QED
      BY <1>0, <3>1, <3>2, <3>3
  <2>2. MemoryType'
    BY <1>1, <2>1, CommitType DEF IncrementStrong
  <2>3. SlotType'
    BY <1>1, SettleType DEF IncrementStrong
  <2>4. ThreadType'
    BY <1>1, LeaveType DEF IncrementStrong
  <2> QED
    BY <1>1, <2>2, <2>3, <2>4 DEF IncrementStrong, TypeOK
<1>2. CASE RetainStrongAndRelease(t)
  <2>1. [old[t] EXCEPT !.strong = @ + 1] \in Word
    BY <1>0 DEF Word
  <2>2. MemoryType'
    BY <1>2, <2>1, CommitType DEF RetainStrongAndRelease
  <2>3. SlotType'
    BY <1>2 DEF RetainStrongAndRelease, TypeOK, SlotType
  <2>4. Proceed(t, "unownedDrop", Again(t), Inline)
    BY <1>2 DEF RetainStrongAndRelease
  <2>5. ThreadType'
    BY <1>0, <1>2, <2>4, ProceedType DEF RetainStrongAndRelease, TypeOK, ThreadType
  <2> QED
    BY <1>2, <2>2, <2>3, <2>5 DEF RetainStrongAndRelease, TypeOK
<1>3. CASE DecrementStrong(t)
  <2> DEFINE unpinned == [old[t] EXCEPT !.pinned = @ /\ op[t] # "unpin"]
             new == IF Underflows(t)
                    THEN [unpinned EXCEPT !.strong = 0, !.deiniting = TRUE]
                    ELSE [unpinned EXCEPT !.strong = @ - Dec(t)]
  <2>1. unpinned \in Word /\ unpinned.strong = old[t].strong
    BY <1>0 DEF Word
  <2>2. new \in Word
    <3> HIDE DEF unpinned
    <3>1. old[t].strong \in Nat
      BY <1>0 DEF Word
    <3>2. CASE Underflows(t)
      BY <2>1, <3>2 DEF Word
    <3>3. CASE ~Underflows(t)
      <4>1. unpinned.strong - Dec(t) \in Nat
        BY <1>0, <2>1, <3>1, <3>3 DEF Underflows
      <4>2. [unpinned EXCEPT !.strong = @ - Dec(t)] \in Word
        BY <2>1, <4>1 DEF Word
      <4> QED
        BY <3>3, <4>2
    <3> QED
      BY <3>2, <3>3
  <2>3. Commit(t, StrongDec, new)
    BY <1>3 DEF DecrementStrong
  <2>4. MemoryType'
    <3> HIDE DEF new
    <3> QED
      BY <1>3, <2>2, <2>3, CommitType DEF DecrementStrong
  <2>5. SlotType'
    BY <1>3, SettleType DEF DecrementStrong
  <2>6. ThreadType'
    BY <1>3, LeaveType DEF DecrementStrong
  <2> QED
    BY <1>3, <2>4, <2>5, <2>6 DEF DecrementStrong, TypeOK
<1>4. CASE IncrementUnowned(t)
  <2>1. [old[t] EXCEPT !.unowned = @ + Inc(t)] \in Word
    BY <1>0 DEF Word
  <2>2. MemoryType'
    BY <1>4, <2>1, CommitType DEF IncrementUnowned
  <2>3. SlotType'
    BY <1>4, SettleType DEF IncrementUnowned
  <2>4. ThreadType'
    BY <1>4, LeaveType DEF IncrementUnowned
  <2> QED
    BY <1>4, <2>2, <2>3, <2>4 DEF IncrementUnowned, TypeOK
<1>5. CASE DecrementUnowned(t)
  <2>1. [old[t] EXCEPT !.unowned = @ - Dec(t)] \in Word
    BY <1>0 DEF Word
  <2>2. MemoryType'
    BY <1>5, <2>1, CommitType DEF DecrementUnowned
  <2>3. SlotType'
    BY <1>5, SettleType DEF DecrementUnowned
  <2>4. ThreadType'
    <3>1. CASE Leave(t)
      BY <3>1, LeaveType
    <3>2. CASE /\ Proceed(t, "unownedFree", "free", Inline)
               /\ src' = [src EXCEPT ![t] = {}]
               /\ UNCHANGED dst
      BY <1>0, <3>2, ProceedType DEF TypeOK, ThreadType
    <3>3. CASE /\ Proceed(t, "unownedFree", Again(t), loc[t])
               /\ src' = [src EXCEPT ![t] = {}]
               /\ UNCHANGED dst
      BY <1>0, <3>3, ProceedType DEF TypeOK, ThreadType
    <3>4. CASE /\ Proceed(t, "weakDestroy", Again(t), loc[t])
               /\ src' = [src EXCEPT ![t] = {}]
               /\ UNCHANGED dst
      BY <1>0, <3>4, ProceedType DEF TypeOK, ThreadType
    <3> QED
      BY <1>5, <3>1, <3>2, <3>3, <3>4 DEF DecrementUnowned
  <2> QED
    BY <1>5, <2>2, <2>3, <2>4 DEF DecrementUnowned, TypeOK
<1>6. CASE swift_slowDealloc(t)
  <2>1. ThreadType'
    BY <1>6, LeaveType DEF swift_slowDealloc
  <2> QED
    BY <1>0, <1>6, <2>1 DEF swift_slowDealloc, TypeOK, MemoryType, SlotType, slotVars
<1> QED
  BY <1>1, <1>2, <1>3, <1>4, <1>5, <1>6

\* Side table entries and weak counts.
LEMMA WeakType ==
  ASSUME TypeOK, NEW t \in Thread, AtEntry(t),
         \/ Preflight(t) \/ Install(t) \/ CheckDeiniting(t)
         \/ IncrementWeak(t) \/ DecrementWeak(t) \/ DeleteEntry(t)
  PROVE  TypeOK'
<1>0. /\ old[t] \in Word /\ loc[t] \in Loc /\ op[t] \in Ops
      /\ {"install", "load", "delete"} \subseteq Stages /\ Inline \in Loc
      /\ mem[Inline] \in Word /\ Entry \subseteq Loc
  BY DEF TypeOK, ThreadType, MemoryType, Stages, Loc
<1>1. CASE Preflight(t)
  <2>1. CASE mem[Inline].side # Null \/ mem[Inline].deiniting
    <3>1. UseSideTable(t, mem[Inline].side) /\ UNCHANGED alloc
      BY <1>1, <2>1 DEF Preflight
    <3>2. mem[Inline].side \in Entry \cup {Null}
      BY <1>0 DEF Word
    <3> QED
      BY <1>1, <3>1, <3>2, UseSideTableType DEF Preflight, TypeOK, MemoryType
  <2>2. CASE ~(mem[Inline].side # Null \/ mem[Inline].deiniting)
    <3>1. PICK e \in Entry :
            /\ alloc' = [alloc EXCEPT ![e] = "live"]
            /\ loc' = [loc EXCEPT ![t] = e]
            /\ old' = [old EXCEPT ![t] = mem[Inline]]
            /\ pc' = [pc EXCEPT ![t] = "install"]
            /\ UNCHANGED <<op, src, dst, slotVars, abort>>
      BY <1>1, <2>2 DEF Preflight
    <3>2. ThreadType'
      BY <1>0, <3>1 DEF TypeOK, ThreadType
    <3>3. MemoryType' /\ SlotType'
      BY <1>0, <1>1, <3>1 DEF Preflight, TypeOK, MemoryType, SlotType, slotVars
    <3> QED
      BY <1>1, <3>1, <3>2, <3>3 DEF Preflight, TypeOK
  <2> QED
    BY <2>1, <2>2
<1>2. CASE Install(t)
  <2>1. SideTableRefCountBits(old[t]) \in Word
    BY <1>0, WordsAreWords
  <2>2. old[t].side \in Entry \cup {Null} /\ Null \in Entry \cup {Null}
    BY <1>0 DEF Word
  <2>3. CASE old[t].side # Null
    <3>1. Discard(loc[t]) /\ UseSideTable(t, old[t].side) /\ UNCHANGED <<mem, deinitBy>>
      BY <1>2, <2>3 DEF Install
    <3>2. MemoryType'
      BY <1>0, <3>1 DEF Discard, TypeOK, MemoryType
    <3> QED
      BY <2>2, <3>1, <3>2, UseSideTableType DEF TypeOK
  <2>4. CASE old[t].side = Null /\ old[t].deiniting
    <3>1. UseSideTable(t, Null) /\ UNCHANGED <<mem, alloc, deinitBy>>
      BY <1>2, <2>4 DEF Install
    <3> QED
      BY <2>2, <3>1, UseSideTableType DEF TypeOK, MemoryType
  <2>5. CASE old[t].side = Null /\ ~old[t].deiniting /\ mem[Inline] = old[t]
    <3>1. /\ mem' = [mem EXCEPT ![loc[t]] = SideTableRefCountBits(old[t]),
                               ![Inline] = SideTablePointer(loc[t])]
          /\ UseSideTable(t, loc[t])
          /\ UNCHANGED <<alloc, deinitBy>>
      BY <1>2, <2>5 DEF Install
    <3>2. loc[t] \in Entry
      BY <1>2 DEF Install, AtEntry
    <3>3. SideTablePointer(loc[t]) \in Word
      BY <3>2, WordsAreWords
    <3>4. MemoryType'
      BY <1>0, <2>1, <3>1, <3>3 DEF TypeOK, MemoryType
    <3> QED
      BY <3>1, <3>2, <3>4, UseSideTableType DEF TypeOK
  <2>6. CASE old[t].side = Null /\ ~old[t].deiniting /\ mem[Inline] # old[t]
    <3>1. /\ mem' = [mem EXCEPT ![loc[t]] = SideTableRefCountBits(old[t])]
          /\ old' = [old EXCEPT ![t] = mem[Inline]]
          /\ UNCHANGED <<alloc, pc, op, loc, src, dst, slotVars, abort, deinitBy>>
      BY <1>2, <2>6 DEF Install
    <3>2. MemoryType'
      BY <1>0, <2>1, <3>1 DEF TypeOK, MemoryType
    <3>3. ThreadType'
      BY <1>0, <3>1 DEF TypeOK, ThreadType
    <3> QED
      BY <3>1, <3>2, <3>3 DEF TypeOK, SlotType, slotVars
  <2> QED
    BY <2>3, <2>4, <2>5, <2>6
<1>3. CASE CheckDeiniting(t)
  <2>1. PICK w \in Readable(loc[t]) :
          IF w.deiniting
          THEN StoreWeak(t, Null)
          ELSE Proceed(t, op[t], "load", loc[t]) /\ UNCHANGED <<src, dst, slotVars>>
    BY <1>3 DEF CheckDeiniting
  <2>2. ThreadType' /\ SlotType'
    <3>1. CASE w.deiniting
      BY <2>1, <3>1, StoreWeakType
    <3>2. CASE ~w.deiniting
      BY <1>0, <2>1, <3>2, ProceedType DEF TypeOK, ThreadType, SlotType, slotVars
    <3> QED
      BY <3>1, <3>2
  <2> QED
    BY <1>3, <2>2 DEF CheckDeiniting, TypeOK, MemoryType
<1>4. CASE IncrementWeak(t)
  <2>1. [old[t] EXCEPT !.weak = @ + 1] \in Word
    BY <1>0 DEF Word
  <2>2. MemoryType'
    BY <1>4, <2>1, CommitType DEF IncrementWeak
  <2>3. loc[t] \in Entry \cup {Null}
    BY <1>4 DEF IncrementWeak, Commit, Attempts, AtEntry, Decides, AtWord
  <2> QED
    BY <1>4, <2>2, <2>3, StoreWeakType DEF IncrementWeak, TypeOK
<1>5. CASE DecrementWeak(t)
  <2>1. [old[t] EXCEPT !.weak = @ - 1] \in Word
    BY <1>0 DEF Word
  <2>2. MemoryType'
    BY <1>5, <2>1, CommitType DEF DecrementWeak
  <2>3. ThreadType' /\ SlotType'
    <3>1. CASE LastWeak(t)
      BY <1>0, <1>5, <3>1 DEF DecrementWeak, TypeOK, ThreadType, SlotType, slotVars
    <3>2. CASE ~LastWeak(t)
      BY <1>5, <3>2, AfterDecrementWeakType DEF DecrementWeak
    <3> QED
      BY <3>1, <3>2
  <2> QED
    BY <1>5, <2>2, <2>3 DEF DecrementWeak, TypeOK
<1>6. CASE DeleteEntry(t)
  <2>1. ThreadType' /\ SlotType'
    BY <1>6, AfterDecrementWeakType DEF DeleteEntry
  <2> QED
    BY <1>0, <1>6, <2>1 DEF DeleteEntry, Discard, TypeOK, MemoryType
<1> QED
  BY <1>1, <1>2, <1>3, <1>4, <1>5, <1>6

-----------------------------------------------------------------------------
(* Weak operations work on entries.                                        *)

\* A step of t leaves the position of the other threads alone.
LEMMA PositionFrame ==
  ASSUME TypeOK, NEW t \in Thread, WeakOpsAtEntry,
         \A u \in Thread \ {t} : pc'[u] = pc[u] /\ op'[u] = op[u] /\ loc'[u] = loc[u],
         AtEntry(t)'
  PROVE  WeakOpsAtEntry'
BY DEF WeakOpsAtEntry, AtEntry

\* A thread outside the runtime.
LEMMA LeavePosition ==
  ASSUME TypeOK, WeakOpsAtEntry, NEW t \in Thread, Leave(t)
  PROVE  WeakOpsAtEntry'
<1>1. /\ \A u \in Thread \ {t} : pc'[u] = pc[u] /\ op'[u] = op[u] /\ loc'[u] = loc[u]
      /\ pc'[t] = "idle"
  BY DEF Leave, TypeOK, ThreadType
<1> QED
  BY <1>1, PositionFrame DEF AtEntry, AtWord

\* A thread that has ended the program.
LEMMA AbortPosition ==
  ASSUME TypeOK, WeakOpsAtEntry, NEW t \in Thread, NEW reason, Abort(t, reason)
  PROVE  WeakOpsAtEntry'
<1>1. /\ \A u \in Thread \ {t} : pc'[u] = pc[u] /\ op'[u] = op[u] /\ loc'[u] = loc[u]
      /\ pc'[t] = "aborted"
  BY DEF Abort, TypeOK, ThreadType
<1> QED
  BY <1>1, PositionFrame DEF AtEntry, AtWord

\* A thread that goes on at a known location.
LEMMA ProceedPosition ==
  ASSUME TypeOK, WeakOpsAtEntry, NEW t \in Thread, NEW o, NEW p, NEW l,
         Proceed(t, o, p, l),
         \/ l \in Entry
         \/ p \notin AtWord \cup {"install", "check"}
         \/ o \notin {"weakInit", "weakAssign", "weakCopy"} /\ p # "install"
  PROVE  WeakOpsAtEntry'
<1>1. /\ \A u \in Thread \ {t} : pc'[u] = pc[u] /\ op'[u] = op[u] /\ loc'[u] = loc[u]
      /\ pc'[t] = p /\ op'[t] = o /\ loc'[t] = l
  BY DEF Proceed, TypeOK, ThreadType
<1>2. AtEntry(t)'
  BY <1>1 DEF AtEntry
<1> QED
  BY <1>1, <1>2, PositionFrame

\* A thread that enters the runtime.
LEMMA EnterPosition ==
  ASSUME TypeOK, WeakOpsAtEntry, NEW t \in Thread, NEW o, NEW p, NEW l, NEW S, NEW D,
         Enter(t, o, p, l, S, D),
         \/ l \in Entry
         \/ p \notin AtWord \cup {"install", "check"}
         \/ o \notin {"weakInit", "weakAssign", "weakCopy"} /\ p # "install"
  PROVE  WeakOpsAtEntry'
<1>1. /\ \A u \in Thread \ {t} : pc'[u] = pc[u] /\ op'[u] = op[u] /\ loc'[u] = loc[u]
      /\ pc'[t] = p /\ op'[t] = o /\ loc'[t] = l
  BY DEF Enter, TypeOK, ThreadType
<1>2. AtEntry(t)'
  BY <1>1 DEF AtEntry
<1> QED
  BY <1>1, <1>2, PositionFrame

\* A thread that has stored a weak reference.
LEMMA StoreWeakPosition ==
  ASSUME TypeOK, WeakOpsAtEntry, NEW t \in Thread, NEW e, StoreWeak(t, e)
  PROVE  WeakOpsAtEntry'
BY LeavePosition, ProceedPosition DEF StoreWeak

\* A thread that goes on in the side table is at an entry.
LEMMA UseSideTablePosition ==
  ASSUME TypeOK, WeakOpsAtEntry, NEW t \in Thread, NEW e \in Entry \cup {Null},
         UseSideTable(t, e)
  PROVE  WeakOpsAtEntry'
<1>1. CASE e # Null
  <2>1. Proceed(t, op[t], IF op[t] = "unownedRetain" THEN "load" ELSE "check", e)
    BY <1>1 DEF UseSideTable
  <2> QED
    BY <1>1, <2>1, ProceedPosition
<1>2. CASE e = Null /\ op[t] = "unownedRetain"
  BY <1>2, AbortPosition DEF UseSideTable
<1>3. CASE e = Null /\ op[t] # "unownedRetain"
  BY <1>3, StoreWeakPosition DEF UseSideTable
<1> QED
  BY <1>1, <1>2, <1>3

\* A thread that has given back a weak count.
LEMMA AfterDecrementWeakPosition ==
  ASSUME TypeOK, WeakOpsAtEntry, NEW t \in Thread, AfterDecrementWeak(t)
  PROVE  WeakOpsAtEntry'
<1>1. CASE Leave(t)
  BY <1>1, LeavePosition
<1>2. CASE Proceed(t, "weakLoad", "load", loc[t])
  BY <1>2, ProceedPosition
<1>3. CASE Proceed(t, op[t], "free", Inline)
  BY <1>3, ProceedPosition DEF AtWord
<1>4. ASSUME NEW s \in src[t], wref[s] # Null, Proceed(t, "weakCopy", "check", wref[s])
      PROVE  WeakOpsAtEntry'
  <2>1. wref[s] \in Entry
    BY <1>4 DEF TypeOK, ThreadType, SlotType
  <2> QED
    BY <1>4, <2>1, ProceedPosition
<1> QED
  BY <1>1, <1>2, <1>3, <1>4 DEF AfterDecrementWeak

\* Every entry point keeps weak increments at entries.
LEMMA EntryPointPosition ==
  ASSUME TypeOK, WeakOpsAtEntry, NEW t \in Thread, EntryPoint(t)
  PROVE  WeakOpsAtEntry'
<1>0. \A v \in Slot : wref[v] # Null => wref[v] \in Entry
  BY DEF TypeOK, SlotType
<1>a. \A K : Owns(t, K) \subseteq Slot
  BY DEF Owns
<1>1. ASSUME NEW o, NEW S, NEW D, Call(t, o, S, D),
             o \notin {"weakInit", "weakAssign", "weakCopy"}
      PROVE  WeakOpsAtEntry'
  BY <1>1, EnterPosition DEF Call
<1>2. CASE \/ swift_retain_n(t) \/ swift_release_n(t) \/ swift_tryPin(t)
           \/ swift_unpin(t) \/ swift_tryRetain(t) \/ swift_unownedRetain_n(t)
           \/ swift_unownedRelease_n(t)
  BY <1>1, <1>2 DEF swift_retain_n, swift_release_n, swift_tryPin, swift_unpin,
       swift_tryRetain, swift_unownedRetain_n, swift_unownedRelease_n
<1>3. CASE \/ swift_unownedRetainStrong(t) \/ swift_unownedRetainStrongAndRelease(t)
           \/ swift_unownedCheck(t) \/ swift_isUniquelyReferenced_native(t)
  BY <1>1, <1>3 DEF swift_unownedRetainStrong, swift_unownedRetainStrongAndRelease,
       swift_unownedCheck, swift_isUniquelyReferenced_native
<1>13. CASE swift_setDeallocating(t)
  BY <1>13, EnterPosition DEF swift_setDeallocating
<1>4. CASE swift_weakInit(t)
  BY <1>4, EnterPosition DEF swift_weakInit, AtWord
<1>5. CASE swift_weakAssign(t)
  BY <1>5, EnterPosition DEF swift_weakAssign, AtWord
<1>6. CASE swift_weakLoadStrong(t)
  BY <1>6, EnterPosition DEF swift_weakLoadStrong
<1>7. CASE swift_weakTakeStrong(t)
  BY <1>7, EnterPosition DEF swift_weakTakeStrong
<1>8. CASE swift_weakDestroy(t)
  <2>1. PICK v \in Slot : IF wref[v] = Null
                         THEN UNCHANGED <<pc, op, loc, old>>
                         ELSE Proceed(t, "weakDestroy", "load", wref[v])
    BY <1>8, <1>a DEF swift_weakDestroy
  <2>2. CASE wref[v] = Null
    BY <2>1, <2>2 DEF WeakOpsAtEntry, AtEntry
  <2>3. CASE wref[v] # Null
    BY <2>1, <2>3, ProceedPosition
  <2> QED
    BY <2>2, <2>3
<1>9. CASE swift_weakCopyInit(t)
  <2>1. PICK s \in Slot, d \in Unused :
          \/ UNCHANGED threadVars
          \/ wref[s] # Null /\ Enter(t, "weakCopy", "check", wref[s], {}, {d})
    BY <1>9, <1>a DEF swift_weakCopyInit
  <2>2. CASE UNCHANGED threadVars
    BY <2>2 DEF threadVars, WeakOpsAtEntry, AtEntry
  <2>3. CASE wref[s] # Null /\ Enter(t, "weakCopy", "check", wref[s], {}, {d})
    BY <1>0, <2>3, EnterPosition
  <2> QED
    BY <2>1, <2>2, <2>3
<1>10. CASE swift_weakTakeInit(t)
  BY <1>10 DEF swift_weakTakeInit, threadVars, WeakOpsAtEntry, AtEntry
<1>11. CASE swift_weakCopyAssign(t)
  <2>1. PICK s \in Slot, d \in Slot :
          \/ Enter(t, "weakCopyAssign", "load", wref[d], {s}, {d})
          \/ wref[s] # Null /\ Enter(t, "weakCopy", "check", wref[s], {}, {d})
    BY <1>11, <1>a DEF swift_weakCopyAssign
  <2> QED
    BY <1>0, <2>1, EnterPosition
<1>12. CASE swift_weakTakeAssign(t)
  <2>1. PICK s \in Slot, d \in Slot :
          \/ Enter(t, "weakTakeAssign", "load", wref[d], {s}, {d})
          \/ UNCHANGED threadVars
    BY <1>12, <1>a DEF swift_weakTakeAssign
  <2>2. CASE UNCHANGED threadVars
    BY <2>2 DEF threadVars, WeakOpsAtEntry, AtEntry
  <2> QED
    BY <2>1, <2>2, EnterPosition
<1> QED
  BY <1>2, <1>3, <1>4, <1>5, <1>6, <1>7, <1>8, <1>9, <1>10, <1>11, <1>12, <1>13
     DEF EntryPoint

\* Every step inside the runtime does, too.
LEMMA StepPosition ==
  ASSUME TypeOK, WeakOpsAtEntry, NEW t \in Thread, Step(t)
  PROVE  WeakOpsAtEntry'
<1>0. old[t] \in Word /\ mem[Inline] \in Word /\ AtEntry(t)
  BY DEF TypeOK, ThreadType, MemoryType, Loc, WeakOpsAtEntry
<1>1. CASE Load(t) \/ Retry(t)
  <2>1. /\ pc[t] \in AtWord /\ pc'[t] \in AtWord /\ op' = op /\ loc' = loc
        /\ \A u \in Thread \ {t} : pc'[u] = pc[u]
    BY <1>1 DEF Load, Retry, Attempts, TypeOK, ThreadType, AtWord
  <2>2. pc[t] # "install" /\ pc'[t] # "install"
    BY <2>1 DEF AtWord
  <2> QED
    BY <1>0, <2>1, <2>2, PositionFrame DEF AtEntry
<1>2. CASE ForwardToSideTable(t)
  <2>1. old[t].side \in Entry /\ \E p : Proceed(t, op[t], p, old[t].side)
    BY <1>0, <1>2 DEF ForwardToSideTable, Word
  <2> QED
    BY <2>1, ProceedPosition
<1>3. CASE \/ Refuse(t) \/ Query(t) \/ IncrementStrong(t) \/ DecrementStrong(t)
           \/ IncrementUnowned(t) \/ swift_slowDealloc(t)
  BY <1>3, LeavePosition, AbortPosition DEF Refuse, Query, IncrementStrong, DecrementStrong,
       IncrementUnowned, swift_slowDealloc
<1>4. CASE Overflow(t)
  <2>1. \/ Proceed(t, op[t], "preflight", Inline)
        \/ \E reason : Abort(t, reason)
    BY <1>4 DEF Overflow
  <2> QED
    BY <2>1, ProceedPosition, AbortPosition DEF AtWord
<1>5. CASE RetainStrongAndRelease(t)
  BY <1>5, ProceedPosition DEF RetainStrongAndRelease, Again
<1>6. CASE DecrementUnowned(t)
  <2>1. \/ Leave(t) \/ Proceed(t, "unownedFree", "free", Inline)
        \/ Proceed(t, "unownedFree", Again(t), loc[t])
        \/ Proceed(t, "weakDestroy", Again(t), loc[t])
    BY <1>6 DEF DecrementUnowned
  <2> QED
    BY <2>1, LeavePosition, ProceedPosition DEF AtWord, Again
<1>7. CASE Preflight(t)
  <2>1. CASE mem[Inline].side # Null \/ mem[Inline].deiniting
    <3>1. UseSideTable(t, mem[Inline].side)
      BY <1>7, <2>1 DEF Preflight
    <3>2. mem[Inline].side \in Entry \cup {Null}
      BY <1>0 DEF Word
    <3> QED
      BY <3>1, <3>2, UseSideTablePosition
  <2>2. CASE ~(mem[Inline].side # Null \/ mem[Inline].deiniting)
    <3>1. PICK e \in Entry : /\ loc' = [loc EXCEPT ![t] = e]
                            /\ pc' = [pc EXCEPT ![t] = "install"]
                            /\ op' = op
      BY <1>7, <2>2 DEF Preflight
    <3>2. /\ loc'[t] \in Entry
          /\ \A u \in Thread \ {t} : pc'[u] = pc[u] /\ op'[u] = op[u] /\ loc'[u] = loc[u]
      BY <3>1 DEF TypeOK, ThreadType
    <3> QED
      BY <3>2, PositionFrame DEF AtEntry
  <2> QED
    BY <2>1, <2>2
<1>8. CASE Install(t)
  <2>1. old[t].side \in Entry \cup {Null} /\ loc[t] \in Entry
    BY <1>0, <1>8 DEF Word, Install, AtEntry
  <2>2. \/ UseSideTable(t, old[t].side) \/ UseSideTable(t, Null)
        \/ UseSideTable(t, loc[t])
        \/ UNCHANGED <<pc, op, loc>>
    BY <1>8 DEF Install
  <2>3. CASE UNCHANGED <<pc, op, loc>>
    BY <2>3 DEF WeakOpsAtEntry, AtEntry
  <2> QED
    BY <2>1, <2>2, <2>3, UseSideTablePosition
<1>9. CASE CheckDeiniting(t)
  <2>1. \/ StoreWeak(t, Null)
        \/ Proceed(t, op[t], "load", loc[t])
    BY <1>9 DEF CheckDeiniting
  <2>2. CASE Proceed(t, op[t], "load", loc[t])
    BY <1>0, <1>9, <2>2, ProceedPosition DEF CheckDeiniting, AtEntry
  <2> QED
    BY <2>1, <2>2, StoreWeakPosition
<1>10. CASE IncrementWeak(t)
  BY <1>10, StoreWeakPosition DEF IncrementWeak
<1>11. CASE DecrementWeak(t)
  <2>1. \/ AfterDecrementWeak(t)
        \/ pc' = [pc EXCEPT ![t] = "delete"] /\ op' = op /\ loc' = loc
    BY <1>11 DEF DecrementWeak
  <2>2. CASE pc' = [pc EXCEPT ![t] = "delete"] /\ op' = op /\ loc' = loc
    <3>1. /\ pc'[t] = "delete"
          /\ \A u \in Thread \ {t} : pc'[u] = pc[u] /\ op'[u] = op[u] /\ loc'[u] = loc[u]
      BY <2>2 DEF TypeOK, ThreadType
    <3> QED
      BY <3>1, PositionFrame DEF AtEntry, AtWord
  <2> QED
    BY <2>1, <2>2, AfterDecrementWeakPosition
<1>12. CASE DeleteEntry(t)
  BY <1>12, AfterDecrementWeakPosition DEF DeleteEntry
<1> QED
  BY <1>1, <1>2, <1>3, <1>4, <1>5, <1>6, <1>7, <1>8, <1>9, <1>10, <1>11, <1>12
     DEF Step

-----------------------------------------------------------------------------

\* TypeOK and WeakOpsAtEntry are inductive together.
LEMMA NextType ==
  ASSUME TypeOK, WeakOpsAtEntry, [Next]_vars
  PROVE  TypeOK' /\ WeakOpsAtEntry'
<1>1. ASSUME NEW t \in Thread, EntryPoint(t)
      PROVE  TypeOK' /\ WeakOpsAtEntry'
  BY <1>1, EntryPointType, EntryPointPosition
<1>2. ASSUME NEW t \in Thread, Step(t)
      PROVE  TypeOK' /\ WeakOpsAtEntry'
  <2>1. AtEntry(t)
    BY DEF WeakOpsAtEntry
  <2> QED
    BY <1>2, <2>1, ReadType, CountType, WeakType, StepPosition DEF Step
<1>3. ASSUME NEW t \in Thread, swift_deallocObject(t)
      PROVE  TypeOK' /\ WeakOpsAtEntry'
  <2>1. \/ Proceed(t, "dealloc", "free", Inline) \/ Proceed(t, "dealloc", "load", Inline)
    BY <1>3 DEF swift_deallocObject
  <2>2. "dealloc" \in Ops /\ {"free", "load"} \subseteq Stages /\ Inline \in Loc
    BY DEF Ops, UnownedDec, Stages, Loc
  <2>3. ThreadType'
    BY <1>3, <2>1, <2>2, ProceedType DEF swift_deallocObject, TypeOK, ThreadType
  <2>4. TypeOK'
    BY <1>3, <2>3 DEF swift_deallocObject, TypeOK, MemoryType, SlotType, slotVars
  <2> QED
    BY <2>1, <2>4, ProceedPosition
<1>4. ASSUME NEW t \in Thread, NEW u \in Thread, Transfer(t, u)
      PROVE  TypeOK' /\ WeakOpsAtEntry'
  BY <1>4 DEF Transfer, TypeOK, MemoryType, ThreadType, SlotType, threadVars,
       WeakOpsAtEntry, AtEntry
<1>5. CASE UNCHANGED vars
  BY <1>5 DEF vars, threadVars, slotVars, TypeOK, MemoryType, ThreadType, SlotType,
       WeakOpsAtEntry, AtEntry
<1> QED
  BY <1>1, <1>2, <1>3, <1>4, <1>5 DEF Next, Terminated

\* Whatever the threads do, and however many there are, words stay words:
\* the strong count of the object header and of every side table entry never
\* goes below zero (doDecrement turns the underflow into deinit), and weak
\* counts are only ever incremented in side table entries.
THEOREM TypeCorrect == Spec => []TypeOK
<1>1. Init => TypeOK /\ WeakOpsAtEntry
  <2>1. Init => \A t \in Thread : pc[t] = "idle"
    BY DEF Init
  <2> QED
    BY <2>1, InitTypeOK DEF WeakOpsAtEntry, AtWord, AtEntry, AtWord
<1>2. TypeOK /\ WeakOpsAtEntry /\ [Next]_vars => (TypeOK /\ WeakOpsAtEntry)'
  BY NextType
<1> QED
  BY <1>1, <1>2, PTL DEF Spec

(* The inductive invariant: what follows from it.                          *)

\* The fields of a word have their types.
LEMMA WordFields ==
  ASSUME NEW w \in Word
  PROVE  /\ w.side \in Entry \cup {Null} /\ w.strong \in Nat /\ w.unowned \in Int
         /\ w.weak \in Int /\ w.deiniting \in BOOLEAN /\ w.pinned \in BOOLEAN
BY DEF Word

\* The word that holds the counts is that of the header or of the one entry
\* the header points to.
LEMMA HomeType ==
  ASSUME TypeOK, Entries
  PROVE  /\ Home \in Loc /\ Bits \in Word /\ Bits.side = Null
         /\ Home # Inline => Home \in Entry /\ mem[Inline].side = Home
         /\ Home = Inline <=> mem[Inline].side = Null
         /\ Inline \in Loc /\ Entry \subseteq Loc
<1>1. mem[Inline] \in Word /\ Inline \in Loc /\ Entry \subseteq Loc
  BY DEF TypeOK, MemoryType, Loc
<1>2. mem[Inline].side \in Entry \cup {Null}
  BY <1>1, WordFields
<1>3. Inline \notin Entry /\ Null \notin Entry
  BY SetsAssumption
<1>4. Home \in Loc /\ (Home # Inline => Home \in Entry /\ mem[Inline].side = Home)
      /\ (Home = Inline <=> mem[Inline].side = Null)
  BY <1>1, <1>2, <1>3 DEF Home
<1>5. Bits \in Word
  BY <1>4 DEF Bits, TypeOK, MemoryType
<1>6. Bits.side = Null
  BY <1>4 DEF Bits, Entries
<1> QED
  BY <1>1, <1>4, <1>5, <1>6

\* The sets of holders are finite, so their sizes are numbers.
LEMMA FiniteHolders ==
  ASSUME TypeOK
  PROVE  /\ IsFiniteSet(Strong) /\ IsFiniteSet(Unowned) /\ IsFiniteSet(WeakSlots)
         /\ IsFiniteSet(WeakCarriers)
         /\ Cardinality(Strong) \in Nat /\ Cardinality(Unowned) \in Nat
         /\ Cardinality(WeakSlots) \in Nat /\ Cardinality(WeakCarriers) \in Nat
<1>1. /\ Strong \in SUBSET Slot /\ Unowned \in SUBSET Slot /\ WeakSlots \in SUBSET Slot
      /\ WeakCarriers \in SUBSET Thread
  BY DEF Strong, Unowned, WeakSlots, WeakCarriers
<1>2. /\ IsFiniteSet(Strong) /\ IsFiniteSet(Unowned) /\ IsFiniteSet(WeakSlots)
      /\ IsFiniteSet(WeakCarriers)
  BY <1>1, FS_Subset, SetsAssumption
<1> QED
  BY <1>2, FS_CardinalityType

\* The variables an operation consumes or fills are finitely many.
LEMMA FiniteShares ==
  ASSUME TypeOK, NEW t \in Thread
  PROVE  /\ IsFiniteSet(src[t]) /\ IsFiniteSet(dst[t])
         /\ Cardinality(src[t]) \in Nat /\ Cardinality(dst[t]) \in Nat
         /\ src[t] # {} => Cardinality(src[t]) > 0
         /\ dst[t] # {} => Cardinality(dst[t]) > 0
         /\ One(src[t]) => Cardinality(src[t]) = 1
         /\ One(dst[t]) => Cardinality(dst[t]) = 1
<1>1. dst[t] \in SUBSET Slot /\ src[t] \in SUBSET Slot
  BY DEF TypeOK, ThreadType
<1>2. IsFiniteSet(dst[t]) /\ IsFiniteSet(src[t])
  BY <1>1, FS_Subset, SetsAssumption
<1>3. Cardinality(dst[t]) \in Nat /\ Cardinality(src[t]) \in Nat
  BY <1>2, FS_CardinalityType
<1>4. /\ src[t] # {} => Cardinality(src[t]) # 0
      /\ dst[t] # {} => Cardinality(dst[t]) # 0
  BY <1>2, FS_EmptySet
<1>5. /\ One(src[t]) => Cardinality(src[t]) = 1
      /\ One(dst[t]) => Cardinality(dst[t]) = 1
  BY FS_Singleton DEF One
<1> QED
  BY <1>2, <1>3, <1>4, <1>5

\* While there are strong references, or deinit runs, the share of the
\* unowned count that stands for them is in the word.
LEMMA StrongHasShare ==
  ASSUME TypeOK, Slots, Deinit
  PROVE  /\ Strong # {} => StrongShare
         /\ \A t \in Thread : HoldsStrong(t) => StrongShare
         /\ \A t \in Thread : op[t] = "dealloc" => StrongShare
<1>1. ASSUME NEW v \in Strong PROVE StrongShare
  <2>1. v \in Slot /\ ref[v] # "empty"
    BY <1>1 DEF Strong
  <2>2. owner[v] # Null
    BY <2>1 DEF Slots
  <2>3. CASE Bits.deiniting
    <3>1. owner[v] = deinitBy
      BY <2>3 DEF Deinit
    <3> QED
      BY <2>2, <3>1 DEF StrongShare
  <2>4. CASE ~Bits.deiniting
    BY <2>4 DEF StrongShare
  <2> QED
    BY <2>3, <2>4
<1>2. ASSUME NEW t \in Thread, HoldsStrong(t) PROVE StrongShare
  <2>1. CASE deinitBy = t
    BY <2>1, SetsAssumption DEF StrongShare
  <2>2. CASE Owns(t, {"strong", "pinned"}) # {}
    BY <1>1, <2>2 DEF Owns, Strong
  <2> QED
    BY <1>2, <2>1, <2>2 DEF HoldsStrong
<1> QED
  BY <1>1, <1>2 DEF StrongShare

\* The references that keep the memory of the object and of its entry.
LEMMA HeldMemory ==
  ASSUME TypeOK, IInv
  PROVE  /\ StrongShare => alloc[Inline] = "live"
         /\ Unowned # {} => alloc[Inline] = "live"
         /\ StrongShare \/ Unowned # {} => Bits.unowned > 0
         /\ Home # Inline \/ alloc[Inline] = "live" => Bits.unowned \in Nat
         /\ Home # Inline => Bits.weak \in Nat
         /\ Home # Inline /\ (Bits.unowned > 0 \/ WeakSlots # {} \/ WeakCarriers # {})
              => Bits.weak > 0 /\ alloc[Home] = "live"
<1>0. /\ Home # Inline => Home \in Entry
      /\ Bits \in Word
  BY HomeType DEF IInv
<1>a. Bits.unowned \in Int /\ Bits.weak \in Int
  BY <1>0, WordFields
<1>1. StrongShare \/ Unowned # {} => alloc[Inline] = "live"
  BY DEF IInv, ObjectAllocated, ObjectHeld
<1>2. Cardinality(Unowned) \in Nat /\ (Unowned # {} => Cardinality(Unowned) # 0)
  BY FiniteHolders, FS_EmptySet
<1>3. StrongShare \/ Unowned # {} => Bits.unowned > 0
  BY <1>1, <1>2, <1>a DEF IInv, UnownedExact
<1>7. Home # Inline \/ alloc[Inline] = "live" => Bits.unowned \in Nat
  BY <1>2, <1>a DEF IInv, UnownedExact
<1>4. /\ Cardinality(WeakSlots) \in Nat /\ Cardinality(WeakCarriers) \in Nat
      /\ WeakSlots # {} => Cardinality(WeakSlots) # 0
      /\ WeakCarriers # {} => Cardinality(WeakCarriers) # 0
  BY FiniteHolders, FS_EmptySet
<1>5. Home # Inline => Bits.weak \in Nat
  BY <1>4, <1>a DEF IInv, WeakExact
<1>6. Home # Inline /\ (Bits.unowned > 0 \/ WeakSlots # {} \/ WeakCarriers # {})
        => Bits.weak > 0
  BY <1>4, <1>a DEF IInv, WeakExact
<1> QED
  BY <1>1, <1>3, <1>5, <1>6, <1>7 DEF IInv, EntryAllocated, EntryHeld

\* Every operation but those on a side table entry keeps the object.
LEMMA OperationHolds ==
  ASSUME TypeOK, IInv, NEW t \in Thread
  PROVE  op[t] \notin EntryOps \cup {"none", "unownedFree"} =>
           StrongShare \/ Unowned # {}
<1> SUFFICES ASSUME op[t] \notin EntryOps \cup {"none", "unownedFree"}
             PROVE  StrongShare \/ Unowned # {}
  OBVIOUS
<1>0. Fits(t) /\ Relies(t) /\ op[t] \in Ops /\ src[t] \subseteq Slot
  BY DEF IInv, Local, TypeOK, ThreadType
<1>1. /\ Strong # {} => StrongShare
      /\ HoldsStrong(t) => StrongShare
      /\ op[t] = "dealloc" => StrongShare
  BY StrongHasShare DEF IInv
<1>2. /\ Owns(t, {"unowned"}) # {} => Unowned # {}
      /\ Owns(t, {"strong"}) # {} => Strong # {}
      /\ Owns(t, {"strong", "pinned"}) # {} => Strong # {}
  BY DEF Owns, Unowned, Strong
<1>3. HoldsObject(t) => StrongShare \/ Unowned # {}
  BY <1>1, <1>2 DEF HoldsObject
<1>4. /\ src[t] # {} /\ Holding(src[t], "unowned") => Unowned # {}
      /\ src[t] # {} /\ Holding(src[t], "strong") => Strong # {}
      /\ src[t] # {} /\ Holding(src[t], "pinned") => Strong # {}
      /\ One(src[t]) => src[t] # {}
  BY <1>0 DEF Holding, Unowned, Strong, One
<1>5. CASE op[t] \in {"retain", "tryPin", "tryRetain", "unownedRetain", "unownedRetainStrong",
                      "unownedCheck", "isUnique", "unownedDrop"} \cup FormOps
  BY <1>0, <1>1, <1>2, <1>3, <1>5 DEF Relies, Steady, FormOps
<1>6. CASE op[t] \in {"release", "fromOne", "unpin", "unownedRelease",
                      "retainStrongAndRelease", "dealloc"}
  BY <1>0, <1>1, <1>4, <1>6 DEF Fits
<1> QED
  BY <1>0, <1>5, <1>6 DEF Ops, TryOps, StrongDec, UnownedDec, WeakDec, Queries,
       FormOps, EntryOps

\* The memory a thread works on is allocated.
LEMMA OperationMemory ==
  ASSUME TypeOK, IInv, NEW t \in Thread
  PROVE  /\ pc[t] \notin {"idle", "aborted"} => alloc[loc[t]] = "live"
         /\ pc[t] \in {"preflight", "install", "free"} => alloc[Inline] = "live"
         /\ old[t].side # Null => alloc[old[t].side] = "live"
<1>0. Fits(t) /\ Placed(t) /\ Relies(t) /\ op[t] \in Ops /\ pc[t] \in Stages
  BY DEF IInv, Local, TypeOK, ThreadType
<1>1. op[t] \notin EntryOps \cup {"none", "unownedFree"} =>
        /\ alloc[Inline] = "live"
        /\ Home # Inline => alloc[Home] = "live"
  BY OperationHolds, HeldMemory
<1>2. op[t] = "unownedFree" => alloc[Inline] = "live"
  BY DEF IInv, ObjectAllocated, ObjectHeld, Freeing
<1>3. op[t] \in WeakDec /\ pc[t] \in AtWord \cup {"delete"} =>
        Home # Inline /\ loc[t] = Home /\ alloc[Home] = "live"
  <2>1. SUFFICES ASSUME op[t] \in WeakDec, pc[t] \in AtWord \cup {"delete"}
                 PROVE  Home # Inline /\ loc[t] = Home /\ alloc[Home] = "live"
    OBVIOUS
  <2>2. Home # Inline /\ loc[t] = Home
    BY <1>0, <2>1 DEF Placed, EntryOps, WeakDec
  <2>3. CASE pc[t] \in AtWord
    <3>1. t \in WeakCarriers
      BY <2>1, <2>3 DEF WeakCarriers
    <3> QED
      BY <2>2, <3>1, HeldMemory
  <2>4. CASE pc[t] = "delete"
    BY <2>2, <2>4 DEF IInv, EntryAllocated, EntryHeld
  <2> QED
    BY <2>1, <2>2, <2>3, <2>4
<1>4. op[t] \in {"weakLoad", "weakCopy"} /\ Home # Inline => alloc[Home] = "live"
  <2>1. HoldsStrong(t) => StrongShare
    BY StrongHasShare DEF IInv
  <2>2. (\E v \in Slot : owner[v] = t /\ wref[v] # Null) => WeakSlots # {}
    BY DEF WeakSlots
  <2> QED
    BY <1>0, <2>1, <2>2, HeldMemory DEF Relies
<1>5. pc[t] \in {"preflight", "install", "free"} =>
        op[t] \in FormOps \cup {"unownedRetain", "dealloc", "unownedFree"}
  BY <1>0 DEF Placed
<1>6. pc[t] \in {"preflight", "install", "free"} => alloc[Inline] = "live"
  BY <1>1, <1>2, <1>5 DEF FormOps, EntryOps
<1>7. CASE pc[t] \in {"preflight", "install", "free", "idle", "aborted"}
  <2>1. pc[t] \notin {"idle", "aborted"} => alloc[loc[t]] = "live"
    BY <1>0, <1>6, <1>7 DEF Placed
  <2>2. old[t].side # Null => pc[t] = "install" /\ old[t].side = Home
    BY <1>0, <1>7 DEF Placed
  <2>3. pc[t] = "install" => op[t] \notin EntryOps \cup {"none", "unownedFree"}
    BY <1>0 DEF Placed, FormOps, EntryOps
  <2>4. old[t].side # Null => Home # Inline
    <3>1. old[t].side \in Entry \cup {Null}
      BY WordFields DEF TypeOK, ThreadType
    <3> QED
      BY <2>2, <3>1, SetsAssumption
  <2> QED
    BY <1>1, <1>6, <2>1, <2>2, <2>3, <2>4
<1>8. CASE pc[t] \in AtWord \cup {"check", "delete"}
  <2>1. loc[t] \in {Inline, Home}
    BY <1>0, <1>8 DEF Placed
  <2>2. op[t] \in EntryOps \cup {"unownedFree"} => Home # Inline /\ loc[t] = Home
    BY <1>0, <1>8 DEF Placed
  <2>3. op[t] # "none"
    BY <1>0, <1>8 DEF Placed, AtWord
  <2>4. op[t] \in EntryOps \cup {"unownedFree"} => alloc[Home] = "live"
    <3>1. op[t] \in WeakDec => pc[t] \in AtWord \cup {"delete"}
      BY <1>0, <1>8 DEF Placed, WeakDec, FormOps
    <3> QED
      BY <1>3, <1>4, <2>2, <3>1 DEF EntryOps, WeakDec
  <2>5. alloc[loc[t]] = "live"
    BY <1>1, <2>1, <2>2, <2>3, <2>4
  <2>6. old[t].side # Null => old[t].side = Home /\ loc[t] = Inline /\ Home # Inline
    <3>1. old[t].side \in Entry \cup {Null}
      BY WordFields DEF TypeOK, ThreadType
    <3>2. old[t].side # Null => old[t].side = Home /\ loc[t] = Inline
      BY <1>0, <1>8 DEF Placed, AtWord
    <3> QED
      BY <3>1, <3>2, SetsAssumption
  <2>7. old[t].side # Null => alloc[old[t].side] = "live"
    BY <1>1, <2>2, <2>3, <2>6
  <2> QED
    BY <1>6, <2>5, <2>7
<1> QED
  BY <1>0, <1>7, <1>8 DEF Stages, AtWord

\* A load reads the word that is there.
LEMMA ReadsWord ==
  ASSUME TypeOK, IInv, NEW t \in Thread, pc[t] \notin {"idle", "aborted"}
  PROVE  Readable(loc[t]) = {mem[loc[t]]}
BY OperationMemory DEF Readable

\* Whoever succeeds has the current word, at the place that holds the counts.
LEMMA CommitAtHome ==
  ASSUME TypeOK, IInv, NEW t \in Thread, NEW O, NEW w, Commit(t, O, w), w.side = Null
  PROVE  /\ loc[t] = Home /\ old[t] = Bits /\ alloc[Home] = "live"
         /\ mem' = [mem EXCEPT ![Home] = w]
         /\ Home' = Home /\ Bits' = w
         /\ op[t] \in O /\ pc[t] \in {"cas", "store"} /\ pc[t] \in AtWord
         /\ ~Refused(t) /\ ~Overflows(t)
<1>1. /\ Decides(t) /\ old[t].side = Null /\ op[t] \in O
      /\ ~Refused(t) /\ ~Overflows(t)
      /\ mem' = [mem EXCEPT ![loc[t]] = w]
      /\ pc[t] = "store" \/ mem[loc[t]] = old[t] \/ alloc[loc[t]] # "live"
  BY DEF Commit, Attempts
<1>2. pc[t] \in {"cas", "store"} /\ pc[t] \in AtWord /\ pc[t] \notin {"idle", "aborted"}
  BY <1>1 DEF Decides, AtWord
<1>3. alloc[loc[t]] = "live" /\ Placed(t) /\ Alone(t)
  BY <1>2, OperationMemory DEF IInv, Local
<1>4. mem[loc[t]] = old[t]
  BY <1>1, <1>3 DEF Alone
<1>5. loc[t] = Home
  <2>1. loc[t] \in {Inline, Home}
    BY <1>2, <1>3 DEF Placed
  <2>2. loc[t] = Inline => mem[Inline].side = Null
    BY <1>1, <1>4
  <2> QED
    BY <2>1, <2>2 DEF Home
<1>6. Home \in Loc /\ Inline \in Loc /\ mem \in [Loc -> Word]
      /\ (Home = Inline <=> mem[Inline].side = Null)
  BY HomeType DEF IInv, TypeOK, MemoryType
<1>7. mem'[Inline].side = mem[Inline].side
  BY <1>1, <1>5, <1>6
<1>8. Home' = Home
  BY <1>7 DEF Home
<1> QED
  BY <1>1, <1>2, <1>3, <1>4, <1>5, <1>6, <1>8 DEF Bits

-----------------------------------------------------------------------------
(* What a step of one thread leaves alone.                                 *)

SameThread(u) ==
  /\ pc'[u] = pc[u] /\ op'[u] = op[u] /\ loc'[u] = loc[u] /\ old'[u] = old[u]
  /\ src'[u] = src[u] /\ dst'[u] = dst[u]

SameSlot(v) == owner'[v] = owner[v] /\ ref'[v] = ref[v] /\ wref'[v] = wref[v]

\* A step of t changes only t, slots of t and slots nobody uses.
Frame(t) ==
  /\ \A u \in Thread \ {t} : SameThread(u)
  /\ \A v \in Slot : IF owner[v] \in {t, Null} THEN owner'[v] \in {t, Null}
                     ELSE SameSlot(v)

\* Fits depends on the operation and on its own variables.
LEMMA FitsKept ==
  ASSUME NEW u \in Thread, Fits(u), op'[u] = op[u], src'[u] = src[u], dst'[u] = dst[u],
         \A v \in src[u] \cup dst[u] : ref'[v] = ref[v] /\ wref'[v] = wref[v]
  PROVE  Fits(u)'
<1>1. /\ \A k : Holding(src[u], k) => Holding(src[u], k)'
      /\ \A k : Holding(dst[u], k) => Holding(dst[u], k)'
      /\ One(src[u]) => One(src[u])'
      /\ One(dst[u]) => One(dst[u])'
  BY DEF Holding, One
<1> QED
  BY <1>1 DEF Fits

\* Relies depends on the variables of the thread alone.
LEMMA ReliesKept ==
  ASSUME NEW u \in Thread, Relies(u), op'[u] = op[u],
         \A v \in Slot : owner[v] = u => SameSlot(v),
         deinitBy = u => deinitBy' = u,
         Steady(u)' => Steady(u) /\ deinitBy' = Null
  PROVE  Relies(u)'
<1>1. \A K : Owns(u, K) # {} => Owns(u, K)' # {}
  BY DEF Owns, SameSlot
<1>2. /\ HoldsStrong(u) => HoldsStrong(u)'
      /\ HoldsObject(u) => HoldsObject(u)'
  BY <1>1 DEF HoldsStrong, HoldsObject
<1>3. (\E v \in Slot : owner[v] = u /\ wref[v] # Null)
        => (\E v \in Slot : owner[v] = u /\ wref[v] # Null)'
  BY DEF SameSlot
<1> QED
  BY <1>1, <1>2, <1>3 DEF Relies

\* Placed survives the installation of an entry by another thread.
LEMMA PlacedKept ==
  ASSUME TypeOK, IInv, NEW u \in Thread, SameThread(u), Home' = Home \/ Home = Inline,
         pc[u] = "install" => alloc'[loc[u]] = alloc[loc[u]] /\ loc[u] # Home'
  PROVE  Placed(u)'
<1>1. Placed(u)
  BY DEF IInv, Local
<1>2. CASE Home' = Home
  BY <1>1, <1>2 DEF Placed, SameThread
<1>3. CASE Home = Inline
  <2>1. old[u].side \in Entry \cup {Null}
    BY WordFields DEF TypeOK, ThreadType
  <2>2. old[u].side = Null
    BY <1>1, <1>3, <2>1, SetsAssumption DEF Placed
  <2> QED
    BY <1>1, <1>3, <2>2 DEF Placed, SameThread
<1> QED
  BY <1>2, <1>3

\* A thread that is not alone is not in a non-atomic operation, and keeps
\* its part of the invariant in the step of another thread.
LEMMA OtherLocal ==
  ASSUME TypeOK, IInv, NEW u \in Thread, SameThread(u),
         \A v \in Slot : owner[v] = u => SameSlot(v),
         Home' = Home \/ Home = Inline,
         pc[u] = "install" => alloc'[loc[u]] = alloc[loc[u]] /\ loc[u] # Home',
         deinitBy = u => deinitBy' = u,
         Steady(u) => deinitBy' = Null,
         ~Exclusive(u)
  PROVE  Local(u)'
<1>1. Fits(u) /\ Relies(u) /\ Alone(u)
  BY DEF IInv, Local
<1>2. \A v \in src[u] \cup dst[u] : v \in Slot /\ owner[v] = u
  BY DEF IInv, Slots, TypeOK, ThreadType
<1>3. Fits(u)'
  BY <1>1, <1>2, FitsKept DEF SameThread, SameSlot
<1>4. Relies(u)'
  <2>1. Steady(u)' <=> Steady(u)
    BY DEF Steady, SameThread
  <2> QED
    BY <1>1, <2>1, ReliesKept DEF SameThread
<1>5. Placed(u)'
  BY PlacedKept
<1>6. Alone(u)'
  BY <1>1 DEF Alone, SameThread
<1> QED
  BY <1>3, <1>4, <1>5, <1>6 DEF Local

-----------------------------------------------------------------------------

\* What Enter changes, field by field.
LEMMA EnterFrame ==
  ASSUME TypeOK, NEW t \in Thread, NEW o, NEW p, NEW l, NEW S, NEW D,
         Enter(t, o, p, l, S, D)
  PROVE  /\ \A u \in Thread \ {t} : SameThread(u)
         /\ pc[t] = "idle" /\ pc'[t] = p /\ op'[t] = o /\ loc'[t] = l /\ old'[t] = old[t]
         /\ src'[t] = S /\ dst'[t] = D
         /\ \A v \in Slot : owner'[v] = IF v \in D THEN t ELSE owner[v]
         /\ mem' = mem /\ alloc' = alloc /\ deinitBy' = deinitBy /\ abort' = abort
BY DEF Enter, TypeOK, ThreadType, SlotType, SameThread

\* What Leave changes, field by field.
LEMMA LeaveFrame ==
  ASSUME TypeOK, NEW t \in Thread, Leave(t)
  PROVE  /\ \A u \in Thread \ {t} : SameThread(u)
         /\ pc'[t] = "idle" /\ op'[t] = "none" /\ loc'[t] = Inline
         /\ old'[t] = RefCountBits(0, 0) /\ old'[t].side = Null
         /\ src'[t] = {} /\ dst'[t] = {}
BY DEF Leave, TypeOK, ThreadType, SameThread, RefCountBits

\* A thread that has left the runtime relies on nothing.
LEMMA LeaveLocal ==
  ASSUME TypeOK, NEW t \in Thread, Leave(t)
  PROVE  Local(t)'
BY LeaveFrame DEF Local, Fits, Placed, Relies, Steady, Alone, FormOps, EntryOps, WeakDec, AtWord

\* What Proceed changes, field by field.
LEMMA ProceedFrame ==
  ASSUME TypeOK, NEW t \in Thread, NEW o, NEW p, NEW l, Proceed(t, o, p, l)
  PROVE  /\ \A u \in Thread \ {t} : /\ pc'[u] = pc[u] /\ op'[u] = op[u]
                                    /\ loc'[u] = loc[u] /\ old'[u] = old[u]
         /\ pc'[t] = p /\ op'[t] = o /\ loc'[t] = l /\ old'[t].side = Null
BY DEF Proceed, TypeOK, ThreadType, RefCountBits

\* What Abort changes, field by field.
LEMMA AbortFrame ==
  ASSUME TypeOK, NEW t \in Thread, NEW reason, Abort(t, reason)
  PROVE  /\ \A u \in Thread \ {t} : SameThread(u)
         /\ pc'[t] = "aborted" /\ op'[t] = op[t] /\ loc'[t] = loc[t] /\ old'[t] = old[t]
         /\ src'[t] = src[t] /\ dst'[t] = dst[t] /\ abort' = reason
BY DEF Abort, TypeOK, ThreadType, SameThread

\* Only a thread that is in the runtime, holds a slot or runs deinit acts.
LEMMA ActorIsPresent ==
  ASSUME TypeOK, NEW t \in Thread,
         \/ EntryPoint(t) \/ Step(t) \/ swift_deallocObject(t)
         \/ \E w \in Thread : Transfer(t, w)
  PROVE  \A u \in Thread \ {t} : ~Exclusive(u)
<1>0. SUFFICES pc[t] # "idle" \/ deinitBy = t \/ \E v \in Slot : owner[v] = t
  BY SetsAssumption DEF Exclusive
<1>1. /\ \A K : Owns(t, K) # {} => \E v \in Slot : owner[v] = t
      /\ \A K : \A v \in Owns(t, K) : v \in Slot /\ owner[v] = t
  BY DEF Owns
<1>2. /\ HoldsStrong(t) => deinitBy = t \/ \E v \in Slot : owner[v] = t
      /\ HoldsObject(t) => deinitBy = t \/ \E v \in Slot : owner[v] = t
  BY <1>1 DEF HoldsStrong, HoldsObject
<1>3. ASSUME EntryPoint(t), deinitBy # t PROVE \E v \in Slot : owner[v] = t
  <2>1. \A K : \A R \in Batches(Owns(t, K)) : Owns(t, K) # {}
    BY DEF Batches
  <2>2. CASE \/ swift_retain_n(t) \/ swift_release_n(t) \/ swift_tryPin(t) \/ swift_unpin(t)
             \/ swift_tryRetain(t) \/ swift_unownedRetain_n(t) \/ swift_unownedRelease_n(t)
             \/ swift_unownedRetainStrong(t) \/ swift_unownedRetainStrongAndRelease(t)
             \/ swift_unownedCheck(t) \/ swift_setDeallocating(t)
    BY <1>1, <1>2, <1>3, <2>1, <2>2 DEF swift_retain_n, swift_release_n, swift_tryPin,
         swift_unpin, swift_tryRetain, swift_unownedRetain_n, swift_unownedRelease_n,
         swift_unownedRetainStrong, swift_unownedRetainStrongAndRelease, swift_unownedCheck,
         swift_setDeallocating
  <2>3. CASE \/ swift_isUniquelyReferenced_native(t) \/ swift_weakInit(t) \/ swift_weakAssign(t)
             \/ swift_weakLoadStrong(t) \/ swift_weakTakeStrong(t) \/ swift_weakDestroy(t)
             \/ swift_weakCopyInit(t) \/ swift_weakTakeInit(t) \/ swift_weakCopyAssign(t)
             \/ swift_weakTakeAssign(t)
    BY <1>1, <1>2, <1>3, <2>3 DEF swift_isUniquelyReferenced_native, swift_weakInit,
         swift_weakAssign, swift_weakLoadStrong, swift_weakTakeStrong, swift_weakDestroy,
         swift_weakCopyInit, swift_weakTakeInit, swift_weakCopyAssign, swift_weakTakeAssign
  <2> QED
    BY <1>3, <2>2, <2>3 DEF EntryPoint
<1>4. CASE Step(t)
  <2>1. pc[t] # "idle"
    BY <1>4 DEF Step, Load, ForwardToSideTable, Refuse, Query, Overflow, Retry,
         IncrementStrong, RetainStrongAndRelease, DecrementStrong, IncrementUnowned,
         DecrementUnowned, swift_slowDealloc, Preflight, Install, CheckDeiniting,
         IncrementWeak, DecrementWeak, DeleteEntry, Commit, Attempts, Decides
  <2> QED
    BY <2>1
<1> QED
  BY <1>3, <1>4 DEF swift_deallocObject, Transfer

-----------------------------------------------------------------------------
(* Steps that leave some of the counts alone.                              *)

\* A step of one thread leaves the variables of the others alone.
LEMMA SlotsKept ==
  ASSUME TypeOK, IInv, NEW t \in Thread, Frame(t), Home' = Home \/ Home = Inline,
         \A v \in src'[t] \cup dst'[t] : owner'[v] = t,
         src'[t] \cap dst'[t] = {},
         \A v \in Slot : owner[v] \in {t, Null} =>
           /\ owner'[v] = Null => ref'[v] = "empty"
           /\ wref'[v] # Null => ref'[v] = "weak" /\ wref'[v] = Home'
  PROVE  Slots'
<1>0. Slots /\ \A u \in Thread : src[u] \subseteq Slot /\ dst[u] \subseteq Slot
  BY DEF IInv, TypeOK, ThreadType
<1>1. \A u \in Thread : \A v \in src'[u] \cup dst'[u] : owner'[v] = u
  <2>1. SUFFICES ASSUME NEW u \in Thread \ {t}, NEW v \in src'[u] \cup dst'[u]
                 PROVE  owner'[v] = u
    OBVIOUS
  <2>2. v \in src[u] \cup dst[u] /\ v \in Slot
    BY <1>0, <2>1 DEF Frame, SameThread
  <2>3. owner[v] = u /\ u # Null
    BY <1>0, <2>2, SetsAssumption DEF Slots
  <2> QED
    BY <2>1, <2>2, <2>3 DEF Frame, SameSlot
<1>2. \A u \in Thread : src'[u] \cap dst'[u] = {}
  BY <1>0 DEF Frame, SameThread, Slots
<1>3. \A v \in Slot : owner'[v] = Null => ref'[v] = "empty"
  BY DEF Frame, SameSlot
<1>4. ASSUME NEW v \in Slot, wref'[v] # Null PROVE ref'[v] = "weak" /\ wref'[v] = Home'
  <2>1. CASE owner[v] \in {t, Null}
    BY <1>4, <2>1
  <2>2. CASE owner[v] \notin {t, Null}
    <3>1. wref[v] # Null /\ ref'[v] = ref[v] /\ wref'[v] = wref[v]
      BY <1>4, <2>2 DEF Frame, SameSlot
    <3>2. ref[v] = "weak" /\ wref[v] = Home
      BY <1>0, <3>1 DEF Slots
    <3>3. Home # Inline
      BY <3>1, <3>2, SetsAssumption DEF TypeOK, SlotType
    <3> QED
      BY <3>1, <3>2, <3>3
  <2> QED
    BY <2>1, <2>2
<1> QED
  BY <1>1, <1>2, <1>3, <1>4 DEF Slots

\* A step of one thread leaves what the others rely on, if it respects what
\* they hold.
LEMMA OthersKept ==
  ASSUME TypeOK, IInv, NEW t \in Thread, Frame(t), \A u \in Thread \ {t} : ~Exclusive(u),
         Home' = Home \/ Home = Inline,
         \A u \in Thread \ {t} : pc[u] = "install" =>
           alloc'[loc[u]] = alloc[loc[u]] /\ loc[u] # Home',
         \A u \in Thread \ {t} : deinitBy = u => deinitBy' = u,
         \A u \in Thread \ {t} : Steady(u) => deinitBy' = Null,
         Local(t)'
  PROVE  \A u \in Thread : Local(u)'
<1>1. ASSUME NEW u \in Thread \ {t} PROVE Local(u)'
  <2>1. SameThread(u) /\ \A v \in Slot : owner[v] = u => SameSlot(v)
    BY SetsAssumption DEF Frame
  <2> QED
    BY <2>1, OtherLocal
<1> QED
  BY <1>1

\* Steps that change neither strong nor unowned references.
LEMMA ObjectKept ==
  ASSUME TypeOK, IInv, Home' = Home,
         Bits'.strong = Bits.strong, Bits'.unowned = Bits.unowned,
         Bits'.deiniting = Bits.deiniting, Bits'.pinned = Bits.pinned,
         \A v \in Slot : ref[v] \in {"strong", "pinned", "unowned"}
                         \/ ref'[v] \in {"strong", "pinned", "unowned"} => ref'[v] = ref[v],
         \A v \in Strong : Bits.deiniting => owner'[v] = owner[v],
         deinitBy' = deinitBy, alloc'[Inline] = alloc[Inline],
         \A u \in Thread : /\ op'[u] = "dealloc" <=> op[u] = "dealloc"
                           /\ op'[u] = "unownedFree" <=> op[u] = "unownedFree"
                           /\ op'[u] = "dealloc" /\ pc'[u] = "free" => pc[u] = "free"
  PROVE  /\ StrongExact' /\ UnownedExact' /\ PinExact' /\ Deinit' /\ FreeObject'
         /\ ObjectAllocated' /\ (StrongShare' <=> StrongShare)
<1>0. StrongExact /\ UnownedExact /\ PinExact /\ Deinit /\ FreeObject /\ ObjectAllocated
  BY DEF IInv
<1>1. Strong' = Strong /\ Unowned' = Unowned /\ Pinned' = Pinned
  BY DEF Strong, Unowned, Pinned
<1>2. StrongShare' <=> StrongShare
  BY DEF StrongShare
<1>3. StrongExact'
  BY <1>0, <1>1 DEF StrongExact
<1>4. UnownedExact'
  BY <1>0, <1>1, <1>2 DEF UnownedExact
<1>5. PinExact'
  BY <1>0, <1>1 DEF PinExact
<1>6. Deinit'
  BY <1>0, <1>1 DEF Deinit
<1>7. FreeObject'
  BY <1>0, <1>2 DEF FreeObject, Freeing
<1>8. ObjectAllocated'
  BY <1>0, <1>1, <1>2 DEF ObjectAllocated, ObjectHeld, Freeing
<1> QED
  BY <1>2, <1>3, <1>4, <1>5, <1>6, <1>7, <1>8

\* Steps that change no weak reference.
LEMMA EntryKept ==
  ASSUME TypeOK, IInv, Home' = Home,
         Bits'.weak = Bits.weak, Bits'.unowned > 0 <=> Bits.unowned > 0,
         WeakSlots' = WeakSlots, WeakCarriers' = WeakCarriers, alloc'[Home] = alloc[Home],
         \A u \in Thread : pc'[u] = "delete" <=> pc[u] = "delete"
  PROVE  WeakExact' /\ FreeEntry' /\ EntryAllocated'
BY DEF IInv, WeakExact, FreeEntry, EntryAllocated, EntryHeld

\* Entries stay private or installed when none is allocated or installed.
LEMMA EntriesKept ==
  ASSUME TypeOK, IInv, Home' = Home, \A e \in Entry : mem'[e].side = Null,
         \A e \in Entry : alloc'[e] = "live" => alloc[e] = "live",
         \A u \in Thread :
           /\ pc[u] \in {"install", "aborted"} =>
                \/ pc'[u] \in {"install", "aborted"} /\ loc'[u] = loc[u]
                \/ loc[u] = Home \/ loc[u] = Inline \/ alloc'[loc[u]] # "live"
           /\ pc'[u] = "install" => pc[u] = "install" /\ loc'[u] = loc[u],
         abort' = "none" =>
           abort = "none" /\ \A u \in Thread : pc'[u] = "aborted" => pc[u] = "aborted"
  PROVE  Entries'
<1>0. Entries /\ Inline \notin Entry
  BY SetsAssumption DEF IInv
<1>1. ASSUME NEW e \in Entry, alloc'[e] = "live"
      PROVE  e = Home' \/ \E u \in Thread : loc'[u] = e /\ pc'[u] \in {"install", "aborted"}
  BY <1>0, <1>1 DEF Entries
<1>2. \A u, w \in Thread : pc'[u] = "install" /\ pc'[w] = "install" /\ loc'[u] = loc'[w] => u = w
  BY <1>0 DEF Entries
<1>3. abort' = "none" => \A u \in Thread : pc'[u] # "aborted"
  BY <1>0 DEF Entries
<1> QED
  BY <1>1, <1>2, <1>3 DEF Entries

\* The thread has the same part in freeing memory, and in the entries that
\* may be installed, as before.
SameDuty(t) ==
  /\ op'[t] = "dealloc" <=> op[t] = "dealloc"
  /\ op'[t] = "unownedFree" <=> op[t] = "unownedFree"
  /\ op'[t] = "dealloc" /\ pc'[t] = "free" => pc[t] = "free"
  /\ pc'[t] = "delete" <=> pc[t] = "delete"
  /\ pc'[t] = "install" => pc[t] = "install" /\ loc'[t] = loc[t]
  /\ pc[t] \in {"install", "aborted"} =>
       \/ pc'[t] \in {"install", "aborted"} /\ loc'[t] = loc[t]
       \/ loc[t] = Home \/ loc[t] = Inline \/ alloc'[loc[t]] # "live"
  /\ abort' = "none" => abort = "none" /\ (pc'[t] = "aborted" => pc[t] = "aborted")

\* ... and carries a weak count if it did before.
SameStatus(t) ==
  /\ SameDuty(t)
  /\ op'[t] \in WeakDec /\ pc'[t] \in AtWord <=> op[t] \in WeakDec /\ pc[t] \in AtWord

\* Steps that only concern the thread, and slots it reserves or gives up.
LEMMA Quiet ==
  ASSUME TypeOK, IInv, NEW t \in Thread, \A u \in Thread \ {t} : ~Exclusive(u),
         \A u \in Thread \ {t} : SameThread(u),
         UNCHANGED <<mem, alloc, ref, wref, deinitBy>>, SameStatus(t),
         \A v \in Slot : IF ref[v] = "empty" /\ owner[v] \in {t, Null}
                         THEN owner'[v] \in {t, Null} ELSE owner'[v] = owner[v],
         \A v \in src'[t] \cup dst'[t] : owner'[v] = t,
         src'[t] \cap dst'[t] = {},
         Local(t)'
  PROVE  IInv'
<1>0. Home' = Home /\ Bits' = Bits
  BY DEF Home, Bits
<1>1. Frame(t)
  BY DEF Frame, SameSlot
<1>2. Slots'
  <2>1. \A v \in Slot : owner'[v] = Null => ref'[v] = "empty"
    BY DEF IInv, Slots
  <2>2. \A v \in Slot : wref'[v] # Null => ref'[v] = "weak" /\ wref'[v] = Home'
    BY <1>0 DEF IInv, Slots
  <2> QED
    BY <1>0, <1>1, <2>1, <2>2, SlotsKept
<1>3. \A u \in Thread : Local(u)'
  <2>1. \A u \in Thread : pc[u] = "install" => loc[u] # Home'
    BY <1>0 DEF IInv, Local, Placed
  <2>2. \A u \in Thread : Steady(u) => deinitBy' = Null
    BY DEF IInv, Local, Relies
  <2> QED
    BY <1>0, <1>1, <2>1, <2>2, OthersKept
<1>4. \A u \in Thread : /\ op'[u] = "dealloc" <=> op[u] = "dealloc"
                        /\ op'[u] = "unownedFree" <=> op[u] = "unownedFree"
                        /\ op'[u] = "dealloc" /\ pc'[u] = "free" => pc[u] = "free"
                        /\ pc'[u] = "delete" <=> pc[u] = "delete"
                        /\ op'[u] \in WeakDec /\ pc'[u] \in AtWord
                             <=> op[u] \in WeakDec /\ pc[u] \in AtWord
  BY DEF SameStatus, SameDuty, SameThread
<1>5. \A v \in Strong : owner'[v] = owner[v]
  BY DEF Strong
<1>6. /\ StrongExact' /\ UnownedExact' /\ PinExact' /\ Deinit' /\ FreeObject'
      /\ ObjectAllocated'
  BY <1>0, <1>4, <1>5, ObjectKept
<1>7. WeakSlots' = WeakSlots /\ WeakCarriers' = WeakCarriers
  BY <1>4 DEF WeakSlots, WeakCarriers
<1>8. WeakExact' /\ FreeEntry' /\ EntryAllocated'
  BY <1>0, <1>4, <1>7, EntryKept
<1>9. Entries'
  <2>1. \A e \in Entry : mem'[e].side = Null
    BY DEF IInv, Entries
  <2>2. \A u \in Thread :
           /\ pc[u] \in {"install", "aborted"} =>
                \/ pc'[u] \in {"install", "aborted"} /\ loc'[u] = loc[u]
                \/ loc[u] = Home \/ loc[u] = Inline \/ alloc'[loc[u]] # "live"
           /\ pc'[u] = "install" => pc[u] = "install" /\ loc'[u] = loc[u]
    BY DEF SameStatus, SameDuty, SameThread
  <2>3. abort' = "none" =>
           abort = "none" /\ \A u \in Thread : pc'[u] = "aborted" => pc[u] = "aborted"
    BY DEF SameStatus, SameDuty, SameThread
  <2> QED
    BY <1>0, <2>1, <2>2, <2>3, EntriesKept
<1> QED
  BY <1>2, <1>3, <1>6, <1>8, <1>9 DEF IInv

-----------------------------------------------------------------------------
(* Calls.                                                                  *)

\* The callers of the runtime that the counts depend on: swift_weakTakeStrong
\* is called with the object held, and the swift_nonatomic_ functions by the
\* only thread that can reach the object.
Disciplined == TakeWhileHeld /\ NonAtomicRule # "soleStrong"

\* A call keeps the invariant if what it relies on holds on entry.
LEMMA EnterKept ==
  ASSUME TypeOK, IInv, NEW t \in Thread, \A u \in Thread \ {t} : ~Exclusive(u),
         NEW o, NEW p \in {"load", "nload", "preflight", "check"}, NEW l,
         NEW S \in SUBSET Slot, NEW D \in SUBSET Slot, Enter(t, o, p, l, S, D),
         UNCHANGED <<ref, wref>>,
         \A v \in D : owner[v] \in {t, Null},
         \A v \in S : owner[v] = t,
         S \cap D = {},
         o \notin {"none", "dealloc"} \cup WeakDec,
         Local(t)'
  PROVE  IInv'
<1>1. /\ \A u \in Thread \ {t} : SameThread(u)
      /\ pc[t] = "idle" /\ pc'[t] = p /\ op'[t] = o /\ loc'[t] = l
      /\ src'[t] = S /\ dst'[t] = D
      /\ \A v \in Slot : owner'[v] = IF v \in D THEN t ELSE owner[v]
      /\ mem' = mem /\ alloc' = alloc /\ deinitBy' = deinitBy /\ abort' = abort
  BY EnterFrame
<1>2. op[t] = "none"
  BY <1>1 DEF IInv, Local, Placed
<1>3. SameStatus(t)
  BY <1>1, <1>2 DEF SameStatus, SameDuty, WeakDec
<1>4. \A v \in Slot : IF ref[v] = "empty" /\ owner[v] \in {t, Null}
                      THEN owner'[v] \in {t, Null} ELSE owner'[v] = owner[v]
  BY <1>1 DEF IInv, Slots
<1>5. \A v \in src'[t] \cup dst'[t] : owner'[v] = t
  BY <1>1
<1> QED
  BY <1>1, <1>3, <1>4, <1>5, Quiet

\* What a thread holds when it enters, it holds inside.
LEMMA EnterHolds ==
  ASSUME TypeOK, NEW t \in Thread, NEW o, NEW p, NEW l, NEW S, NEW D,
         Enter(t, o, p, l, S, D), UNCHANGED ref
  PROVE  /\ \A K : Owns(t, K) # {} => Owns(t, K)' # {}
         /\ HoldsStrong(t) => HoldsStrong(t)'
         /\ HoldsObject(t) => HoldsObject(t)'
         /\ \A v \in Slot : owner[v] = t => owner'[v] = t
<1>1. \A v \in Slot : owner[v] = t => owner'[v] = t
  BY DEF Enter, TypeOK, SlotType
<1>2. \A K : Owns(t, K) # {} => Owns(t, K)' # {}
  BY <1>1 DEF Owns
<1> QED
  BY <1>1, <1>2 DEF HoldsStrong, HoldsObject, Enter

CallOps == {"retain", "release", "tryPin", "unpin", "tryRetain", "unownedRetain",
            "unownedRelease", "unownedRetainStrong", "retainStrongAndRelease",
            "unownedCheck", "isUnique"}

\* A call that starts at the header word, atomic or not.
LEMMA CallKept ==
  ASSUME TypeOK, IInv, Disciplined, NEW t \in Thread, \A u \in Thread \ {t} : ~Exclusive(u),
         NEW o \in CallOps, NEW S \in SUBSET Slot, NEW D \in SUBSET Slot, Call(t, o, S, D),
         \A v \in D : owner[v] = Null,
         \A v \in S : owner[v] = t,
         Fits(t)', Relies(t)'
  PROVE  IInv'
<1>0. PICK p \in {"load", "nload"} :
        /\ Enter(t, o, p, Inline, S, D)
        /\ p = "nload" => MayBeNonAtomic(t, o)
        /\ UNCHANGED <<ref, wref>>
  BY DEF Call
<1>1. /\ \A u \in Thread \ {t} : SameThread(u)
      /\ pc[t] = "idle" /\ pc'[t] = p /\ op'[t] = o /\ loc'[t] = Inline /\ old'[t] = old[t]
      /\ \A v \in Slot : owner'[v] = IF v \in D THEN t ELSE owner[v]
      /\ deinitBy' = deinitBy
  BY <1>0, EnterFrame
<1>2. old[t].side = Null
  BY <1>1 DEF IInv, Local, Placed
<1>3. Placed(t)'
  BY <1>1, <1>2 DEF Placed, CallOps, FormOps, EntryOps, WeakDec, AtWord
<1>4. Alone(t)'
  <2>1. p = "nload" => Exclusive(t)
    BY <1>0 DEF MayBeNonAtomic, Disciplined
  <2>2. p = "nload" => Exclusive(t)'
    BY <1>1, <2>1 DEF Exclusive, SameThread
  <2> QED
    BY <1>1, <2>2 DEF Alone, CallOps
<1>5. S \cap D = {}
  BY SetsAssumption
<1>6. o \notin {"none", "dealloc"} \cup WeakDec
  BY DEF CallOps, WeakDec
<1> QED
  BY <1>0, <1>3, <1>4, <1>5, <1>6, EnterKept DEF Local

\* The entry points that do not concern weak references.
LEMMA CountCallKept ==
  ASSUME TypeOK, IInv, Disciplined, NEW t \in Thread, \A u \in Thread \ {t} : ~Exclusive(u),
         \/ swift_retain_n(t) \/ swift_release_n(t) \/ swift_tryPin(t) \/ swift_unpin(t)
         \/ swift_tryRetain(t) \/ swift_unownedRetain_n(t) \/ swift_unownedRelease_n(t)
         \/ swift_unownedRetainStrong(t) \/ swift_unownedRetainStrongAndRelease(t)
         \/ swift_unownedCheck(t) \/ swift_isUniquelyReferenced_native(t)
  PROVE  IInv'
<1>0. /\ \A v \in Unused : v \in Slot /\ owner[v] = Null /\ ref[v] = "empty"
      /\ \A K : \A v \in Owns(t, K) : v \in Slot /\ owner[v] = t /\ ref[v] \in K
      /\ \A A \in SUBSET Slot : \A R \in Batches(A) : R \subseteq A /\ R # {}
      /\ Unused \subseteq Slot /\ \A K : Owns(t, K) \subseteq Slot
  BY DEF Unused, Owns, Batches, IInv, Slots
<1>1. ASSUME NEW o \in CallOps, NEW S \in SUBSET Slot, NEW D \in SUBSET Slot,
             Call(t, o, S, D)
      PROVE  /\ op'[t] = o /\ src'[t] = S /\ dst'[t] = D /\ ref' = ref /\ deinitBy' = deinitBy
             /\ \A K : Owns(t, K) # {} => Owns(t, K)' # {}
             /\ HoldsStrong(t) => HoldsStrong(t)'
             /\ HoldsObject(t) => HoldsObject(t)'
  <2>1. PICK p \in {"load", "nload"} : Enter(t, o, p, Inline, S, D) /\ UNCHANGED <<ref, wref>>
    BY <1>1 DEF Call
  <2>2. op'[t] = o /\ src'[t] = S /\ dst'[t] = D /\ deinitBy' = deinitBy
    BY <2>1 DEF Enter, TypeOK, ThreadType
  <2> QED
    BY <2>1, <2>2, EnterHolds
<1>2. CASE swift_retain_n(t)
  <2>1. PICK R \in Batches(Unused) : Call(t, "retain", {}, R) /\ HoldsStrong(t)
    BY <1>2 DEF swift_retain_n
  <2>2. Fits(t)' /\ Relies(t)'
    BY <1>0, <1>1, <2>1 DEF Fits, Relies, Steady, Holding, CallOps, FormOps
  <2> QED
    BY <1>0, <2>1, <2>2, CallKept DEF CallOps
<1>3. CASE swift_release_n(t)
  <2>1. PICK R \in Batches(Owns(t, {"strong"})) : Call(t, "release", R, {})
    BY <1>3 DEF swift_release_n
  <2>2. Fits(t)' /\ Relies(t)'
    BY <1>0, <1>1, <2>1 DEF Fits, Relies, Steady, Holding, CallOps, FormOps
  <2> QED
    BY <1>0, <2>1, <2>2, CallKept DEF CallOps
<1>4. CASE swift_tryPin(t)
  <2>1. PICK v \in Unused : Call(t, "tryPin", {}, {v}) /\ HoldsStrong(t)
    BY <1>4 DEF swift_tryPin
  <2>2. Fits(t)' /\ Relies(t)'
    BY <1>0, <1>1, <2>1 DEF Fits, Relies, Steady, Holding, One, CallOps, FormOps
  <2> QED
    BY <1>0, <2>1, <2>2, CallKept DEF CallOps
<1>5. CASE swift_unpin(t)
  <2>1. PICK v \in Owns(t, {"pinned"}) : Call(t, "unpin", {v}, {})
    BY <1>5 DEF swift_unpin
  <2>2. Fits(t)' /\ Relies(t)'
    BY <1>0, <1>1, <2>1 DEF Fits, Relies, Steady, Holding, One, CallOps, FormOps
  <2> QED
    BY <1>0, <2>1, <2>2, CallKept DEF CallOps
<1>6. CASE swift_tryRetain(t)
  <2>1. PICK v \in Unused : Call(t, "tryRetain", {}, {v}) /\ HoldsObject(t)
    BY <1>6 DEF swift_tryRetain
  <2>2. Fits(t)' /\ Relies(t)'
    BY <1>0, <1>1, <2>1 DEF Fits, Relies, Steady, Holding, One, CallOps, FormOps
  <2> QED
    BY <1>0, <2>1, <2>2, CallKept DEF CallOps
<1>7. CASE swift_unownedRetain_n(t)
  <2>1. PICK R \in Batches(Unused) : Call(t, "unownedRetain", {}, R) /\ HoldsObject(t)
    BY <1>7 DEF swift_unownedRetain_n
  <2>2. Fits(t)' /\ Relies(t)'
    BY <1>0, <1>1, <2>1 DEF Fits, Relies, Steady, Holding, CallOps, FormOps
  <2> QED
    BY <1>0, <2>1, <2>2, CallKept DEF CallOps
<1>8. CASE swift_unownedRelease_n(t)
  <2>1. PICK R \in Batches(Owns(t, {"unowned"})) : Call(t, "unownedRelease", R, {})
    BY <1>8 DEF swift_unownedRelease_n
  <2>2. Fits(t)' /\ Relies(t)'
    BY <1>0, <1>1, <2>1 DEF Fits, Relies, Steady, Holding, CallOps, FormOps
  <2> QED
    BY <1>0, <2>1, <2>2, CallKept DEF CallOps
<1>9. CASE swift_unownedRetainStrong(t)
  <2>1. PICK v \in Unused : /\ Call(t, "unownedRetainStrong", {}, {v})
                           /\ Owns(t, {"unowned"}) # {}
    BY <1>9 DEF swift_unownedRetainStrong
  <2>2. Fits(t)' /\ Relies(t)'
    BY <1>0, <1>1, <2>1 DEF Fits, Relies, Steady, Holding, One, CallOps, FormOps
  <2> QED
    BY <1>0, <2>1, <2>2, CallKept DEF CallOps
<1>10. CASE swift_unownedRetainStrongAndRelease(t)
  <2>1. PICK u \in Owns(t, {"unowned"}), v \in Unused :
          Call(t, "retainStrongAndRelease", {u}, {v})
    BY <1>10 DEF swift_unownedRetainStrongAndRelease
  <2>2. Fits(t)' /\ Relies(t)'
    BY <1>0, <1>1, <2>1 DEF Fits, Relies, Steady, Holding, One, CallOps, FormOps
  <2> QED
    BY <1>0, <2>1, <2>2, CallKept DEF CallOps
<1>11. CASE swift_unownedCheck(t)
  <2>1. Call(t, "unownedCheck", {}, {}) /\ Owns(t, {"unowned"}) # {}
    BY <1>11 DEF swift_unownedCheck
  <2>2. Fits(t)' /\ Relies(t)'
    BY <1>0, <1>1, <2>1 DEF Fits, Relies, Steady, CallOps, FormOps
  <2> QED
    BY <1>0, <2>1, <2>2, CallKept DEF CallOps
<1>12. CASE swift_isUniquelyReferenced_native(t)
  <2>1. Call(t, "isUnique", {}, {}) /\ Owns(t, {"strong"}) # {} /\ deinitBy = Null
    BY <1>12 DEF swift_isUniquelyReferenced_native
  <2>3. Owns(t, {"strong", "pinned"}) # {}
    BY <2>1 DEF Owns
  <2>2. Fits(t)' /\ Relies(t)'
    BY <1>0, <1>1, <2>1, <2>3 DEF Fits, Relies, Steady, CallOps, FormOps
  <2> QED
    BY <1>0, <2>1, <2>2, CallKept DEF CallOps
<1> QED
  BY <1>2, <1>3, <1>4, <1>5, <1>6, <1>7, <1>8, <1>9, <1>10, <1>11, <1>12

-----------------------------------------------------------------------------
(* Steps that hand weak references over and change no word.                *)

\* A step of t changes no carrier of a weak count but t.
LEMMA CarriersOfOthers ==
  ASSUME TypeOK, NEW t \in Thread, \A u \in Thread \ {t} : SameThread(u)
  PROVE  WeakCarriers' = (WeakCarriers \ {t})
                           \cup (IF op'[t] \in WeakDec /\ pc'[t] \in AtWord THEN {t} ELSE {})
BY DEF WeakCarriers, SameThread

\* The number of carried weak counts after a step of t.
LEMMA CarrierCount ==
  ASSUME TypeOK, NEW t \in Thread, \A u \in Thread \ {t} : SameThread(u)
  PROVE  Cardinality(WeakCarriers)' =
           Cardinality(WeakCarriers)
             - (IF op[t] \in WeakDec /\ pc[t] \in AtWord THEN 1 ELSE 0)
             + (IF op'[t] \in WeakDec /\ pc'[t] \in AtWord THEN 1 ELSE 0)
<1>1. IsFiniteSet(WeakCarriers) /\ Cardinality(WeakCarriers) \in Nat
  BY FiniteHolders
<1>2. t \in WeakCarriers <=> op[t] \in WeakDec /\ pc[t] \in AtWord
  BY DEF WeakCarriers
<1>3. /\ IsFiniteSet(WeakCarriers \ {t})
      /\ Cardinality(WeakCarriers \ {t}) =
           Cardinality(WeakCarriers) - (IF op[t] \in WeakDec /\ pc[t] \in AtWord THEN 1 ELSE 0)
  BY <1>1, <1>2, FS_RemoveElement
<1>4. CASE op'[t] \in WeakDec /\ pc'[t] \in AtWord
  <2>1. WeakCarriers' = (WeakCarriers \ {t}) \cup {t}
    BY <1>4, CarriersOfOthers
  <2>2. Cardinality((WeakCarriers \ {t}) \cup {t}) = Cardinality(WeakCarriers \ {t}) + 1
    BY <1>3, FS_AddElement
  <2> QED
    BY <1>1, <1>3, <1>4, <2>1, <2>2
<1>5. CASE ~(op'[t] \in WeakDec /\ pc'[t] \in AtWord)
  <2>1. WeakCarriers' = WeakCarriers \ {t}
    BY <1>5, CarriersOfOthers
  <2> QED
    BY <1>1, <1>3, <1>5, <2>1
<1> QED
  BY <1>4, <1>5

\* The number of weak variables that are not nil when d is set to e.
LEMMA WeakSlotCount ==
  ASSUME TypeOK, NEW d \in Slot, NEW e, wref' = [wref EXCEPT ![d] = e]
  PROVE  Cardinality(WeakSlots)' =
           Cardinality(WeakSlots) - (IF wref[d] # Null THEN 1 ELSE 0)
                                  + (IF e # Null THEN 1 ELSE 0)
<1>1. IsFiniteSet(WeakSlots) /\ Cardinality(WeakSlots) \in Nat
  BY FiniteHolders
<1>2. d \in WeakSlots <=> wref[d] # Null
  BY DEF WeakSlots
<1>3. /\ IsFiniteSet(WeakSlots \ {d})
      /\ Cardinality(WeakSlots \ {d}) =
           Cardinality(WeakSlots) - (IF wref[d] # Null THEN 1 ELSE 0)
  BY <1>1, <1>2, FS_RemoveElement
<1>4. CASE e # Null
  <2>1. WeakSlots' = (WeakSlots \ {d}) \cup {d}
    BY <1>4 DEF WeakSlots, TypeOK, SlotType
  <2>2. Cardinality((WeakSlots \ {d}) \cup {d}) = Cardinality(WeakSlots \ {d}) + 1
    BY <1>3, FS_AddElement
  <2> QED
    BY <1>1, <1>3, <1>4, <2>1, <2>2
<1>5. CASE e = Null
  <2>1. WeakSlots' = WeakSlots \ {d}
    BY <1>5 DEF WeakSlots, TypeOK, SlotType
  <2> QED
    BY <1>1, <1>3, <1>5, <2>1
<1> QED
  BY <1>4, <1>5

\* Moving a weak reference keeps the number of weak references.
LEMMA MoveCount ==
  ASSUME TypeOK, NEW t \in Thread, NEW s \in Slot, NEW d \in Slot, s # d, wref[d] = Null,
         Move(t, s, d)
  PROVE  Cardinality(WeakSlots)' = Cardinality(WeakSlots)
<1>0. wref' = [wref EXCEPT ![s] = Null, ![d] = wref[s]]
  BY DEF Move
<1>1. IsFiniteSet(WeakSlots) /\ Cardinality(WeakSlots) \in Nat
  BY FiniteHolders
<1>2. CASE wref[s] = Null
  <2>1. WeakSlots' = WeakSlots
    BY <1>0, <1>2 DEF WeakSlots, TypeOK, SlotType
  <2> QED
    BY <2>1
<1>3. CASE wref[s] # Null
  <2>1. WeakSlots' = (WeakSlots \ {s}) \cup {d} /\ s \in WeakSlots /\ d \notin WeakSlots
    BY <1>0, <1>3 DEF WeakSlots, TypeOK, SlotType
  <2>2. /\ IsFiniteSet(WeakSlots \ {s})
        /\ Cardinality(WeakSlots \ {s}) = Cardinality(WeakSlots) - 1
    BY <1>1, <2>1, FS_RemoveElement
  <2>3. Cardinality((WeakSlots \ {s}) \cup {d}) = Cardinality(WeakSlots \ {s}) + 1
    BY <2>1, <2>2, FS_AddElement
  <2> QED
    BY <1>1, <2>1, <2>2, <2>3
<1> QED
  BY <1>2, <1>3

\* Steps that change weak references, and no more of the words than the weak
\* count.
LEMMA WeakKept ==
  ASSUME TypeOK, IInv, NEW t \in Thread, \A u \in Thread \ {t} : ~Exclusive(u), Frame(t),
         Home' = Home, Bits'.strong = Bits.strong, Bits'.unowned = Bits.unowned,
         Bits'.deiniting = Bits.deiniting, Bits'.pinned = Bits.pinned,
         deinitBy' = deinitBy, alloc'[Inline] = alloc[Inline],
         \A u \in Thread \ {t} : pc[u] = "install" => alloc'[loc[u]] = alloc[loc[u]],
         \A v \in Slot : ref[v] \in {"strong", "pinned", "unowned"}
                         \/ ref'[v] \in {"strong", "pinned", "unowned"} =>
                           ref'[v] = ref[v] /\ owner'[v] = owner[v],
         op'[t] = "dealloc" <=> op[t] = "dealloc",
         op'[t] = "unownedFree" <=> op[t] = "unownedFree",
         op'[t] = "dealloc" /\ pc'[t] = "free" => pc[t] = "free",
         Home # Inline =>
           Bits'.weak - Cardinality(WeakSlots)' - Cardinality(WeakCarriers)' =
             Bits.weak - Cardinality(WeakSlots) - Cardinality(WeakCarriers),
         Home # Inline => Bits'.weak \in Int /\ Cardinality(WeakSlots)' \in Nat
                          /\ Cardinality(WeakCarriers)' \in Nat,
         FreeEntry', EntryAllocated', Entries', Slots', Local(t)'
  PROVE  IInv'
<1>1. \A u \in Thread : Local(u)'
  <2>1. \A u \in Thread : pc[u] = "install" => loc[u] # Home'
    BY DEF IInv, Local, Placed
  <2>2. \A u \in Thread : Steady(u) => deinitBy' = Null
    BY DEF IInv, Local, Relies
  <2> QED
    BY <2>1, <2>2, OthersKept
<1>2. \A u \in Thread : /\ op'[u] = "dealloc" <=> op[u] = "dealloc"
                        /\ op'[u] = "unownedFree" <=> op[u] = "unownedFree"
                        /\ op'[u] = "dealloc" /\ pc'[u] = "free" => pc[u] = "free"
  BY DEF Frame, SameThread
<1>3. \A v \in Strong : owner'[v] = owner[v]
  BY DEF Strong
<1>4. /\ StrongExact' /\ UnownedExact' /\ PinExact' /\ Deinit' /\ FreeObject'
      /\ ObjectAllocated'
  BY <1>2, <1>3, ObjectKept
<1>5. WeakExact'
  <2>1. Home # Inline => Bits.weak \in Int
    BY HomeType, WordFields DEF IInv
  <2>2. Cardinality(WeakSlots) \in Nat /\ Cardinality(WeakCarriers) \in Nat
    BY FiniteHolders
  <2>3. WeakExact
    BY DEF IInv
  <2> QED
    BY <2>1, <2>2, <2>3 DEF WeakExact
<1> QED
  BY <1>1, <1>4, <1>5 DEF IInv

\* ... and change no word and no allocation.
LEMMA WeakMoveKept ==
  ASSUME TypeOK, TypeOK', IInv, NEW t \in Thread, \A u \in Thread \ {t} : ~Exclusive(u),
         Frame(t), UNCHANGED <<mem, alloc, deinitBy>>, SameDuty(t),
         \A v \in Slot : ref[v] \in {"strong", "pinned", "unowned"}
                         \/ ref'[v] \in {"strong", "pinned", "unowned"} =>
                           ref'[v] = ref[v] /\ owner'[v] = owner[v],
         Cardinality(WeakSlots)' + Cardinality(WeakCarriers)' =
           Cardinality(WeakSlots) + Cardinality(WeakCarriers),
         Slots', Local(t)'
  PROVE  IInv'
<1>0. Home' = Home /\ Bits' = Bits
  BY DEF Home, Bits
<1>1. \A u \in Thread : pc'[u] = "delete" <=> pc[u] = "delete"
  BY DEF Frame, SameThread, SameDuty
<1>2. FreeEntry' /\ EntryAllocated'
  BY <1>0, <1>1 DEF IInv, FreeEntry, EntryAllocated, EntryHeld
<1>3. Entries'
  <2>1. \A e \in Entry : mem'[e].side = Null
    BY DEF IInv, Entries
  <2>2. \A u \in Thread :
           /\ pc[u] \in {"install", "aborted"} =>
                \/ pc'[u] \in {"install", "aborted"} /\ loc'[u] = loc[u]
                \/ loc[u] = Home \/ loc[u] = Inline \/ alloc'[loc[u]] # "live"
           /\ pc'[u] = "install" => pc[u] = "install" /\ loc'[u] = loc[u]
    BY DEF SameDuty, SameThread, Frame
  <2>3. abort' = "none" =>
           abort = "none" /\ \A u \in Thread : pc'[u] = "aborted" => pc[u] = "aborted"
    BY DEF SameDuty, SameThread, Frame
  <2> QED
    BY <1>0, <2>1, <2>2, <2>3, EntriesKept
<1>4. /\ Cardinality(WeakSlots) \in Nat /\ Cardinality(WeakCarriers) \in Nat
      /\ Cardinality(WeakSlots)' \in Nat /\ Cardinality(WeakCarriers)' \in Nat
  <2>1. Cardinality(WeakSlots) \in Nat /\ Cardinality(WeakCarriers) \in Nat
    BY FiniteHolders
  <2>2. WeakSlots' \in SUBSET Slot /\ WeakCarriers' \in SUBSET Thread
    BY DEF WeakSlots, WeakCarriers
  <2>3. IsFiniteSet(WeakSlots') /\ IsFiniteSet(WeakCarriers')
    BY <2>2, FS_Subset, SetsAssumption
  <2> QED
    BY <2>1, <2>3, FS_CardinalityType
<1>5. Bits.weak \in Int
  BY HomeType, WordFields DEF IInv
<1>6. Bits'.weak - Cardinality(WeakSlots)' - Cardinality(WeakCarriers)' =
        Bits.weak - Cardinality(WeakSlots) - Cardinality(WeakCarriers)
  BY <1>0, <1>4, <1>5
<1> QED
  BY <1>0, <1>2, <1>3, <1>4, <1>5, <1>6, WeakKept DEF SameDuty

-----------------------------------------------------------------------------
(* Entry points that concern weak references.                              *)

\* A thread outside the runtime relies on nothing.
LEMMA IdleLocal ==
  ASSUME TypeOK, IInv, NEW t \in Thread, pc[t] = "idle", SameThread(t), Home' = Home
  PROVE  Local(t)'
<1>1. Local(t) /\ op[t] = "none"
  BY DEF IInv, Local, Placed
<1>2. Placed(t)'
  BY PlacedKept
<1>3. Fits(t)'
  BY <1>1 DEF Local, Fits, SameThread
<1>4. Relies(t)' /\ Alone(t)'
  BY <1>1 DEF Relies, Steady, Alone, SameThread, FormOps
<1> QED
  BY <1>2, <1>3, <1>4 DEF Local

\* What the guards of the entry points say about the variables they take.
LEMMA WeakFacts ==
  ASSUME TypeOK, IInv, NEW t \in Thread
  PROVE  /\ \A v \in Unused : /\ v \in Slot /\ owner[v] = Null /\ ref[v] = "empty"
                              /\ wref[v] = Null
         /\ \A K : \A v \in Owns(t, K) : v \in Slot /\ owner[v] = t /\ ref[v] \in K
         /\ Unused \subseteq Slot /\ \A K : Owns(t, K) \subseteq Slot
         /\ \A v \in Slot : wref[v] # Null => ref[v] = "weak" /\ wref[v] = Home /\ Home # Inline
         /\ pc[t] = "idle" => op[t] = "none" /\ src[t] = {} /\ dst[t] = {} /\ loc[t] = Inline
                              /\ old[t].side = Null
         /\ t # Null
<1>1. Slots /\ Local(t) /\ t # Null
  BY SetsAssumption DEF IInv
<1>2. \A v \in Slot : wref[v] # Null => ref[v] = "weak" /\ wref[v] = Home /\ Home # Inline
  BY <1>1, SetsAssumption DEF Slots, TypeOK, SlotType
<1>3. \A v \in Unused : v \in Slot /\ owner[v] = Null /\ ref[v] = "empty" /\ wref[v] = Null
  BY <1>1, <1>2 DEF Slots, Unused
<1>4. pc[t] = "idle" => op[t] = "none" /\ src[t] = {} /\ dst[t] = {} /\ loc[t] = Inline
                        /\ old[t].side = Null
  BY <1>1 DEF Local, Placed, Fits
<1> QED
  BY <1>1, <1>2, <1>3, <1>4 DEF Unused, Owns

\* swift_setDeallocating, swift_weakInit, swift_weakLoadStrong.
LEMMA PlainWeakCallKept ==
  ASSUME TypeOK, IInv, NEW t \in Thread, \A u \in Thread \ {t} : ~Exclusive(u),
         swift_setDeallocating(t) \/ swift_weakInit(t) \/ swift_weakLoadStrong(t)
  PROVE  IInv'
<1>1. CASE swift_setDeallocating(t)
  <2>1. PICK v \in Owns(t, {"strong"}) :
          /\ Exclusive(t) /\ deinitBy = Null /\ Strong = {v}
          /\ Enter(t, "fromOne", "nload", Inline, {v}, {})
          /\ UNCHANGED <<ref, wref>>
    BY <1>1 DEF swift_setDeallocating
  <2>2. /\ v \in Slot /\ owner[v] = t /\ ref[v] = "strong"
    BY <2>1, WeakFacts
  <2>3. /\ \A u \in Thread \ {t} : SameThread(u)
        /\ pc[t] = "idle" /\ pc'[t] = "nload" /\ op'[t] = "fromOne" /\ loc'[t] = Inline
        /\ old'[t] = old[t] /\ src'[t] = {v} /\ dst'[t] = {}
        /\ \A w \in Slot : owner'[w] = owner[w]
        /\ deinitBy' = deinitBy /\ Strong' = Strong
    BY <2>1, EnterFrame DEF Strong
  <2>4. Fits(t)' /\ Relies(t)'
    BY WeakFacts, <2>1, <2>2, <2>3 DEF Fits, Relies, Steady, Holding, One, FormOps
  <2>5. Placed(t)'
    BY WeakFacts, <2>3 DEF Placed, FormOps, EntryOps, WeakDec, AtWord
  <2>6. Alone(t)'
    <3>1. Exclusive(t)'
      BY <2>1, <2>3 DEF Exclusive, SameThread
    <3> QED
      BY <2>1, <2>3, <3>1 DEF Alone
  <2>7. Local(t)'
    BY <2>4, <2>5, <2>6 DEF Local
  <2>8. /\ {v} \in SUBSET Slot /\ {} \in SUBSET Slot /\ {v} \cap {} = {}
        /\ \A w \in {v} : owner[w] = t
        /\ "fromOne" \notin {"none", "dealloc"} \cup WeakDec
    BY <2>2 DEF WeakDec
  <2> QED
    BY <2>1, <2>7, <2>8, EnterKept
<1>2. CASE swift_weakInit(t)
  <2>1. PICK v \in Unused :
          /\ HoldsStrong(t)
          /\ Enter(t, "weakInit", "preflight", Inline, {}, {v})
          /\ UNCHANGED <<ref, wref>>
    BY <1>2 DEF swift_weakInit
  <2>3. /\ pc[t] = "idle" /\ pc'[t] = "preflight" /\ op'[t] = "weakInit" /\ loc'[t] = Inline
        /\ old'[t] = old[t] /\ src'[t] = {} /\ dst'[t] = {v} /\ ref' = ref
        /\ HoldsStrong(t)'
    BY <2>1, EnterFrame, EnterHolds
  <2>4. Fits(t)' /\ Relies(t)'
    BY WeakFacts, <2>1, <2>3 DEF Fits, Relies, Steady, Holding, One, FormOps
  <2>5. Placed(t)' /\ Alone(t)'
    BY WeakFacts, <2>3 DEF Placed, Alone, FormOps, EntryOps, WeakDec, AtWord
  <2>7. Local(t)'
    BY <2>4, <2>5 DEF Local
  <2>8. /\ {v} \in SUBSET Slot /\ {} \in SUBSET Slot /\ {} \cap {v} = {}
        /\ \A w \in {v} : owner[w] \in {t, Null}
        /\ "weakInit" \notin {"none", "dealloc"} \cup WeakDec
    BY <2>1, WeakFacts DEF WeakDec
  <2> QED
    BY <2>1, <2>7, <2>8, EnterKept
<1>3. CASE swift_weakLoadStrong(t)
  <2>1. PICK v \in Owns(t, {"weak"}), d \in Unused :
          /\ wref[v] # Null
          /\ Enter(t, "weakLoad", "load", wref[v], {}, {d})
          /\ UNCHANGED <<ref, wref>>
    BY <1>3 DEF swift_weakLoadStrong
  <2>2. v \in Slot /\ owner[v] = t /\ wref[v] = Home /\ Home # Inline
    BY <2>1, WeakFacts
  <2>3. /\ pc[t] = "idle" /\ pc'[t] = "load" /\ op'[t] = "weakLoad" /\ loc'[t] = Home
        /\ old'[t] = old[t] /\ src'[t] = {} /\ dst'[t] = {d} /\ mem' = mem
        /\ owner'[v] = t /\ wref'[v] # Null
    BY <2>1, <2>2, EnterFrame, EnterHolds
  <2>4. Fits(t)' /\ Relies(t)'
    BY WeakFacts, <2>1, <2>2, <2>3 DEF Fits, Relies, Steady, Holding, One, FormOps
  <2>5. Home' = Home
    BY <2>3 DEF Home
  <2>6. Placed(t)' /\ Alone(t)'
    BY WeakFacts, <2>2, <2>3, <2>5 DEF Placed, Alone, FormOps, EntryOps, WeakDec, AtWord
  <2>7. Local(t)'
    BY <2>4, <2>6 DEF Local
  <2>8. /\ {d} \in SUBSET Slot /\ {} \in SUBSET Slot /\ {} \cap {d} = {}
        /\ \A w \in {d} : owner[w] \in {t, Null}
        /\ "weakLoad" \notin {"none", "dealloc"} \cup WeakDec
    BY <2>1, WeakFacts DEF WeakDec
  <2> QED
    BY <2>1, <2>7, <2>8, EnterKept
<1> QED
  BY <1>1, <1>2, <1>3

\* A variable is emptied and its weak count carried by the thread.
LEMMA EnterCarrying ==
  ASSUME TypeOK, TypeOK', IInv, NEW t \in Thread, \A u \in Thread \ {t} : ~Exclusive(u),
         NEW o \in WeakDec \ {"unownedFree"}, NEW v \in Slot, owner[v] = t, wref[v] # Null,
         NEW S \in SUBSET Slot, NEW D \in SUBSET Slot,
         Enter(t, o, "load", wref[v], S, D),
         wref' = [wref EXCEPT ![v] = Null], UNCHANGED ref,
         \A w \in D : owner[w] \in {t, Null}, \A w \in S : owner[w] = t, S \cap D = {},
         Fits(t)', Relies(t)'
  PROVE  IInv'
<1> USE WeakFacts
<1>1. /\ \A u \in Thread \ {t} : SameThread(u)
      /\ pc[t] = "idle" /\ pc'[t] = "load" /\ op'[t] = o /\ loc'[t] = wref[v]
      /\ old'[t] = old[t] /\ src'[t] = S /\ dst'[t] = D
      /\ \A w \in Slot : owner'[w] = IF w \in D THEN t ELSE owner[w]
      /\ mem' = mem /\ alloc' = alloc /\ deinitBy' = deinitBy /\ abort' = abort
  BY EnterFrame
<1>2. /\ wref[v] = Home /\ Home # Inline /\ Home' = Home
      /\ op[t] = "none" /\ old[t].side = Null
  BY <1>1 DEF Home
<1>3. Frame(t)
  BY <1>1 DEF Frame, SameSlot, TypeOK, SlotType
<1>4. SameDuty(t)
  BY <1>1, <1>2 DEF SameDuty, WeakDec
<1>5. \A w \in Slot : ref[w] \in {"strong", "pinned", "unowned"}
                      \/ ref'[w] \in {"strong", "pinned", "unowned"} =>
                        ref'[w] = ref[w] /\ owner'[w] = owner[w]
  BY <1>1 DEF IInv, Slots
<1>6. Cardinality(WeakSlots)' + Cardinality(WeakCarriers)' =
        Cardinality(WeakSlots) + Cardinality(WeakCarriers)
  <2>1. Cardinality(WeakSlots)' = Cardinality(WeakSlots) - 1
    <3>1. Cardinality(WeakSlots)' = Cardinality(WeakSlots) - 1 + 0
      BY WeakSlotCount
    <3> QED
      BY <3>1, FiniteHolders
  <2>2. Cardinality(WeakCarriers)' = Cardinality(WeakCarriers) + 1
    BY <1>1, <1>2, CarrierCount, FiniteHolders DEF WeakDec, AtWord
  <2> QED
    BY <2>1, <2>2, FiniteHolders
<1>7. Slots'
  <2>1. \A w \in Slot : owner'[w] = Null => ref'[w] = "empty"
    BY <1>1 DEF IInv, Slots
  <2>2. \A w \in Slot : wref'[w] # Null => ref'[w] = "weak" /\ wref'[w] = Home'
    BY <1>2 DEF TypeOK, SlotType
  <2> QED
    BY <1>1, <1>2, <1>3, <2>1, <2>2, SlotsKept
<1>8. Placed(t)' /\ Alone(t)'
  BY <1>1, <1>2 DEF Placed, Alone, FormOps, EntryOps, WeakDec, AtWord
<1> QED
  BY <1>1, <1>3, <1>4, <1>5, <1>6, <1>7, <1>8, WeakMoveKept DEF Local

\* swift_weakAssign gives back the old entry after it has taken the new one.
LEMMA WeakAssignKept ==
  ASSUME TypeOK, TypeOK', IInv, NEW t \in Thread, \A u \in Thread \ {t} : ~Exclusive(u),
         swift_weakAssign(t)
  PROVE  IInv'
<1>1. PICK v \in Owns(t, {"weak"}) :
        \/ /\ HoldsStrong(t)
           /\ Enter(t, "weakAssign", "preflight", Inline, {}, {v})
           /\ UNCHANGED <<ref, wref>>
        \/ /\ wref[v] # Null
           /\ Enter(t, "weakDestroy", "load", wref[v], {}, {})
           /\ wref' = [wref EXCEPT ![v] = Null]
           /\ UNCHANGED ref
  BY DEF swift_weakAssign
<1>2. /\ v \in Slot /\ owner[v] = t /\ ref[v] = "weak"
      /\ {v} \in SUBSET Slot /\ {} \in SUBSET Slot /\ {} \cap {v} = {} /\ {} \cap {} = {}
  BY <1>1, WeakFacts
<1>3. CASE /\ HoldsStrong(t)
           /\ Enter(t, "weakAssign", "preflight", Inline, {}, {v})
           /\ UNCHANGED <<ref, wref>>
  <2>1. /\ pc[t] = "idle" /\ pc'[t] = "preflight" /\ op'[t] = "weakAssign" /\ loc'[t] = Inline
        /\ old'[t] = old[t] /\ src'[t] = {} /\ dst'[t] = {v} /\ ref' = ref
        /\ HoldsStrong(t)'
    BY <1>3, EnterFrame, EnterHolds
  <2>2. Fits(t)' /\ Relies(t)'
    BY <1>2, <2>1 DEF Fits, Relies, Steady, Holding, One, FormOps
  <2>3. Placed(t)' /\ Alone(t)'
    BY <2>1, WeakFacts DEF Placed, Alone, FormOps, EntryOps, WeakDec, AtWord
  <2>4. Local(t)' /\ "weakAssign" \notin {"none", "dealloc"} \cup WeakDec
    BY <2>2, <2>3 DEF Local, WeakDec
  <2> QED
    BY <1>2, <1>3, <2>4, EnterKept
<1>4. CASE /\ wref[v] # Null
           /\ Enter(t, "weakDestroy", "load", wref[v], {}, {})
           /\ wref' = [wref EXCEPT ![v] = Null]
           /\ UNCHANGED ref
  <2>1. op'[t] = "weakDestroy" /\ src'[t] = {} /\ dst'[t] = {}
    BY <1>4, EnterFrame
  <2>2. Fits(t)' /\ Relies(t)' /\ "weakDestroy" \in WeakDec \ {"unownedFree"}
    BY <2>1 DEF Fits, Relies, Steady, FormOps, WeakDec
  <2> QED
    BY <1>2, <1>4, <2>2, EnterCarrying
<1> QED
  BY <1>1, <1>3, <1>4

\* swift_weakTakeStrong retains through the entry whose weak count it gives
\* back; the caller's own reference keeps both.
LEMMA WeakTakeStrongKept ==
  ASSUME TypeOK, TypeOK', IInv, Disciplined, NEW t \in Thread,
         \A u \in Thread \ {t} : ~Exclusive(u), swift_weakTakeStrong(t)
  PROVE  IInv'
<1>1. PICK v \in Owns(t, {"weak"}), d \in Unused :
        /\ wref[v] # Null /\ HoldsStrong(t)
        /\ Enter(t, "weakTake", "load", wref[v], {}, {d})
        /\ wref' = [wref EXCEPT ![v] = Null]
        /\ UNCHANGED ref
  BY DEF swift_weakTakeStrong, Disciplined
<1>2. /\ v \in Slot /\ owner[v] = t /\ d \in Slot /\ owner[d] = Null /\ ref[d] = "empty"
      /\ {d} \in SUBSET Slot /\ {} \in SUBSET Slot /\ {} \cap {d} = {}
      /\ \A w \in {d} : owner[w] \in {t, Null}
  BY <1>1, WeakFacts
<1>3. op'[t] = "weakTake" /\ src'[t] = {} /\ dst'[t] = {d} /\ HoldsStrong(t)'
  BY <1>1, EnterFrame, EnterHolds
<1>4. Fits(t)' /\ Relies(t)' /\ "weakTake" \in WeakDec \ {"unownedFree"}
  BY <1>1, <1>2, <1>3 DEF Fits, Relies, Steady, Holding, One, FormOps, WeakDec
<1> QED
  BY <1>1, <1>2, <1>4, EnterCarrying

\* swift_weakDestroy carries the weak count of the variable into the runtime.
LEMMA WeakDestroyKept ==
  ASSUME TypeOK, TypeOK', IInv, NEW t \in Thread, \A u \in Thread \ {t} : ~Exclusive(u),
         swift_weakDestroy(t)
  PROVE  IInv'
<1>1. PICK v \in Owns(t, {"weak"}) :
        /\ pc[t] = "idle"
        /\ ref' = [ref EXCEPT ![v] = "empty"]
        /\ owner' = [owner EXCEPT ![v] = Null]
        /\ wref' = [wref EXCEPT ![v] = Null]
        /\ IF wref[v] = Null
           THEN UNCHANGED <<pc, op, loc, old>>
           ELSE Proceed(t, "weakDestroy", "load", wref[v])
        /\ UNCHANGED <<mem, alloc, src, dst, deinitBy, abort>>
  BY DEF swift_weakDestroy
<1>2. /\ v \in Slot /\ owner[v] = t /\ ref[v] = "weak" /\ op[t] = "none"
      /\ src[t] = {} /\ dst[t] = {} /\ loc[t] = Inline /\ old[t].side = Null
      /\ wref[v] # Null => wref[v] = Home /\ Home # Inline
  BY <1>1, WeakFacts
<1>3. Home' = Home
  BY <1>1 DEF Home
<1>4. \A u \in Thread \ {t} : SameThread(u)
  BY <1>1, ProceedFrame DEF SameThread
<1>5. /\ \A w \in Slot \ {v} : owner'[w] = owner[w] /\ ref'[w] = ref[w] /\ wref'[w] = wref[w]
      /\ owner'[v] = Null /\ ref'[v] = "empty" /\ wref'[v] = Null
  BY <1>1, <1>2 DEF TypeOK, SlotType
<1>6. Frame(t)
  BY <1>2, <1>4, <1>5 DEF Frame, SameSlot
<1>7. \A w \in Slot : ref[w] \in {"strong", "pinned", "unowned"}
                      \/ ref'[w] \in {"strong", "pinned", "unowned"} =>
                        ref'[w] = ref[w] /\ owner'[w] = owner[w]
  BY <1>2, <1>5
<1>8. Slots'
  <2>1. \A w \in Slot : owner'[w] = Null => ref'[w] = "empty"
    BY <1>5 DEF IInv, Slots
  <2>2. \A w \in Slot : wref'[w] # Null => ref'[w] = "weak" /\ wref'[w] = Home'
    BY <1>3, <1>5 DEF IInv, Slots
  <2>3. src'[t] = {} /\ dst'[t] = {}
    BY <1>1, <1>2
  <2> QED
    BY <1>3, <1>6, <2>1, <2>2, <2>3, SlotsKept
<1>9. Cardinality(WeakSlots)' =
        Cardinality(WeakSlots) - (IF wref[v] # Null THEN 1 ELSE 0) + 0
  BY <1>1, <1>2, WeakSlotCount
<1>10. CASE wref[v] = Null
  <2>1. SameThread(t)
    BY <1>1, <1>10 DEF SameThread
  <2>2. Local(t)'
    BY <1>1, <1>3, <2>1, IdleLocal
  <2>3. SameDuty(t)
    BY <1>1, <1>2, <2>1 DEF SameDuty, SameThread
  <2>4. Cardinality(WeakCarriers)' = Cardinality(WeakCarriers) - 0 + 0
    BY <1>2, <1>4, <2>1, CarrierCount DEF SameThread, WeakDec
  <2>5. Cardinality(WeakSlots)' + Cardinality(WeakCarriers)' =
          Cardinality(WeakSlots) + Cardinality(WeakCarriers)
    BY <1>9, <1>10, <2>4, FiniteHolders
  <2> QED
    BY <1>1, <1>6, <1>7, <1>8, <2>2, <2>3, <2>5, WeakMoveKept
<1>11. CASE wref[v] # Null
  <2>1. /\ pc'[t] = "load" /\ op'[t] = "weakDestroy" /\ loc'[t] = Home /\ old'[t].side = Null
        /\ src'[t] = {} /\ dst'[t] = {}
    BY <1>1, <1>2, <1>11, ProceedFrame
  <2>2. Local(t)'
    BY <1>2, <1>3, <1>11, <2>1 DEF Local, Fits, Placed, Relies, Steady, Alone, FormOps, EntryOps,
         WeakDec, AtWord
  <2>3. SameDuty(t)
    BY <1>1, <1>2, <2>1 DEF SameDuty
  <2>4. Cardinality(WeakCarriers)' = Cardinality(WeakCarriers) - 0 + 1
    BY <1>2, <1>4, <2>1, CarrierCount DEF WeakDec, AtWord
  <2>5. Cardinality(WeakSlots)' + Cardinality(WeakCarriers)' =
          Cardinality(WeakSlots) + Cardinality(WeakCarriers)
    BY <1>9, <1>11, <2>4, FiniteHolders
  <2> QED
    BY <1>1, <1>6, <1>7, <1>8, <2>2, <2>3, <2>5, WeakMoveKept
<1> QED
  BY <1>10, <1>11

\* A weak reference moves between two variables of an idle thread.
LEMMA IdleMoveKept ==
  ASSUME TypeOK, TypeOK', IInv, NEW t \in Thread, \A u \in Thread \ {t} : ~Exclusive(u),
         pc[t] = "idle", NEW s \in Owns(t, {"weak"}), NEW d \in Slot, s # d,
         owner[d] \in {t, Null}, ref[d] \in {"empty", "weak"}, wref[d] = Null,
         Move(t, s, d), UNCHANGED <<mem, alloc, threadVars, deinitBy, abort>>
  PROVE  IInv'
<1>1. /\ s \in Slot /\ owner[s] = t /\ ref[s] = "weak" /\ op[t] = "none"
      /\ src[t] = {} /\ dst[t] = {} /\ t # Null
      /\ wref[s] # Null => wref[s] = Home /\ Home # Inline
  BY WeakFacts
<1>2. Home' = Home /\ SameThread(t) /\ \A u \in Thread \ {t} : SameThread(u)
  BY DEF Home, threadVars, SameThread
<1>3. /\ \A w \in Slot \ {s, d} : owner'[w] = owner[w] /\ ref'[w] = ref[w] /\ wref'[w] = wref[w]
      /\ owner'[s] = Null /\ ref'[s] = "empty" /\ wref'[s] = Null
      /\ owner'[d] = t /\ ref'[d] = "weak" /\ wref'[d] = wref[s]
  BY <1>1 DEF Move, TypeOK, SlotType
<1>4. Frame(t)
  BY <1>1, <1>2, <1>3 DEF Frame, SameSlot
<1>5. \A w \in Slot : ref[w] \in {"strong", "pinned", "unowned"}
                      \/ ref'[w] \in {"strong", "pinned", "unowned"} =>
                        ref'[w] = ref[w] /\ owner'[w] = owner[w]
  BY <1>1, <1>3
<1>6. Slots'
  <2>1. \A w \in Slot : owner'[w] = Null => ref'[w] = "empty"
    BY <1>1, <1>3 DEF IInv, Slots
  <2>2. \A w \in Slot : wref'[w] # Null => ref'[w] = "weak" /\ wref'[w] = Home'
    BY <1>1, <1>2, <1>3 DEF IInv, Slots
  <2>3. src'[t] = {} /\ dst'[t] = {}
    BY <1>1, <1>2 DEF SameThread
  <2> QED
    BY <1>2, <1>4, <2>1, <2>2, <2>3, SlotsKept
<1>7. Local(t)'
  BY <1>2, IdleLocal
<1>8. SameDuty(t)
  BY <1>1, <1>2 DEF SameDuty, SameThread
<1>9. Cardinality(WeakCarriers)' = Cardinality(WeakCarriers) - 0 + 0
  BY <1>1, <1>2, CarrierCount DEF SameThread, WeakDec
<1>10. Cardinality(WeakSlots)' = Cardinality(WeakSlots)
  BY <1>1, MoveCount
<1>11. Cardinality(WeakSlots)' + Cardinality(WeakCarriers)' =
          Cardinality(WeakSlots) + Cardinality(WeakCarriers)
  BY <1>9, <1>10, FiniteHolders
<1> QED
  BY <1>4, <1>5, <1>6, <1>7, <1>8, <1>11, WeakMoveKept

\* A copy from s, which is not nil, into d, which is.
LEMMA WeakCopyCallKept ==
  ASSUME TypeOK, IInv, NEW t \in Thread, \A u \in Thread \ {t} : ~Exclusive(u),
         NEW s \in Owns(t, {"weak"}), NEW d \in Slot, wref[s] # Null, wref[d] = Null,
         owner[d] \in {t, Null}, ref[d] \in {"empty", "weak"},
         Enter(t, "weakCopy", "check", wref[s], {}, {d}), UNCHANGED <<ref, wref>>
  PROVE  IInv'
<1>1. /\ s \in Slot /\ owner[s] = t /\ wref[s] = Home /\ Home # Inline
      /\ {d} \in SUBSET Slot /\ {} \in SUBSET Slot /\ {} \cap {d} = {}
      /\ \A w \in {d} : owner[w] \in {t, Null}
  BY WeakFacts
<1>2. /\ pc[t] = "idle" /\ pc'[t] = "check" /\ op'[t] = "weakCopy" /\ loc'[t] = Home
      /\ old'[t] = old[t] /\ src'[t] = {} /\ dst'[t] = {d} /\ mem' = mem
      /\ owner'[s] = t /\ wref'[s] # Null
  BY <1>1, EnterFrame, EnterHolds
<1>3. Fits(t)' /\ Relies(t)'
  BY <1>1, <1>2 DEF Fits, Relies, Steady, One, FormOps
<1>4. Home' = Home
  BY <1>2 DEF Home
<1>5. Placed(t)' /\ Alone(t)'
  BY <1>1, <1>2, <1>4, WeakFacts DEF Placed, Alone, FormOps, EntryOps, WeakDec, AtWord
<1>6. Local(t)' /\ "weakCopy" \notin {"none", "dealloc"} \cup WeakDec
  BY <1>3, <1>5 DEF Local, WeakDec
<1> QED
  BY <1>1, <1>6, EnterKept

\* swift_weakCopyInit reads an entry that its source variable keeps.
LEMMA WeakCopyInitKept ==
  ASSUME TypeOK, TypeOK', IInv, NEW t \in Thread, \A u \in Thread \ {t} : ~Exclusive(u),
         swift_weakCopyInit(t)
  PROVE  IInv'
<1>1. PICK s \in Owns(t, {"weak"}), d \in Unused :
        IF wref[s] = Null
        THEN /\ pc[t] = "idle"
             /\ ref' = [ref EXCEPT ![d] = "weak"]
             /\ owner' = [owner EXCEPT ![d] = t]
             /\ UNCHANGED <<mem, alloc, threadVars, wref, deinitBy, abort>>
        ELSE /\ Enter(t, "weakCopy", "check", wref[s], {}, {d})
             /\ UNCHANGED <<ref, wref>>
  BY DEF swift_weakCopyInit
<1>2. d \in Slot /\ owner[d] = Null /\ ref[d] = "empty" /\ wref[d] = Null
  BY <1>1, WeakFacts
<1>3. CASE wref[s] # Null
  BY <1>1, <1>2, <1>3, WeakCopyCallKept
<1>4. CASE wref[s] = Null
  <2>1. Home' = Home /\ pc[t] = "idle" /\ SameThread(t) /\ \A u \in Thread \ {t} : SameThread(u)
    BY <1>1, <1>4 DEF Home, threadVars, SameThread
  <2>2. /\ \A w \in Slot \ {d} : owner'[w] = owner[w] /\ ref'[w] = ref[w]
        /\ owner'[d] = t /\ ref'[d] = "weak" /\ wref' = wref
    BY <1>1, <1>2, <1>4 DEF TypeOK, SlotType
  <2>3. op[t] = "none" /\ src[t] = {} /\ dst[t] = {}
    BY <2>1, WeakFacts
  <2>4. Frame(t)
    BY <1>2, <2>1, <2>2 DEF Frame, SameSlot
  <2>5. \A w \in Slot : ref[w] \in {"strong", "pinned", "unowned"}
                        \/ ref'[w] \in {"strong", "pinned", "unowned"} =>
                          ref'[w] = ref[w] /\ owner'[w] = owner[w]
    BY <1>2, <2>2
  <2>6. Slots'
    <3>1. \A w \in Slot : owner'[w] = Null => ref'[w] = "empty"
      BY <2>2, SetsAssumption DEF IInv, Slots
    <3>2. \A w \in Slot : wref'[w] # Null => ref'[w] = "weak" /\ wref'[w] = Home'
      BY <2>1, <2>2 DEF IInv, Slots
    <3>3. src'[t] = {} /\ dst'[t] = {}
      BY <2>1, <2>3 DEF SameThread
    <3> QED
      BY <2>1, <2>4, <3>1, <3>2, <3>3, SlotsKept
  <2>7. Local(t)'
    BY <2>1, IdleLocal
  <2>8. SameDuty(t)
    BY <1>1, <1>4, <2>1, <2>3 DEF SameDuty, SameThread
  <2>9. Cardinality(WeakCarriers)' = Cardinality(WeakCarriers) - 0 + 0
    BY <2>1, <2>3, CarrierCount DEF SameThread, WeakDec
  <2>10. WeakSlots' = WeakSlots
    BY <2>2 DEF WeakSlots
  <2>11. Cardinality(WeakSlots)' + Cardinality(WeakCarriers)' =
            Cardinality(WeakSlots) + Cardinality(WeakCarriers)
    BY <2>9, <2>10, FiniteHolders
  <2> QED
    BY <1>1, <1>4, <2>4, <2>5, <2>6, <2>7, <2>8, <2>11, WeakMoveKept
<1> QED
  BY <1>3, <1>4

\* The assignments between weak variables.
LEMMA WeakReassignKept ==
  ASSUME TypeOK, TypeOK', IInv, NEW t \in Thread, \A u \in Thread \ {t} : ~Exclusive(u),
         swift_weakTakeInit(t) \/ swift_weakCopyAssign(t) \/ swift_weakTakeAssign(t)
  PROVE  IInv'
<1>0. ASSUME NEW s \in Owns(t, {"weak"}), NEW d \in Owns(t, {"weak"}), s # d, wref[d] # Null,
             NEW o \in {"weakCopyAssign", "weakTakeAssign"},
             Enter(t, o, "load", wref[d], {s}, {d}),
             wref' = [wref EXCEPT ![d] = Null], UNCHANGED ref
      PROVE  IInv'
  <2>1. /\ s \in Slot /\ owner[s] = t /\ ref[s] = "weak"
        /\ d \in Slot /\ owner[d] = t /\ ref[d] = "weak"
        /\ {s} \in SUBSET Slot /\ {d} \in SUBSET Slot /\ {s} \cap {d} = {}
        /\ \A w \in {d} : owner[w] \in {t, Null}
        /\ \A w \in {s} : owner[w] = t
    BY <1>0, WeakFacts
  <2>2. op'[t] = o /\ src'[t] = {s} /\ dst'[t] = {d}
    BY <1>0, EnterFrame
  <2>3. wref'[d] = Null
    BY <1>0, <2>1 DEF TypeOK, SlotType
  <2>4. Fits(t)' /\ Relies(t)' /\ o \in WeakDec \ {"unownedFree"}
    BY <1>0, <2>1, <2>2, <2>3 DEF Fits, Relies, Steady, Holding, One, FormOps, WeakDec
  <2> QED
    BY <1>0, <2>1, <2>4, EnterCarrying
<1>1. CASE swift_weakTakeInit(t)
  <2>1. PICK s \in Owns(t, {"weak"}), d \in Unused :
          /\ pc[t] = "idle" /\ Move(t, s, d)
          /\ UNCHANGED <<mem, alloc, threadVars, deinitBy, abort>>
    BY <1>1 DEF swift_weakTakeInit
  <2>2. d \in Slot /\ owner[d] = Null /\ ref[d] = "empty" /\ wref[d] = Null /\ s # d
    BY <2>1, WeakFacts
  <2> QED
    BY <2>1, <2>2, IdleMoveKept
<1>2. CASE swift_weakCopyAssign(t)
  <2>1. PICK s \in Owns(t, {"weak"}), d \in Owns(t, {"weak"}) :
          /\ s # d
          /\ wref[d] # Null \/ wref[s] # Null
          /\ IF wref[d] # Null
             THEN Enter(t, "weakCopyAssign", "load", wref[d], {s}, {d})
             ELSE Enter(t, "weakCopy", "check", wref[s], {}, {d})
          /\ wref' = [wref EXCEPT ![d] = Null]
          /\ UNCHANGED ref
    BY <1>2 DEF swift_weakCopyAssign
  <2>2. CASE wref[d] # Null
    BY <1>0, <2>1, <2>2
  <2>3. CASE wref[d] = Null
    <3>1. d \in Slot /\ owner[d] = t /\ ref[d] = "weak"
      BY <2>1, WeakFacts
    <3>2. wref' = wref
      BY <2>1, <2>3, <3>1 DEF TypeOK, SlotType
    <3> QED
      BY <2>1, <2>3, <3>1, <3>2, WeakCopyCallKept
  <2> QED
    BY <2>2, <2>3
<1>3. CASE swift_weakTakeAssign(t)
  <2>1. PICK s \in Owns(t, {"weak"}), d \in Owns(t, {"weak"}) :
          /\ s # d
          /\ IF wref[d] # Null
             THEN /\ Enter(t, "weakTakeAssign", "load", wref[d], {s}, {d})
                  /\ wref' = [wref EXCEPT ![d] = Null]
                  /\ UNCHANGED ref
             ELSE /\ pc[t] = "idle"
                  /\ Move(t, s, d)
                  /\ UNCHANGED <<mem, alloc, threadVars, deinitBy, abort>>
    BY <1>3 DEF swift_weakTakeAssign
  <2>2. CASE wref[d] # Null
    BY <1>0, <2>1, <2>2
  <2>3. CASE wref[d] = Null
    <3>1. d \in Slot /\ owner[d] = t /\ ref[d] = "weak"
      BY <2>1, WeakFacts
    <3> QED
      BY <2>1, <2>3, <3>1, IdleMoveKept
  <2> QED
    BY <2>2, <2>3
<1> QED
  BY <1>1, <1>2, <1>3

\* Every entry point keeps the invariant.
LEMMA EntryPointKept ==
  ASSUME TypeOK, TypeOK', IInv, Disciplined, NEW t \in Thread,
         \A u \in Thread \ {t} : ~Exclusive(u), EntryPoint(t)
  PROVE  IInv'
BY CountCallKept, PlainWeakCallKept, WeakAssignKept, WeakTakeStrongKept, WeakDestroyKept,
   WeakCopyInitKept, WeakReassignKept DEF EntryPoint

-----------------------------------------------------------------------------
(* Steps in which a thread reads, decides, gives up or is killed.          *)

\* The only thread that knows the object stays so until it hands it on.
LEMMA ExclusiveKept ==
  ASSUME NEW t \in Thread, Exclusive(t), \A u \in Thread \ {t} : SameThread(u),
         UNCHANGED <<owner, deinitBy>>
  PROVE  Exclusive(t)'
BY DEF Exclusive, SameThread

\* A step that changes nothing but where its own thread is.
LEMMA ThinkKept ==
  ASSUME TypeOK, IInv, NEW t \in Thread, \A u \in Thread \ {t} : ~Exclusive(u),
         \A u \in Thread \ {t} : SameThread(u),
         UNCHANGED <<mem, alloc, slotVars, deinitBy>>,
         op'[t] = op[t], src'[t] = src[t], dst'[t] = dst[t], SameStatus(t), Placed(t)',
         pc'[t] \in {"nload", "store"} => pc[t] \in {"nload", "store"},
         pc'[t] = "store" => old'[t] = mem[loc'[t]],
         Steady(t)' => Owns(t, {"strong", "pinned"}) # {} /\ deinitBy = Null
  PROVE  IInv'
<1>0. Local(t) /\ Slots /\ src[t] \subseteq Slot /\ dst[t] \subseteq Slot
  BY DEF IInv, TypeOK, ThreadType
<1>1. Fits(t)'
  BY <1>0, FitsKept DEF Local, slotVars
<1>2. Relies(t)'
  <2>1. /\ \A K : Owns(t, K)' = Owns(t, K)
        /\ HoldsStrong(t)' = HoldsStrong(t) /\ HoldsObject(t)' = HoldsObject(t)
    BY DEF Owns, HoldsStrong, HoldsObject, slotVars
  <2> QED
    BY <1>0, <2>1 DEF Local, Relies, slotVars
<1>3. Alone(t)'
  <2>1. Strong' = Strong
    BY DEF slotVars, Strong
  <2>2. pc'[t] \in {"nload", "store"} \/ op'[t] = "fromOne" => Exclusive(t)'
    BY <1>0, ExclusiveKept DEF Local, Alone, slotVars
  <2> QED
    BY <1>0, <2>1, <2>2 DEF Local, Alone
<1>4. Local(t)'
  BY <1>1, <1>2, <1>3 DEF Local
<1>5. /\ \A v \in src'[t] \cup dst'[t] : owner'[v] = t
      /\ src'[t] \cap dst'[t] = {}
  BY <1>0 DEF Slots, slotVars
<1>6. \A v \in Slot : owner'[v] = owner[v]
  BY DEF slotVars
<1> QED
  BY <1>4, <1>5, <1>6, Quiet DEF slotVars

\* A thread that goes on, or is killed, relies on nothing new.
LEMMA StillSteady ==
  ASSUME IInv, NEW t \in Thread, op'[t] = op[t],
         pc[t] \in {"load", "nload", "cas", "store"} \/ pc'[t] = "aborted"
  PROVE  Steady(t)' => Owns(t, {"strong", "pinned"}) # {} /\ deinitBy = Null
<1>1. Steady(t)' => Steady(t)
  BY DEF Steady
<1> QED
  BY <1>1 DEF IInv, Local, Relies

\* The word at the place where a thread works.
LEMMA WordPlace ==
  ASSUME TypeOK, IInv, NEW t \in Thread, pc[t] \in AtWord
  PROVE  /\ mem[loc[t]].side # Null => mem[loc[t]].side = Home /\ loc[t] = Inline
         /\ Readable(loc[t]) = {mem[loc[t]]}
         /\ old[t].side # Null => old[t].side = Home /\ loc[t] = Inline /\ Home # Inline
<1>1. loc[t] \in {Inline, Home} /\ Placed(t)
  BY DEF IInv, Local, Placed
<1>2. mem[loc[t]].side # Null => mem[loc[t]].side = Home /\ loc[t] = Inline
  <2>1. Bits.side = Null /\ (Home # Inline => mem[Inline].side = Home)
        /\ (Home = Inline <=> mem[Inline].side = Null)
    BY HomeType DEF IInv
  <2> QED
    BY <1>1, <2>1 DEF Bits
<1>3. Readable(loc[t]) = {mem[loc[t]]}
  BY ReadsWord DEF AtWord
<1>4. old[t].side # Null => old[t].side = Home /\ loc[t] = Inline
  BY <1>1 DEF Placed, AtWord
<1>5. old[t].side \in Entry \cup {Null}
  BY WordFields DEF TypeOK, ThreadType
<1> QED
  BY <1>2, <1>3, <1>4, <1>5, SetsAssumption

\* Loading the word, for the first time or after a lost compare-exchange.
LEMMA LoadKept ==
  ASSUME TypeOK, IInv, NEW t \in Thread, \A u \in Thread \ {t} : ~Exclusive(u),
         Load(t) \/ Retry(t)
  PROVE  IInv'
<1>1. /\ pc[t] \in {"load", "nload", "cas"}
      /\ pc'[t] = IF pc[t] = "nload" THEN "store" ELSE "cas"
      /\ old'[t] = mem[loc[t]]
      /\ op'[t] = op[t] /\ loc'[t] = loc[t] /\ src'[t] = src[t] /\ dst'[t] = dst[t]
      /\ \A u \in Thread \ {t} : SameThread(u)
      /\ UNCHANGED <<mem, alloc, slotVars, deinitBy, abort>>
  <2>1. CASE Load(t)
    <3>1. Readable(loc[t]) = {mem[loc[t]]}
      BY <2>1, WordPlace DEF Load, AtWord
    <3> QED
      BY <2>1, <3>1 DEF Load, TypeOK, ThreadType, SameThread
  <2>2. CASE Retry(t)
    BY <2>2 DEF Retry, TypeOK, ThreadType, SameThread
  <2> QED
    BY <2>1, <2>2
<1>2. pc[t] \in AtWord /\ pc'[t] \in AtWord
  BY <1>1 DEF AtWord
<1>3. SameStatus(t)
  BY <1>1, <1>2 DEF SameStatus, SameDuty
<1>4. Home' = Home /\ Placed(t)
  BY <1>1 DEF Home, IInv, Local
<1>5. mem[loc[t]].side # Null => mem[loc[t]].side = Home /\ loc[t] = Inline
  BY <1>2, WordPlace
<1>6. Placed(t)'
  BY <1>1, <1>2, <1>4, <1>5 DEF Placed, AtWord
<1>7. Steady(t)' => Owns(t, {"strong", "pinned"}) # {} /\ deinitBy = Null
  BY <1>1, StillSteady
<1> QED
  BY <1>1, <1>3, <1>6, <1>7, ThinkKept

\* A thread that read a side table pointer goes on in the entry.
LEMMA ForwardKept ==
  ASSUME TypeOK, IInv, NEW t \in Thread, \A u \in Thread \ {t} : ~Exclusive(u),
         ForwardToSideTable(t)
  PROVE  IInv'
<1>1. /\ pc[t] \in {"cas", "store"} /\ old[t].side # Null
      /\ pc'[t] \in {"load", "nload"} /\ (pc'[t] = "nload" => pc[t] = "store")
      /\ op'[t] = op[t] /\ loc'[t] = old[t].side /\ old'[t].side = Null
      /\ src'[t] = src[t] /\ dst'[t] = dst[t]
      /\ \A u \in Thread \ {t} : SameThread(u)
      /\ UNCHANGED <<mem, alloc, slotVars, deinitBy, abort>>
  BY ProceedFrame DEF ForwardToSideTable, Decides, Again, SameThread
<1>2. pc[t] \in AtWord /\ pc'[t] \in AtWord
  BY <1>1 DEF AtWord
<1>3. SameStatus(t)
  BY <1>1, <1>2 DEF SameStatus, SameDuty
<1>4. Home' = Home /\ Placed(t)
  BY <1>1 DEF Home, IInv, Local
<1>5. old[t].side = Home /\ loc[t] = Inline /\ Home # Inline
  BY <1>1, <1>2, WordPlace
<1>6. Placed(t)'
  BY <1>1, <1>2, <1>4, <1>5 DEF Placed, AtWord
<1>7. Steady(t)' => Owns(t, {"strong", "pinned"}) # {} /\ deinitBy = Null
  BY <1>1, StillSteady
<1> QED
  BY <1>1, <1>3, <1>6, <1>7, ThinkKept

\* The runtime kills the process.
LEMMA AbortKept ==
  ASSUME TypeOK, IInv, NEW t \in Thread, \A u \in Thread \ {t} : ~Exclusive(u),
         NEW reason, reason # "none", Abort(t, reason),
         UNCHANGED <<mem, alloc, slotVars, deinitBy>>,
         pc[t] \notin {"idle", "delete"}, old[t].side = Null,
         op[t] \notin WeakDec \cup {"dealloc"}
  PROVE  IInv'
<1>1. /\ pc'[t] = "aborted" /\ op'[t] = op[t] /\ loc'[t] = loc[t] /\ old'[t] = old[t]
      /\ src'[t] = src[t] /\ dst'[t] = dst[t] /\ abort' = reason
      /\ \A u \in Thread \ {t} : SameThread(u)
  BY AbortFrame
<1>2. SameStatus(t)
  BY <1>1 DEF SameStatus, SameDuty, WeakDec
<1>3. Placed(t)'
  BY <1>1 DEF IInv, Local, Placed, AtWord
<1>4. Steady(t)' => Owns(t, {"strong", "pinned"}) # {} /\ deinitBy = Null
  BY <1>1, StillSteady
<1> QED
  BY <1>1, <1>2, <1>3, <1>4, ThinkKept

\* An operation is over and has changed nothing; slots it reserved are free.
LEMMA LeaveKept ==
  ASSUME TypeOK, IInv, NEW t \in Thread, \A u \in Thread \ {t} : ~Exclusive(u),
         Leave(t), UNCHANGED <<mem, alloc, ref, wref, deinitBy, abort>>,
         pc[t] \in AtWord, op[t] \notin WeakDec \cup {"dealloc"},
         \A v \in Slot : owner'[v] = IF v \in dst[t] THEN Null ELSE owner[v],
         Holding(dst[t], "empty")
  PROVE  IInv'
<1>1. /\ pc'[t] = "idle" /\ op'[t] = "none" /\ loc'[t] = Inline
      /\ src'[t] = {} /\ dst'[t] = {}
      /\ \A u \in Thread \ {t} : SameThread(u)
  BY LeaveFrame
<1>2. SameStatus(t)
  BY <1>1 DEF SameStatus, SameDuty, WeakDec, AtWord
<1>3. \A v \in Slot : IF ref[v] = "empty" /\ owner[v] \in {t, Null}
                      THEN owner'[v] \in {t, Null} ELSE owner'[v] = owner[v]
  <2>1. \A v \in dst[t] : ref[v] = "empty" /\ owner[v] = t
    BY DEF Holding, IInv, Slots
  <2> QED
    BY <2>1
<1>4. Local(t)'
  BY LeaveLocal
<1> QED
  BY <1>1, <1>2, <1>3, <1>4, Quiet

\* Operations that find the object deiniting, or pinned, change nothing.
LEMMA RefuseKept ==
  ASSUME TypeOK, IInv, NEW t \in Thread, \A u \in Thread \ {t} : ~Exclusive(u),
         Refuse(t)
  PROVE  IInv'
<1>0. /\ pc[t] \in {"cas", "store"} /\ pc[t] \in AtWord /\ old[t].side = Null
      /\ op[t] \in TryOps \cup {"tryPin"} /\ Fits(t)
      /\ UNCHANGED <<mem, alloc, ref, wref, deinitBy>>
  BY DEF Refuse, Refused, Decides, AtWord, IInv, Local
<1>1. CASE op[t] \in {"unownedRetainStrong", "retainStrongAndRelease"}
  <2>1. Abort(t, "retainUnowned") /\ UNCHANGED owner
    BY <1>1 DEF Refuse
  <2>2. op[t] \notin WeakDec \cup {"dealloc"}
    BY <1>1 DEF WeakDec
  <2> QED
    BY <1>0, <2>1, <2>2, AbortKept DEF slotVars
<1>2. CASE op[t] \notin {"unownedRetainStrong", "retainStrongAndRelease"}
  <2>1. /\ owner' = [v \in Slot |-> IF v \in dst[t] THEN Null ELSE owner[v]]
        /\ Leave(t)
        /\ UNCHANGED abort
    BY <1>2 DEF Refuse
  <2>2. op[t] \in {"tryRetain", "weakLoad", "tryPin"}
    BY <1>0, <1>2 DEF TryOps
  <2>3. op[t] \notin WeakDec \cup {"dealloc"} /\ Holding(dst[t], "empty")
    BY <1>0, <2>2 DEF WeakDec, Fits
  <2> QED
    BY <1>0, <2>1, <2>3, LeaveKept
<1> QED
  BY <1>1, <1>2

\* isUniquelyReferenced and swift_unownedCheck answer and change nothing.
LEMMA QueryKept ==
  ASSUME TypeOK, IInv, NEW t \in Thread, \A u \in Thread \ {t} : ~Exclusive(u),
         Query(t)
  PROVE  IInv'
<1>0. /\ pc[t] \in {"cas", "store"} /\ pc[t] \in AtWord /\ old[t].side = Null
      /\ op[t] \in {"unownedCheck", "isUnique"} /\ Fits(t)
      /\ UNCHANGED <<mem, alloc, slotVars, deinitBy>>
  BY DEF Query, Queries, Decides, AtWord, IInv, Local
<1>1. op[t] \notin WeakDec \cup {"dealloc"} /\ dst[t] = {}
  BY <1>0 DEF WeakDec, Fits
<1>2. CASE op[t] = "unownedCheck" /\ old[t].deiniting
  <2>1. Abort(t, "retainUnowned")
    BY <1>2 DEF Query
  <2> QED
    BY <1>0, <1>1, <2>1, AbortKept
<1>3. CASE ~(op[t] = "unownedCheck" /\ old[t].deiniting)
  <2>1. Leave(t) /\ UNCHANGED abort
    BY <1>3 DEF Query
  <2>2. /\ UNCHANGED <<mem, alloc, ref, wref, deinitBy, abort>>
        /\ \A v \in Slot : owner'[v] = IF v \in dst[t] THEN Null ELSE owner[v]
        /\ Holding(dst[t], "empty")
    BY <1>0, <1>1, <2>1 DEF slotVars, Holding
  <2> QED
    BY <1>0, <1>1, <2>1, <2>2, LeaveKept
<1> QED
  BY <1>2, <1>3

\* A count at its limit ends the program.
LEMMA OverflowKept ==
  ASSUME TypeOK, IInv, NEW t \in Thread, \A u \in Thread \ {t} : ~Exclusive(u),
         Overflow(t)
  PROVE  IInv'
<1>0. /\ pc[t] \in {"cas", "store"} /\ pc[t] \in AtWord /\ old[t].side = Null
      /\ op[t] \in StrongInc \cup {"unownedRetain", "weakInit", "weakAssign", "weakCopy"}
      /\ Placed(t)
      /\ UNCHANGED <<mem, alloc, slotVars, deinitBy>>
  BY DEF Overflow, Overflows, Decides, AtWord, IInv, Local
<1>1. op[t] \notin WeakDec \cup {"dealloc"}
  BY <1>0 DEF WeakDec, StrongInc, TryOps
<1>2. CASE op[t] = "unownedRetain" /\ loc[t] = Inline
  <2>1. Proceed(t, op[t], "preflight", Inline) /\ UNCHANGED <<dst, src, abort>>
    BY <1>2 DEF Overflow
  <2>2. /\ pc'[t] = "preflight" /\ op'[t] = op[t] /\ loc'[t] = Inline /\ old'[t].side = Null
        /\ src'[t] = src[t] /\ dst'[t] = dst[t]
        /\ \A u \in Thread \ {t} : SameThread(u)
    BY <2>1, ProceedFrame DEF SameThread
  <2>3. SameStatus(t)
    BY <1>0, <1>2, <2>1, <2>2 DEF SameStatus, SameDuty, WeakDec, AtWord
  <2>4. Placed(t)'
    BY <1>2, <2>2 DEF Placed, AtWord, FormOps, EntryOps, WeakDec
  <2>5. ~Steady(t)'
    BY <1>2, <2>2 DEF Steady, FormOps
  <2> QED
    BY <1>0, <2>2, <2>3, <2>4, <2>5, ThinkKept
<1>3. CASE ~(op[t] = "unownedRetain" /\ loc[t] = Inline)
  <2>1. \E reason \in {"retainOverflow", "unownedOverflow", "weakOverflow"} : Abort(t, reason)
    BY <1>3 DEF Overflow
  <2> QED
    BY <1>0, <1>1, <2>1, AbortKept
<1> QED
  BY <1>2, <1>3

\* A reference is passed to another thread.
LEMMA TransferKept ==
  ASSUME TypeOK, IInv, NEW t \in Thread, \A u \in Thread \ {t} : ~Exclusive(u),
         NEW u \in Thread, Transfer(t, u)
  PROVE  IInv'
<1>1. PICK v \in Slot :
        /\ u # t /\ owner[v] = t /\ pc[t] = "idle"
        /\ ref[v] # "pinned"
        /\ ref[v] = "strong" => deinitBy = Null
        /\ owner' = [owner EXCEPT ![v] = u]
        /\ UNCHANGED <<mem, alloc, threadVars, ref, wref, deinitBy, abort>>
  BY DEF Transfer
<1>2. /\ Home' = Home /\ Bits' = Bits /\ t # Null /\ u # Null
      /\ \A w \in Thread : SameThread(w)
      /\ \A x \in Slot \ {v} : SameSlot(x)
      /\ owner'[v] = u
  BY <1>1, SetsAssumption DEF Home, Bits, SameThread, SameSlot, threadVars, TypeOK, SlotType
<1>3. src[t] = {} /\ dst[t] = {}
  BY <1>1, WeakFacts
<1>4. Slots'
  <2>0. Slots /\ \A w \in Thread : src[w] \subseteq Slot /\ dst[w] \subseteq Slot
    BY DEF IInv, TypeOK, ThreadType
  <2>1. ASSUME NEW w \in Thread, NEW x \in src'[w] \cup dst'[w] PROVE owner'[x] = w
    <3>1. x \in src[w] \cup dst[w] /\ x \in Slot /\ owner[x] = w
      BY <1>2, <2>0, <2>1 DEF SameThread, Slots
    <3>2. x # v
      BY <1>1, <1>3, <3>1
    <3> QED
      BY <1>2, <3>1, <3>2 DEF SameSlot
  <2>2. \A w \in Thread : src'[w] \cap dst'[w] = {}
    BY <1>2, <2>0 DEF Slots, SameThread
  <2>3. \A x \in Slot : owner'[x] = Null => ref'[x] = "empty"
    BY <1>1, <1>2, <2>0 DEF Slots, SameSlot
  <2>4. \A x \in Slot : wref'[x] # Null => ref'[x] = "weak" /\ wref'[x] = Home'
    BY <1>1, <1>2, <2>0 DEF Slots
  <2> QED
    BY <2>1, <2>2, <2>3, <2>4 DEF Slots
<1>5. ASSUME NEW w \in Thread PROVE Local(w)'
  <2>1. CASE w = t
    BY <1>1, <1>2, <2>1, IdleLocal
  <2>2. CASE w # t
    <3>1. \A x \in Slot : owner[x] = w => SameSlot(x)
      BY <1>1, <1>2, <2>2
    <3>2. pc[w] = "install" => alloc'[loc[w]] = alloc[loc[w]] /\ loc[w] # Home'
      BY <1>1, <1>2 DEF IInv, Local, Placed
    <3>3. Steady(w) => deinitBy' = Null
      BY <1>1 DEF IInv, Local, Relies
    <3> QED
      BY <1>1, <1>2, <2>2, <3>1, <3>2, <3>3, OtherLocal
  <2> QED
    BY <2>1, <2>2
<1>6. \A x \in Strong : Bits.deiniting => owner'[x] = owner[x]
  <2>1. ASSUME v \in Strong, Bits.deiniting PROVE FALSE
    BY <1>1, <1>2, <2>1 DEF Strong, IInv, Deinit
  <2> QED
    BY <1>2, <2>1 DEF Strong, SameSlot
<1>7. \A w \in Thread : /\ op'[w] = op[w] /\ pc'[w] = pc[w] /\ loc'[w] = loc[w]
  BY <1>2 DEF SameThread
<1>8. /\ StrongExact' /\ UnownedExact' /\ PinExact' /\ Deinit' /\ FreeObject'
      /\ ObjectAllocated'
  BY <1>1, <1>2, <1>6, <1>7, ObjectKept
<1>9. WeakSlots' = WeakSlots /\ WeakCarriers' = WeakCarriers
  BY <1>1, <1>7 DEF WeakSlots, WeakCarriers
<1>10. WeakExact' /\ FreeEntry' /\ EntryAllocated'
  BY <1>1, <1>2, <1>7, <1>9, EntryKept
<1>11. Entries'
  <2>1. \A e \in Entry : mem'[e].side = Null
    BY <1>1 DEF IInv, Entries
  <2> QED
    BY <1>1, <1>2, <1>7, <2>1, EntriesKept
<1> QED
  BY <1>4, <1>5, <1>8, <1>10, <1>11 DEF IInv

-----------------------------------------------------------------------------
(* Side tables.                                                            *)

\* Steps of allocateSideTable that concern no word and no memory but that of
\* the entry nobody else knows.
LEMMA PrivateKept ==
  ASSUME TypeOK, IInv, NEW t \in Thread, \A u \in Thread \ {t} : ~Exclusive(u),
         \A u \in Thread \ {t} : SameThread(u),
         UNCHANGED <<slotVars, deinitBy>>,
         op'[t] = op[t], src'[t] = src[t], dst'[t] = dst[t],
         op[t] \in FormOps \cup {"unownedRetain"}, pc[t] # "delete", pc'[t] # "delete",
         mem'[Inline] = mem[Inline], alloc'[Inline] = alloc[Inline],
         mem'[Home] = mem[Home], alloc'[Home] = alloc[Home],
         \A u \in Thread \ {t} : pc[u] = "install" => alloc'[loc[u]] = alloc[loc[u]],
         Entries', Local(t)'
  PROVE  IInv'
<1>1. Home' = Home /\ Bits' = Bits
  BY DEF Home, Bits
<1>2. Frame(t)
  BY DEF Frame, SameSlot, slotVars
<1>3. Slots'
  BY <1>1, <1>2, SlotsKept DEF IInv, Slots, slotVars
<1>4. \A u \in Thread : Local(u)'
  <2>1. \A u \in Thread : pc[u] = "install" => loc[u] # Home'
    BY <1>1 DEF IInv, Local, Placed
  <2>2. \A u \in Thread : Steady(u) => deinitBy' = Null
    BY DEF IInv, Local, Relies
  <2> QED
    BY <1>1, <1>2, <2>1, <2>2, OthersKept
<1>5. \A u \in Thread : /\ op'[u] = op[u] /\ (pc'[u] = "delete" <=> pc[u] = "delete")
                        /\ op'[u] \notin FormOps \cup {"unownedRetain"} => pc'[u] = pc[u]
  BY DEF SameThread
<1>6. /\ StrongExact' /\ UnownedExact' /\ PinExact' /\ Deinit' /\ FreeObject'
      /\ ObjectAllocated'
  BY <1>1, <1>5, ObjectKept DEF slotVars, FormOps
<1>7. WeakSlots' = WeakSlots /\ WeakCarriers' = WeakCarriers
  BY <1>5 DEF WeakSlots, WeakCarriers, slotVars, WeakDec, FormOps
<1>8. WeakExact' /\ FreeEntry' /\ EntryAllocated'
  BY <1>1, <1>5, <1>7, EntryKept
<1> QED
  BY <1>3, <1>4, <1>6, <1>8 DEF IInv

\* formWeakReference and its callers store the pointer they got.
LEMMA StoreWeakKept ==
  ASSUME TypeOK, TypeOK', IInv, NEW t \in Thread, \A u \in Thread \ {t} : ~Exclusive(u),
         NEW e \in {Null, Home}, e # Null => Home # Inline /\ Bits.weak > 0, StoreWeak(t, e),
         op[t] \in FormOps \cup {"weakCopy"}, pc[t] \in AtWord \cup {"check", "preflight"},
         UNCHANGED <<alloc, deinitBy, abort>>, Home' = Home,
         \A x \in Entry : mem'[x].side = Null,
         Bits'.strong = Bits.strong, Bits'.unowned = Bits.unowned,
         Bits'.deiniting = Bits.deiniting, Bits'.pinned = Bits.pinned,
         Bits'.weak = Bits.weak + (IF e # Null THEN 1 ELSE 0)
  PROVE  IInv'
<1>0. Fits(t) /\ Placed(t) /\ Slots
  BY DEF IInv, Local
<1>1. PICK d \in dst[t] :
        /\ ref' = [ref EXCEPT ![d] = "weak"]
        /\ wref' = [wref EXCEPT ![d] = e]
        /\ IF op[t] = "weakAssign" /\ wref[d] # Null
           THEN /\ Proceed(t, "weakDestroy", "load", wref[d])
                /\ dst' = [dst EXCEPT ![t] = {}]
                /\ UNCHANGED src
           ELSE Leave(t)
        /\ UNCHANGED owner
  BY DEF StoreWeak
<1>2. /\ d \in Slot /\ owner[d] = t /\ ref[d] \in {"empty", "weak"} /\ src[t] = {}
      /\ op[t] # "weakAssign" => wref[d] = Null
  <2>1. d \in Slot /\ owner[d] = t
    BY <1>0, <1>1 DEF Slots, TypeOK, ThreadType
  <2>2. CASE op[t] = "weakInit"
    BY <1>0, <1>1, <2>1, <2>2 DEF Fits, Holding, Slots
  <2>3. CASE op[t] = "weakAssign"
    BY <1>0, <1>1, <2>1, <2>3 DEF Fits, Holding
  <2>4. CASE op[t] = "weakCopy"
    BY <1>0, <1>1, <2>1, <2>4 DEF Fits
  <2> QED
    BY <2>1, <2>2, <2>3, <2>4 DEF FormOps
<1>3. wref[d] # Null => wref[d] = Home /\ Home # Inline
  BY <1>2, WeakFacts
<1>4. /\ \A w \in Slot \ {d} : owner'[w] = owner[w] /\ ref'[w] = ref[w] /\ wref'[w] = wref[w]
      /\ owner'[d] = t /\ ref'[d] = "weak" /\ wref'[d] = e
  BY <1>1, <1>2 DEF TypeOK, SlotType
<1>5. /\ \A u \in Thread \ {t} : SameThread(u)
      /\ src'[t] = {} /\ dst'[t] = {} /\ pc'[t] \in {"load", "idle"}
      /\ op'[t] \in {"weakDestroy", "none"}
      /\ op'[t] = "weakDestroy" /\ pc'[t] = "load" <=> wref[d] # Null
  <2>1. CASE wref[d] # Null
    <3>1. /\ Proceed(t, "weakDestroy", "load", wref[d])
          /\ dst' = [dst EXCEPT ![t] = {}] /\ src' = src
      BY <1>1, <1>2, <2>1
    <3>2. dst'[t] = {} /\ src'[t] = {} /\ \A u \in Thread \ {t} : dst'[u] = dst[u] /\ src'[u] = src[u]
      BY <1>2, <3>1 DEF TypeOK, ThreadType
    <3> QED
      BY <2>1, <3>1, <3>2, ProceedFrame DEF SameThread
  <2>2. CASE wref[d] = Null
    BY <1>1, <2>2, LeaveFrame
  <2> QED
    BY <2>1, <2>2
<1>6. Frame(t)
  BY <1>2, <1>4, <1>5 DEF Frame, SameSlot
<1>7. Slots'
  <2>1. \A w \in Slot : owner'[w] = Null => ref'[w] = "empty"
    BY <1>0, <1>4, SetsAssumption DEF Slots
  <2>2. \A w \in Slot : wref'[w] # Null => ref'[w] = "weak" /\ wref'[w] = Home'
    BY <1>0, <1>4 DEF Slots
  <2> QED
    BY <1>5, <1>6, <2>1, <2>2, SlotsKept
<1>8. Local(t)'
  <2>1. CASE wref[d] # Null
    <3>1. /\ pc'[t] = "load" /\ op'[t] = "weakDestroy" /\ loc'[t] = wref[d] /\ old'[t].side = Null
      BY <1>1, <1>2, <2>1, ProceedFrame
    <3> QED
      BY <1>3, <1>5, <2>1, <3>1 DEF Local, Fits, Placed, Relies, Steady, Alone, FormOps,
           EntryOps, WeakDec, AtWord
  <2>2. CASE wref[d] = Null
    BY <1>1, <2>2, LeaveLocal
  <2> QED
    BY <2>1, <2>2
<1>9. Cardinality(WeakSlots)' =
        Cardinality(WeakSlots) - (IF wref[d] # Null THEN 1 ELSE 0) + (IF e # Null THEN 1 ELSE 0)
  BY <1>1, <1>2, WeakSlotCount
<1>10. Cardinality(WeakCarriers)' =
         Cardinality(WeakCarriers) - 0 + (IF wref[d] # Null THEN 1 ELSE 0)
  <2>1. ~(op[t] \in WeakDec /\ pc[t] \in AtWord)
    BY DEF FormOps, WeakDec
  <2>2. op'[t] \in WeakDec /\ pc'[t] \in AtWord <=> wref[d] # Null
    BY <1>5 DEF WeakDec, AtWord
  <2> QED
    BY <1>5, <2>1, <2>2, CarrierCount
<1>11. /\ Bits.weak \in Int /\ Cardinality(WeakSlots) \in Nat /\ Cardinality(WeakCarriers) \in Nat
       /\ Cardinality(WeakSlots)' \in Nat /\ Cardinality(WeakCarriers)' \in Nat
  <2>1. Bits.weak \in Int
    BY HomeType, WordFields DEF IInv
  <2>2. WeakSlots' \in SUBSET Slot /\ WeakCarriers' \in SUBSET Thread
    BY DEF WeakSlots, WeakCarriers
  <2>3. IsFiniteSet(WeakSlots') /\ IsFiniteSet(WeakCarriers')
    BY <2>2, FS_Subset, SetsAssumption
  <2> QED
    BY <2>1, <2>3, FS_CardinalityType, FiniteHolders
<1>12. /\ Bits'.weak - Cardinality(WeakSlots)' - Cardinality(WeakCarriers)' =
            Bits.weak - Cardinality(WeakSlots) - Cardinality(WeakCarriers)
       /\ Bits'.weak \in Int
  BY <1>9, <1>10, <1>11
<1>13. /\ pc[t] # "delete" /\ pc[t] \notin {"install", "aborted"}
       /\ op[t] \notin {"dealloc", "unownedFree"}
  BY DEF AtWord, FormOps
<1>14. \A u \in Thread : /\ pc'[u] = "delete" <=> pc[u] = "delete"
                         /\ pc'[u] = "aborted" => pc[u] = "aborted"
                         /\ pc'[u] = "install" => pc[u] = "install" /\ loc'[u] = loc[u]
                         /\ pc[u] \in {"install", "aborted"} =>
                              pc'[u] = pc[u] /\ loc'[u] = loc[u]
  BY <1>5, <1>13 DEF SameThread
<1>15. FreeEntry' /\ EntryAllocated'
  <2>1. FreeEntry /\ EntryAllocated
    BY DEF IInv
  <2>2. CASE e = Null
    BY <1>11, <1>14, <2>1, <2>2 DEF FreeEntry, EntryAllocated, EntryHeld
  <2>3. CASE e # Null
    BY <1>11, <1>14, <2>1, <2>3 DEF FreeEntry, EntryAllocated, EntryHeld
  <2> QED
    BY <2>2, <2>3
<1>16. Entries'
  BY <1>14, EntriesKept
<1>17. \A v \in Slot : ref[v] \in {"strong", "pinned", "unowned"}
                       \/ ref'[v] \in {"strong", "pinned", "unowned"} =>
                         ref'[v] = ref[v] /\ owner'[v] = owner[v]
  BY <1>2, <1>4
<1>18. /\ op'[t] = "dealloc" <=> op[t] = "dealloc"
       /\ op'[t] = "unownedFree" <=> op[t] = "unownedFree"
       /\ op'[t] = "dealloc" /\ pc'[t] = "free" => pc[t] = "free"
  BY <1>5, <1>13
<1> QED
  BY <1>6, <1>7, <1>8, <1>11, <1>12, <1>15, <1>16, <1>17, <1>18, WeakKept

\* A thread goes on at the entry that the object has, or gets.
LEMMA UseEntryLocal ==
  ASSUME TypeOK, IInv, NEW t \in Thread, op[t] \in FormOps \cup {"unownedRetain"},
         NEW e \in Entry, Home' = e, UseSideTable(t, e), UNCHANGED deinitBy
  PROVE  /\ Local(t)'
         /\ \A u \in Thread \ {t} : SameThread(u)
         /\ op'[t] = op[t] /\ src'[t] = src[t] /\ dst'[t] = dst[t]
         /\ pc'[t] \in {"load", "check"} /\ loc'[t] = e
         /\ UNCHANGED <<slotVars, abort>>
<1>0. Fits(t) /\ Relies(t) /\ e # Null /\ e # Inline
  BY SetsAssumption DEF IInv, Local
<1>1. /\ Proceed(t, op[t], IF op[t] = "unownedRetain" THEN "load" ELSE "check", e)
      /\ UNCHANGED <<src, dst, slotVars, abort>>
  BY <1>0 DEF UseSideTable
<1>2. /\ \A u \in Thread \ {t} : SameThread(u)
      /\ op'[t] = op[t] /\ src'[t] = src[t] /\ dst'[t] = dst[t]
      /\ pc'[t] = IF op[t] = "unownedRetain" THEN "load" ELSE "check"
      /\ loc'[t] = e /\ old'[t].side = Null
  BY <1>1, ProceedFrame DEF SameThread
<1>3. Placed(t)' /\ Alone(t)'
  BY <1>0, <1>2 DEF Placed, Alone, AtWord, FormOps, EntryOps, WeakDec
<1>4. Fits(t)'
  BY <1>0, <1>1, <1>2, FitsKept DEF slotVars
<1>5. Relies(t)'
  <2>1. ~Steady(t)'
    BY <1>2 DEF Steady, FormOps
  <2> QED
    BY <1>0, <1>1, <1>2, <2>1, ReliesKept DEF slotVars, SameSlot
<1> QED
  BY <1>1, <1>2, <1>3, <1>4, <1>5 DEF Local

\* The thread that forms a weak reference holds the object alive while the
\* word does not say that deinit has begun.
LEMMA FormerHolds ==
  ASSUME TypeOK, IInv, NEW t \in Thread, op[t] \in FormOps
  PROVE  /\ ~Bits.deiniting => Owns(t, {"strong", "pinned"}) # {} /\ deinitBy = Null
         /\ Owns(t, {"strong", "pinned"}) # {} /\ deinitBy = Null => ~Bits.deiniting
<1>1. HoldsStrong(t) /\ Deinit /\ t # Null
  BY SetsAssumption DEF IInv, Local, Relies
<1>2. ASSUME ~Bits.deiniting PROVE Owns(t, {"strong", "pinned"}) # {} /\ deinitBy = Null
  BY <1>1, <1>2 DEF Deinit, HoldsStrong
<1>3. ASSUME Owns(t, {"strong", "pinned"}) # {}, deinitBy = Null, Bits.deiniting PROVE FALSE
  BY <1>1, <1>3 DEF Deinit, Owns, Strong
<1> QED
  BY <1>2, <1>3

\* allocateSideTable, up to the allocation of the entry.
LEMMA PreflightKept ==
  ASSUME TypeOK, TypeOK', IInv, NEW t \in Thread, \A u \in Thread \ {t} : ~Exclusive(u),
         Preflight(t)
  PROVE  IInv'
<1>0. /\ pc[t] = "preflight" /\ UNCHANGED <<mem, deinitBy>>
      /\ op[t] \in FormOps \cup {"unownedRetain"} /\ loc[t] = Inline /\ old[t].side = Null
  BY DEF Preflight, IInv, Local, Placed
<1>1. /\ Home' = Home /\ Bits' = Bits
      /\ Home \in Loc /\ Bits \in Word /\ Inline \in Loc /\ Entry \subseteq Loc
      /\ Home # Inline => Home \in Entry /\ mem[Inline].side = Home
      /\ Home = Inline <=> mem[Inline].side = Null
  BY <1>0, HomeType DEF Home, Bits, IInv
<1>2. op[t] \notin WeakDec \cup {"dealloc"} /\ Inline \notin Entry
  BY <1>0, SetsAssumption DEF FormOps, WeakDec
<1>3. \A e \in Entry : mem'[e].side = Null
  BY <1>0 DEF IInv, Entries
<1>4. CASE mem[Inline].side # Null
  <2>1. UseSideTable(t, Home) /\ UNCHANGED alloc
    BY <1>1, <1>4 DEF Preflight
  <2>2. /\ Local(t)' /\ \A u \in Thread \ {t} : SameThread(u)
        /\ op'[t] = op[t] /\ src'[t] = src[t] /\ dst'[t] = dst[t]
        /\ pc'[t] \in {"load", "check"} /\ loc'[t] = Home
        /\ UNCHANGED <<slotVars, abort>>
    BY <1>0, <1>1, <1>4, <2>1, UseEntryLocal
  <2>3. Entries'
    <3>1. \A u \in Thread :
           /\ pc[u] \in {"install", "aborted"} =>
                pc'[u] \in {"install", "aborted"} /\ loc'[u] = loc[u]
           /\ pc'[u] = "install" => pc[u] = "install" /\ loc'[u] = loc[u]
           /\ pc'[u] = "aborted" => pc[u] = "aborted"
      BY <1>0, <2>2 DEF SameThread
    <3> QED
      BY <1>1, <1>3, <2>1, <2>2, <3>1, EntriesKept
  <2>4. UNCHANGED <<slotVars, deinitBy>> /\ pc[t] # "delete" /\ pc'[t] # "delete"
    BY <1>0, <2>2
  <2> QED
    BY <1>0, <1>1, <2>1, <2>2, <2>3, <2>4, PrivateKept
<1>5. CASE mem[Inline].side = Null /\ mem[Inline].deiniting
  <2>1. UseSideTable(t, Null) /\ UNCHANGED alloc
    BY <1>5 DEF Preflight
  <2>2. CASE op[t] = "unownedRetain"
    <3>1. Abort(t, "unownedOverflow") /\ UNCHANGED slotVars
      BY <2>1, <2>2 DEF UseSideTable
    <3> QED
      BY <1>0, <1>2, <2>1, <3>1, AbortKept
  <2>3. CASE op[t] \in FormOps
    <3>1. StoreWeak(t, Null) /\ UNCHANGED abort
      BY <2>1, <2>3 DEF UseSideTable, FormOps
    <3>2. Bits'.weak = Bits.weak + 0
      BY <1>1, WordFields
    <3> QED
      BY <1>0, <1>1, <1>3, <2>1, <2>3, <3>1, <3>2, StoreWeakKept
  <2> QED
    BY <1>0, <2>2, <2>3
<1>6. CASE mem[Inline].side = Null /\ ~mem[Inline].deiniting
  <2>1. PICK e \in Entry :
          /\ alloc[e] = "none"
          /\ alloc' = [alloc EXCEPT ![e] = "live"]
          /\ loc' = [loc EXCEPT ![t] = e]
          /\ old' = [old EXCEPT ![t] = mem[Inline]]
          /\ pc' = [pc EXCEPT ![t] = "install"]
          /\ UNCHANGED <<op, src, dst, slotVars, abort>>
    BY <1>6 DEF Preflight
  <2>2. /\ \A u \in Thread \ {t} : SameThread(u)
        /\ op'[t] = op[t] /\ src'[t] = src[t] /\ dst'[t] = dst[t]
        /\ pc'[t] = "install" /\ loc'[t] = e /\ old'[t] = mem[Inline]
        /\ alloc'[e] = "live" /\ \A l \in Loc \ {e} : alloc'[l] = alloc[l]
        /\ Home = Inline /\ e # Inline
    BY <1>1, <1>2, <1>6, <2>1 DEF TypeOK, ThreadType, MemoryType, SameThread
  <2>3. \A u \in Thread : pc[u] = "install" => loc[u] # e /\ loc[u] \in Loc
    BY <2>1 DEF IInv, Local, Placed, TypeOK, ThreadType
  <2>4. Entries'
    <3>0. Entries
      BY DEF IInv
    <3>1. ASSUME NEW x \in Entry, alloc'[x] = "live"
          PROVE  \E u \in Thread : loc'[u] = x /\ pc'[u] \in {"install", "aborted"}
      <4>1. CASE x = e
        BY <2>2, <4>1
      <4>2. CASE x # e
        <5>1. alloc[x] = "live" /\ x # Home
          BY <1>1, <1>2, <2>2, <3>1, <4>2
        <5>2. PICK u \in Thread : loc[u] = x /\ pc[u] \in {"install", "aborted"}
          BY <3>0, <3>1, <5>1 DEF Entries
        <5> QED
          BY <1>0, <2>2, <5>2 DEF SameThread
      <4> QED
        BY <4>1, <4>2
    <3>2. ASSUME NEW u \in Thread, NEW w \in Thread, pc'[u] = "install", pc'[w] = "install",
                 loc'[u] = loc'[w]
          PROVE  u = w
      BY <2>2, <2>3, <3>0, <3>2 DEF Entries, SameThread
    <3>3. abort' = "none" => \A u \in Thread : pc'[u] # "aborted"
      BY <2>1, <2>2, <3>0 DEF Entries, SameThread
    <3> QED
      BY <1>3, <3>1, <3>2, <3>3 DEF Entries
  <2>5. Fits(t)' /\ Placed(t)' /\ Alone(t)'
    <3>1. Fits(t)'
      BY <2>1, <2>2, FitsKept DEF IInv, Local, slotVars
    <3>2. Placed(t)'
      BY <1>0, <1>1, <1>6, <2>2 DEF Placed, AtWord, FormOps, WeakDec, EntryOps
    <3>3. Alone(t)'
      BY <1>0, <2>2 DEF Alone, FormOps
    <3> QED
      BY <3>1, <3>2, <3>3
  <2>6. Relies(t)'
    <3>1. op[t] \in FormOps => Owns(t, {"strong", "pinned"}) # {} /\ deinitBy = Null
      BY <1>6, <2>2, FormerHolds DEF Bits
    <3>2. /\ Owns(t, {"strong", "pinned"})' = Owns(t, {"strong", "pinned"})
          /\ HoldsStrong(t)' = HoldsStrong(t) /\ HoldsObject(t)' = HoldsObject(t)
      BY <1>0, <2>1 DEF Owns, HoldsStrong, HoldsObject, slotVars
    <3>3. HoldsStrong(t) \/ op[t] = "unownedRetain"
      BY <1>0 DEF IInv, Local, Relies
    <3>4. op[t] = "unownedRetain" => HoldsObject(t)
      BY DEF IInv, Local, Relies
    <3> QED
      BY <1>0, <2>2, <3>1, <3>2, <3>3, <3>4 DEF Relies, Steady, FormOps
  <2>7. /\ Local(t)' /\ alloc'[Inline] = alloc[Inline] /\ alloc'[Home] = alloc[Home]
        /\ \A u \in Thread \ {t} : pc[u] = "install" => alloc'[loc[u]] = alloc[loc[u]]
        /\ pc[t] # "delete" /\ pc'[t] # "delete" /\ UNCHANGED <<slotVars, deinitBy>>
    BY <1>0, <1>1, <2>1, <2>2, <2>3, <2>5, <2>6 DEF Local
  <2> QED
    BY <1>0, <2>2, <2>4, <2>7, PrivateKept
<1> QED
  BY <1>4, <1>5, <1>6

\* incrementWeak first asks, separately, whether the object is deiniting.
LEMMA CheckKept ==
  ASSUME TypeOK, TypeOK', IInv, NEW t \in Thread, \A u \in Thread \ {t} : ~Exclusive(u),
         CheckDeiniting(t)
  PROVE  IInv'
<1>0. /\ pc[t] = "check" /\ UNCHANGED <<mem, alloc, deinitBy, abort>>
      /\ op[t] \in FormOps \cup {"weakCopy"} /\ loc[t] = Home /\ Home # Inline
      /\ Placed(t)
  BY DEF CheckDeiniting, IInv, Local, Placed, EntryOps
<1>1. Home' = Home /\ Bits' = Bits /\ Bits \in Word
  BY <1>0, HomeType DEF Home, Bits, IInv
<1>2. PICK w \in Readable(loc[t]) :
        IF w.deiniting
        THEN StoreWeak(t, Null)
        ELSE Proceed(t, op[t], "load", loc[t]) /\ UNCHANGED <<src, dst, slotVars>>
  BY DEF CheckDeiniting
<1>3. CASE w.deiniting
  <2>1. \A e \in Entry : mem'[e].side = Null
    BY <1>0 DEF IInv, Entries
  <2>2. Bits'.weak = Bits.weak + 0
    BY <1>1, WordFields
  <2> QED
    BY <1>0, <1>1, <1>2, <1>3, <2>1, <2>2, StoreWeakKept
<1>4. CASE ~w.deiniting
  <2>1. /\ \A u \in Thread \ {t} : SameThread(u)
        /\ op'[t] = op[t] /\ src'[t] = src[t] /\ dst'[t] = dst[t]
        /\ pc'[t] = "load" /\ loc'[t] = Home /\ old'[t].side = Null
        /\ UNCHANGED slotVars
    BY <1>0, <1>2, <1>4, ProceedFrame DEF SameThread
  <2>2. SameStatus(t)
    BY <1>0, <2>1 DEF SameStatus, SameDuty, WeakDec, FormOps
  <2>3. Placed(t)'
    BY <1>0, <1>1, <2>1 DEF Placed, AtWord, FormOps, EntryOps, WeakDec
  <2>4. UNCHANGED <<mem, alloc, slotVars, deinitBy>>
    BY <1>0, <2>1
  <2>5. Steady(t)' => Owns(t, {"strong", "pinned"}) # {} /\ deinitBy = Null
    <3> SUFFICES ASSUME Steady(t)'
                 PROVE  Owns(t, {"strong", "pinned"}) # {} /\ deinitBy = Null
      OBVIOUS
    <3>1. op[t] \in FormOps
      BY <1>0, <2>1 DEF Steady, FormOps
    <3>2. HoldsStrong(t) /\ Deinit
      BY <3>1 DEF IInv, Local, Relies
    <3>3. ~Bits.deiniting
      <4>1. w = mem[loc[t]]
        BY <1>0, ReadsWord
      <4> QED
        BY <1>0, <1>4, <4>1 DEF Bits
    <3>4. deinitBy = Null /\ t # Null
      BY <3>2, <3>3, SetsAssumption DEF Deinit
    <3> QED
      BY <3>2, <3>4 DEF HoldsStrong
  <2> QED
    BY <2>1, <2>2, <2>3, <2>4, <2>5, ThinkKept
<1> QED
  BY <1>3, <1>4

\* The thread's entry becomes the object's: the counts move, and the object
\* was alive.
LEMMA InstalledKept ==
  ASSUME TypeOK, TypeOK', IInv, NEW t \in Thread, \A u \in Thread \ {t} : ~Exclusive(u),
         pc[t] = "install", old[t].side = Null, ~old[t].deiniting, mem[Inline] = old[t],
         mem' = [mem EXCEPT ![loc[t]] = SideTableRefCountBits(old[t]),
                            ![Inline] = SideTablePointer(loc[t])],
         UseSideTable(t, loc[t]), UNCHANGED <<alloc, deinitBy>>
  PROVE  IInv'
<1> DEFINE e == loc[t]
<1>0. /\ e \in Entry /\ alloc[e] = "live" /\ op[t] \in FormOps \cup {"unownedRetain"}
      /\ e # Inline /\ e # Null /\ Inline \in Loc /\ e \in Loc
  BY SetsAssumption DEF IInv, Local, Placed, Loc
<1>1. Home = Inline /\ Bits = old[t] /\ old[t] \in Word
  BY DEF Home, Bits, TypeOK, ThreadType
<1>2. /\ mem'[e] = SideTableRefCountBits(old[t]) /\ mem'[Inline] = SideTablePointer(e)
      /\ \A l \in Loc \ {e, Inline} : mem'[l] = mem[l]
  BY <1>0 DEF TypeOK, MemoryType
<1>3. Home' = e
  BY <1>0, <1>2 DEF Home, SideTablePointer, RefCountBits
<1>4. /\ Bits'.strong = Bits.strong /\ Bits'.unowned = Bits.unowned /\ Bits'.weak = 1
      /\ Bits'.deiniting = Bits.deiniting /\ Bits'.pinned = Bits.pinned /\ Bits'.side = Null
  BY <1>1, <1>2, <1>3 DEF Bits, SideTableRefCountBits, Word
<1>5. /\ Local(t)' /\ \A u \in Thread \ {t} : SameThread(u)
      /\ op'[t] = op[t] /\ src'[t] = src[t] /\ dst'[t] = dst[t]
      /\ pc'[t] \in {"load", "check"} /\ loc'[t] = e
      /\ UNCHANGED <<slotVars, abort>>
  BY <1>0, <1>3, UseEntryLocal
<1>6. /\ \A u \in Thread : op'[u] = op[u]
      /\ \A u \in Thread \ {t} : pc'[u] = pc[u] /\ loc'[u] = loc[u]
  BY <1>5 DEF SameThread
<1>7. /\ ref' = ref /\ owner' = owner /\ wref' = wref
      /\ Strong' = Strong /\ Unowned' = Unowned /\ Pinned' = Pinned /\ WeakSlots' = WeakSlots
  BY <1>5 DEF slotVars, Strong, Unowned, Pinned, WeakSlots
<1>8. StrongShare' <=> StrongShare
  BY <1>4, <1>6 DEF StrongShare
<1>9. StrongShare \/ Unowned # {}
  BY <1>0, OperationHolds DEF FormOps, EntryOps
<1>10. Bits.unowned > 0 /\ Bits.unowned \in Int
  BY <1>1, <1>9, HeldMemory, WordFields
<1>11. WeakSlots = {}
  BY <1>1, WeakFacts DEF WeakSlots
<1>12. \A u \in Thread : ~(op[u] \in WeakDec /\ pc[u] \in AtWord) /\ pc[u] # "delete"
  BY <1>1 DEF IInv, Local, Placed, WeakDec, EntryOps
<1>13. WeakCarriers' = {}
  BY <1>0, <1>6, <1>12 DEF WeakCarriers, WeakDec, FormOps
<1>14. Slots'
  BY <1>5, <1>6, <1>7, <1>11 DEF IInv, Slots, WeakSlots, SameThread
<1>15. \A u \in Thread : Local(u)'
  <2>1. Frame(t)
    BY <1>5, <1>7 DEF Frame, SameSlot
  <2>2. \A u \in Thread \ {t} : pc[u] = "install" => loc[u] # Home'
    BY <1>3 DEF IInv, Entries
  <2>3. \A u \in Thread : Steady(u) => deinitBy' = Null
    BY DEF IInv, Local, Relies
  <2> QED
    BY <1>1, <1>5, <2>1, <2>2, <2>3, OthersKept
<1>16. StrongExact' /\ UnownedExact'
  <2>1. alloc[Inline] = "live"
    BY <1>9, HeldMemory
  <2> QED
    BY <1>4, <1>7, <1>8, <2>1 DEF IInv, StrongExact, UnownedExact
<1>17. PinExact' /\ Deinit'
  BY <1>4, <1>6, <1>7 DEF IInv, PinExact, Deinit
<1>18. WeakExact'
  <2>1. Cardinality(WeakSlots') = 0 /\ Cardinality(WeakCarriers') = 0
    BY <1>7, <1>11, <1>13, FS_EmptySet
  <2> QED
    BY <1>4, <1>10, <2>1 DEF WeakExact
<1>19. FreeObject'
  <2>1. \A u \in Thread : op[u] # "dealloc"
    BY <1>1 DEF IInv, Deinit
  <2> QED
    BY <1>4, <1>6, <1>8, <2>1 DEF IInv, FreeObject, Freeing
<1>20. FreeEntry' /\ EntryAllocated'
  <2>1. \A u \in Thread : pc'[u] # "delete"
    BY <1>5, <1>6, <1>12
  <2> QED
    BY <1>0, <1>3, <1>4, <2>1 DEF FreeEntry, EntryAllocated, EntryHeld
<1>21. ObjectAllocated'
  BY <1>6, <1>7, <1>8 DEF IInv, ObjectAllocated, ObjectHeld, Freeing
<1>22. Entries'
  <2>0. Entries /\ SideTableRefCountBits(old[t]).side = Null
    BY <1>1 DEF IInv, SideTableRefCountBits, Word
  <2>1. \A x \in Entry : mem'[x].side = Null
    <3>1. \A x \in Entry : x \in Loc /\ x # Inline
      BY SetsAssumption DEF Loc
    <3>2. \A x \in Entry : mem[x].side = Null
      BY <2>0 DEF Entries
    <3>3. mem'[e].side = Null
      BY <1>2, <2>0
    <3> QED
      BY <1>2, <3>1, <3>2, <3>3
  <2>2. ASSUME NEW x \in Entry, alloc'[x] = "live", x # Home'
        PROVE  \E u \in Thread : loc'[u] = x /\ pc'[u] \in {"install", "aborted"}
    <3>1. x # Home /\ alloc[x] = "live"
      BY <1>1, <2>2, SetsAssumption
    <3>2. PICK u \in Thread : loc[u] = x /\ pc[u] \in {"install", "aborted"}
      BY <2>0, <2>2, <3>1 DEF Entries
    <3> QED
      BY <1>3, <1>6, <2>2, <3>2
  <2>3. \A u, w \in Thread : pc'[u] = "install" /\ pc'[w] = "install" /\ loc'[u] = loc'[w] => u = w
    BY <1>5, <1>6, <2>0 DEF Entries
  <2>4. abort' = "none" => \A u \in Thread : pc'[u] # "aborted"
    BY <1>5, <1>6, <2>0 DEF Entries
  <2> QED
    BY <2>1, <2>2, <2>3, <2>4 DEF Entries
<1> QED
  BY <1>14, <1>15, <1>16, <1>17, <1>18, <1>19, <1>20, <1>21, <1>22 DEF IInv

\* allocateSideTable, the compare-exchange that publishes the entry.
LEMMA InstallKept ==
  ASSUME TypeOK, TypeOK', IInv, NEW t \in Thread, \A u \in Thread \ {t} : ~Exclusive(u),
         Install(t)
  PROVE  IInv'
<1>0. /\ pc[t] = "install" /\ UNCHANGED deinitBy
      /\ op[t] \in FormOps \cup {"unownedRetain"}
      /\ loc[t] \in Entry /\ loc[t] # Home /\ alloc[loc[t]] = "live"
      /\ op[t] \in FormOps /\ old[t].side = Null => ~old[t].deiniting
      /\ old[t].side # Null => old[t].side = Home
      /\ loc[t] # Inline
  BY SetsAssumption DEF Install, IInv, Local, Placed
<1>1. /\ Home \in Loc /\ Inline \in Loc /\ Entry \subseteq Loc /\ Entries
      /\ Home # Inline => Home \in Entry /\ mem[Inline].side = Home
      /\ Home = Inline <=> mem[Inline].side = Null
  BY HomeType DEF IInv
<1>2. op[t] \notin WeakDec \cup {"dealloc"}
  BY <1>0 DEF FormOps, WeakDec
<1>3. \A u \in Thread \ {t} : pc[u] = "install" => loc[u] # loc[t] /\ loc[u] \in Loc
  BY <1>0, <1>1 DEF Entries, TypeOK, ThreadType
<1>4. CASE old[t].side # Null
  <2>1. /\ alloc' = [alloc EXCEPT ![loc[t]] = "freed"] /\ UseSideTable(t, Home) /\ UNCHANGED mem
    BY <1>0, <1>4 DEF Install, Discard
  <2>2. Home \in Entry /\ Home' = Home
    <3>1. old[t].side \in Entry \cup {Null}
      BY WordFields DEF TypeOK, ThreadType
    <3> QED
      BY <1>0, <1>4, <2>1, <3>1 DEF Home
  <2>3. /\ Local(t)' /\ \A u \in Thread \ {t} : SameThread(u)
        /\ op'[t] = op[t] /\ src'[t] = src[t] /\ dst'[t] = dst[t]
        /\ pc'[t] \in {"load", "check"} /\ loc'[t] = Home
        /\ UNCHANGED <<slotVars, abort>>
    BY <1>0, <2>1, <2>2, UseEntryLocal
  <2>4. alloc'[loc[t]] = "freed" /\ \A l \in Loc \ {loc[t]} : alloc'[l] = alloc[l]
    BY <1>0, <1>1, <2>1 DEF TypeOK, MemoryType
  <2>5. Entries'
    <3>1. \A u \in Thread :
           /\ pc[u] \in {"install", "aborted"} =>
                \/ pc'[u] \in {"install", "aborted"} /\ loc'[u] = loc[u]
                \/ alloc'[loc[u]] # "live"
           /\ pc'[u] = "install" => pc[u] = "install" /\ loc'[u] = loc[u]
           /\ pc'[u] = "aborted" => pc[u] = "aborted"
      BY <1>0, <2>3, <2>4 DEF SameThread
    <3>2. \A e \in Entry : alloc'[e] = "live" => alloc[e] = "live"
      BY <1>1, <2>4
    <3>3. \A e \in Entry : mem'[e].side = Null
      BY <1>1, <2>1 DEF Entries
    <3> QED
      BY <2>2, <2>3, <3>1, <3>2, <3>3, EntriesKept
  <2>6. /\ UNCHANGED <<slotVars, deinitBy>> /\ pc[t] # "delete" /\ pc'[t] # "delete"
        /\ mem'[Inline] = mem[Inline] /\ alloc'[Inline] = alloc[Inline]
        /\ mem'[Home] = mem[Home] /\ alloc'[Home] = alloc[Home]
        /\ \A u \in Thread \ {t} : pc[u] = "install" => alloc'[loc[u]] = alloc[loc[u]]
    BY <1>0, <1>1, <1>3, <2>1, <2>3, <2>4
  <2> QED
    BY <1>0, <2>3, <2>5, <2>6, PrivateKept
<1>5. CASE old[t].side = Null /\ old[t].deiniting
  <2>1. op[t] = "unownedRetain" /\ UseSideTable(t, Null) /\ UNCHANGED <<mem, alloc>>
    BY <1>0, <1>5 DEF Install
  <2>2. Abort(t, "unownedOverflow") /\ UNCHANGED slotVars
    BY <2>1 DEF UseSideTable
  <2> QED
    BY <1>0, <1>2, <1>5, <2>1, <2>2, AbortKept
<1>6. CASE old[t].side = Null /\ ~old[t].deiniting /\ mem[Inline] = old[t]
  <2>1. /\ mem' = [mem EXCEPT ![loc[t]] = SideTableRefCountBits(old[t]),
                              ![Inline] = SideTablePointer(loc[t])]
        /\ UseSideTable(t, loc[t]) /\ UNCHANGED alloc
    BY <1>6 DEF Install
  <2> QED
    BY <1>0, <1>6, <2>1, InstalledKept
<1>7. CASE old[t].side = Null /\ ~old[t].deiniting /\ mem[Inline] # old[t]
  <2>1. /\ mem' = [mem EXCEPT ![loc[t]] = SideTableRefCountBits(old[t])]
        /\ old' = [old EXCEPT ![t] = mem[Inline]]
        /\ UNCHANGED <<pc, op, loc, src, dst, slotVars, abort, alloc>>
    BY <1>7 DEF Install
  <2>2. /\ \A u \in Thread \ {t} : SameThread(u)
        /\ op'[t] = op[t] /\ src'[t] = src[t] /\ dst'[t] = dst[t]
        /\ pc'[t] = "install" /\ loc'[t] = loc[t] /\ old'[t] = mem[Inline]
        /\ mem'[loc[t]] = SideTableRefCountBits(old[t])
        /\ \A l \in Loc \ {loc[t]} : mem'[l] = mem[l]
    BY <1>0, <1>1, <2>1 DEF TypeOK, ThreadType, MemoryType, SameThread
  <2>3. mem'[Inline] = mem[Inline] /\ mem'[Home] = mem[Home] /\ Home' = Home
    BY <1>0, <1>1, <2>2 DEF Home
  <2>4. Entries'
    <3>1. SideTableRefCountBits(old[t]).side = Null
      BY <1>7 DEF SideTableRefCountBits, TypeOK, ThreadType, Word
    <3>2. \A e \in Entry : mem'[e].side = Null
      BY <1>1, <2>2, <3>1 DEF Entries
    <3> QED
      BY <2>1, <2>3, <3>2, EntriesKept
  <2>5. Local(t)'
    <3>0. Fits(t) /\ Placed(t) /\ Relies(t) /\ Alone(t)
      BY DEF IInv, Local
    <3>1. Fits(t)' /\ Relies(t)'
      <4>1. Steady(t)' => Steady(t) /\ deinitBy' = Null
        BY <1>0, <2>1, <3>0 DEF Steady, Relies
      <4> QED
        BY <1>0, <2>1, <2>2, <3>0, <4>1, FitsKept, ReliesKept DEF slotVars, SameSlot
    <3>2. op[t] \in FormOps => Owns(t, {"strong", "pinned"}) # {} /\ deinitBy = Null
      BY <1>0, <3>0 DEF Relies, Steady
    <3>3. op[t] \in FormOps /\ Home = Inline => ~mem[Inline].deiniting
      BY <3>2, FormerHolds DEF Bits
    <3>4. Placed(t)'
      BY <1>0, <1>1, <2>1, <2>2, <2>3, <3>3 DEF Placed, AtWord, FormOps, EntryOps, WeakDec
    <3>5. Alone(t)'
      BY <1>0, <2>2 DEF Alone, FormOps
    <3> QED
      BY <3>1, <3>4, <3>5 DEF Local
  <2>6. UNCHANGED <<slotVars, deinitBy>> /\ pc[t] # "delete" /\ pc'[t] # "delete"
    BY <1>0, <2>1
  <2> QED
    BY <1>0, <2>1, <2>2, <2>3, <2>4, <2>5, <2>6, PrivateKept
<1> QED
  BY <1>4, <1>5, <1>6, <1>7

-----------------------------------------------------------------------------
(* Steps that change the strong or the unowned count.                      *)

\* What such a step leaves alone; the hypotheses that are primed formulas
\* are what it has to establish.
LEMMA CountStepKept ==
  ASSUME TypeOK, TypeOK', IInv, NEW t \in Thread, \A u \in Thread \ {t} : ~Exclusive(u),
         Frame(t), Home' = Home, \A e \in Entry : mem'[e].side = Null,
         UNCHANGED <<alloc, wref, abort>>, Bits'.weak = Bits.weak,
         Home # Inline =>
           Cardinality(WeakCarriers)' + (IF Bits'.unowned > 0 THEN 1 ELSE 0) =
             Cardinality(WeakCarriers) + (IF Bits.unowned > 0 THEN 1 ELSE 0),
         pc[t] \in AtWord, pc'[t] \notin {"delete", "install", "aborted"},
         \A u \in Thread \ {t} : deinitBy = u => deinitBy' = u,
         \A u \in Thread \ {t} : Steady(u) => deinitBy' = Null,
         Slots', StrongExact', UnownedExact', PinExact', Deinit', FreeObject',
         ObjectAllocated', Local(t)'
  PROVE  IInv'
<1>1. \A u \in Thread : Local(u)'
  <2>1. \A u \in Thread : pc[u] = "install" => loc[u] # Home'
    BY DEF IInv, Local, Placed
  <2> QED
    BY <2>1, OthersKept
<1>2. \A u \in Thread : /\ pc'[u] = "delete" <=> pc[u] = "delete"
                        /\ pc'[u] = "aborted" => pc[u] = "aborted"
                        /\ pc'[u] = "install" => pc[u] = "install" /\ loc'[u] = loc[u]
                        /\ pc[u] \in {"install", "aborted"} =>
                             pc'[u] = pc[u] /\ loc'[u] = loc[u]
  BY DEF Frame, SameThread, AtWord
<1>3. Entries'
  BY <1>2, EntriesKept
<1>4. FreeEntry' /\ EntryAllocated'
  BY <1>2 DEF IInv, FreeEntry, EntryAllocated, EntryHeld
<1>5. WeakExact'
  <2>1. WeakSlots' = WeakSlots
    BY DEF WeakSlots
  <2>2. Cardinality(WeakSlots) \in Nat /\ Cardinality(WeakCarriers) \in Nat
    BY FiniteHolders
  <2>3. WeakCarriers' \in SUBSET Thread
    BY DEF WeakCarriers
  <2>4. Cardinality(WeakCarriers)' \in Nat
    BY <2>3, FS_Subset, SetsAssumption, FS_CardinalityType
  <2>5. WeakExact
    BY DEF IInv
  <2> QED
    BY <2>1, <2>2, <2>4, <2>5 DEF WeakExact
<1> QED
  BY <1>1, <1>3, <1>4, <1>5 DEF IInv

\* The number of references when those of a set are put in or taken out.
LEMMA Gained ==
  ASSUME NEW A \in SUBSET Slot, NEW B \in SUBSET Slot, A \cap B = {}
  PROVE  /\ Cardinality(A \cup B) = Cardinality(A) + Cardinality(B)
         /\ Cardinality(A) \in Nat /\ Cardinality(B) \in Nat
<1>1. IsFiniteSet(A) /\ IsFiniteSet(B)
  BY FS_Subset, SetsAssumption
<1>2. Cardinality(A) \in Nat /\ Cardinality(B) \in Nat
  BY <1>1, FS_CardinalityType
<1>3. Cardinality(A \cap B) = 0
  BY FS_EmptySet
<1>4. Cardinality(A \cup B) = Cardinality(A) + Cardinality(B) - Cardinality(A \cap B)
  BY <1>1, FS_Union
<1> QED
  BY <1>2, <1>3, <1>4

\* The size of a set of variables without some of its members.
LEMMA Lost ==
  ASSUME NEW A \in SUBSET Slot, NEW B \in SUBSET A
  PROVE  /\ Cardinality(A \ B) = Cardinality(A) - Cardinality(B)
         /\ Cardinality(A) \in Nat /\ Cardinality(B) \in Nat
         /\ Cardinality(B) <= Cardinality(A)
         /\ Cardinality(A) = Cardinality(B) => A = B
<1>1. IsFiniteSet(A) /\ IsFiniteSet(B) /\ A \cap B = B
  BY FS_Subset, SetsAssumption
<1>2. Cardinality(A) \in Nat /\ Cardinality(B) \in Nat
  BY <1>1, FS_CardinalityType
<1>3. Cardinality(A \ B) = Cardinality(A) - Cardinality(A \cap B)
  BY <1>1, FS_Difference
<1>4. Cardinality(B) <= Cardinality(A) /\ (Cardinality(A) = Cardinality(B) => A = B)
  BY <1>1, FS_Subset
<1> QED
  BY <1>1, <1>2, <1>3, <1>4

\* Steps that change strong references only: the unowned count, and who will
\* free the object, are as before.
LEMMA StrongStepKept ==
  ASSUME TypeOK, IInv, NEW t \in Thread, Frame(t), Home' = Home,
         Bits'.unowned = Bits.unowned, Unowned' = Unowned, StrongShare' <=> StrongShare,
         alloc' = alloc, op[t] \notin {"dealloc", "unownedFree"},
         op'[t] \notin {"dealloc", "unownedFree"}
  PROVE  UnownedExact' /\ FreeObject' /\ ObjectAllocated'
<1>1. \A u \in Thread : /\ op'[u] \in {"dealloc", "unownedFree"} \/ op[u] \in {"dealloc", "unownedFree"}
                             => op'[u] = op[u] /\ pc'[u] = pc[u]
  BY DEF Frame, SameThread
<1>2. UnownedExact'
  BY DEF IInv, UnownedExact
<1>3. FreeObject'
  BY <1>1 DEF IInv, FreeObject, Freeing
<1>4. ObjectAllocated'
  BY <1>1 DEF IInv, ObjectAllocated, ObjectHeld, Freeing
<1> QED
  BY <1>2, <1>3, <1>4

\* What the slots hold after Settle.
LEMMA SettleSlots ==
  ASSUME TypeOK, IInv, NEW t \in Thread, NEW k \in {"empty", "strong", "pinned", "unowned"}, Settle(t, k),
         UNCHANGED wref, Home' = Home,
         \A u \in Thread \ {t} : SameThread(u),
         Holding(dst[t], "empty"), \A v \in src[t] : ref[v] # "weak",
         src'[t] = {}, dst'[t] = {}
  PROVE  /\ Frame(t) /\ Slots'
         /\ \A v \in dst[t] : ref'[v] = k /\ owner'[v] = t
         /\ \A v \in src[t] : ref'[v] = "empty" /\ owner'[v] = Null
         /\ \A v \in Slot \ (src[t] \cup dst[t]) : ref'[v] = ref[v] /\ owner'[v] = owner[v]
         /\ \A v \in src[t] \cup dst[t] : v \in Slot /\ owner[v] = t
         /\ src[t] \cap dst[t] = {}
<1>0. /\ \A v \in src[t] \cup dst[t] : v \in Slot /\ owner[v] = t
      /\ src[t] \cap dst[t] = {} /\ Slots /\ t # Null
  BY SetsAssumption DEF IInv, Slots, TypeOK, ThreadType
<1>1. /\ \A v \in dst[t] : ref'[v] = k /\ owner'[v] = t
      /\ \A v \in src[t] : ref'[v] = "empty" /\ owner'[v] = Null
      /\ \A v \in Slot \ (src[t] \cup dst[t]) : ref'[v] = ref[v] /\ owner'[v] = owner[v]
  BY <1>0 DEF Settle
<1>2. Frame(t)
  BY <1>0, <1>1 DEF Frame, SameSlot
<1>3. \A v \in Slot : owner'[v] = Null => ref'[v] = "empty"
  BY <1>0, <1>1 DEF Slots
<1>4. \A v \in Slot : wref'[v] # Null => ref'[v] = "weak" /\ wref'[v] = Home'
  <2>1. ASSUME NEW v \in Slot, wref[v] # Null PROVE v \notin src[t] \cup dst[t]
    BY <1>0, <2>1 DEF Slots, Holding
  <2> QED
    BY <1>0, <1>1, <2>1 DEF Slots
<1>5. Slots'
  BY <1>2, <1>3, <1>4, SlotsKept
<1> QED
  BY <1>0, <1>1, <1>2, <1>5

\* Memory after a successful compare-exchange or store.
LEMMA CommitMemory ==
  ASSUME TypeOK, IInv, NEW t \in Thread, NEW w, w.side = Null,
         mem' = [mem EXCEPT ![Home] = w]
  PROVE  \A e \in Entry : mem'[e].side = Null
<1>1. Home \in Loc /\ Entry \subseteq Loc /\ Entries
  BY HomeType DEF IInv
<1> QED
  BY <1>1 DEF Entries, TypeOK, MemoryType

\* Retains of all kinds, once the compare-exchange succeeds.
LEMMA IncrementStrongKept ==
  ASSUME TypeOK, TypeOK', IInv, NEW t \in Thread, \A u \in Thread \ {t} : ~Exclusive(u),
         IncrementStrong(t)
  PROVE  IInv'
<1> DEFINE w == [old[t] EXCEPT !.strong = @ + Inc(t), !.pinned = @ \/ op[t] = "tryPin"]
           k == IF op[t] = "tryPin" THEN "pinned" ELSE "strong"
<1>0. /\ Commit(t, StrongInc \ {"retainStrongAndRelease"}, w) /\ Settle(t, k) /\ Leave(t)
      /\ UNCHANGED <<alloc, wref, deinitBy, abort>>
  BY DEF IncrementStrong
<1>1. /\ old[t] \in Word
      /\ w.side = old[t].side /\ w.strong = old[t].strong + Inc(t) /\ w.unowned = old[t].unowned
      /\ w.weak = old[t].weak /\ w.deiniting = old[t].deiniting
      /\ w.pinned = (old[t].pinned \/ op[t] = "tryPin")
  BY DEF TypeOK, ThreadType, Word
<1> HIDE DEF w, k
<1>2. w.side = Null
  BY <1>0, <1>1 DEF Commit, Attempts
<1>3. /\ loc[t] = Home /\ old[t] = Bits /\ mem' = [mem EXCEPT ![Home] = w]
      /\ Home' = Home /\ Bits' = w /\ pc[t] \in AtWord /\ ~Refused(t)
      /\ op[t] \in StrongInc \ {"retainStrongAndRelease"}
  BY <1>0, <1>2, CommitAtHome
<1>4. op[t] \in {"tryRetain", "weakLoad", "unownedRetainStrong", "retain", "tryPin"}
  BY <1>3 DEF StrongInc, TryOps
<1>5. /\ src[t] = {} /\ dst[t] # {} /\ Holding(dst[t], "empty")
      /\ op[t] = "tryPin" => One(dst[t])
  BY <1>4 DEF IInv, Local, Fits, One
<1>6. /\ \A u \in Thread \ {t} : SameThread(u)
      /\ pc'[t] = "idle" /\ op'[t] = "none" /\ src'[t] = {} /\ dst'[t] = {} /\ Local(t)'
  BY <1>0, LeaveFrame, LeaveLocal
<1>7. k \in {"empty", "strong", "pinned", "unowned"} /\ (op[t] = "tryPin" <=> k = "pinned")
      /\ (op[t] # "tryPin" <=> k = "strong")
  BY DEF k
<1>8. /\ Frame(t) /\ Slots'
      /\ \A v \in dst[t] : ref'[v] = k /\ owner'[v] = t
      /\ \A v \in Slot \ dst[t] : ref'[v] = ref[v] /\ owner'[v] = owner[v]
      /\ \A v \in dst[t] : v \in Slot /\ owner[v] = t /\ ref[v] = "empty"
  BY <1>0, <1>3, <1>5, <1>6, <1>7, SettleSlots DEF Holding
<1>9. Strong' = Strong \cup dst[t] /\ Strong \cap dst[t] = {} /\ Unowned' = Unowned
  BY <1>7, <1>8 DEF Strong, Unowned
<1>10. StrongExact'
  <2>1. Cardinality(Strong') = Cardinality(Strong) + Inc(t) /\ Cardinality(Strong) \in Nat
        /\ Inc(t) \in Nat
    <3>1. Strong \in SUBSET Slot /\ dst[t] \in SUBSET Slot
      BY DEF Strong, TypeOK, ThreadType
    <3> QED
      BY <1>9, <3>1, Gained DEF Inc
  <2>2. StrongExact /\ Bits.strong \in Nat
    BY <1>1, <1>3 DEF IInv, Word
  <2> QED
    BY <1>1, <1>3, <2>1, <2>2 DEF StrongExact
<1>11. PinExact'
  <2>0. PinExact
    BY DEF IInv
  <2>1. CASE op[t] = "tryPin"
    <3>1. ~Bits.pinned /\ Pinned = {}
      BY <1>3, <2>0, <2>1 DEF Refused, PinExact
    <3>2. Pinned' = dst[t]
      BY <1>7, <1>8, <2>1, <3>1 DEF Pinned
    <3> QED
      BY <1>1, <1>3, <1>5, <2>1, <3>2 DEF PinExact, One
  <2>2. CASE op[t] # "tryPin"
    <3>1. Pinned' = Pinned
      BY <1>7, <1>8, <2>2 DEF Pinned
    <3>2. Bits'.pinned <=> Bits.pinned
      BY <1>1, <1>3, <2>2
    <3> QED
      BY <2>0, <3>1, <3>2 DEF PinExact
  <2> QED
    BY <2>1, <2>2
<1>12. Deinit'
  <2>0. Deinit /\ Relies(t) /\ t # Null
    BY SetsAssumption DEF IInv, Local
  <2>1. Bits.deiniting => deinitBy = t
    <3>1. SUFFICES ASSUME Bits.deiniting PROVE deinitBy = t
      OBVIOUS
    <3>2. op[t] \in {"retain", "tryPin"}
      BY <1>3, <1>4, <3>1 DEF Refused, TryOps
    <3>3. HoldsStrong(t)
      BY <2>0, <3>2 DEF Relies
    <3> QED
      BY <2>0, <3>1, <3>3 DEF HoldsStrong, Owns, Strong, Deinit
  <2>2. Bits'.deiniting = Bits.deiniting /\ deinitBy' = deinitBy
    BY <1>0, <1>1, <1>3
  <2>3. \A u \in Thread : op'[u] = "dealloc" => op[u] = "dealloc"
    BY <1>6 DEF SameThread
  <2>4. Bits'.deiniting => \A v \in Strong' : owner'[v] = deinitBy'
    BY <1>8, <1>9, <2>0, <2>1, <2>2 DEF Deinit, Strong
  <2> QED
    BY <2>0, <2>2, <2>3, <2>4 DEF Deinit
<1>13. StrongShare' <=> StrongShare
  <2>1. \A u \in Thread : op'[u] = "dealloc" <=> op[u] = "dealloc"
    BY <1>4, <1>6 DEF SameThread
  <2>2. Bits'.deiniting = Bits.deiniting /\ deinitBy' = deinitBy
    BY <1>0, <1>1, <1>3
  <2> QED
    BY <2>1, <2>2 DEF StrongShare
<1>14. /\ Bits'.unowned = Bits.unowned /\ Bits'.weak = Bits.weak
       /\ op[t] \notin {"dealloc", "unownedFree"} /\ op[t] \notin WeakDec
       /\ op'[t] \notin {"dealloc", "unownedFree"}
  BY <1>1, <1>3, <1>4, <1>6 DEF WeakDec
<1>15. UnownedExact' /\ FreeObject' /\ ObjectAllocated'
  BY <1>0, <1>3, <1>8, <1>9, <1>13, <1>14, StrongStepKept
<1>16. WeakCarriers' = WeakCarriers
  BY <1>6, <1>14, CarriersOfOthers DEF WeakCarriers, WeakDec
<1>17. /\ \A u \in Thread \ {t} : deinitBy = u => deinitBy' = u
       /\ \A u \in Thread \ {t} : Steady(u) => deinitBy' = Null
  BY <1>0 DEF IInv, Local, Relies
<1>18. \A e \in Entry : mem'[e].side = Null
  BY <1>2, <1>3, CommitMemory
<1>19. /\ pc'[t] \notin {"delete", "install", "aborted"} /\ UNCHANGED <<alloc, wref, abort>>
       /\ Cardinality(WeakCarriers)' + (IF Bits'.unowned > 0 THEN 1 ELSE 0) =
             Cardinality(WeakCarriers) + (IF Bits.unowned > 0 THEN 1 ELSE 0)
  BY <1>0, <1>6, <1>14, <1>16
<1> QED
  BY <1>3, <1>6, <1>8, <1>10, <1>11, <1>12, <1>14, <1>15, <1>17, <1>18, <1>19, CountStepKept

\* swift_unownedRetainStrongAndRelease, its first half.
LEMMA RetainStrongAndReleaseKept ==
  ASSUME TypeOK, TypeOK', IInv, NEW t \in Thread, \A u \in Thread \ {t} : ~Exclusive(u),
         RetainStrongAndRelease(t)
  PROVE  IInv'
<1> DEFINE w == [old[t] EXCEPT !.strong = @ + 1]
<1>0. /\ Commit(t, {"retainStrongAndRelease"}, w)
      /\ ref' = [v \in Slot |-> IF v \in dst[t] THEN "strong" ELSE ref[v]]
      /\ Proceed(t, "unownedDrop", Again(t), Inline)
      /\ dst' = [dst EXCEPT ![t] = {}]
      /\ UNCHANGED <<alloc, src, owner, wref, deinitBy, abort>>
  BY DEF RetainStrongAndRelease
<1>1. /\ old[t] \in Word
      /\ w.side = old[t].side /\ w.strong = old[t].strong + 1 /\ w.unowned = old[t].unowned
      /\ w.weak = old[t].weak /\ w.deiniting = old[t].deiniting /\ w.pinned = old[t].pinned
  BY DEF TypeOK, ThreadType, Word
<1> HIDE DEF w
<1>2. w.side = Null
  BY <1>0, <1>1 DEF Commit, Attempts
<1>3. /\ loc[t] = Home /\ old[t] = Bits /\ mem' = [mem EXCEPT ![Home] = w]
      /\ Home' = Home /\ Bits' = w /\ pc[t] \in AtWord /\ ~Refused(t)
      /\ op[t] = "retainStrongAndRelease"
  BY <1>0, <1>2, CommitAtHome
<1>4. /\ One(src[t]) /\ One(dst[t]) /\ Holding(src[t], "unowned") /\ Holding(dst[t], "empty")
      /\ \A v \in src[t] \cup dst[t] : v \in Slot /\ owner[v] = t
      /\ src[t] \cap dst[t] = {} /\ Slots
  BY <1>3 DEF IInv, Local, Fits, Slots, TypeOK, ThreadType
<1>5. /\ \A u \in Thread \ {t} : SameThread(u)
      /\ pc'[t] \in {"load", "nload"} /\ (pc'[t] = "nload" => pc[t] = "store")
      /\ op'[t] = "unownedDrop" /\ loc'[t] = Inline /\ old'[t].side = Null
      /\ src'[t] = src[t] /\ dst'[t] = {}
  <2>1. dst'[t] = {} /\ \A u \in Thread \ {t} : dst'[u] = dst[u]
    BY <1>0 DEF TypeOK, ThreadType
  <2> QED
    BY <1>0, <2>1, ProceedFrame DEF SameThread, Again
<1>6. /\ \A v \in dst[t] : ref'[v] = "strong" /\ ref[v] = "empty"
      /\ \A v \in Slot \ dst[t] : ref'[v] = ref[v]
      /\ owner' = owner /\ wref' = wref
  BY <1>0, <1>4 DEF Holding
<1>7. Frame(t)
  BY <1>4, <1>5, <1>6 DEF Frame, SameSlot
<1>8. Slots'
  <2>1. \A v \in Slot : owner'[v] = Null => ref'[v] = "empty"
    BY <1>4, <1>6, SetsAssumption DEF Slots
  <2>2. \A v \in Slot : wref'[v] # Null => ref'[v] = "weak" /\ wref'[v] = Home'
    BY <1>3, <1>4, <1>6 DEF Slots
  <2> QED
    BY <1>3, <1>4, <1>5, <1>6, <1>7, <2>1, <2>2, SlotsKept
<1>9. /\ Strong' = Strong \cup dst[t] /\ Strong \cap dst[t] = {}
      /\ Unowned' = Unowned /\ Pinned' = Pinned
  BY <1>4, <1>6 DEF Strong, Unowned, Pinned
<1>10. StrongExact'
  <2>1. Cardinality(Strong') = Cardinality(Strong) + 1 /\ Cardinality(Strong) \in Nat
    <3>1. Strong \in SUBSET Slot /\ dst[t] \in SUBSET Slot
      BY DEF Strong, TypeOK, ThreadType
    <3> QED
      BY <1>4, <1>9, <3>1, Gained, FiniteShares
  <2>2. StrongExact /\ Bits.strong \in Nat
    BY <1>1, <1>3 DEF IInv, Word
  <2> QED
    BY <1>1, <1>3, <2>1, <2>2 DEF StrongExact
<1>11. PinExact'
  BY <1>1, <1>3, <1>9 DEF IInv, PinExact
<1>12. ~Bits.deiniting /\ Bits'.deiniting = Bits.deiniting /\ deinitBy' = deinitBy
  BY <1>0, <1>1, <1>3 DEF Refused, TryOps
<1>a. \A u \in Thread : op'[u] = "dealloc" <=> op[u] = "dealloc"
  BY <1>3, <1>5 DEF SameThread
<1>13. Deinit' /\ (StrongShare' <=> StrongShare)
  BY <1>12, <1>a DEF IInv, Deinit, StrongShare
<1>14. /\ Bits'.unowned = Bits.unowned /\ Bits'.weak = Bits.weak
       /\ op[t] \notin {"dealloc", "unownedFree"} /\ op[t] \notin WeakDec
       /\ op'[t] \notin {"dealloc", "unownedFree"} /\ op'[t] \notin WeakDec
  BY <1>1, <1>3, <1>5 DEF WeakDec
<1>15. UnownedExact' /\ FreeObject' /\ ObjectAllocated'
  BY <1>0, <1>3, <1>7, <1>9, <1>13, <1>14, StrongStepKept
<1>16. WeakCarriers' = WeakCarriers
  BY <1>5, <1>14, CarriersOfOthers DEF WeakCarriers
<1>17. /\ \A u \in Thread \ {t} : deinitBy = u => deinitBy' = u
       /\ \A u \in Thread \ {t} : Steady(u) => deinitBy' = Null
  BY <1>0 DEF IInv, Local, Relies
<1>18. \A e \in Entry : mem'[e].side = Null
  BY <1>2, <1>3, CommitMemory
<1>19. /\ pc'[t] \notin {"delete", "install", "aborted"} /\ UNCHANGED <<alloc, wref, abort>>
       /\ Cardinality(WeakCarriers)' + (IF Bits'.unowned > 0 THEN 1 ELSE 0) =
             Cardinality(WeakCarriers) + (IF Bits.unowned > 0 THEN 1 ELSE 0)
  BY <1>0, <1>5, <1>14, <1>16
<1>20. Local(t)'
  <2>1. Fits(t)'
    BY <1>4, <1>5, <1>6 DEF Fits, Holding, One
  <2>2. Placed(t)'
    BY <1>5 DEF Placed, AtWord, FormOps, EntryOps, WeakDec
  <2>3. Relies(t)'
    <3>1. \E v \in dst[t] : v \in Slot /\ owner'[v] = t /\ ref'[v] = "strong"
      BY <1>4, <1>6 DEF One
    <3>2. Owns(t, {"strong"})' # {}
      BY <3>1 DEF Owns
    <3> QED
      BY <1>5, <3>2 DEF Relies, Steady, FormOps
  <2>4. Alone(t)'
    <3>1. pc'[t] = "nload" => Exclusive(t)
      BY <1>5 DEF IInv, Local, Alone
    <3>2. pc'[t] = "nload" => Exclusive(t)'
      BY <1>0, <1>5, <3>1, ExclusiveKept
    <3> QED
      BY <1>5, <3>2 DEF Alone
  <2> QED
    BY <2>1, <2>2, <2>3, <2>4 DEF Local
<1> QED
  BY <1>3, <1>7, <1>8, <1>10, <1>11, <1>13, <1>14, <1>15, <1>17, <1>18, <1>19, <1>20,
     CountStepKept

\* A release, an unpin or a setDeallocating drops the references it takes;
\* the one that takes the last of them begins deinit.
LEMMA DecrementStrongKept ==
  ASSUME TypeOK, TypeOK', IInv, NEW t \in Thread, \A u \in Thread \ {t} : ~Exclusive(u),
         DecrementStrong(t)
  PROVE  IInv'
<1> DEFINE x == [old[t] EXCEPT !.pinned = @ /\ op[t] # "unpin"]
           w == IF Underflows(t) THEN [x EXCEPT !.strong = 0, !.deiniting = TRUE]
                ELSE [x EXCEPT !.strong = @ - Dec(t)]
<1>0. /\ Commit(t, StrongDec, w) /\ Settle(t, "empty") /\ Leave(t)
      /\ deinitBy' = IF Underflows(t) THEN t ELSE deinitBy
      /\ UNCHANGED <<alloc, wref, abort>>
  BY DEF DecrementStrong
<1>1. /\ old[t] \in Word
      /\ w.side = old[t].side /\ w.unowned = old[t].unowned /\ w.weak = old[t].weak
      /\ w.pinned = (old[t].pinned /\ op[t] # "unpin")
      /\ Underflows(t) => w.strong = 0 /\ w.deiniting
      /\ ~Underflows(t) => w.strong = old[t].strong - Dec(t) /\ w.deiniting = old[t].deiniting
  <2>1. /\ old[t] \in Word /\ x \in Word /\ x.side = old[t].side /\ x.unowned = old[t].unowned
        /\ x.weak = old[t].weak /\ x.strong = old[t].strong /\ x.deiniting = old[t].deiniting
        /\ x.pinned = (old[t].pinned /\ op[t] # "unpin")
    BY DEF TypeOK, ThreadType, Word
  <2> HIDE DEF x
  <2>2. Underflows(t) => w = [x EXCEPT !.strong = 0, !.deiniting = TRUE]
    OBVIOUS
  <2>3. ~Underflows(t) => w = [x EXCEPT !.strong = @ - Dec(t)]
    OBVIOUS
  <2> HIDE DEF w
  <2>4. CASE Underflows(t)
    BY <2>1, <2>2, <2>4 DEF Word
  <2>5. CASE ~Underflows(t)
    BY <2>1, <2>3, <2>5 DEF Word
  <2> QED
    BY <2>1, <2>4, <2>5
<1> HIDE DEF w, x
<1>2. w.side = Null
  BY <1>0, <1>1 DEF Commit, Attempts
<1>3. /\ loc[t] = Home /\ old[t] = Bits /\ mem' = [mem EXCEPT ![Home] = w]
      /\ Home' = Home /\ Bits' = w /\ pc[t] \in AtWord
      /\ op[t] \in StrongDec
  BY <1>0, <1>2, CommitAtHome
<1>4. op[t] \in {"release", "unpin", "fromOne"}
  BY <1>3 DEF StrongDec
<1>5. /\ dst[t] = {} /\ src[t] # {} /\ Holding(dst[t], "empty")
      /\ op[t] = "unpin" => One(src[t]) /\ Holding(src[t], "pinned")
      /\ op[t] # "unpin" => Holding(src[t], "strong")
  BY <1>4 DEF IInv, Local, Fits, One, Holding
<1>6. /\ \A u \in Thread \ {t} : SameThread(u)
      /\ pc'[t] = "idle" /\ op'[t] = "none" /\ src'[t] = {} /\ dst'[t] = {} /\ Local(t)'
  BY <1>0, LeaveFrame, LeaveLocal
<1>7. \A v \in src[t] : ref[v] \in {"strong", "pinned"}
  BY <1>5 DEF Holding
<1>8. /\ Frame(t) /\ Slots'
      /\ \A v \in src[t] : ref'[v] = "empty" /\ owner'[v] = Null
      /\ \A v \in Slot \ src[t] : ref'[v] = ref[v] /\ owner'[v] = owner[v]
      /\ \A v \in src[t] : v \in Slot /\ owner[v] = t
  <2>1. src[t] \cup dst[t] = src[t] /\ \A v \in src[t] : ref[v] # "weak"
    BY <1>5, <1>7
  <2>2. /\ Frame(t) /\ Slots'
        /\ \A v \in src[t] : ref'[v] = "empty" /\ owner'[v] = Null
        /\ \A v \in Slot \ (src[t] \cup dst[t]) : ref'[v] = ref[v] /\ owner'[v] = owner[v]
        /\ \A v \in src[t] \cup dst[t] : v \in Slot /\ owner[v] = t
    BY <1>0, <1>3, <1>5, <1>6, <2>1, SettleSlots
  <2> QED
    BY <2>1, <2>2
<1>9. Strong' = Strong \ src[t] /\ src[t] \subseteq Strong /\ Unowned' = Unowned
      /\ Strong \in SUBSET Slot
  BY <1>7, <1>8 DEF Strong, Unowned
<1>10. /\ Cardinality(Strong') = Cardinality(Strong) - Dec(t)
       /\ Cardinality(Strong) \in Nat /\ Dec(t) \in Nat
       /\ Dec(t) <= Cardinality(Strong)
       /\ Cardinality(Strong) = Dec(t) => Strong = src[t]
  <2>1. Dec(t) = Cardinality(src[t])
    BY <1>4 DEF Dec
  <2> QED
    BY <1>9, <2>1, Lost
<1>11. StrongExact /\ Bits.strong \in Nat /\ Bits.deiniting \in BOOLEAN /\ Deinit /\ PinExact
  BY <1>1, <1>3 DEF IInv, Word
<1>12. Underflows(t) => ~Bits.deiniting /\ Strong = src[t] /\ deinitBy = Null
  <2>1. SUFFICES ASSUME Underflows(t) PROVE ~Bits.deiniting /\ Strong = src[t] /\ deinitBy = Null
    OBVIOUS
  <2>2. Bits.strong < Dec(t)
    BY <1>3, <2>1 DEF Underflows
  <2>3. ~Bits.deiniting
    BY <1>10, <1>11, <2>2 DEF StrongExact
  <2>4. Cardinality(Strong) = Dec(t)
    BY <1>10, <1>11, <2>2, <2>3 DEF StrongExact
  <2> QED
    BY <1>10, <1>11, <2>3, <2>4 DEF Deinit
<1>13. StrongExact'
  <2>1. CASE Underflows(t)
    <3>1. Strong' = {}
      BY <1>9, <1>12, <2>1
    <3> QED
      BY <1>1, <1>3, <2>1, <3>1, FS_EmptySet DEF StrongExact
  <2>2. CASE ~Underflows(t)
    BY <1>1, <1>3, <1>10, <1>11, <2>2 DEF StrongExact
  <2> QED
    BY <2>1, <2>2
<1>14. PinExact'
  <2>1. CASE op[t] = "unpin"
    <3>1. Pinned = src[t]
      BY <1>5, <1>8, <1>11, <2>1 DEF PinExact, Pinned, Holding
    <3>2. Pinned' = {}
      BY <1>8, <3>1 DEF Pinned
    <3> QED
      BY <1>1, <1>3, <2>1, <3>2 DEF PinExact
  <2>2. CASE op[t] # "unpin"
    <3>1. Pinned' = Pinned
      BY <1>5, <1>8, <2>2 DEF Pinned, Holding
    <3>2. Bits'.pinned <=> Bits.pinned
      BY <1>1, <1>3, <2>2
    <3> QED
      BY <1>11, <3>1, <3>2 DEF PinExact
  <2> QED
    BY <2>1, <2>2
<1>a. /\ \A u \in Thread : op'[u] = "dealloc" <=> op[u] = "dealloc"
      /\ \A u \in Thread : op[u] = "dealloc" => Bits.deiniting
      /\ t # Null
  BY <1>4, <1>6, <1>11, SetsAssumption DEF SameThread, Deinit
<1>15. Deinit' /\ (StrongShare' <=> StrongShare)
  <2>1. CASE Underflows(t)
    <3>1. Strong' = {} /\ Bits'.deiniting /\ deinitBy' = t
      BY <1>0, <1>1, <1>3, <1>9, <1>12, <2>1
    <3>2. ~Bits.deiniting /\ \A u \in Thread : op'[u] # "dealloc"
      BY <1>12, <1>a, <2>1
    <3> QED
      BY <1>a, <3>1, <3>2 DEF Deinit, StrongShare
  <2>2. CASE ~Underflows(t)
    <3>1. Bits'.deiniting = Bits.deiniting /\ deinitBy' = deinitBy
      BY <1>0, <1>1, <1>3, <2>2
    <3>2. \A v \in Strong' : v \in Strong /\ owner'[v] = owner[v]
      BY <1>8, <1>9
    <3> QED
      BY <1>11, <1>a, <3>1, <3>2 DEF Deinit, StrongShare
  <2> QED
    BY <2>1, <2>2
<1>16. /\ Bits'.unowned = Bits.unowned /\ Bits'.weak = Bits.weak
       /\ op[t] \notin {"dealloc", "unownedFree"} /\ op[t] \notin WeakDec
       /\ op'[t] \notin {"dealloc", "unownedFree"} /\ op'[t] \notin WeakDec
  BY <1>1, <1>3, <1>4, <1>6 DEF WeakDec
<1>17. UnownedExact' /\ FreeObject' /\ ObjectAllocated'
  BY <1>0, <1>3, <1>8, <1>9, <1>15, <1>16, StrongStepKept
<1>18. WeakCarriers' = WeakCarriers
  BY <1>6, <1>16, CarriersOfOthers DEF WeakCarriers
<1>19. ASSUME NEW u \in Thread \ {t}
       PROVE  (deinitBy = u => deinitBy' = u) /\ (Steady(u) => deinitBy' = Null)
  <2>1. CASE Underflows(t)
    <3>1. deinitBy # u
      BY <1>12, <2>1, SetsAssumption
    <3>2. Owns(u, {"strong", "pinned"}) = {}
      BY <1>8, <1>12, <2>1 DEF Owns, Strong
    <3>3. ~Steady(u)
      BY <3>2 DEF IInv, Local, Relies
    <3> QED
      BY <3>1, <3>3
  <2>2. CASE ~Underflows(t)
    BY <1>0, <2>2 DEF IInv, Local, Relies
  <2> QED
    BY <2>1, <2>2
<1>20. \A e \in Entry : mem'[e].side = Null
  BY <1>2, <1>3, CommitMemory
<1>21. /\ pc'[t] \notin {"delete", "install", "aborted"} /\ UNCHANGED <<alloc, wref, abort>>
       /\ Cardinality(WeakCarriers)' + (IF Bits'.unowned > 0 THEN 1 ELSE 0) =
             Cardinality(WeakCarriers) + (IF Bits.unowned > 0 THEN 1 ELSE 0)
  BY <1>0, <1>6, <1>16, <1>18
<1> QED
  BY <1>3, <1>6, <1>8, <1>13, <1>14, <1>15, <1>16, <1>17, <1>19, <1>20, <1>21, CountStepKept

\* While deinit is over and its thread has yet to give the share of the
\* strong references back, whoever can use the object has an unowned
\* reference.
LEMMA NobodyButDealloc ==
  ASSUME TypeOK, IInv, NEW u \in Thread, op[u] = "dealloc", pc[u] = "free"
  PROVE  Unowned = {} /\ Bits.unowned = 1 /\ Home = Inline /\ Strong = {} /\ deinitBy = Null
<1>1. /\ Bits.unowned = 1 /\ Home = Inline /\ Bits.deiniting /\ deinitBy = Null
  BY DEF IInv, FreeObject, Deinit
<1>2. StrongShare
  BY DEF StrongShare
<1>3. Bits.unowned = Cardinality(Unowned) + 1
  BY <1>2, HeldMemory DEF IInv, UnownedExact
<1>4. Unowned = {}
  BY <1>1, <1>3, FiniteHolders, FS_EmptySet
<1>5. Strong = {}
  BY <1>1 DEF IInv, Deinit, Slots, Strong
<1> QED
  BY <1>1, <1>4, <1>5

\* incrementUnowned, once the compare-exchange succeeds.
LEMMA IncrementUnownedKept ==
  ASSUME TypeOK, TypeOK', IInv, NEW t \in Thread, \A u \in Thread \ {t} : ~Exclusive(u),
         IncrementUnowned(t)
  PROVE  IInv'
<1> DEFINE w == [old[t] EXCEPT !.unowned = @ + Inc(t)]
<1>0. /\ Commit(t, {"unownedRetain"}, w) /\ Settle(t, "unowned") /\ Leave(t)
      /\ UNCHANGED <<alloc, wref, deinitBy, abort>>
  BY DEF IncrementUnowned
<1>1. /\ old[t] \in Word
      /\ w.side = old[t].side /\ w.strong = old[t].strong /\ w.unowned = old[t].unowned + Inc(t)
      /\ w.weak = old[t].weak /\ w.deiniting = old[t].deiniting /\ w.pinned = old[t].pinned
  BY DEF TypeOK, ThreadType, Word
<1> HIDE DEF w
<1>2. w.side = Null
  BY <1>0, <1>1 DEF Commit, Attempts
<1>3. /\ loc[t] = Home /\ old[t] = Bits /\ mem' = [mem EXCEPT ![Home] = w]
      /\ Home' = Home /\ Bits' = w /\ pc[t] \in AtWord /\ op[t] = "unownedRetain"
  BY <1>0, <1>2, CommitAtHome
<1>5. src[t] = {} /\ dst[t] # {} /\ Holding(dst[t], "empty")
  BY <1>3 DEF IInv, Local, Fits
<1>6. /\ \A u \in Thread \ {t} : SameThread(u)
      /\ pc'[t] = "idle" /\ op'[t] = "none" /\ src'[t] = {} /\ dst'[t] = {} /\ Local(t)'
  BY <1>0, LeaveFrame, LeaveLocal
<1>8. /\ Frame(t) /\ Slots'
      /\ \A v \in dst[t] : ref'[v] = "unowned" /\ owner'[v] = t
      /\ \A v \in Slot \ dst[t] : ref'[v] = ref[v] /\ owner'[v] = owner[v]
      /\ \A v \in dst[t] : v \in Slot /\ owner[v] = t /\ ref[v] = "empty"
  BY <1>0, <1>3, <1>5, <1>6, SettleSlots DEF Holding
<1>9. /\ Unowned' = Unowned \cup dst[t] /\ Unowned \cap dst[t] = {}
      /\ Strong' = Strong /\ Pinned' = Pinned
  BY <1>8 DEF Strong, Unowned, Pinned
<1>10. \A u \in Thread : /\ op'[u] = "dealloc" <=> op[u] = "dealloc"
                         /\ op'[u] = "unownedFree" <=> op[u] = "unownedFree"
                         /\ op'[u] = "dealloc" => pc'[u] = pc[u]
  BY <1>3, <1>6 DEF SameThread
<1>11. StrongShare' <=> StrongShare
  BY <1>0, <1>1, <1>3, <1>10 DEF StrongShare
<1>12. /\ StrongShare \/ Unowned # {}
       /\ alloc[Inline] = "live" /\ Bits.unowned > 0 /\ Bits.unowned \in Nat
  BY <1>3, OperationHolds, HeldMemory DEF EntryOps
<1>13. /\ Cardinality(Unowned') = Cardinality(Unowned) + Inc(t)
       /\ Cardinality(Unowned) \in Nat /\ Inc(t) \in Nat
  <2>1. Unowned \in SUBSET Slot /\ dst[t] \in SUBSET Slot
    BY DEF Unowned, TypeOK, ThreadType
  <2> QED
    BY <1>9, <2>1, Gained DEF Inc
<1>14. Bits'.unowned = Bits.unowned + Inc(t) /\ Bits'.unowned > 0
  BY <1>1, <1>3, <1>12, <1>13
<1>15. UnownedExact'
  BY <1>0, <1>3, <1>11, <1>12, <1>13, <1>14 DEF IInv, UnownedExact
<1>16. StrongExact' /\ PinExact'
  BY <1>1, <1>3, <1>9 DEF IInv, StrongExact, PinExact
<1>17. Deinit'
  <2>1. \A v \in Strong : owner'[v] = owner[v]
    BY <1>8 DEF Strong
  <2> QED
    BY <1>0, <1>1, <1>3, <1>9, <1>10, <2>1 DEF IInv, Deinit
<1>18. FreeObject'
  <2>1. \A u \in Thread : ~Freeing(u)
    BY <1>12 DEF IInv, FreeObject
  <2>2. ASSUME NEW u \in Thread, op[u] = "dealloc", pc[u] = "free" PROVE FALSE
    <3>1. HoldsObject(t)
      BY <1>3 DEF IInv, Local, Relies
    <3>2. Unowned = {} /\ Strong = {} /\ deinitBy = Null
      BY <2>2, NobodyButDealloc
    <3> QED
      BY <3>1, <3>2, SetsAssumption DEF HoldsObject, HoldsStrong, Owns, Strong, Unowned
  <2> QED
    BY <1>10, <2>1, <2>2 DEF FreeObject, Freeing
<1>19. ObjectAllocated'
  <2>1. Unowned' # {}
    BY <1>5, <1>9
  <2> QED
    BY <1>0, <1>12, <2>1 DEF ObjectAllocated, ObjectHeld
<1>20. WeakCarriers' = WeakCarriers
  BY <1>3, <1>6, CarriersOfOthers DEF WeakCarriers, WeakDec
<1>21. /\ \A u \in Thread \ {t} : deinitBy = u => deinitBy' = u
       /\ \A u \in Thread \ {t} : Steady(u) => deinitBy' = Null
  BY <1>0 DEF IInv, Local, Relies
<1>22. \A e \in Entry : mem'[e].side = Null
  BY <1>2, <1>3, CommitMemory
<1>23. /\ pc'[t] \notin {"delete", "install", "aborted"} /\ UNCHANGED <<alloc, wref, abort>>
       /\ Bits'.weak = Bits.weak
       /\ Cardinality(WeakCarriers)' + (IF Bits'.unowned > 0 THEN 1 ELSE 0) =
             Cardinality(WeakCarriers) + (IF Bits.unowned > 0 THEN 1 ELSE 0)
  BY <1>0, <1>1, <1>3, <1>6, <1>12, <1>14, <1>20
<1> QED
  BY <1>3, <1>6, <1>8, <1>15, <1>16, <1>17, <1>18, <1>19, <1>21, <1>22, <1>23, CountStepKept

\* The unowned count an operation is about to give up is in the word; the
\* last one is given up when nothing stands for strong references any more.
LEMMA UnownedShare ==
  ASSUME TypeOK, IInv, NEW t \in Thread, op[t] \in UnownedDec, pc[t] \in AtWord
  PROVE  /\ alloc[Inline] = "live" /\ Bits.unowned \in Nat /\ Dec(t) \in Nat
         /\ 0 < Dec(t) /\ Dec(t) <= Bits.unowned
         /\ \A u \in Thread : ~Freeing(u) /\ ~(op[u] = "dealloc" /\ pc[u] = "free")
         /\ op[t] = "dealloc" =>
              /\ src[t] = {} /\ Bits.unowned = Cardinality(Unowned) + 1
              /\ Bits.deiniting /\ deinitBy = Null /\ \A u \in Thread : op[u] = "dealloc" => u = t
         /\ op[t] # "dealloc" => src[t] # {} /\ src[t] \subseteq Unowned /\ Dec(t) = Cardinality(src[t])
         /\ op[t] = "unownedDrop" => StrongShare
         /\ dst[t] = {} /\ Holding(src[t], "unowned")
<1>0. /\ op[t] \in {"unownedRelease", "unownedDrop", "dealloc"}
      /\ Fits(t) /\ Relies(t) /\ Deinit /\ UnownedExact /\ FreeObject
  BY DEF UnownedDec, IInv, Local
<1>1. StrongShare \/ Unowned # {}
  BY <1>0, OperationHolds DEF EntryOps
<1>2. alloc[Inline] = "live" /\ Bits.unowned \in Nat /\ Bits.unowned > 0
  BY <1>1, HeldMemory
<1>3. Bits.unowned = Cardinality(Unowned) + (IF StrongShare THEN 1 ELSE 0)
      /\ Cardinality(Unowned) \in Nat
  BY <1>0, <1>2, FiniteHolders DEF UnownedExact
<1>4. \A u \in Thread : ~Freeing(u)
  BY <1>0, <1>2 DEF FreeObject
<1>5. dst[t] = {} /\ (op[t] # "dealloc" => src[t] # {}) /\ Holding(src[t], "unowned")
      /\ (op[t] = "dealloc" => src[t] = {}) /\ src[t] \subseteq Slot
  BY <1>0 DEF Fits, One, Holding, TypeOK, ThreadType
<1>6. op[t] # "dealloc" => src[t] \subseteq Unowned
  BY <1>5 DEF Holding, Unowned
<1>7. op[t] # "dealloc" =>
        /\ Dec(t) = Cardinality(src[t]) /\ Dec(t) \in Nat /\ 0 < Dec(t)
        /\ Cardinality(src[t]) <= Cardinality(Unowned)
  <2>1. Unowned \in SUBSET Slot
    BY DEF Unowned
  <2>2. Cardinality(src[t]) \in Nat /\ (src[t] # {} => Cardinality(src[t]) > 0)
    BY FiniteShares
  <2>3. op[t] # "dealloc" => Cardinality(src[t]) <= Cardinality(Unowned)
    BY <1>6, <2>1, Lost
  <2> QED
    BY <1>5, <2>2, <2>3 DEF Dec
<1>8. op[t] = "dealloc" => Dec(t) = 1 /\ StrongShare /\ Bits.deiniting /\ deinitBy = Null
                           /\ \A u \in Thread : op[u] = "dealloc" => u = t
  BY <1>0 DEF Dec, StrongShare, Deinit
<1>9. op[t] = "unownedDrop" => StrongShare
  <2>1. op[t] = "unownedDrop" => Strong # {}
    BY <1>0 DEF Relies, Owns, Strong
  <2> QED
    BY <2>1, StrongHasShare DEF IInv
<1>10. ASSUME NEW u \in Thread, op[u] = "dealloc", pc[u] = "free" PROVE FALSE
  <2>1. Unowned = {}
    BY <1>10, NobodyButDealloc
  <2>2. op[t] = "dealloc"
    BY <1>5, <1>6, <2>1
  <2> QED
    BY <1>8, <1>10, <2>2 DEF AtWord
<1> QED
  BY <1>0, <1>2, <1>3, <1>4, <1>5, <1>6, <1>7, <1>8, <1>9, <1>10

\* Unowned references are given up; the thread that gives up the last one
\* frees the object, after dropping the entry's weak count for them.
LEMMA DecrementUnownedKept ==
  ASSUME TypeOK, TypeOK', IInv, NEW t \in Thread, \A u \in Thread \ {t} : ~Exclusive(u),
         DecrementUnowned(t)
  PROVE  IInv'
<1> DEFINE w == [old[t] EXCEPT !.unowned = @ - Dec(t)]
           last == Bits.unowned = Dec(t)
<1>0. /\ Commit(t, UnownedDec, w) /\ Settle(t, "empty")
      /\ UNCHANGED <<alloc, wref, deinitBy, abort>>
  BY DEF DecrementUnowned
<1>1. /\ old[t] \in Word
      /\ w.side = old[t].side /\ w.strong = old[t].strong /\ w.unowned = old[t].unowned - Dec(t)
      /\ w.weak = old[t].weak /\ w.deiniting = old[t].deiniting /\ w.pinned = old[t].pinned
  BY DEF TypeOK, ThreadType, Word
<1> HIDE DEF w
<1>2. w.side = Null
  BY <1>0, <1>1 DEF Commit, Attempts
<1>3. /\ loc[t] = Home /\ old[t] = Bits /\ mem' = [mem EXCEPT ![Home] = w]
      /\ Home' = Home /\ Bits' = w /\ pc[t] \in AtWord /\ op[t] \in UnownedDec
      /\ pc[t] \in {"cas", "store"}
  BY <1>0, <1>2, CommitAtHome
<1>4. /\ alloc[Inline] = "live" /\ Bits.unowned \in Nat /\ Dec(t) \in Nat
      /\ 0 < Dec(t) /\ Dec(t) <= Bits.unowned
      /\ \A u \in Thread : ~Freeing(u) /\ ~(op[u] = "dealloc" /\ pc[u] = "free")
      /\ op[t] = "dealloc" =>
           /\ src[t] = {} /\ Bits.unowned = Cardinality(Unowned) + 1
           /\ Bits.deiniting /\ deinitBy = Null /\ \A u \in Thread : op[u] = "dealloc" => u = t
      /\ op[t] # "dealloc" => src[t] # {} /\ src[t] \subseteq Unowned /\ Dec(t) = Cardinality(src[t])
      /\ op[t] = "unownedDrop" => StrongShare
      /\ dst[t] = {} /\ Holding(src[t], "unowned")
  BY <1>3, UnownedShare
<1>5. /\ Bits.unowned = Cardinality(Unowned) + (IF StrongShare THEN 1 ELSE 0)
      /\ Cardinality(Unowned) \in Nat
  BY <1>4, FiniteHolders DEF IInv, UnownedExact
<1>6. /\ src[t] \subseteq Unowned /\ Unowned \in SUBSET Slot
      /\ Cardinality(Unowned \ src[t]) = Cardinality(Unowned) - Cardinality(src[t])
      /\ Cardinality(src[t]) \in Nat /\ Cardinality(src[t]) <= Cardinality(Unowned)
  <2>1. src[t] \subseteq Unowned /\ Unowned \in SUBSET Slot
    BY <1>4 DEF Unowned
  <2> QED
    BY <2>1, Lost
<1>7. last => op[t] # "unownedDrop"
  BY <1>4, <1>5, <1>6
<1>8. /\ \A u \in Thread \ {t} : SameThread(u)
      /\ src'[t] = {} /\ dst'[t] = {}
      /\ ~last => pc'[t] = "idle" /\ op'[t] = "none"
      /\ last => op'[t] = "unownedFree" /\ old'[t].side = Null
      /\ last /\ Home = Inline => pc'[t] = "free" /\ loc'[t] = Inline
      /\ last /\ Home # Inline => /\ pc'[t] \in {"load", "nload"} /\ loc'[t] = Home
                                  /\ pc'[t] = "nload" => pc[t] = "store"
  <2>1. CASE ~last
    <3>1. Leave(t)
      BY <1>3, <2>1 DEF DecrementUnowned
    <3> QED
      BY <2>1, <3>1, LeaveFrame
  <2>2. CASE last
    <3>1. /\ IF loc[t] = Inline
             THEN Proceed(t, "unownedFree", "free", Inline)
             ELSE Proceed(t, IF op[t] = "unownedDrop" THEN "weakDestroy"
                             ELSE "unownedFree", Again(t), loc[t])
          /\ src' = [src EXCEPT ![t] = {}] /\ dst' = dst
      BY <1>3, <1>7, <2>2 DEF DecrementUnowned
    <3>2. /\ src'[t] = {} /\ dst'[t] = {}
          /\ \A u \in Thread \ {t} : src'[u] = src[u] /\ dst'[u] = dst[u]
      BY <1>4, <3>1 DEF TypeOK, ThreadType
    <3>3. CASE Home = Inline
      <4>1. Proceed(t, "unownedFree", "free", Inline)
        BY <1>3, <3>1, <3>3
      <4> QED
        BY <2>2, <3>2, <3>3, <4>1, ProceedFrame DEF SameThread
    <3>4. CASE Home # Inline
      <4>1. Proceed(t, "unownedFree", Again(t), Home)
        BY <1>3, <1>7, <2>2, <3>1, <3>4
      <4>2. Again(t) \in {"load", "nload"} /\ (Again(t) = "nload" => pc[t] = "store")
        BY DEF Again
      <4> QED
        BY <2>2, <3>2, <3>4, <4>1, <4>2, ProceedFrame DEF SameThread
    <3> QED
      BY <3>3, <3>4
  <2> QED
    BY <2>1, <2>2
<1>9. /\ Frame(t) /\ Slots'
      /\ \A v \in src[t] : ref'[v] = "empty" /\ owner'[v] = Null
      /\ \A v \in Slot \ src[t] : ref'[v] = ref[v] /\ owner'[v] = owner[v]
  <2>1. /\ src[t] \cup dst[t] = src[t] /\ \A v \in src[t] : ref[v] # "weak"
        /\ Holding(dst[t], "empty")
    BY <1>4 DEF Holding
  <2>2. /\ Frame(t) /\ Slots'
        /\ \A v \in src[t] : ref'[v] = "empty" /\ owner'[v] = Null
        /\ \A v \in Slot \ (src[t] \cup dst[t]) : ref'[v] = ref[v] /\ owner'[v] = owner[v]
    BY <1>0, <1>3, <1>8, <2>1, SettleSlots
  <2> QED
    BY <2>1, <2>2
<1>10. Unowned' = Unowned \ src[t] /\ Strong' = Strong /\ Pinned' = Pinned
  BY <1>4, <1>6, <1>9 DEF Unowned, Strong, Pinned, Holding
<1>11. /\ Bits'.strong = Bits.strong /\ Bits'.deiniting = Bits.deiniting
       /\ Bits'.pinned = Bits.pinned /\ Bits'.weak = Bits.weak
       /\ Bits'.unowned = Bits.unowned - Dec(t)
  BY <1>1, <1>3
<1>12. /\ \A u \in Thread \ {t} : op'[u] = op[u] /\ pc'[u] = pc[u]
       /\ op'[t] # "dealloc" /\ op[t] \in {"unownedRelease", "unownedDrop", "dealloc"}
       /\ t # Null
  BY <1>3, <1>8, SetsAssumption DEF SameThread, UnownedDec
<1>13. StrongShare' <=> StrongShare /\ op[t] # "dealloc"
  <2>1. CASE op[t] = "dealloc"
    BY <1>0, <1>4, <1>11, <1>12, <2>1 DEF StrongShare
  <2>2. CASE op[t] # "dealloc"
    BY <1>0, <1>11, <1>12, <2>2 DEF StrongShare
  <2> QED
    BY <2>1, <2>2
<1>14. Bits'.unowned = Cardinality(Unowned') + (IF StrongShare' THEN 1 ELSE 0)
       /\ Cardinality(Unowned') \in Nat
  <2>1. CASE op[t] = "dealloc"
    <3>1. Unowned' = Unowned /\ Dec(t) = 1 /\ ~StrongShare'
      BY <1>4, <1>10, <1>13, <2>1 DEF Dec
    <3> QED
      BY <1>4, <1>5, <1>11, <2>1, <3>1
  <2>2. CASE op[t] # "dealloc"
    <3>1. Dec(t) = Cardinality(src[t]) /\ (StrongShare' <=> StrongShare)
      BY <1>4, <1>13, <2>2
    <3> QED
      BY <1>5, <1>6, <1>10, <1>11, <3>1
  <2> QED
    BY <2>1, <2>2
<1>15. StrongExact' /\ PinExact' /\ UnownedExact'
  BY <1>10, <1>11, <1>14 DEF IInv, StrongExact, PinExact, UnownedExact
<1>16. Deinit'
  <2>1. \A v \in Strong : owner'[v] = owner[v]
    BY <1>9, <1>4 DEF Strong, Holding
  <2> QED
    BY <1>0, <1>10, <1>11, <1>12, <2>1 DEF IInv, Deinit
<1>17. last <=> Bits'.unowned = 0
  BY <1>4, <1>11
<1>18. last => ~StrongShare' /\ Unowned' = {}
  <2>1. last => ~StrongShare' /\ Cardinality(Unowned') = 0
    BY <1>14, <1>17
  <2>2. Unowned' \in SUBSET Slot
    BY <1>6, <1>10
  <2> QED
    BY <2>1, <2>2, FS_Subset, SetsAssumption, FS_EmptySet
<1>19. FreeObject'
  <2>1. \A u \in Thread : Freeing(u)' <=> u = t /\ last
    BY <1>4, <1>8, <1>12 DEF Freeing
  <2>2. \A u \in Thread : ~(op'[u] = "dealloc" /\ pc'[u] = "free")
    BY <1>4, <1>12
  <2> QED
    BY <1>17, <1>18, <2>1, <2>2 DEF FreeObject
<1>20. ObjectAllocated'
  <2>1. CASE last
    <3>1. Freeing(t)'
      BY <1>8, <2>1 DEF Freeing
    <3> QED
      BY <1>0, <1>4, <3>1 DEF ObjectAllocated, ObjectHeld
  <2>2. CASE ~last
    <3>1. StrongShare' \/ Cardinality(Unowned') # 0
      BY <1>14, <1>17, <2>2
    <3>2. StrongShare' \/ Unowned' # {}
      BY <3>1, FS_EmptySet
    <3> QED
      BY <1>0, <1>4, <3>2 DEF ObjectAllocated, ObjectHeld
  <2> QED
    BY <2>1, <2>2
<1>21. Home # Inline =>
         Cardinality(WeakCarriers)' + (IF Bits'.unowned > 0 THEN 1 ELSE 0) =
           Cardinality(WeakCarriers) + (IF Bits.unowned > 0 THEN 1 ELSE 0)
  <2>0. op[t] \notin WeakDec /\ Cardinality(WeakCarriers) \in Nat
        /\ Bits'.unowned \in Nat /\ Bits.unowned > 0
    BY <1>4, <1>11, <1>12, FiniteHolders DEF WeakDec
  <2>1. CASE last /\ Home # Inline
    <3>1. op'[t] \in WeakDec /\ pc'[t] \in AtWord
      BY <1>8, <2>1 DEF WeakDec, AtWord
    <3>2. Cardinality(WeakCarriers)' = Cardinality(WeakCarriers) - 0 + 1
      BY <1>8, <2>0, <3>1, CarrierCount
    <3>3. Bits'.unowned = 0
      BY <1>17, <2>1
    <3> QED
      BY <2>0, <3>2, <3>3
  <2>2. CASE ~last
    <3>1. op'[t] \notin WeakDec
      BY <1>8, <2>2 DEF WeakDec
    <3>2. Cardinality(WeakCarriers)' = Cardinality(WeakCarriers) - 0 + 0
      BY <1>8, <2>0, <3>1, CarrierCount
    <3>3. Bits'.unowned > 0
      BY <1>17, <2>0, <2>2
    <3> QED
      BY <2>0, <3>2, <3>3
  <2> QED
    BY <2>1, <2>2
<1>22. Local(t)'
  <2>1. CASE ~last
    <3>1. Leave(t)
      BY <1>3, <2>1 DEF DecrementUnowned
    <3> QED
      BY <3>1, LeaveLocal
  <2>2. CASE last
    <3>1. Fits(t)' /\ Placed(t)' /\ Relies(t)'
      BY <1>3, <1>8, <2>2 DEF Fits, Placed, Relies, Steady, AtWord, FormOps, EntryOps, WeakDec
    <3>2. pc'[t] = "nload" => Exclusive(t)
      BY <1>8, <2>2 DEF IInv, Local, Alone
    <3>3. pc'[t] = "nload" => Exclusive(t)'
      <4>1. \A v \in Slot : owner'[v] \in {owner[v], Null}
        BY <1>9
      <4> QED
        BY <1>0, <1>12, <3>2, <4>1 DEF Exclusive
    <3>4. Alone(t)'
      BY <1>8, <2>2, <3>3 DEF Alone
    <3> QED
      BY <3>1, <3>4 DEF Local
  <2> QED
    BY <2>1, <2>2
<1>23. /\ \A u \in Thread \ {t} : deinitBy = u => deinitBy' = u
       /\ \A u \in Thread \ {t} : Steady(u) => deinitBy' = Null
  BY <1>0 DEF IInv, Local, Relies
<1>24. \A e \in Entry : mem'[e].side = Null
  BY <1>2, <1>3, CommitMemory
<1>25. pc'[t] \notin {"delete", "install", "aborted"} /\ UNCHANGED <<alloc, wref, abort>>
  BY <1>0, <1>8
<1> QED
  BY <1>3, <1>9, <1>11, <1>15, <1>16, <1>19, <1>20, <1>21, <1>22, <1>23, <1>24, <1>25,
     CountStepKept

-----------------------------------------------------------------------------
(* The end of the object.                                                  *)

\* deinit() returns.
LEMMA DeallocObjectKept ==
  ASSUME TypeOK, TypeOK', IInv, NEW t \in Thread, \A u \in Thread \ {t} : ~Exclusive(u),
         swift_deallocObject(t)
  PROVE  IInv'
<1>0. /\ deinitBy = t /\ pc[t] = "idle" /\ Strong = {} /\ deinitBy' = Null
      /\ Proceed(t, "dealloc", IF canBeFreedNow THEN "free" ELSE "load", Inline)
      /\ UNCHANGED <<mem, alloc, src, dst, slotVars, abort>> /\ t # Null
  BY SetsAssumption DEF swift_deallocObject
<1>1. /\ \A u \in Thread \ {t} : SameThread(u)
      /\ pc'[t] = IF canBeFreedNow THEN "free" ELSE "load"
      /\ op'[t] = "dealloc" /\ loc'[t] = Inline /\ old'[t].side = Null
      /\ src'[t] = src[t] /\ dst'[t] = dst[t]
  BY <1>0, ProceedFrame DEF SameThread
<1>2. Home' = Home /\ Bits' = Bits /\ ref' = ref /\ owner' = owner /\ wref' = wref
  BY <1>0 DEF Home, Bits, slotVars
<1>3. op[t] = "none" /\ src[t] = {} /\ dst[t] = {}
  BY <1>0, WeakFacts
<1>4. Frame(t)
  BY <1>1, <1>2 DEF Frame, SameSlot
<1>5. Slots'
  BY <1>1, <1>2, <1>3, <1>4, SlotsKept DEF IInv, Slots
<1>6. Bits.deiniting /\ StrongShare /\ \A u \in Thread : op[u] # "dealloc"
  BY <1>0 DEF IInv, Deinit, StrongShare
<1>7. \A u \in Thread : op'[u] = "dealloc" <=> u = t
  BY <1>1, <1>6 DEF SameThread
<1>8. Strong' = Strong /\ Unowned' = Unowned /\ Pinned' = Pinned /\ WeakSlots' = WeakSlots
  BY <1>2 DEF Strong, Unowned, Pinned, WeakSlots
<1>9. StrongShare'
  BY <1>7 DEF StrongShare
<1>10. StrongExact' /\ PinExact' /\ UnownedExact'
  BY <1>0, <1>2, <1>6, <1>8, <1>9 DEF IInv, StrongExact, PinExact, UnownedExact
<1>11. Deinit'
  BY <1>0, <1>2, <1>6, <1>7, <1>8 DEF Deinit
<1>12. \A u \in Thread : ~Freeing(u) /\ ~Freeing(u)'
  BY <1>1, <1>3, <1>6 DEF IInv, FreeObject, Freeing, SameThread
<1>13. FreeObject'
  <2>1. canBeFreedNow => Home = Inline /\ Bits.unowned = 1
    BY DEF canBeFreedNow, Home, Bits
  <2> QED
    BY <1>1, <1>2, <1>7, <1>12, <2>1 DEF FreeObject
<1>14. ObjectAllocated'
  BY <1>0, <1>6, <1>9 DEF IInv, ObjectAllocated, ObjectHeld
<1>15. /\ \A u \in Thread : pc'[u] = "delete" <=> pc[u] = "delete"
       /\ WeakCarriers' = WeakCarriers
  <2>1. op'[t] \notin WeakDec /\ op[t] \notin WeakDec
    BY <1>1, <1>3 DEF WeakDec
  <2> QED
    BY <1>0, <1>1, <2>1, CarriersOfOthers DEF SameThread, WeakCarriers
<1>16. WeakExact' /\ FreeEntry' /\ EntryAllocated'
  BY <1>0, <1>2, <1>8, <1>15, EntryKept
<1>17. Entries'
  <2>1. \A e \in Entry : mem'[e].side = Null
    BY <1>0 DEF IInv, Entries
  <2>2. \A u \in Thread :
          /\ pc'[u] = "aborted" => pc[u] = "aborted"
          /\ pc'[u] = "install" => pc[u] = "install" /\ loc'[u] = loc[u]
          /\ pc[u] \in {"install", "aborted"} => pc'[u] = pc[u] /\ loc'[u] = loc[u]
    BY <1>0, <1>1 DEF SameThread
  <2> QED
    BY <1>0, <1>2, <2>1, <2>2, EntriesKept
<1>18. Local(t)'
  BY <1>1, <1>3 DEF Local, Fits, Placed, Relies, Steady, Alone, AtWord, FormOps, EntryOps, WeakDec
<1>19. \A u \in Thread : Local(u)'
  <2>1. \A u \in Thread \ {t} : pc[u] = "install" =>
          alloc'[loc[u]] = alloc[loc[u]] /\ loc[u] # Home'
    BY <1>0, <1>2 DEF IInv, Local, Placed
  <2> QED
    BY <1>0, <1>2, <1>4, <1>18, <2>1, OthersKept
<1> QED
  BY <1>5, <1>10, <1>11, <1>13, <1>14, <1>16, <1>17, <1>19 DEF IInv

\* The object's memory is given back.
LEMMA SlowDeallocKept ==
  ASSUME TypeOK, TypeOK', IInv, NEW t \in Thread, \A u \in Thread \ {t} : ~Exclusive(u),
         swift_slowDealloc(t)
  PROVE  IInv'
<1>0. /\ pc[t] = "free" /\ alloc' = [alloc EXCEPT ![Inline] = "freed"] /\ Leave(t)
      /\ UNCHANGED <<mem, slotVars, deinitBy, abort>>
      /\ op[t] \in {"dealloc", "unownedFree"}
  BY DEF swift_slowDealloc, IInv, Local, Placed
<1>1. /\ \A u \in Thread \ {t} : SameThread(u)
      /\ pc'[t] = "idle" /\ op'[t] = "none" /\ src'[t] = {} /\ dst'[t] = {} /\ Local(t)'
  BY <1>0, LeaveFrame, LeaveLocal
<1>2. Home' = Home /\ Bits' = Bits /\ ref' = ref /\ owner' = owner /\ wref' = wref
  BY <1>0 DEF Home, Bits, slotVars
<1>3. /\ alloc'[Inline] = "freed" /\ \A l \in Loc \ {Inline} : alloc'[l] = alloc[l]
      /\ \A e \in Entry : e # Inline /\ e \in Loc
      /\ Home # Inline => Home \in Entry
  BY <1>0, SetsAssumption, HomeType DEF TypeOK, MemoryType, Loc, IInv
<1>4. Frame(t)
  BY <1>1, <1>2 DEF Frame, SameSlot
<1>5. Slots'
  BY <1>1, <1>2, <1>4, SlotsKept DEF IInv, Slots
<1>6. Strong' = Strong /\ Unowned' = Unowned /\ Pinned' = Pinned /\ WeakSlots' = WeakSlots
  BY <1>2 DEF Strong, Unowned, Pinned, WeakSlots
<1>7. /\ \A u \in Thread \ {t} : op'[u] = op[u] /\ pc'[u] = pc[u]
      /\ \A u \in Thread : op'[u] = "dealloc" => op[u] = "dealloc" /\ pc'[u] = pc[u]
  BY <1>1 DEF SameThread
<1>8. /\ Unowned = {} /\ ~StrongShare' /\ \A u \in Thread : ~Freeing(u)'
      /\ Home # Inline => (StrongShare' <=> StrongShare)
      /\ \A u \in Thread : op'[u] # "dealloc"
  <2>1. CASE op[t] = "dealloc"
    <3>1. Unowned = {} /\ Home = Inline /\ deinitBy = Null
      BY <1>0, <2>1, NobodyButDealloc
    <3>2. Bits.deiniting /\ StrongShare /\ \A u \in Thread : op[u] = "dealloc" => u = t
      BY <2>1 DEF IInv, Deinit, StrongShare
    <3>3. \A u \in Thread : ~Freeing(u)
      BY <3>2 DEF IInv, FreeObject
    <3> QED
      BY <1>0, <1>1, <1>2, <1>7, <3>1, <3>2, <3>3 DEF StrongShare, Freeing
  <2>2. CASE op[t] = "unownedFree"
    <3>1. Bits.unowned = 0 /\ ~StrongShare /\ \A u \in Thread : Freeing(u) => u = t
      BY <2>2 DEF IInv, FreeObject, Freeing
    <3>2. \A u \in Thread : op[u] # "dealloc"
      BY <3>1 DEF StrongShare
    <3>3. alloc[Inline] = "live"
      BY <1>0, OperationMemory
    <3>4. Cardinality(Unowned) = 0
      BY <3>1, <3>3, FiniteHolders DEF IInv, UnownedExact
    <3>5. Unowned = {}
      BY <3>4, FiniteHolders, FS_EmptySet
    <3> QED
      BY <1>0, <1>1, <1>2, <1>7, <3>1, <3>2, <3>5 DEF StrongShare, Freeing
  <2> QED
    BY <1>0, <2>1, <2>2
<1>9. StrongExact' /\ PinExact' /\ UnownedExact'
  BY <1>2, <1>3, <1>6, <1>8 DEF IInv, StrongExact, PinExact, UnownedExact
<1>10. Deinit'
  BY <1>0, <1>2, <1>6, <1>8 DEF IInv, Deinit
<1>11. FreeObject'
  BY <1>8 DEF FreeObject
<1>12. ObjectAllocated'
  BY <1>3, <1>6, <1>8 DEF ObjectAllocated, ObjectHeld
<1>13. /\ \A u \in Thread : pc'[u] = "delete" <=> pc[u] = "delete"
       /\ WeakCarriers' = WeakCarriers
  <2>1. op'[t] \notin WeakDec /\ pc[t] \notin AtWord
    BY <1>0, <1>1 DEF WeakDec, AtWord
  <2> QED
    BY <1>0, <1>1, <2>1, CarriersOfOthers DEF SameThread, WeakCarriers
<1>14. WeakExact' /\ FreeEntry' /\ EntryAllocated'
  BY <1>2, <1>3, <1>6, <1>13 DEF IInv, WeakExact, FreeEntry, EntryAllocated, EntryHeld
<1>15. Entries'
  <2>1. \A e \in Entry : mem'[e].side = Null /\ (alloc'[e] = "live" => alloc[e] = "live")
    BY <1>0, <1>3 DEF IInv, Entries
  <2>2. \A u \in Thread :
          /\ pc'[u] = "aborted" => pc[u] = "aborted"
          /\ pc'[u] = "install" => pc[u] = "install" /\ loc'[u] = loc[u]
          /\ pc[u] \in {"install", "aborted"} => pc'[u] = pc[u] /\ loc'[u] = loc[u]
    BY <1>0, <1>1 DEF SameThread
  <2> QED
    BY <1>0, <1>2, <2>1, <2>2, EntriesKept
<1>16. \A u \in Thread : Local(u)'
  <2>1. \A u \in Thread \ {t} : pc[u] = "install" =>
          alloc'[loc[u]] = alloc[loc[u]] /\ loc[u] # Home'
    BY <1>2, <1>3 DEF IInv, Local, Placed
  <2>2. \A u \in Thread : Steady(u) => deinitBy' = Null
    BY <1>0 DEF IInv, Local, Relies
  <2> QED
    BY <1>0, <1>1, <1>2, <1>4, <2>1, <2>2, OthersKept
<1> QED
  BY <1>5, <1>9, <1>10, <1>11, <1>12, <1>14, <1>15, <1>16 DEF IInv

-----------------------------------------------------------------------------
(* Weak counts.                                                            *)

\* incrementWeak, once the compare-exchange succeeds.
LEMMA IncrementWeakKept ==
  ASSUME TypeOK, TypeOK', IInv, NEW t \in Thread, \A u \in Thread \ {t} : ~Exclusive(u),
         IncrementWeak(t)
  PROVE  IInv'
<1> DEFINE w == [old[t] EXCEPT !.weak = @ + 1]
<1>0. /\ Commit(t, {"weakInit", "weakAssign", "weakCopy"}, w) /\ StoreWeak(t, loc[t])
      /\ UNCHANGED <<alloc, deinitBy, abort>>
  BY DEF IncrementWeak
<1>1. /\ old[t] \in Word
      /\ w.side = old[t].side /\ w.strong = old[t].strong /\ w.unowned = old[t].unowned
      /\ w.weak = old[t].weak + 1 /\ w.deiniting = old[t].deiniting /\ w.pinned = old[t].pinned
  BY DEF TypeOK, ThreadType, Word
<1> HIDE DEF w
<1>2. w.side = Null
  BY <1>0, <1>1 DEF Commit, Attempts
<1>3. /\ loc[t] = Home /\ old[t] = Bits /\ mem' = [mem EXCEPT ![Home] = w]
      /\ Home' = Home /\ Bits' = w /\ pc[t] \in AtWord
      /\ op[t] \in FormOps \cup {"weakCopy"}
  BY <1>0, <1>2, CommitAtHome DEF FormOps
<1>4. Home # Inline /\ Home # Null
  <2>1. Home # Inline
    BY <1>3 DEF IInv, Local, Placed, EntryOps
  <2> QED
    BY <2>1, HomeType, SetsAssumption DEF IInv
<1>5. Bits.weak > 0
  <2>1. CASE op[t] \in FormOps
    <3>1. HoldsStrong(t)
      BY <2>1 DEF IInv, Local, Relies
    <3>2. StrongShare
      BY <3>1, StrongHasShare DEF IInv
    <3> QED
      BY <1>4, <3>2, HeldMemory
  <2>2. CASE op[t] = "weakCopy"
    <3>1. WeakSlots # {}
      BY <2>2 DEF IInv, Local, Relies, WeakSlots
    <3> QED
      BY <1>4, <3>1, HeldMemory
  <2> QED
    BY <1>3, <2>1, <2>2
<1>6. \A e \in Entry : mem'[e].side = Null
  BY <1>2, <1>3, CommitMemory
<1>7. /\ Bits'.strong = Bits.strong /\ Bits'.unowned = Bits.unowned
      /\ Bits'.deiniting = Bits.deiniting /\ Bits'.pinned = Bits.pinned
      /\ Bits'.weak = Bits.weak + 1
  BY <1>1, <1>3
<1>8. StoreWeak(t, Home) /\ Home \in {Null, Home}
  BY <1>0, <1>3
<1> QED
  BY <1>0, <1>3, <1>4, <1>5, <1>6, <1>7, <1>8, StoreWeakKept

\* What the callers of decrementWeak do next concerns their own slots only.
LEMMA AfterDecrement ==
  ASSUME TypeOK, IInv, NEW t \in Thread, op[t] \in WeakDec, loc[t] = Home, Home # Inline,
         AfterDecrementWeak(t), Home' = Home, deinitBy' = deinitBy
  PROVE  /\ Frame(t) /\ Slots' /\ Local(t)'
         /\ Cardinality(WeakSlots)' = Cardinality(WeakSlots)
         /\ ~(op'[t] \in WeakDec /\ pc'[t] \in AtWord)
         /\ pc'[t] \notin {"delete", "install", "aborted"}
         /\ op'[t] # "dealloc" /\ (op'[t] = "unownedFree" <=> op[t] = "unownedFree")
         /\ \A v \in Slot : ref[v] \in {"strong", "pinned", "unowned"}
                            \/ ref'[v] \in {"strong", "pinned", "unowned"} =>
                              ref'[v] = ref[v] /\ owner'[v] = owner[v]
<1>0. Fits(t) /\ Relies(t) /\ Slots /\ t # Null
      /\ \A v \in src[t] \cup dst[t] : v \in Slot /\ owner[v] = t
      /\ src[t] \cap dst[t] = {}
  BY SetsAssumption DEF IInv, Local, Slots, TypeOK, ThreadType
\* ... when no slot changes
<1>1. ASSUME \A u \in Thread \ {t} : SameThread(u), UNCHANGED slotVars,
             src'[t] \subseteq src[t], dst'[t] \subseteq dst[t]
      PROVE  /\ Frame(t) /\ Slots' /\ Cardinality(WeakSlots)' = Cardinality(WeakSlots)
             /\ \A v \in Slot : ref'[v] = ref[v] /\ owner'[v] = owner[v]
  <2>1. Frame(t) /\ ref' = ref /\ owner' = owner /\ wref' = wref
    BY <1>1 DEF Frame, SameSlot, slotVars
  <2>2. WeakSlots' = WeakSlots
    BY <2>1 DEF WeakSlots
  <2>3. Slots'
    <3>1. (\A v \in src'[t] \cup dst'[t] : owner'[v] = t) /\ src'[t] \cap dst'[t] = {}
      BY <1>0, <1>1, <2>1
    <3>2. \A v \in Slot : /\ owner'[v] = Null => ref'[v] = "empty"
                          /\ wref'[v] # Null => ref'[v] = "weak" /\ wref'[v] = Home'
      BY <1>0, <2>1 DEF Slots
    <3> QED
      BY <2>1, <3>1, <3>2, SlotsKept
  <2> QED
    BY <2>1, <2>2, <2>3
<1>2. CASE op[t] = "weakDestroy"
  <2>1. Leave(t) /\ UNCHANGED slotVars
    BY <1>2 DEF AfterDecrementWeak
  <2>2. /\ \A u \in Thread \ {t} : SameThread(u)
        /\ pc'[t] = "idle" /\ op'[t] = "none" /\ src'[t] = {} /\ dst'[t] = {} /\ Local(t)'
    BY <2>1, LeaveFrame, LeaveLocal
  <2>3. src'[t] \subseteq src[t] /\ dst'[t] \subseteq dst[t]
    BY <2>2
  <2> QED
    BY <1>1, <1>2, <2>1, <2>2, <2>3 DEF WeakDec
<1>3. CASE op[t] = "weakTake"
  <2>1. Proceed(t, "weakLoad", "load", Home) /\ UNCHANGED <<src, dst, slotVars>>
    BY <1>3 DEF AfterDecrementWeak
  <2>2. /\ \A u \in Thread \ {t} : SameThread(u)
        /\ pc'[t] = "load" /\ op'[t] = "weakLoad" /\ loc'[t] = Home /\ old'[t].side = Null
        /\ src'[t] = src[t] /\ dst'[t] = dst[t]
    BY <2>1, ProceedFrame DEF SameThread
  <2>3. src[t] = {} /\ One(dst[t]) /\ Holding(dst[t], "empty") /\ HoldsStrong(t)
    BY <1>0, <1>3 DEF Fits, Relies
  <2>4. HoldsStrong(t)' /\ Holding(dst[t], "empty")'
    BY <2>1, <2>2, <2>3 DEF HoldsStrong, Owns, slotVars, Holding
  <2>5. Local(t)'
    BY <2>2, <2>3, <2>4 DEF Local, Fits, Placed, Relies, Steady, Alone, AtWord, FormOps,
         EntryOps, WeakDec, Holding, One
  <2> QED
    BY <1>1, <1>3, <2>1, <2>2, <2>5 DEF WeakDec
<1>4. CASE op[t] = "unownedFree"
  <2>1. Proceed(t, "unownedFree", "free", Inline) /\ UNCHANGED <<src, dst, slotVars>>
    BY <1>4 DEF AfterDecrementWeak
  <2>2. /\ \A u \in Thread \ {t} : SameThread(u)
        /\ pc'[t] = "free" /\ op'[t] = "unownedFree" /\ loc'[t] = Inline /\ old'[t].side = Null
        /\ src'[t] = src[t] /\ dst'[t] = dst[t]
    BY <2>1, ProceedFrame DEF SameThread
  <2>3. src[t] = {} /\ dst[t] = {}
    BY <1>0, <1>4 DEF Fits
  <2>5. Local(t)'
    BY <2>2, <2>3 DEF Local, Fits, Placed, Relies, Steady, Alone, AtWord, FormOps, EntryOps, WeakDec
  <2> QED
    BY <1>1, <1>4, <2>1, <2>2, <2>5 DEF AtWord
<1>5. CASE op[t] = "weakCopyAssign"
  <2>1. PICK s \in src[t] :
          /\ IF wref[s] = Null
             THEN Leave(t)
             ELSE /\ Proceed(t, "weakCopy", "check", wref[s])
                  /\ src' = [src EXCEPT ![t] = {}]
                  /\ UNCHANGED dst
          /\ UNCHANGED slotVars
    BY <1>5 DEF AfterDecrementWeak
  <2>2. CASE wref[s] = Null
    <3>1. /\ \A u \in Thread \ {t} : SameThread(u)
          /\ pc'[t] = "idle" /\ op'[t] = "none" /\ src'[t] = {} /\ dst'[t] = {} /\ Local(t)'
      BY <2>1, <2>2, LeaveFrame, LeaveLocal
    <3>2. src'[t] \subseteq src[t] /\ dst'[t] \subseteq dst[t]
      BY <3>1
    <3> QED
      BY <1>1, <1>5, <2>1, <3>1, <3>2 DEF WeakDec
  <2>3. CASE wref[s] # Null
    <3>1. /\ Proceed(t, "weakCopy", "check", wref[s])
          /\ src' = [src EXCEPT ![t] = {}] /\ dst' = dst
      BY <2>1, <2>3
    <3>2. s \in Slot /\ owner[s] = t /\ wref[s] = Home
      BY <1>0, <2>1, <2>3, WeakFacts
    <3>3. src'[t] = {} /\ dst'[t] = dst[t] /\ \A u \in Thread \ {t} : src'[u] = src[u] /\ dst'[u] = dst[u]
      BY <3>1 DEF TypeOK, ThreadType
    <3>4. /\ \A u \in Thread \ {t} : SameThread(u)
          /\ pc'[t] = "check" /\ op'[t] = "weakCopy" /\ loc'[t] = Home /\ old'[t].side = Null
      BY <3>1, <3>2, <3>3, ProceedFrame DEF SameThread
    <3>5. One(dst[t]) /\ \A v \in dst[t] : ref[v] = "weak" /\ wref[v] = Null
      BY <1>0, <1>5 DEF Fits, Holding
    <3>6. Fits(t)' /\ Relies(t)'
      BY <2>1, <2>3, <3>2, <3>3, <3>4, <3>5 DEF Fits, Relies, Steady, slotVars, One, FormOps
    <3>7. Placed(t)' /\ Alone(t)'
      BY <3>4 DEF Placed, Alone, AtWord, FormOps, EntryOps, WeakDec
    <3> QED
      BY <1>1, <1>5, <2>1, <3>3, <3>4, <3>6, <3>7 DEF Local, WeakDec
  <2> QED
    BY <2>2, <2>3
<1>6. CASE op[t] = "weakTakeAssign"
  <2>1. PICK s \in src[t], d \in dst[t] : Move(t, s, d) /\ Leave(t)
    BY <1>6 DEF AfterDecrementWeak
  <2>2. /\ s \in Slot /\ d \in Slot /\ s # d /\ owner[s] = t /\ owner[d] = t
        /\ ref[s] = "weak" /\ ref[d] = "weak" /\ wref[d] = Null
    BY <1>0, <1>6, <2>1 DEF Fits, Holding
  <2>3. /\ \A u \in Thread \ {t} : SameThread(u)
        /\ pc'[t] = "idle" /\ op'[t] = "none" /\ src'[t] = {} /\ dst'[t] = {} /\ Local(t)'
    BY <2>1, LeaveFrame, LeaveLocal
  <2>4. /\ \A v \in Slot \ {s, d} : owner'[v] = owner[v] /\ ref'[v] = ref[v] /\ wref'[v] = wref[v]
        /\ owner'[s] = Null /\ ref'[s] = "empty" /\ wref'[s] = Null
        /\ owner'[d] = t /\ ref'[d] = "weak" /\ wref'[d] = wref[s]
    BY <2>1, <2>2 DEF Move, TypeOK, SlotType
  <2>5. Frame(t)
    BY <2>2, <2>3, <2>4 DEF Frame, SameSlot
  <2>6. Slots'
    <3>1. \A v \in Slot : owner'[v] = Null => ref'[v] = "empty"
      BY <1>0, <2>4 DEF Slots
    <3>2. \A v \in Slot : wref'[v] # Null => ref'[v] = "weak" /\ wref'[v] = Home'
      BY <1>0, <2>2, <2>4 DEF Slots
    <3> QED
      BY <2>3, <2>5, <3>1, <3>2, SlotsKept
  <2>7. Cardinality(WeakSlots)' = Cardinality(WeakSlots)
    BY <2>1, <2>2, MoveCount
  <2>8. \A v \in Slot : ref[v] \in {"strong", "pinned", "unowned"}
                        \/ ref'[v] \in {"strong", "pinned", "unowned"} =>
                          ref'[v] = ref[v] /\ owner'[v] = owner[v]
    BY <2>2, <2>4
  <2> QED
    BY <1>6, <2>3, <2>5, <2>6, <2>7, <2>8 DEF WeakDec
<1> QED
  BY <1>2, <1>3, <1>4, <1>5, <1>6 DEF WeakDec

\* A weak count is given up; the thread that gives up the last one deletes
\* the entry.
LEMMA DecrementWeakKept ==
  ASSUME TypeOK, TypeOK', IInv, NEW t \in Thread, \A u \in Thread \ {t} : ~Exclusive(u),
         DecrementWeak(t)
  PROVE  IInv'
<1> DEFINE w == [old[t] EXCEPT !.weak = @ - 1]
<1>0. Commit(t, WeakDec, w) /\ UNCHANGED <<alloc, deinitBy, abort>>
  BY DEF DecrementWeak
<1>1. /\ old[t] \in Word
      /\ w.side = old[t].side /\ w.strong = old[t].strong /\ w.unowned = old[t].unowned
      /\ w.weak = old[t].weak - 1 /\ w.deiniting = old[t].deiniting /\ w.pinned = old[t].pinned
  BY DEF TypeOK, ThreadType, Word
<1> HIDE DEF w
<1>2. w.side = Null
  BY <1>0, <1>1 DEF Commit, Attempts
<1>3. /\ loc[t] = Home /\ old[t] = Bits /\ mem' = [mem EXCEPT ![Home] = w]
      /\ Home' = Home /\ Bits' = w /\ pc[t] \in AtWord /\ op[t] \in WeakDec
  BY <1>0, <1>2, CommitAtHome
<1>4. Home # Inline /\ Placed(t) /\ Fits(t) /\ Relies(t) /\ Slots /\ old[t].side = Null
  BY <1>1, <1>2, <1>3 DEF IInv, Local, Placed, EntryOps, WeakDec
<1>5. t \in WeakCarriers /\ Bits.weak > 0 /\ Bits.weak \in Nat /\ alloc[Home] = "live"
  <2>1. t \in WeakCarriers
    BY <1>3 DEF WeakCarriers
  <2> QED
    BY <1>4, <2>1, HeldMemory
<1>6. /\ Bits'.strong = Bits.strong /\ Bits'.unowned = Bits.unowned
      /\ Bits'.deiniting = Bits.deiniting /\ Bits'.pinned = Bits.pinned
      /\ Bits'.weak = Bits.weak - 1
  BY <1>1, <1>3
<1>7. \A u \in Thread : pc[u] # "delete"
  BY <1>5 DEF IInv, FreeEntry
<1>8. /\ Frame(t) /\ Slots' /\ Local(t)'
      /\ Cardinality(WeakSlots)' = Cardinality(WeakSlots)
      /\ ~(op'[t] \in WeakDec /\ pc'[t] \in AtWord)
      /\ pc'[t] \notin {"install", "aborted"} /\ (pc'[t] = "delete" <=> Bits.weak = 1)
      /\ op'[t] # "dealloc" /\ (op'[t] = "unownedFree" <=> op[t] = "unownedFree")
      /\ \A v \in Slot : ref[v] \in {"strong", "pinned", "unowned"}
                         \/ ref'[v] \in {"strong", "pinned", "unowned"} =>
                           ref'[v] = ref[v] /\ owner'[v] = owner[v]
  <2>1. CASE LastWeak(t)
    <3>0. Bits.weak = 1
      BY <1>3, <2>1 DEF LastWeak
    <3>1. /\ pc' = [pc EXCEPT ![t] = "delete"]
          /\ UNCHANGED <<op, loc, old, src, dst, slotVars>>
      BY <2>1 DEF DecrementWeak
    <3>2. /\ pc'[t] = "delete" /\ op'[t] = op[t] /\ loc'[t] = Home /\ old'[t] = old[t]
          /\ src'[t] = src[t] /\ dst'[t] = dst[t] /\ op[t] # "dealloc"
          /\ \A u \in Thread \ {t} : SameThread(u)
          /\ ref' = ref /\ owner' = owner /\ wref' = wref
      BY <1>3, <3>1 DEF SameThread, slotVars, TypeOK, ThreadType, WeakDec
    <3>3. Frame(t)
      BY <3>2 DEF Frame, SameSlot
    <3>4. Slots'
      BY <1>3, <1>4, <3>2, <3>3, SlotsKept DEF Slots
    <3>5. WeakSlots' = WeakSlots
      BY <3>2 DEF WeakSlots
    <3>6. Fits(t)'
      BY <1>4, <3>2, FitsKept
    <3>7. Placed(t)' /\ Alone(t)'
      BY <1>3, <1>4, <3>2 DEF Placed, Alone, AtWord, FormOps, EntryOps, WeakDec
    <3>8. Relies(t)'
      <4>1. ~Steady(t)'
        BY <1>3, <3>2 DEF Steady, WeakDec
      <4> QED
        BY <1>0, <1>4, <3>2, <4>1, ReliesKept DEF SameSlot
    <3>9. Local(t)' /\ pc'[t] \notin AtWord
      BY <3>2, <3>6, <3>7, <3>8 DEF Local, AtWord
    <3> QED
      BY <3>0, <3>2, <3>3, <3>4, <3>5, <3>9
  <2>2. CASE ~LastWeak(t)
    <3>0. Bits.weak # 1
      BY <1>3, <2>2 DEF LastWeak
    <3>1. AfterDecrementWeak(t)
      BY <2>2 DEF DecrementWeak
    <3> QED
      BY <1>0, <1>3, <1>4, <3>0, <3>1, AfterDecrement
  <2> QED
    BY <2>1, <2>2
<1>9. \A u \in Thread \ {t} : SameThread(u)
  BY <1>8 DEF Frame
<1>10. Cardinality(WeakCarriers)' = Cardinality(WeakCarriers) - 1 + 0
  BY <1>3, <1>8, <1>9, CarrierCount
<1>11. /\ Cardinality(WeakSlots) \in Nat /\ Cardinality(WeakCarriers) \in Nat
       /\ Cardinality(WeakCarriers)' \in Nat /\ Cardinality(WeakSlots)' \in Nat
  <2>1. WeakCarriers' \in SUBSET Thread
    BY DEF WeakCarriers
  <2>2. Cardinality(WeakCarriers') \in Nat
    BY <2>1, FS_Subset, SetsAssumption, FS_CardinalityType
  <2> QED
    BY <1>8, <2>2, FiniteHolders
<1>12. /\ Bits'.weak - Cardinality(WeakSlots)' - Cardinality(WeakCarriers)' =
            Bits.weak - Cardinality(WeakSlots) - Cardinality(WeakCarriers)
       /\ Bits'.weak \in Int
  BY <1>5, <1>6, <1>8, <1>10, <1>11
<1>13. \A u \in Thread : pc'[u] = "delete" <=> u = t /\ Bits.weak = 1
  BY <1>7, <1>8, <1>9 DEF SameThread
<1>14. FreeEntry' /\ EntryAllocated'
  BY <1>0, <1>3, <1>5, <1>6, <1>13 DEF FreeEntry, EntryAllocated, EntryHeld
<1>15. Entries'
  <2>1. \A e \in Entry : mem'[e].side = Null
    BY <1>2, <1>3, CommitMemory
  <2>2. \A u \in Thread :
          /\ pc'[u] = "aborted" => pc[u] = "aborted"
          /\ pc'[u] = "install" => pc[u] = "install" /\ loc'[u] = loc[u]
          /\ pc[u] \in {"install", "aborted"} => pc'[u] = pc[u] /\ loc'[u] = loc[u]
    BY <1>3, <1>8, <1>9 DEF SameThread, AtWord
  <2> QED
    BY <1>0, <1>3, <2>1, <2>2, EntriesKept
<1>16. /\ alloc'[Inline] = alloc[Inline] /\ deinitBy' = deinitBy
       /\ \A u \in Thread \ {t} : pc[u] = "install" => alloc'[loc[u]] = alloc[loc[u]]
       /\ op'[t] = "dealloc" <=> op[t] = "dealloc"
       /\ op'[t] = "dealloc" /\ pc'[t] = "free" => pc[t] = "free"
  BY <1>0, <1>3, <1>8 DEF WeakDec
<1> QED
  BY <1>3, <1>6, <1>8, <1>11, <1>12, <1>14, <1>15, <1>16, WeakKept

\* The entry's memory is given back.
LEMMA DeleteEntryKept ==
  ASSUME TypeOK, TypeOK', IInv, NEW t \in Thread, \A u \in Thread \ {t} : ~Exclusive(u),
         DeleteEntry(t)
  PROVE  IInv'
<1>0. /\ pc[t] = "delete" /\ alloc' = [alloc EXCEPT ![loc[t]] = "freed"]
      /\ AfterDecrementWeak(t) /\ UNCHANGED <<mem, deinitBy, abort>>
  BY DEF DeleteEntry, Discard
<1>1. /\ op[t] \in WeakDec /\ loc[t] = Home /\ Home # Inline
      /\ Bits.weak = 0 /\ \A u \in Thread : pc[u] = "delete" => u = t
  BY <1>0 DEF IInv, Local, Placed, FreeEntry, WeakDec, EntryOps
<1>2. Home' = Home /\ Bits' = Bits /\ Home \in Entry /\ Inline \in Loc /\ Entry \subseteq Loc
  BY <1>0, <1>1, HomeType DEF Home, Bits, IInv
<1>3. alloc'[Home] = "freed" /\ \A l \in Loc \ {Home} : alloc'[l] = alloc[l]
  BY <1>0, <1>1, <1>2 DEF TypeOK, MemoryType
<1>4. WeakSlots = {} /\ WeakCarriers = {} /\ ~(Bits.unowned > 0)
  BY <1>1, HeldMemory
<1>5. /\ Frame(t) /\ Slots' /\ Local(t)'
      /\ Cardinality(WeakSlots)' = Cardinality(WeakSlots)
      /\ ~(op'[t] \in WeakDec /\ pc'[t] \in AtWord)
      /\ pc'[t] \notin {"delete", "install", "aborted"}
      /\ op'[t] # "dealloc" /\ (op'[t] = "unownedFree" <=> op[t] = "unownedFree")
      /\ \A v \in Slot : ref[v] \in {"strong", "pinned", "unowned"}
                         \/ ref'[v] \in {"strong", "pinned", "unowned"} =>
                           ref'[v] = ref[v] /\ owner'[v] = owner[v]
  BY <1>0, <1>1, <1>2, AfterDecrement
<1>6. \A u \in Thread \ {t} : SameThread(u)
  BY <1>5 DEF Frame
<1>7. WeakCarriers' = WeakCarriers
  BY <1>4, <1>5, <1>6, CarriersOfOthers
<1>8. \A u \in Thread : pc'[u] # "delete"
  BY <1>1, <1>5, <1>6 DEF SameThread
<1>9. FreeEntry' /\ EntryAllocated'
  <2>1. ~EntryHeld'
    BY <1>1, <1>2, <1>8 DEF EntryHeld
  <2> QED
    BY <1>2, <1>3, <1>8, <2>1 DEF FreeEntry, EntryAllocated
<1>10. Entries'
  <2>1. \A e \in Entry : mem'[e].side = Null /\ (alloc'[e] = "live" => alloc[e] = "live")
    BY <1>0, <1>2, <1>3 DEF IInv, Entries
  <2>2. \A u \in Thread :
          /\ pc'[u] = "aborted" => pc[u] = "aborted"
          /\ pc'[u] = "install" => pc[u] = "install" /\ loc'[u] = loc[u]
          /\ pc[u] \in {"install", "aborted"} => pc'[u] = pc[u] /\ loc'[u] = loc[u]
    BY <1>0, <1>5, <1>6 DEF SameThread
  <2> QED
    BY <1>0, <1>2, <2>1, <2>2, EntriesKept
<1>11. /\ alloc'[Inline] = alloc[Inline] /\ deinitBy' = deinitBy
       /\ \A u \in Thread \ {t} : pc[u] = "install" => alloc'[loc[u]] = alloc[loc[u]]
       /\ op'[t] = "dealloc" <=> op[t] = "dealloc"
       /\ op'[t] = "dealloc" /\ pc'[t] = "free" => pc[t] = "free"
  <2>1. alloc'[Inline] = alloc[Inline] /\ deinitBy' = deinitBy
    BY <1>0, <1>1, <1>2, <1>3
  <2>2. \A u \in Thread \ {t} : pc[u] = "install" => loc[u] \in Loc \ {Home}
    BY <1>2 DEF IInv, Local, Placed
  <2> QED
    BY <1>1, <1>3, <1>5, <2>1, <2>2 DEF WeakDec
<1>12. /\ Bits'.weak \in Int /\ Cardinality(WeakSlots)' \in Nat
       /\ Cardinality(WeakCarriers)' \in Nat
       /\ Bits'.weak - Cardinality(WeakSlots)' - Cardinality(WeakCarriers)' =
            Bits.weak - Cardinality(WeakSlots) - Cardinality(WeakCarriers)
  <2>1. Bits.weak \in Int
    BY <1>1
  <2> QED
    BY <1>2, <1>5, <1>7, <2>1, FiniteHolders
<1> QED
  BY <1>2, <1>5, <1>9, <1>10, <1>11, <1>12, WeakKept

-----------------------------------------------------------------------------
(* The inductive invariant.                                                *)

\* Every step inside the runtime keeps the invariant.
LEMMA StepKept ==
  ASSUME TypeOK, TypeOK', IInv, NEW t \in Thread, \A u \in Thread \ {t} : ~Exclusive(u),
         Step(t)
  PROVE  IInv'
<1>1. CASE Load(t) \/ Retry(t) \/ ForwardToSideTable(t) \/ Refuse(t) \/ Query(t) \/ Overflow(t)
  BY <1>1, LoadKept, ForwardKept, RefuseKept, QueryKept, OverflowKept
<1>2. CASE IncrementStrong(t) \/ RetainStrongAndRelease(t) \/ DecrementStrong(t)
  BY <1>2, IncrementStrongKept, RetainStrongAndReleaseKept, DecrementStrongKept
<1>3. CASE IncrementUnowned(t) \/ DecrementUnowned(t) \/ swift_slowDealloc(t)
  BY <1>3, IncrementUnownedKept, DecrementUnownedKept, SlowDeallocKept
<1>4. CASE Preflight(t) \/ Install(t) \/ CheckDeiniting(t)
  BY <1>4, PreflightKept, InstallKept, CheckKept
<1>5. CASE IncrementWeak(t) \/ DecrementWeak(t) \/ DeleteEntry(t)
  BY <1>5, IncrementWeakKept, DecrementWeakKept, DeleteEntryKept
<1> QED
  BY <1>1, <1>2, <1>3, <1>4, <1>5 DEF Step

\* A program that is over keeps the invariant.
LEMMA StutterKept ==
  ASSUME IInv, UNCHANGED vars
  PROVE  IInv'
<1>1. /\ UNCHANGED <<mem, alloc, pc, op, loc, old, src, dst, ref, owner, wref, deinitBy, abort>>
  BY DEF vars, threadVars, slotVars
<1>2. /\ Home' = Home /\ Bits' = Bits /\ Strong' = Strong /\ Unowned' = Unowned
      /\ StrongShare' = StrongShare /\ WeakSlots' = WeakSlots /\ WeakCarriers' = WeakCarriers
      /\ Pinned' = Pinned
  BY <1>1 DEF Home, Bits, Strong, Unowned, StrongShare, WeakSlots, WeakCarriers, Pinned
<1>3. /\ \A t \in Thread : Fits(t)' /\ Placed(t)'
  BY <1>1, <1>2 DEF IInv, Local, Fits, Placed, Holding, One
<1>4. /\ \A t \in Thread : Relies(t)' /\ Alone(t)'
  BY <1>1, <1>2 DEF IInv, Local, Relies, Alone, Steady, HoldsStrong, HoldsObject, Owns, Exclusive
<1>5. Slots' /\ StrongExact' /\ UnownedExact' /\ WeakExact' /\ PinExact' /\ Deinit'
  BY <1>1, <1>2 DEF IInv, Slots, StrongExact, UnownedExact, WeakExact, PinExact, Deinit
<1>6. FreeObject' /\ FreeEntry' /\ ObjectAllocated' /\ EntryAllocated' /\ Entries'
  BY <1>1, <1>2 DEF IInv, FreeObject, FreeEntry, ObjectAllocated, EntryAllocated, Entries,
       Freeing, ObjectHeld, EntryHeld
<1> QED
  BY <1>3, <1>4, <1>5, <1>6 DEF IInv, Local

\* A new object, held by one variable, satisfies the invariant.
LEMMA InitIInv ==
  ASSUME Init
  PROVE  IInv
<1>1. PICK t \in Thread, v \in Slot :
        /\ mem = [l \in Loc |-> RefCountBits(0, IF l = Inline THEN 1 ELSE 0)]
        /\ alloc = [l \in Loc |-> IF l = Inline THEN "live" ELSE "none"]
        /\ pc = [u \in Thread |-> "idle"]
        /\ op = [u \in Thread |-> "none"]
        /\ loc = [u \in Thread |-> Inline]
        /\ old = [u \in Thread |-> RefCountBits(0, 0)]
        /\ src = [u \in Thread |-> {}]
        /\ dst = [u \in Thread |-> {}]
        /\ ref = [w \in Slot |-> IF w = v THEN "strong" ELSE "empty"]
        /\ owner = [w \in Slot |-> IF w = v THEN t ELSE Null]
        /\ wref = [w \in Slot |-> Null]
        /\ deinitBy = Null
        /\ abort = "none"
  BY DEF Init
<1>2. Inline \in Loc /\ Entry \subseteq Loc /\ Inline \notin Entry /\ t # Null
  BY SetsAssumption DEF Loc
<1>3. mem[Inline] = RefCountBits(0, 1) /\ Home = Inline /\ Bits = RefCountBits(0, 1)
  BY <1>1, <1>2 DEF Home, Bits, RefCountBits
<1>4. /\ Bits.strong = 0 /\ Bits.unowned = 1 /\ ~Bits.deiniting /\ ~Bits.pinned
      /\ \A e \in Entry : mem[e].side = Null
  BY <1>1, <1>2, <1>3 DEF RefCountBits
<1>5. Strong = {v} /\ Unowned = {} /\ Pinned = {} /\ StrongShare
  BY <1>1, <1>4 DEF Strong, Unowned, Pinned, StrongShare
<1>6. Cardinality(Strong) = 1 /\ Cardinality(Unowned) = 0
  BY <1>5, FS_Singleton, FS_EmptySet
<1>7. Slots
  <2>1. \A u \in Thread : src[u] = {} /\ dst[u] = {}
    BY <1>1
  <2>2. \A w \in Slot : wref[w] = Null
    BY <1>1
  <2>3. \A w \in Slot : owner[w] = Null => ref[w] = "empty"
    <3> TAKE w \in Slot
    <3>1. owner[w] = IF w = v THEN t ELSE Null
      BY <1>1
    <3>2. ref[w] = IF w = v THEN "strong" ELSE "empty"
      BY <1>1
    <3> QED
      BY <3>1, <3>2, <1>2
  <2> QED
    BY <2>1, <2>2, <2>3 DEF Slots
<1>8. \A u \in Thread : Local(u)
  BY <1>1 DEF Local, Fits, Placed, Relies, Alone, Steady, AtWord, FormOps, EntryOps, WeakDec,
       RefCountBits
<1>9. StrongExact /\ UnownedExact /\ WeakExact /\ PinExact /\ Deinit
  BY <1>1, <1>3, <1>4, <1>5, <1>6 DEF StrongExact, UnownedExact, WeakExact, PinExact, Deinit
<1>10. FreeObject /\ FreeEntry /\ ObjectAllocated /\ EntryAllocated /\ Entries
  BY <1>1, <1>2, <1>3, <1>4, <1>5 DEF FreeObject, FreeEntry, ObjectAllocated, EntryAllocated,
       Entries, Freeing, ObjectHeld
<1> QED
  BY <1>7, <1>8, <1>9, <1>10 DEF IInv

\* The invariant is inductive.
LEMMA NextKept ==
  ASSUME TypeOK, TypeOK', IInv, Disciplined, [Next]_vars
  PROVE  IInv'
<1>1. ASSUME NEW t \in Thread, EntryPoint(t)
      PROVE  IInv'
  <2>1. \A u \in Thread \ {t} : ~Exclusive(u)
    BY <1>1, ActorIsPresent
  <2> QED
    BY <1>1, <2>1, EntryPointKept
<1>2. ASSUME NEW t \in Thread, Step(t)
      PROVE  IInv'
  <2>1. \A u \in Thread \ {t} : ~Exclusive(u)
    BY <1>2, ActorIsPresent
  <2> QED
    BY <1>2, <2>1, StepKept
<1>3. ASSUME NEW t \in Thread, swift_deallocObject(t)
      PROVE  IInv'
  <2>1. \A u \in Thread \ {t} : ~Exclusive(u)
    BY <1>3, ActorIsPresent
  <2> QED
    BY <1>3, <2>1, DeallocObjectKept
<1>4. ASSUME NEW t \in Thread, NEW u \in Thread, Transfer(t, u)
      PROVE  IInv'
  <2>1. \A w \in Thread \ {t} : ~Exclusive(w)
    BY <1>4, ActorIsPresent
  <2> QED
    BY <1>4, <2>1, TransferKept
<1>5. CASE UNCHANGED vars
  BY <1>5, StutterKept
<1> QED
  BY <1>1, <1>2, <1>3, <1>4, <1>5 DEF Next, Terminated

\* The invariant holds in every reachable state of a disciplined program.
LEMMA Invariance ==
  ASSUME Disciplined
  PROVE  Spec => [](TypeOK /\ WeakOpsAtEntry /\ IInv)
<1>1. Init => TypeOK /\ WeakOpsAtEntry /\ IInv
  <2>1. Init => \A t \in Thread : pc[t] = "idle"
    BY DEF Init
  <2>2. Init => WeakOpsAtEntry
    BY <2>1 DEF WeakOpsAtEntry, AtWord, AtEntry
  <2> QED
    BY <2>2, InitTypeOK, InitIInv
<1>2. TypeOK /\ WeakOpsAtEntry /\ IInv /\ [Next]_vars => (TypeOK /\ WeakOpsAtEntry /\ IInv)'
  BY NextType, NextKept
<1> QED
  BY <1>1, <1>2, PTL DEF Spec

-----------------------------------------------------------------------------
(* What follows.                                                           *)

\* For every number of threads, references and side table entries, and counts
\* of every width: the strong, unowned and weak counts in the word of a
\* disciplined program are at all times the numbers of references that exist,
\* whatever compare-exchanges of RefCount.h interleave, also while the counts
\* move from the header to a side table entry.
THEOREM CountsAreExact ==
  ASSUME TakeWhileHeld, NonAtomicRule # "soleStrong"
  PROVE  Spec => []CountsExact
<1>1. IInv => CountsExact
  BY DEF IInv, StrongExact, UnownedExact, WeakExact, CountsExact
<1>2. Disciplined
  BY DEF Disciplined
<1>3. Spec => [](TypeOK /\ WeakOpsAtEntry /\ IInv)
  BY <1>2, Invariance
<1> QED
  BY <1>1, <1>3, PTL

\* Whoever is about to access a word holds a share in what contains it.
LEMMA SafeNow ==
  ASSUME TypeOK, IInv
  PROVE  MemorySafe
<1>1. ASSUME NEW t \in Thread
      PROVE  /\ pc[t] \notin {"idle", "aborted"} => alloc[loc[t]] = "live"
             /\ pc[t] \in {"preflight", "install", "free"} => alloc[Inline] = "live"
             /\ pc[t] # "aborted" /\ old[t].side # Null => alloc[old[t].side] = "live"
  BY OperationMemory
<1>2. Strong # {} \/ Unowned # {} \/ deinitBy # Null => alloc[Inline] = "live"
  <2>1. Strong # {} => StrongShare
    BY StrongHasShare DEF IInv
  <2>2. deinitBy # Null => StrongShare
    BY DEF StrongShare
  <2> QED
    BY <2>1, <2>2, HeldMemory
<1>3. ASSUME NEW v \in Slot, wref[v] # Null
      PROVE  alloc[wref[v]] = "live"
  <2>1. wref[v] = Home /\ v \in WeakSlots
    BY <1>3 DEF IInv, Slots, WeakSlots
  <2>2. wref[v] \in Entry /\ Inline \notin Entry
    BY <1>3, SetsAssumption DEF TypeOK, SlotType
  <2>3. Home # Inline /\ WeakSlots # {}
    BY <2>1, <2>2
  <2> QED
    BY <2>1, <2>3, HeldMemory
<1> QED
  BY <1>1, <1>2, <1>3 DEF MemorySafe

\* For every number of threads and references: no thread of a disciplined
\* program reads or writes the header of an object, or a side table entry,
\* that was freed or not yet allocated, and nothing is freed twice.  This is
\* about every access of RefCounts in RefCount.h between its load and its
\* compare-exchange, where other threads can drop all other references.
THEOREM MemoryIsSafe ==
  ASSUME TakeWhileHeld, NonAtomicRule # "soleStrong"
  PROVE  Spec => []MemorySafe
<1>1. TypeOK /\ IInv => MemorySafe
  BY SafeNow
<1>2. Disciplined
  BY DEF Disciplined
<1>3. Spec => [](TypeOK /\ WeakOpsAtEntry /\ IInv)
  BY <1>2, Invariance
<1> QED
  BY <1>1, <1>3, PTL

\* The stores of the swift_nonatomic_ functions, which RefCount.h makes
\* without comparing, never overwrite a word that changed after it was read,
\* if the program calls them while one thread alone knows the object.
THEOREM NonAtomicStoresAreSafe ==
  ASSUME TakeWhileHeld, NonAtomicRule # "soleStrong"
  PROVE  Spec => []NonAtomicStoreIsSafe
<1>1. IInv => NonAtomicStoreIsSafe
  BY DEF IInv, Local, Alone, NonAtomicStoreIsSafe
<1>2. Disciplined
  BY DEF Disciplined
<1>3. Spec => [](TypeOK /\ WeakOpsAtEntry /\ IInv)
  BY <1>2, Invariance
<1> QED
  BY <1>1, <1>3, PTL

\* Each assert and each precondition in RefCount.h follows from what its
\* operation relies on.
LEMMA AssertionsNow ==
  ASSUME TypeOK, IInv
  PROVE  AssertionsHold
<1> SUFFICES ASSUME NEW t \in Thread
             PROVE  LET word == mem[loc[t]]
                    IN /\ Decides(t) /\ old[t] = word /\ word.side = Null =>
                            /\ op[t] = "unownedRetain" => word.unowned # 0
                            /\ op[t] \in {"weakInit", "weakAssign", "weakCopy"} \cup WeakDec =>
                                 word.weak # 0
                            /\ op[t] \in UnownedDec => word.unowned >= Dec(t)
                            /\ op[t] \in UnownedDec /\ word.unowned = Dec(t) =>
                                 word.deiniting /\ op[t] # "unownedDrop"
                            /\ op[t] \in StrongDec =>
                                 word.strong + (IF word.deiniting THEN 0 ELSE 1) >= Dec(t)
                            /\ op[t] = "unpin" => word.pinned
                            /\ op[t] = "fromOne" => ~word.deiniting /\ word.strong = 0
                            /\ op[t] = "isUnique" => ~word.deiniting
                       /\ pc[t] = "delete" => word.unowned = 0
  BY DEF AssertionsHold
<1>1. /\ Fits(t) /\ Placed(t) /\ Relies(t) /\ Alone(t) /\ Slots /\ StrongExact /\ UnownedExact
      /\ WeakExact /\ PinExact /\ Deinit /\ FreeEntry /\ Entries
  BY DEF IInv, Local
<1>2. Bits \in Word /\ Bits.side = Null /\ (Home = Inline <=> mem[Inline].side = Null)
  BY <1>1, HomeType
<1>3. Bits.strong \in Nat /\ Bits.unowned \in Int /\ Bits.weak \in Int
      /\ Bits.deiniting \in BOOLEAN /\ Bits.pinned \in BOOLEAN
  BY <1>2, WordFields
<1>4. ASSUME pc[t] = "delete"
      PROVE  mem[loc[t]].unowned = 0
  <2>1. loc[t] = Home /\ Home # Inline /\ Bits.weak = 0
    BY <1>1, <1>4 DEF Placed, EntryOps, WeakDec, FreeEntry
  <2>2. Bits.unowned \in Nat /\ ~(Bits.unowned > 0)
    BY <2>1, HeldMemory
  <2> QED
    BY <2>1, <2>2 DEF Bits
<1>5. ASSUME Decides(t), old[t] = mem[loc[t]], mem[loc[t]].side = Null
      PROVE  /\ op[t] = "unownedRetain" => Bits.unowned # 0
             /\ op[t] \in {"weakInit", "weakAssign", "weakCopy"} \cup WeakDec => Bits.weak # 0
             /\ op[t] \in UnownedDec => Bits.unowned >= Dec(t)
             /\ op[t] \in UnownedDec /\ Bits.unowned = Dec(t) =>
                  Bits.deiniting /\ op[t] # "unownedDrop"
             /\ op[t] \in StrongDec =>
                  Bits.strong + (IF Bits.deiniting THEN 0 ELSE 1) >= Dec(t)
             /\ op[t] = "unpin" => Bits.pinned
             /\ op[t] = "fromOne" => ~Bits.deiniting /\ Bits.strong = 0
             /\ op[t] = "isUnique" => ~Bits.deiniting
             /\ mem[loc[t]] = Bits
  <2>0. pc[t] \in AtWord /\ pc[t] \in {"cas", "store"}
    BY <1>5 DEF Decides, AtWord
  <2>1. mem[loc[t]] = Bits
    <3>1. loc[t] \in {Inline, Home}
      BY <2>0, <1>1 DEF Placed
    <3> QED
      BY <3>1, <1>5 DEF Home, Bits
  <2>2. op[t] = "unownedRetain" => Bits.unowned # 0
    <3> HAVE op[t] = "unownedRetain"
    <3>1. op[t] \notin EntryOps \cup {"none", "unownedFree"}
      BY DEF EntryOps
    <3>2. Bits.unowned > 0
      BY <3>1, OperationHolds, HeldMemory
    <3> QED
      BY <3>2, <1>3
  <2>3. op[t] \in WeakDec => Bits.weak # 0
    <3> HAVE op[t] \in WeakDec
    <3>1. t \in WeakCarriers
      BY <2>0 DEF WeakCarriers
    <3>2. Home # Inline
      BY <1>1, <2>0 DEF Placed, EntryOps, WeakDec
    <3>3. Bits.weak > 0
      BY <3>1, <3>2, HeldMemory
    <3> QED
      BY <3>3, <1>3
  <2>4. op[t] \in {"weakInit", "weakAssign", "weakCopy"} => Bits.weak # 0
    <3> HAVE op[t] \in {"weakInit", "weakAssign", "weakCopy"}
    <3>1. Home # Inline
      BY <1>1, <2>0 DEF Placed, EntryOps, FormOps
    <3>2. CASE op[t] = "weakCopy"
      <4>1. WeakSlots # {}
        BY <1>1, <3>2 DEF Relies, WeakSlots
      <4>2. Bits.weak > 0
        BY <4>1, <3>1, HeldMemory
      <4> QED
        BY <4>2, <1>3
    <3>3. CASE op[t] # "weakCopy"
      <4>1. op[t] \notin EntryOps \cup {"none", "unownedFree"}
        BY <3>3 DEF EntryOps
      <4>2. Bits.unowned > 0
        BY <4>1, OperationHolds, HeldMemory
      <4>3. Bits.weak > 0
        BY <4>2, <3>1, HeldMemory
      <4> QED
        BY <4>3, <1>3
    <3> QED
      BY <3>2, <3>3
  <2>5. op[t] \in UnownedDec => Bits.unowned >= Dec(t)
    BY <2>0, UnownedShare
  <2>6. op[t] \in UnownedDec /\ Bits.unowned = Dec(t) => Bits.deiniting /\ op[t] # "unownedDrop"
    <3> SUFFICES ASSUME op[t] \in UnownedDec, Bits.unowned = Dec(t)
                 PROVE  Bits.deiniting /\ op[t] # "unownedDrop"
      OBVIOUS
    <3>1. CASE op[t] = "dealloc"
      BY <3>1, <2>0, UnownedShare
    <3>2. CASE op[t] # "dealloc"
      <4>1. /\ alloc[Inline] = "live" /\ src[t] \subseteq Unowned /\ Dec(t) = Cardinality(src[t])
            /\ op[t] = "unownedDrop" => StrongShare
        BY <3>2, <2>0, UnownedShare
      <4>2. Cardinality(src[t]) <= Cardinality(Unowned) /\ Cardinality(src[t]) \in Nat
            /\ Cardinality(Unowned) \in Nat
        BY <4>1, FiniteHolders, FiniteShares, FS_Subset
      <4>3. Bits.unowned = Cardinality(Unowned) + (IF StrongShare THEN 1 ELSE 0)
        BY <4>1, <1>1 DEF UnownedExact
      <4>4. ~StrongShare
        BY <4>1, <4>2, <4>3
      <4> QED
        BY <4>1, <4>4 DEF StrongShare
    <3> QED
      BY <3>1, <3>2
  <2>7. op[t] \in StrongDec => Bits.strong + (IF Bits.deiniting THEN 0 ELSE 1) >= Dec(t)
    <3> HAVE op[t] \in StrongDec
    <3>1. src[t] \subseteq Strong /\ Dec(t) = Cardinality(src[t])
      <4>1. op[t] \in {"release", "fromOne", "unpin"} /\ op[t] # "dealloc"
        BY DEF StrongDec
      <4>2. \A v \in src[t] : ref[v] \in {"strong", "pinned"}
        BY <4>1, <1>1 DEF Fits, Holding
      <4>3. src[t] \subseteq Slot
        BY DEF TypeOK, ThreadType
      <4> QED
        BY <4>1, <4>2, <4>3 DEF Strong, Dec
    <3>2. Cardinality(src[t]) <= Cardinality(Strong) /\ Cardinality(src[t]) \in Nat
          /\ Cardinality(Strong) \in Nat
      BY <3>1, FiniteHolders, FiniteShares, FS_Subset
    <3> QED
      BY <3>1, <3>2, <1>1 DEF StrongExact
  <2>8. op[t] = "unpin" => Bits.pinned
    <3> HAVE op[t] = "unpin"
    <3>1. PICK v \in Slot : src[t] = {v}
      BY <1>1 DEF Fits, One
    <3>2. ref[v] = "pinned"
      BY <3>1, <1>1 DEF Fits, Holding
    <3> QED
      BY <3>2, <1>1 DEF PinExact, Pinned
  <2>9. op[t] = "fromOne" => ~Bits.deiniting /\ Bits.strong = 0
    <3> HAVE op[t] = "fromOne"
    <3>1. deinitBy = Null /\ Strong = src[t] /\ src[t] # {}
      BY <1>1 DEF Alone, Fits
    <3>2. PICK v \in Slot : v \in src[t]
      BY <3>1 DEF Strong
    <3>3. owner[v] = t /\ t # Null
      BY <3>2, <1>1, SetsAssumption DEF Slots
    <3>4. ~Bits.deiniting
      BY <3>1, <3>2, <3>3, <1>1 DEF Deinit
    <3>5. Cardinality(Strong) = 1
      BY <3>1, <1>1, FiniteShares DEF Fits
    <3> QED
      BY <3>4, <3>5, <1>1, <1>3 DEF StrongExact
  <2>10. op[t] = "isUnique" => ~Bits.deiniting
    <3> HAVE op[t] = "isUnique"
    <3>1. PICK v \in Slot : owner[v] = t /\ ref[v] \in {"strong", "pinned"}
      BY <1>1 DEF Relies, Steady, Owns
    <3>2. deinitBy = Null /\ v \in Strong /\ t # Null
      BY <3>1, <1>1, SetsAssumption DEF Relies, Steady, Strong
    <3> QED
      BY <3>1, <3>2, <1>1 DEF Deinit
  <2> QED
    BY <2>1, <2>2, <2>3, <2>4, <2>5, <2>6, <2>7, <2>8, <2>9, <2>10
<1> QED
  BY <1>4, <1>5

\* No assertion of RefCount.h and HeapObject.cpp that the model has fails in
\* a disciplined program, whatever races there are: the decrements find what
\* they take away, and the object is deiniting where swift_deallocObject and
\* the unowned release assert that it is.
THEOREM AssertionsNeverFail ==
  ASSUME TakeWhileHeld, NonAtomicRule # "soleStrong"
  PROVE  Spec => []AssertionsHold
<1>1. TypeOK /\ IInv => AssertionsHold
  BY AssertionsNow
<1>2. Disciplined
  BY DEF Disciplined
<1>3. Spec => [](TypeOK /\ WeakOpsAtEntry /\ IInv)
  BY <1>2, Invariance
<1> QED
  BY <1>1, <1>3, PTL

\* What no variable refers to any more, and nobody is freeing, is freed.
LEMMA NoLeakNow ==
  ASSUME TypeOK, IInv
  PROVE  NoLeak
<1> SUFFICES ASSUME abort = "none", Idle, Unused = Slot, deinitBy = Null, NEW l \in Loc
             PROVE  alloc[l] # "live"
  BY DEF NoLeak
<1>1. \A t \in Thread : pc[t] = "idle" /\ op[t] = "none"
  BY DEF Idle, IInv, Local, Placed
<1>2. \A v \in Slot : ref[v] = "empty" /\ wref[v] = Null
  <2>1. \A v \in Slot : owner[v] = Null
    BY DEF Unused
  <2>2. \A v \in Slot : ref[v] = "empty"
    BY <2>1 DEF IInv, Slots
  <2> QED
    BY <2>2 DEF IInv, Slots
<1>3. Strong = {} /\ Unowned = {} /\ WeakSlots = {} /\ WeakCarriers = {}
  BY <1>1, <1>2 DEF Strong, Unowned, WeakSlots, WeakCarriers, WeakDec
<1>4. /\ Cardinality(Strong) = 0 /\ Cardinality(Unowned) = 0
      /\ Cardinality(WeakSlots) = 0 /\ Cardinality(WeakCarriers) = 0
  BY <1>3, FS_EmptySet
<1>5. /\ Bits.strong \in Nat /\ Bits.deiniting \in BOOLEAN /\ Bits.unowned \in Int
      /\ Bits.weak \in Int
  BY HomeType, WordFields DEF IInv
<1>6. Bits.deiniting
  BY <1>4, <1>5 DEF IInv, StrongExact
<1>7. ~StrongShare
  BY <1>1, <1>6 DEF StrongShare
<1>8. alloc[Inline] # "live"
  BY <1>1, <1>3, <1>7 DEF IInv, ObjectAllocated, ObjectHeld, Freeing
<1>9. ASSUME Home # Inline
      PROVE  alloc[Home] # "live"
  <2>1. Bits.unowned = 0
    BY <1>9, <1>4, <1>5, <1>7 DEF IInv, UnownedExact
  <2>2. Bits.weak = 0
    BY <1>9, <1>4, <1>5, <2>1 DEF IInv, WeakExact
  <2> QED
    BY <1>1, <1>9, <2>2 DEF IInv, EntryAllocated, EntryHeld
<1>10. ASSUME NEW e \in Entry, e # Home
       PROVE  alloc[e] # "live"
  BY <1>1, <1>10 DEF IInv, Entries
<1> QED
  BY <1>8, <1>9, <1>10 DEF Loc

\* When no reference is left and every thread is outside the runtime, the
\* object and all its side table entries are freed: also an entry that lost
\* the race of allocateSideTable, and an entry whose last weak count is given
\* back by another thread than the one that frees the object.
THEOREM NothingLeaks ==
  ASSUME TakeWhileHeld, NonAtomicRule # "soleStrong"
  PROVE  Spec => []NoLeak
<1>1. TypeOK /\ IInv => NoLeak
  BY NoLeakNow
<1>2. Disciplined
  BY DEF Disciplined
<1>3. Spec => [](TypeOK /\ WeakOpsAtEntry /\ IInv)
  BY <1>2, Invariance
<1> QED
  BY <1>1, <1>3, PTL

-----------------------------------------------------------------------------
(* Every step is a step of the life cycle.                                 *)

LifecycleVars == <<LifecycleState, Home # Inline, Strong, Unowned, WeakHolders>>

\* The thread holds a weak reference that it took from a variable.
Giving(t) == op[t] \in WeakDec \ {"unownedFree"} /\ pc[t] \in AtWord

\* The state of the life cycle depends on the header, the entry and deinit.
LEMMA SameState ==
  ASSUME alloc'[Inline] = alloc[Inline], Home' = Home, Bits'.deiniting = Bits.deiniting,
         Home # Inline => alloc'[Home] = alloc[Home], StrongShare' <=> StrongShare
  PROVE  LifecycleState' = LifecycleState
BY DEF LifecycleState

\* Who holds the strong references' share of the unowned count.
LEMMA SameShare ==
  ASSUME NEW t \in Thread, \A u \in Thread \ {t} : op'[u] = op[u],
         deinitBy' = deinitBy, Bits'.deiniting = Bits.deiniting,
         op'[t] = "dealloc" <=> op[t] = "dealloc"
  PROVE  StrongShare' <=> StrongShare
<1>1. \A u \in Thread : op'[u] = "dealloc" <=> op[u] = "dealloc"
  OBVIOUS
<1> QED
  BY <1>1 DEF StrongShare

\* Weak holders are variables, and threads that give a weak count back.
LEMMA HoldersAre ==
  /\ WeakHolders = WeakSlots \cup {u \in Thread : Giving(u)}
  /\ WeakHolders' = WeakSlots' \cup {u \in Thread : Giving(u)'}
  /\ WeakHolders' \subseteq Slot \cup Thread
<1>1. {u \in WeakCarriers : op[u] # "unownedFree"} = {u \in Thread : Giving(u)}
  BY DEF WeakCarriers, Giving
<1>2. {u \in WeakCarriers' : op'[u] # "unownedFree"} = {u \in Thread : Giving(u)'}
  BY DEF WeakCarriers, Giving
<1> QED
  BY <1>1, <1>2 DEF WeakHolders, WeakSlots

\* A thread that gives back no weak count changes no weak holder.
LEMMA SameHolders ==
  ASSUME NEW t \in Thread, \A u \in Thread \ {t} : SameThread(u), wref' = wref,
         Giving(t)' <=> Giving(t)
  PROVE  WeakHolders' = WeakHolders
<1>1. \A u \in Thread : Giving(u)' <=> Giving(u)
  BY DEF Giving, SameThread
<1>2. WeakSlots' = WeakSlots
  BY DEF WeakSlots
<1>3. {u \in Thread : Giving(u)'} = {u \in Thread : Giving(u)}
  BY <1>1
<1> QED
  BY <1>2, <1>3, HoldersAre

\* A weak reference shows that there is an entry and a holder.
LEMMA WeakHeld ==
  ASSUME TypeOK, IInv, NEW v \in Slot, wref[v] # Null
  PROVE  Home # Inline /\ WeakHolders # {}
<1>1. wref[v] \in Entry /\ Inline \notin Entry /\ wref[v] = Home
  BY SetsAssumption DEF TypeOK, SlotType, IInv, Slots
<1>2. v \in WeakSlots
  BY DEF WeakSlots
<1> QED
  BY <1>1, <1>2 DEF WeakHolders

\* Steps in which weak references come, go or move, and those that leave the
\* life cycle as it is.
LEMMA QuietLifecycle ==
  ASSUME NEW t \in Thread, \A u \in Thread \ {t} : SameThread(u),
         alloc'[Inline] = alloc[Inline], Home' = Home, Home # Inline => alloc'[Home] = alloc[Home],
         Bits'.deiniting = Bits.deiniting, deinitBy' = deinitBy,
         op'[t] = "dealloc" <=> op[t] = "dealloc",
         \A v \in Slot : \/ ref'[v] = ref[v]
                         \/ ref[v] \in {"empty", "weak"} /\ ref'[v] \in {"empty", "weak"},
         \/ Home # Inline /\ (LifecycleState = "LIVE" \/ WeakHolders # {})
         \/ wref' = wref /\ (Giving(t)' <=> Giving(t))
  PROVE  [Lifecycle!Next]_LifecycleVars
<1>1. StrongShare' <=> StrongShare
  BY SameShare DEF SameThread
<1>2. LifecycleState' = LifecycleState
  BY <1>1, SameState
<1>3. Strong' = Strong /\ Unowned' = Unowned
  BY DEF Strong, Unowned
<1>4. (Home # Inline)' = (Home # Inline)
  OBVIOUS
<1>5. CASE Home # Inline /\ (LifecycleState = "LIVE" \/ WeakHolders # {})
  <2>1. WeakHolders' \in SUBSET (Slot \cup Thread)
    BY HoldersAre
  <2>2. Lifecycle!WeakChange
    BY <1>2, <1>3, <1>4, <1>5, <2>1 DEF Lifecycle!WeakChange
  <2> QED
    BY <2>2 DEF Lifecycle!Next
<1>6. CASE wref' = wref /\ (Giving(t)' <=> Giving(t))
  <2>1. WeakHolders' = WeakHolders
    BY <1>6, SameHolders
  <2> QED
    BY <1>2, <1>3, <1>4, <2>1 DEF LifecycleVars
<1> QED
  BY <1>5, <1>6

\* Entering the runtime is at most a change of weak holders.
LEMMA EnterLifecycle ==
  ASSUME TypeOK, IInv, NEW t \in Thread, NEW o, NEW p, NEW l, NEW S, NEW D,
         Enter(t, o, p, l, S, D), o # "dealloc",
         \A v \in Slot : ref'[v] = ref[v],
         (Home # Inline /\ WeakHolders # {}) \/ (wref' = wref /\ o \notin WeakDec)
  PROVE  [Lifecycle!Next]_LifecycleVars
<1>1. /\ \A u \in Thread \ {t} : SameThread(u)
      /\ pc[t] = "idle" /\ pc'[t] = p /\ op'[t] = o
      /\ mem' = mem /\ alloc' = alloc /\ deinitBy' = deinitBy
  BY EnterFrame
<1>2. op[t] = "none" /\ ~Giving(t) /\ (o \notin WeakDec => ~Giving(t)')
  BY <1>1 DEF IInv, Local, Placed, Giving, WeakDec
<1>3. Home' = Home /\ Bits' = Bits
  BY <1>1 DEF Home, Bits
<1> QED
  BY <1>1, <1>2, <1>3, QuietLifecycle

\* A call at the header word is not visible in the life cycle.
LEMMA CallLifecycle ==
  ASSUME TypeOK, IInv, NEW t \in Thread, NEW o, NEW S, NEW D, Call(t, o, S, D),
         o \notin WeakDec \cup {"dealloc"}
  PROVE  [Lifecycle!Next]_LifecycleVars
<1>1. PICK p \in {"load", "nload"} : Enter(t, o, p, Inline, S, D) /\ UNCHANGED <<ref, wref>>
  BY DEF Call
<1> QED
  BY <1>1, EnterLifecycle

\* Moving a weak reference changes no other kind.
LEMMA MoveSlots ==
  ASSUME TypeOK, NEW t \in Thread, NEW s \in Slot, NEW d \in Slot, Move(t, s, d),
         ref[s] = "weak", ref[d] \in {"empty", "weak"}
  PROVE  \A v \in Slot : \/ ref'[v] = ref[v]
                         \/ ref[v] \in {"empty", "weak"} /\ ref'[v] \in {"empty", "weak"}
BY DEF Move, TypeOK, SlotType

\* Moving a nil changes nothing, if the variable it goes to holds nil.
LEMMA MoveNil ==
  ASSUME TypeOK, NEW t \in Thread, NEW s \in Slot, NEW d \in Slot, Move(t, s, d),
         wref[s] = Null, wref[d] = Null
  PROVE  wref' = wref
BY DEF Move, TypeOK, SlotType

\* Entry points on strong and unowned references only start an operation.
LEMMA CallPointLifecycle ==
  ASSUME TypeOK, IInv, NEW t \in Thread,
         \/ swift_retain_n(t) \/ swift_release_n(t) \/ swift_tryPin(t) \/ swift_unpin(t)
         \/ swift_tryRetain(t) \/ swift_unownedRetain_n(t) \/ swift_unownedRelease_n(t)
         \/ swift_unownedRetainStrong(t) \/ swift_unownedRetainStrongAndRelease(t)
         \/ swift_unownedCheck(t) \/ swift_isUniquelyReferenced_native(t)
  PROVE  [Lifecycle!Next]_LifecycleVars
<1>1. PICK o \in {"retain", "release", "tryPin", "unpin", "tryRetain", "unownedRetain",
                  "unownedRelease", "unownedRetainStrong", "retainStrongAndRelease",
                  "unownedCheck", "isUnique"} :
        \E S, D : Call(t, o, S, D)
  <2>1. CASE swift_retain_n(t)
    BY <2>1 DEF swift_retain_n
  <2>2. CASE swift_release_n(t)
    BY <2>2 DEF swift_release_n
  <2>3. CASE swift_tryPin(t)
    BY <2>3 DEF swift_tryPin
  <2>4. CASE swift_unpin(t)
    BY <2>4 DEF swift_unpin
  <2>5. CASE swift_tryRetain(t)
    BY <2>5 DEF swift_tryRetain
  <2>6. CASE swift_unownedRetain_n(t)
    BY <2>6 DEF swift_unownedRetain_n
  <2>7. CASE swift_unownedRelease_n(t)
    BY <2>7 DEF swift_unownedRelease_n
  <2>8. CASE swift_unownedRetainStrong(t)
    BY <2>8 DEF swift_unownedRetainStrong
  <2>9. CASE swift_unownedRetainStrongAndRelease(t)
    BY <2>9 DEF swift_unownedRetainStrongAndRelease
  <2>10. CASE swift_unownedCheck(t)
    BY <2>10 DEF swift_unownedCheck
  <2>11. CASE swift_isUniquelyReferenced_native(t)
    BY <2>11 DEF swift_isUniquelyReferenced_native
  <2> QED
    BY <2>1, <2>2, <2>3, <2>4, <2>5, <2>6, <2>7, <2>8, <2>9, <2>10, <2>11
<1>2. o \notin WeakDec \cup {"dealloc"}
  BY DEF WeakDec
<1> QED
  BY <1>1, <1>2, CallLifecycle

\* Entry points on weak references that move none at once.
LEMMA WeakPointLifecycle ==
  ASSUME TypeOK, IInv, NEW t \in Thread,
         \/ swift_setDeallocating(t) \/ swift_weakInit(t) \/ swift_weakAssign(t)
         \/ swift_weakLoadStrong(t) \/ swift_weakTakeStrong(t) \/ swift_weakCopyAssign(t)
  PROVE  [Lifecycle!Next]_LifecycleVars
<1>0. /\ {"fromOne", "weakInit", "weakAssign", "weakLoad", "weakCopy"} \cap WeakDec = {}
      /\ "weakTake" # "dealloc" /\ "weakDestroy" # "dealloc" /\ "weakCopyAssign" # "dealloc"
      /\ "dealloc" \notin WeakDec
  BY DEF WeakDec
<1>1. CASE swift_setDeallocating(t)
  <2>1. \E v : Enter(t, "fromOne", "nload", Inline, {v}, {}) /\ UNCHANGED <<ref, wref>>
    BY <1>1 DEF swift_setDeallocating
  <2> QED
    BY <1>0, <2>1, EnterLifecycle
<1>2. CASE swift_weakInit(t)
  <2>1. \E v : Enter(t, "weakInit", "preflight", Inline, {}, {v}) /\ UNCHANGED <<ref, wref>>
    BY <1>2 DEF swift_weakInit
  <2> QED
    BY <1>0, <2>1, EnterLifecycle
<1>3. CASE swift_weakLoadStrong(t)
  <2>1. \E l, d : Enter(t, "weakLoad", "load", l, {}, {d}) /\ UNCHANGED <<ref, wref>>
    BY <1>3 DEF swift_weakLoadStrong
  <2> QED
    BY <1>0, <2>1, EnterLifecycle
<1>4. CASE swift_weakTakeStrong(t)
  <2>1. PICK v \in Owns(t, {"weak"}), d \in Unused :
          wref[v] # Null /\ Enter(t, "weakTake", "load", wref[v], {}, {d}) /\ UNCHANGED ref
    BY <1>4 DEF swift_weakTakeStrong
  <2>2. Home # Inline /\ WeakHolders # {}
    BY <2>1, WeakHeld DEF Owns
  <2>3. \A w \in Slot : ref'[w] = ref[w]
    BY <2>1
  <2> QED
    BY <1>0, <2>1, <2>2, <2>3, EnterLifecycle
<1>5. CASE swift_weakAssign(t)
  <2>1. PICK v \in Owns(t, {"weak"}) :
          \/ /\ Enter(t, "weakAssign", "preflight", Inline, {}, {v})
             /\ UNCHANGED <<ref, wref>>
          \/ /\ wref[v] # Null
             /\ Enter(t, "weakDestroy", "load", wref[v], {}, {})
             /\ UNCHANGED ref
    BY <1>5 DEF swift_weakAssign
  <2>2. wref[v] # Null => Home # Inline /\ WeakHolders # {}
    BY <2>1, WeakHeld DEF Owns
  <2>3. \A w \in Slot : ref'[w] = ref[w]
    BY <2>1
  <2>4. CASE Enter(t, "weakAssign", "preflight", Inline, {}, {v}) /\ UNCHANGED <<ref, wref>>
    BY <1>0, <2>4, <2>3, EnterLifecycle
  <2>5. CASE wref[v] # Null /\ Enter(t, "weakDestroy", "load", wref[v], {}, {})
    BY <1>0, <2>5, <2>2, <2>3, EnterLifecycle
  <2> QED
    BY <2>1, <2>4, <2>5
<1>6. CASE swift_weakCopyAssign(t)
  <2>1. PICK s \in Owns(t, {"weak"}), d \in Owns(t, {"weak"}) :
          /\ wref[d] # Null \/ wref[s] # Null
          /\ IF wref[d] # Null
             THEN Enter(t, "weakCopyAssign", "load", wref[d], {s}, {d})
             ELSE Enter(t, "weakCopy", "check", wref[s], {}, {d})
          /\ UNCHANGED ref
    BY <1>6 DEF swift_weakCopyAssign
  <2>2. Home # Inline /\ WeakHolders # {}
    BY <2>1, WeakHeld DEF Owns
  <2>3. CASE wref[d] # Null
    <3>1. Enter(t, "weakCopyAssign", "load", wref[d], {s}, {d}) /\ (\A w \in Slot : ref'[w] = ref[w])
      BY <2>1, <2>3
    <3> QED
      BY <1>0, <2>2, <3>1, EnterLifecycle
  <2>4. CASE wref[d] = Null
    BY <1>0, <2>1, <2>2, <2>4, EnterLifecycle
  <2> QED
    BY <2>3, <2>4
<1> QED
  BY <1>1, <1>2, <1>3, <1>4, <1>5, <1>6

\* The entry points that may be over at once.
LEMMA DirectPointLifecycle ==
  ASSUME TypeOK, IInv, NEW t \in Thread,
         \/ swift_weakDestroy(t) \/ swift_weakCopyInit(t) \/ swift_weakTakeInit(t)
         \/ swift_weakTakeAssign(t)
  PROVE  [Lifecycle!Next]_LifecycleVars
<1>0. /\ \A v \in Unused : v \in Slot /\ ref[v] = "empty" /\ wref[v] = Null
      /\ \A v \in Owns(t, {"weak"}) : v \in Slot /\ ref[v] = "weak"
      /\ pc[t] = "idle" => op[t] = "none" /\ ~Giving(t)
  <2>1. pc[t] = "idle" => op[t] = "none"
    BY WeakFacts
  <2>2. /\ \A v \in Unused : v \in Slot /\ ref[v] = "empty" /\ wref[v] = Null
        /\ \A v \in Owns(t, {"weak"}) : v \in Slot /\ ref[v] = "weak"
    BY WeakFacts
  <2> QED
    BY <2>1, <2>2 DEF Giving, WeakDec
<1>1. UNCHANGED <<mem, alloc, deinitBy>> => Home' = Home /\ Bits' = Bits
  BY DEF Home, Bits
<1>2. CASE swift_weakDestroy(t)
  <2>1. PICK v \in Owns(t, {"weak"}) :
          /\ pc[t] = "idle"
          /\ ref' = [ref EXCEPT ![v] = "empty"]
          /\ wref' = [wref EXCEPT ![v] = Null]
          /\ IF wref[v] = Null
             THEN UNCHANGED <<pc, op, loc, old>>
             ELSE Proceed(t, "weakDestroy", "load", wref[v])
          /\ UNCHANGED <<mem, alloc, src, dst, deinitBy, abort>>
    BY <1>2 DEF swift_weakDestroy
  <2>2. \A w \in Slot : \/ ref'[w] = ref[w]
                        \/ ref[w] \in {"empty", "weak"} /\ ref'[w] \in {"empty", "weak"}
    BY <1>0, <2>1 DEF TypeOK, SlotType
  <2>3. CASE wref[v] = Null
    <3>1. wref' = wref
      BY <1>0, <2>1, <2>3 DEF TypeOK, SlotType
    <3>2. (\A u \in Thread : SameThread(u)) /\ (Giving(t)' <=> Giving(t)) /\ op'[t] = op[t]
      BY <2>1, <2>3 DEF SameThread, Giving
    <3> QED
      BY <1>1, <2>1, <2>2, <3>1, <3>2, QuietLifecycle
  <2>4. CASE wref[v] # Null
    <3>1. (\A u \in Thread \ {t} : SameThread(u)) /\ op'[t] = "weakDestroy"
      BY <2>1, <2>4, ProceedFrame DEF SameThread
    <3>2. Home # Inline /\ WeakHolders # {} /\ op[t] = "none"
      BY <1>0, <2>1, <2>4, WeakHeld
    <3> QED
      BY <1>1, <2>1, <2>2, <3>1, <3>2, QuietLifecycle
  <2> QED
    BY <2>3, <2>4
<1>3. CASE swift_weakCopyInit(t)
  <2>1. PICK s \in Owns(t, {"weak"}), d \in Unused :
          IF wref[s] = Null
          THEN /\ ref' = [ref EXCEPT ![d] = "weak"]
               /\ UNCHANGED <<mem, alloc, threadVars, wref, deinitBy, abort>>
          ELSE /\ Enter(t, "weakCopy", "check", wref[s], {}, {d})
               /\ UNCHANGED <<ref, wref>>
    BY <1>3 DEF swift_weakCopyInit
  <2>2. CASE wref[s] = Null
    <3>1. \A w \in Slot : \/ ref'[w] = ref[w]
                          \/ ref[w] \in {"empty", "weak"} /\ ref'[w] \in {"empty", "weak"}
      BY <1>0, <2>1, <2>2 DEF TypeOK, SlotType
    <3>2. (\A u \in Thread : SameThread(u)) /\ (Giving(t)' <=> Giving(t)) /\ op'[t] = op[t]
      BY <2>1, <2>2 DEF SameThread, Giving, threadVars
    <3>3. UNCHANGED <<mem, alloc, deinitBy, wref>>
      BY <2>1, <2>2
    <3> QED
      BY <1>1, <3>1, <3>2, <3>3, QuietLifecycle
  <2>3. CASE wref[s] # Null
    BY <2>1, <2>3, EnterLifecycle DEF WeakDec
  <2> QED
    BY <2>2, <2>3
<1>4. CASE \E s \in Owns(t, {"weak"}), d \in Unused \cup Owns(t, {"weak"}) :
             /\ wref[d] = Null /\ Move(t, s, d)
             /\ UNCHANGED <<mem, alloc, threadVars, deinitBy, abort>>
  <2>1. PICK s \in Owns(t, {"weak"}), d \in Unused \cup Owns(t, {"weak"}) :
             /\ wref[d] = Null /\ Move(t, s, d)
             /\ UNCHANGED <<mem, alloc, threadVars, deinitBy, abort>>
    BY <1>4
  <2>2. \A w \in Slot : \/ ref'[w] = ref[w]
                        \/ ref[w] \in {"empty", "weak"} /\ ref'[w] \in {"empty", "weak"}
    BY <1>0, <2>1, MoveSlots
  <2>3. (\A u \in Thread : SameThread(u)) /\ (Giving(t)' <=> Giving(t)) /\ op'[t] = op[t]
    BY <2>1 DEF SameThread, Giving, threadVars
  <2>4. wref' = wref \/ (Home # Inline /\ WeakHolders # {})
    <3>1. s \in Slot /\ d \in Slot
      BY <1>0, <2>1
    <3>2. CASE wref[s] = Null
      BY <2>1, <3>1, <3>2, MoveNil
    <3>3. CASE wref[s] # Null
      BY <3>1, <3>3, WeakHeld
    <3> QED
      BY <3>2, <3>3
  <2> QED
    BY <1>1, <2>1, <2>2, <2>3, <2>4, QuietLifecycle
<1>5. CASE swift_weakTakeInit(t)
  BY <1>0, <1>4, <1>5 DEF swift_weakTakeInit
<1>6. CASE swift_weakTakeAssign(t)
  <2>1. PICK s \in Owns(t, {"weak"}), d \in Owns(t, {"weak"}) :
          IF wref[d] # Null
          THEN /\ Enter(t, "weakTakeAssign", "load", wref[d], {s}, {d})
               /\ UNCHANGED ref
          ELSE /\ Move(t, s, d)
               /\ UNCHANGED <<mem, alloc, threadVars, deinitBy, abort>>
    BY <1>6 DEF swift_weakTakeAssign
  <2>2. CASE wref[d] # Null
    <3>1. Home # Inline /\ WeakHolders # {}
      BY <1>0, <2>2, WeakHeld
    <3>2. Enter(t, "weakTakeAssign", "load", wref[d], {s}, {d}) /\ (\A w \in Slot : ref'[w] = ref[w])
      BY <2>1, <2>2
    <3>3. "weakTakeAssign" # "dealloc"
      OBVIOUS
    <3> QED
      BY <3>1, <3>2, <3>3, EnterLifecycle
  <2>3. CASE wref[d] = Null
    BY <1>4, <2>1, <2>3
  <2> QED
    BY <2>2, <2>3
<1> QED
  BY <1>2, <1>3, <1>5, <1>6

\* Every entry point is a step of the life cycle or a stutter.
LEMMA EntryPointLifecycle ==
  ASSUME TypeOK, IInv, NEW t \in Thread, EntryPoint(t)
  PROVE  [Lifecycle!Next]_LifecycleVars
BY CallPointLifecycle, WeakPointLifecycle, DirectPointLifecycle DEF EntryPoint

\* A step that changes no word, reference or allocation is a stutter.
LEMMA StillLifecycle ==
  ASSUME NEW t \in Thread, \A u \in Thread \ {t} : SameThread(u),
         UNCHANGED <<mem, alloc, ref, wref, deinitBy>>,
         op'[t] = "dealloc" <=> op[t] = "dealloc", Giving(t)' <=> Giving(t)
  PROVE  [Lifecycle!Next]_LifecycleVars
<1>1. Home' = Home /\ Bits' = Bits
  BY DEF Home, Bits
<1> QED
  BY <1>1, QuietLifecycle

\* Loads, retries, refusals, queries and aborts are stutters.
LEMMA ThinkLifecycle ==
  ASSUME TypeOK, IInv, NEW t \in Thread,
         \/ Load(t) \/ Retry(t) \/ ForwardToSideTable(t) \/ Refuse(t) \/ Query(t) \/ Overflow(t)
  PROVE  [Lifecycle!Next]_LifecycleVars
<1>1. CASE Load(t) \/ Retry(t)
  <2>1. /\ \A u \in Thread \ {t} : SameThread(u)
        /\ op'[t] = op[t] /\ pc[t] \in AtWord /\ pc'[t] \in AtWord
        /\ UNCHANGED <<mem, alloc, slotVars, deinitBy>>
    <3>1. CASE Load(t)
      BY <3>1 DEF Load, SameThread, AtWord, TypeOK, ThreadType
    <3>2. CASE Retry(t)
      BY <3>2 DEF Retry, SameThread, AtWord, TypeOK, ThreadType
    <3> QED
      BY <1>1, <3>1, <3>2
  <2>2. Giving(t)' <=> Giving(t)
    BY <2>1 DEF Giving
  <2> QED
    BY <2>1, <2>2, StillLifecycle DEF slotVars
<1>2. CASE ForwardToSideTable(t)
  <2>1. /\ \A u \in Thread \ {t} : SameThread(u)
        /\ op'[t] = op[t] /\ pc[t] \in AtWord /\ pc'[t] \in AtWord
        /\ UNCHANGED <<mem, alloc, slotVars, deinitBy>>
    BY <1>2, ProceedFrame DEF ForwardToSideTable, Decides, Again, SameThread, AtWord
  <2>2. Giving(t)' <=> Giving(t)
    BY <2>1 DEF Giving
  <2> QED
    BY <2>1, <2>2, StillLifecycle DEF slotVars
<1>3. ASSUME Leave(t) \/ (\E reason : Abort(t, reason))
                \/ (Proceed(t, op[t], "preflight", Inline) /\ UNCHANGED <<src, dst>>),
             op[t] \notin WeakDec \cup {"dealloc"},
             UNCHANGED <<mem, alloc, ref, wref, deinitBy>>
      PROVE  [Lifecycle!Next]_LifecycleVars
  <2>1. (\A u \in Thread \ {t} : SameThread(u)) /\ op'[t] \in {op[t], "none"}
    <3>1. CASE Leave(t)
      BY <3>1, LeaveFrame
    <3>2. CASE \E reason : Abort(t, reason)
      BY <3>2, AbortFrame
    <3>3. CASE Proceed(t, op[t], "preflight", Inline) /\ UNCHANGED <<src, dst>>
      BY <3>3, ProceedFrame DEF SameThread
    <3> QED
      BY <1>3, <3>1, <3>2, <3>3
  <2>2. (Giving(t)' <=> Giving(t)) /\ (op'[t] = "dealloc" <=> op[t] = "dealloc")
    BY <1>3, <2>1 DEF Giving, WeakDec
  <2> QED
    BY <1>3, <2>1, <2>2, StillLifecycle
<1>4. CASE Refuse(t)
  <2>1. op[t] \in TryOps \cup {"tryPin"}
    BY <1>4 DEF Refuse, Refused
  <2>2. op[t] \notin WeakDec \cup {"dealloc"}
    BY <2>1 DEF TryOps, WeakDec
  <2>3. (Leave(t) \/ \E reason : Abort(t, reason)) /\ UNCHANGED <<mem, alloc, ref, wref, deinitBy>>
    BY <1>4 DEF Refuse
  <2> QED
    BY <1>3, <2>2, <2>3
<1>5. CASE Query(t)
  <2>1. op[t] \notin WeakDec \cup {"dealloc"}
    BY <1>5 DEF Query, Queries, WeakDec
  <2>2. (Leave(t) \/ \E reason : Abort(t, reason)) /\ UNCHANGED <<mem, alloc, ref, wref, deinitBy>>
    BY <1>5 DEF Query, slotVars
  <2> QED
    BY <1>3, <2>1, <2>2
<1>6. CASE Overflow(t)
  <2>1. op[t] \notin WeakDec \cup {"dealloc"}
    BY <1>6 DEF Overflow, Overflows, StrongInc, TryOps, WeakDec
  <2>2. UNCHANGED <<mem, alloc, ref, wref, deinitBy>>
    BY <1>6 DEF Overflow, slotVars
  <2>3. \/ \E reason : Abort(t, reason)
        \/ Proceed(t, op[t], "preflight", Inline) /\ UNCHANGED <<src, dst>>
    BY <1>6 DEF Overflow
  <2> QED
    BY <1>3, <2>1, <2>2, <2>3
<1> QED
  BY <1>1, <1>2, <1>4, <1>5, <1>6

\* Storing an entry into a weak variable adds a weak holder.
LEMMA StoreWeakLifecycle ==
  ASSUME TypeOK, IInv, NEW t \in Thread, NEW e, StoreWeak(t, e),
         op[t] \in FormOps \cup {"weakCopy"},
         alloc'[Inline] = alloc[Inline], Home' = Home, Home # Inline => alloc'[Home] = alloc[Home],
         Bits'.deiniting = Bits.deiniting, deinitBy' = deinitBy,
         e = Null \/ (Home # Inline /\ (LifecycleState = "LIVE" \/ WeakHolders # {}))
  PROVE  [Lifecycle!Next]_LifecycleVars
<1>1. PICK d \in dst[t] :
        /\ ref' = [ref EXCEPT ![d] = "weak"]
        /\ wref' = [wref EXCEPT ![d] = e]
        /\ IF op[t] = "weakAssign" /\ wref[d] # Null
           THEN /\ Proceed(t, "weakDestroy", "load", wref[d])
                /\ dst' = [dst EXCEPT ![t] = {}]
                /\ UNCHANGED src
           ELSE Leave(t)
  BY DEF StoreWeak
<1>2. d \in Slot /\ ref[d] \in {"empty", "weak"} /\ wref \in [Slot -> Entry \cup {Null}]
      /\ (op[t] # "weakAssign" => wref[d] = Null)
  <2>1. Fits(t) /\ dst[t] \subseteq Slot /\ wref \in [Slot -> Entry \cup {Null}]
    BY DEF IInv, Local, TypeOK, ThreadType, SlotType
  <2>2. ref[d] \in {"empty", "weak"}
    BY <1>1, <2>1 DEF Fits, Holding, FormOps
  <2>3. CASE op[t] = "weakInit"
    <3>1. ref[d] = "empty"
      BY <1>1, <2>1, <2>3 DEF Fits, Holding
    <3> QED
      BY <1>1, <2>1, <2>2, <3>1 DEF IInv, Slots
  <2>4. CASE op[t] = "weakCopy"
    BY <1>1, <2>1, <2>2, <2>4 DEF Fits
  <2> QED
    BY <1>1, <2>1, <2>2, <2>3, <2>4 DEF FormOps
<1>3. \A v \in Slot : \/ ref'[v] = ref[v]
                      \/ ref[v] \in {"empty", "weak"} /\ ref'[v] \in {"empty", "weak"}
  BY <1>1, <1>2 DEF TypeOK, SlotType
<1>4. /\ \A u \in Thread \ {t} : SameThread(u)
      /\ op'[t] # "dealloc" /\ op[t] # "dealloc"
      /\ wref[d] = Null => ~Giving(t)' /\ ~Giving(t)
  <2>1. CASE op[t] = "weakAssign" /\ wref[d] # Null
    <3>1. \A u \in Thread \ {t} : src'[u] = src[u] /\ dst'[u] = dst[u]
      BY <1>1, <2>1 DEF TypeOK, ThreadType
    <3>2. /\ \A u \in Thread \ {t} : /\ pc'[u] = pc[u] /\ op'[u] = op[u]
                                     /\ loc'[u] = loc[u] /\ old'[u] = old[u]
          /\ op'[t] = "weakDestroy"
      BY <1>1, <2>1, ProceedFrame
    <3> QED
      BY <2>1, <3>1, <3>2 DEF SameThread
  <2>2. CASE ~(op[t] = "weakAssign" /\ wref[d] # Null)
    <3>1. (\A u \in Thread \ {t} : SameThread(u)) /\ op'[t] = "none"
      BY <1>1, <2>2, LeaveFrame
    <3> QED
      BY <3>1 DEF Giving, WeakDec, FormOps
  <2> QED
    BY <2>1, <2>2
<1>5. CASE wref[d] # Null
  BY <1>2, <1>3, <1>4, <1>5, WeakHeld, QuietLifecycle
<1>6. CASE wref[d] = Null /\ e = Null
  <2>1. wref' = wref
    BY <1>1, <1>2, <1>6
  <2> QED
    BY <1>3, <1>4, <1>6, <2>1, QuietLifecycle
<1>7. CASE e # Null
  BY <1>3, <1>4, <1>7, QuietLifecycle
<1> QED
  BY <1>5, <1>6, <1>7

\* Going on in the side table is a stutter.
LEMMA UseLifecycle ==
  ASSUME TypeOK, IInv, NEW t \in Thread, NEW e, UseSideTable(t, e),
         op[t] \in FormOps \cup {"unownedRetain"},
         alloc'[Inline] = alloc[Inline], Home' = Home, Home # Inline => alloc'[Home] = alloc[Home],
         Bits'.deiniting = Bits.deiniting, deinitBy' = deinitBy
  PROVE  [Lifecycle!Next]_LifecycleVars
<1>1. CASE e # Null \/ op[t] = "unownedRetain"
  <2>1. /\ \/ \E p, l : Proceed(t, op[t], p, l) /\ UNCHANGED <<src, dst>>
           \/ Abort(t, "unownedOverflow")
        /\ UNCHANGED slotVars
    BY <1>1 DEF UseSideTable
  <2>2. (\A u \in Thread \ {t} : SameThread(u)) /\ op'[t] = op[t]
    <3>1. CASE \E p, l : Proceed(t, op[t], p, l) /\ UNCHANGED <<src, dst>>
      BY <3>1, ProceedFrame DEF SameThread
    <3>2. CASE Abort(t, "unownedOverflow")
      BY <3>2, AbortFrame
    <3> QED
      BY <2>1, <3>1, <3>2
  <2>3. ~Giving(t)' /\ ~Giving(t) /\ op[t] # "dealloc" /\ ref' = ref /\ wref' = wref
    BY <2>1, <2>2 DEF Giving, WeakDec, FormOps, slotVars
  <2> QED
    BY <2>2, <2>3, QuietLifecycle
<1>2. CASE e = Null /\ op[t] # "unownedRetain"
  <2>1. StoreWeak(t, Null)
    BY <1>2 DEF UseSideTable
  <2> QED
    BY <1>2, <2>1, StoreWeakLifecycle
<1> QED
  BY <1>1, <1>2

\* Allocating an entry that is not yet published is a stutter.
LEMMA PreflightLifecycle ==
  ASSUME TypeOK, IInv, NEW t \in Thread, Preflight(t)
  PROVE  [Lifecycle!Next]_LifecycleVars
<1>1. /\ pc[t] = "preflight" /\ op[t] \in FormOps \cup {"unownedRetain"}
      /\ UNCHANGED <<mem, deinitBy>> /\ Home' = Home /\ Bits' = Bits
  BY DEF Preflight, IInv, Local, Placed, Home, Bits
<1>2. CASE \E e : UseSideTable(t, e) /\ UNCHANGED alloc
  BY <1>1, <1>2, UseLifecycle
<1>3. CASE \E e \in Entry :
             /\ alloc[e] = "none"
             /\ alloc' = [alloc EXCEPT ![e] = "live"]
             /\ loc' = [loc EXCEPT ![t] = e]
             /\ old' = [old EXCEPT ![t] = mem[Inline]]
             /\ pc' = [pc EXCEPT ![t] = "install"]
             /\ UNCHANGED <<op, src, dst, slotVars, abort>>
  <2>1. PICK e \in Entry :
             /\ alloc[e] = "none"
             /\ alloc' = [alloc EXCEPT ![e] = "live"]
             /\ loc' = [loc EXCEPT ![t] = e]
             /\ old' = [old EXCEPT ![t] = mem[Inline]]
             /\ pc' = [pc EXCEPT ![t] = "install"]
             /\ UNCHANGED <<op, src, dst, slotVars, abort>>
    BY <1>3
  <2>2. \A u \in Thread \ {t} : SameThread(u)
    BY <2>1 DEF SameThread, TypeOK, ThreadType
  <2>3. e # Inline /\ e # Home
    BY <2>1, SetsAssumption DEF IInv, EntryAllocated
  <2>4. Home \in Loc /\ Inline \in Loc /\ alloc \in [Loc -> {"none", "live", "freed"}]
    BY HomeType DEF IInv, TypeOK, MemoryType
  <2>5. alloc'[Inline] = alloc[Inline] /\ alloc'[Home] = alloc[Home]
    BY <2>1, <2>3, <2>4
  <2>6. ~Giving(t) /\ ~Giving(t)' /\ op'[t] = op[t] /\ ref' = ref /\ wref' = wref
    BY <1>1, <2>1 DEF Giving, WeakDec, FormOps, slotVars
  <2> QED
    BY <1>1, <2>2, <2>5, <2>6, QuietLifecycle
<1> QED
  BY <1>2, <1>3 DEF Preflight

\* An object that lives gains its side table.
LEMMA GainLifecycle ==
  ASSUME TypeOK, IInv, NEW t \in Thread, \A u \in Thread \ {t} : SameThread(u),
         UNCHANGED <<alloc, deinitBy, ref, wref>>, op'[t] = op[t], ~Giving(t), ~Giving(t)',
         Home = Inline, Home' # Inline, ~Bits.deiniting, ~Bits'.deiniting,
         alloc[Inline] = "live"
  PROVE  [Lifecycle!Next]_LifecycleVars
<1>1. LifecycleState = "LIVE" /\ LifecycleState' = "LIVE"
  BY DEF LifecycleState
<1>2. Strong' = Strong /\ Unowned' = Unowned /\ WeakHolders' = WeakHolders
  BY SameHolders DEF Strong, Unowned
<1>3. ~(Home # Inline) /\ (Home # Inline)' = TRUE
  OBVIOUS
<1>4. Lifecycle!GainSideTable
  BY <1>1, <1>2, <1>3 DEF Lifecycle!GainSideTable
<1> QED
  BY <1>4 DEF Lifecycle!Next

\* Publishing an entry gives the object its side table, or is a stutter if
\* the race is lost.
LEMMA InstallLifecycle ==
  ASSUME TypeOK, IInv, NEW t \in Thread, Install(t)
  PROVE  [Lifecycle!Next]_LifecycleVars
<1>1. /\ pc[t] = "install" /\ op[t] \in FormOps \cup {"unownedRetain"} /\ deinitBy' = deinitBy
      /\ loc[t] \in Entry /\ loc[t] # Home /\ loc[t] # Inline
      /\ ~Giving(t) /\ alloc[Inline] = "live"
  <2>1. /\ pc[t] = "install" /\ op[t] \in FormOps \cup {"unownedRetain"} /\ deinitBy' = deinitBy
        /\ loc[t] \in Entry /\ loc[t] # Home
    BY DEF Install, IInv, Local, Placed
  <2>2. ~Giving(t)
    BY <2>1 DEF Giving, WeakDec, FormOps
  <2> QED
    BY <2>1, <2>2, OperationMemory, SetsAssumption
<1>2. /\ Home \in Loc /\ Inline \in Loc /\ loc[t] \in Loc /\ mem \in [Loc -> Word]
      /\ alloc \in [Loc -> {"none", "live", "freed"}]
      /\ Home = Inline <=> mem[Inline].side = Null
  BY <1>1, HomeType DEF IInv, TypeOK, MemoryType
<1>3. CASE old[t].side # Null
  <2>1. Discard(loc[t]) /\ UseSideTable(t, old[t].side) /\ mem' = mem
    BY <1>3 DEF Install
  <2>2. alloc'[Inline] = alloc[Inline] /\ alloc'[Home] = alloc[Home] /\ Home' = Home /\ Bits' = Bits
    BY <1>1, <1>2, <2>1 DEF Discard, Home, Bits
  <2> QED
    BY <1>1, <2>1, <2>2, UseLifecycle
<1>4. CASE old[t].side = Null /\ old[t].deiniting
  <2>1. UseSideTable(t, Null) /\ UNCHANGED <<mem, alloc>>
    BY <1>4 DEF Install
  <2>2. Home' = Home /\ Bits' = Bits
    BY <2>1 DEF Home, Bits
  <2> QED
    BY <1>1, <2>1, <2>2, UseLifecycle
<1>5. CASE old[t].side = Null /\ ~old[t].deiniting /\ mem[Inline] = old[t]
  <2>1. /\ mem' = [mem EXCEPT ![loc[t]] = SideTableRefCountBits(old[t]),
                              ![Inline] = SideTablePointer(loc[t])]
        /\ UseSideTable(t, loc[t]) /\ alloc' = alloc
    BY <1>5 DEF Install
  <2>2. /\ mem'[Inline] = SideTablePointer(loc[t])
        /\ mem'[loc[t]] = SideTableRefCountBits(old[t])
    BY <1>1, <1>2, <2>1
  <2>3. loc[t] # Null
    BY <1>1, SetsAssumption
  <2>4. Home = Inline /\ Bits = old[t] /\ Home' = loc[t] /\ Bits' = SideTableRefCountBits(old[t])
    <3>1. mem'[Inline].side = loc[t]
      BY <2>2 DEF SideTablePointer, RefCountBits
    <3> QED
      BY <1>5, <2>2, <2>3, <3>1 DEF Home, Bits
  <2>5. ~Bits'.deiniting
    <3>1. old[t] \in Word
      BY DEF TypeOK, ThreadType
    <3> QED
      BY <1>5, <2>4, <3>1 DEF SideTableRefCountBits, Word
  <2>6. (\E p, l : Proceed(t, op[t], p, l)) /\ UNCHANGED <<src, dst, slotVars>>
    BY <2>1, <2>3 DEF UseSideTable
  <2>7. (\A u \in Thread \ {t} : SameThread(u)) /\ op'[t] = op[t]
    BY <2>6, ProceedFrame DEF SameThread
  <2>8. ~Giving(t)'
    BY <1>1, <2>7 DEF Giving, WeakDec, FormOps
  <2> QED
    BY <1>1, <1>5, <2>1, <2>4, <2>5, <2>6, <2>7, <2>8, GainLifecycle DEF slotVars
<1>6. CASE old[t].side = Null /\ ~old[t].deiniting /\ mem[Inline] # old[t]
  <2>1. /\ mem' = [mem EXCEPT ![loc[t]] = SideTableRefCountBits(old[t])]
        /\ old' = [old EXCEPT ![t] = mem[Inline]]
        /\ UNCHANGED <<pc, op, loc, src, dst, slotVars, abort>> /\ alloc' = alloc
    BY <1>6 DEF Install
  <2>2. mem'[Inline] = mem[Inline] /\ mem'[Home] = mem[Home]
    BY <1>1, <1>2, <2>1
  <2>3. Home' = Home /\ Bits' = Bits
    BY <2>2 DEF Home, Bits
  <2>4. (\A u \in Thread \ {t} : SameThread(u)) /\ op'[t] = op[t] /\ ~Giving(t)'
        /\ ref' = ref /\ wref' = wref
    BY <1>1, <2>1 DEF SameThread, TypeOK, ThreadType, Giving, slotVars
  <2> QED
    BY <1>1, <2>1, <2>3, <2>4, QuietLifecycle
<1> QED
  BY <1>3, <1>4, <1>5, <1>6

\* The check of incrementWeak is at most the storing of nil.
LEMMA CheckLifecycle ==
  ASSUME TypeOK, IInv, NEW t \in Thread, CheckDeiniting(t)
  PROVE  [Lifecycle!Next]_LifecycleVars
<1>1. /\ op[t] \in FormOps \cup {"weakCopy"} /\ UNCHANGED <<mem, alloc, deinitBy>>
      /\ Home' = Home /\ Bits' = Bits
  BY DEF CheckDeiniting, IInv, Local, Placed, Home, Bits
<1>2. CASE StoreWeak(t, Null)
  BY <1>1, <1>2, StoreWeakLifecycle
<1>3. CASE Proceed(t, op[t], "load", loc[t]) /\ UNCHANGED <<src, dst, slotVars>>
  <2>1. (\A u \in Thread \ {t} : SameThread(u)) /\ op'[t] = op[t]
    BY <1>3, ProceedFrame DEF SameThread
  <2>2. ~Giving(t)' /\ ~Giving(t) /\ ref' = ref /\ wref' = wref
    BY <1>1, <1>3, <2>1 DEF Giving, WeakDec, FormOps, slotVars
  <2> QED
    BY <1>1, <2>1, <2>2, StillLifecycle
<1> QED
  BY <1>2, <1>3 DEF CheckDeiniting

\* swift_deallocObject ends deinit.
LEMMA DeallocObjectLifecycle ==
  ASSUME TypeOK, IInv, NEW t \in Thread, swift_deallocObject(t)
  PROVE  [Lifecycle!Next]_LifecycleVars
<1>1. /\ deinitBy = t /\ pc[t] = "idle" /\ UNCHANGED <<mem, alloc, src, dst, slotVars>>
      /\ t # Null
      /\ \E p \in {"free", "load"} : Proceed(t, "dealloc", p, Inline)
  BY SetsAssumption DEF swift_deallocObject
<1>2. (\A u \in Thread \ {t} : SameThread(u)) /\ op'[t] = "dealloc"
  BY <1>1, ProceedFrame DEF SameThread
<1>3. Home' = Home /\ Bits' = Bits /\ Strong' = Strong /\ Unowned' = Unowned
  BY <1>1 DEF Home, Bits, Strong, Unowned, slotVars
<1>4. StrongShare /\ StrongShare'
  BY <1>1, <1>2 DEF StrongShare
<1>5. LifecycleState' = LifecycleState
  BY <1>1, <1>3, <1>4, SameState
<1>6. ~Giving(t) /\ ~Giving(t)'
  BY <1>1, <1>2 DEF Giving, AtWord, WeakDec
<1>7. WeakHolders' = WeakHolders
  BY <1>1, <1>2, <1>6, SameHolders DEF slotVars
<1> QED
  BY <1>3, <1>5, <1>7 DEF LifecycleVars

\* Handing a variable to another thread is a stutter.
LEMMA TransferLifecycle ==
  ASSUME NEW t \in Thread, NEW u \in Thread, Transfer(t, u)
  PROVE  [Lifecycle!Next]_LifecycleVars
<1>1. UNCHANGED <<mem, alloc, threadVars, ref, wref, deinitBy>>
  BY DEF Transfer
<1>2. (\A w \in Thread : SameThread(w)) /\ (Giving(t)' <=> Giving(t)) /\ op'[t] = op[t]
  BY <1>1 DEF SameThread, threadVars, Giving
<1> QED
  BY <1>1, <1>2, StillLifecycle

\* The state of an object whose memory is there.
LEMMA StateIs ==
  ASSUME alloc[Inline] = "live"
  PROVE  /\ LifecycleState \in {"LIVE", "DEINITING", "DEINITED"}
         /\ LifecycleState = "LIVE" <=> ~Bits.deiniting
         /\ LifecycleState = "DEINITED" <=> ~StrongShare
BY DEF LifecycleState, StrongShare

\* A thread that increments the strong count sees the object alive, or is
\* inside its deinit.
LEMMA RetainLifecycle ==
  ASSUME TypeOK, IInv, NEW t \in Thread, \A u \in Thread \ {t} : SameThread(u),
         UNCHANGED <<alloc, wref, deinitBy>>, Home' = Home, Bits'.deiniting = Bits.deiniting,
         op[t] \in StrongInc, op'[t] \in {"none", "unownedDrop"}, old[t] = Bits, ~Refused(t),
         dst[t] # {}, Strong' = Strong \cup dst[t], Strong \cap dst[t] = {}, Unowned' = Unowned
  PROVE  [Lifecycle!Next]_LifecycleVars
<1>1. /\ ~Giving(t) /\ ~Giving(t)' /\ op[t] # "dealloc" /\ op'[t] # "dealloc"
      /\ op[t] \notin EntryOps \cup {"none", "unownedFree"} \/ op[t] = "weakLoad"
  BY DEF Giving, StrongInc, TryOps, WeakDec, EntryOps
<1>2. StrongShare
  <2>1. CASE op[t] \in TryOps
    BY <2>1 DEF Refused, StrongShare
  <2>2. CASE op[t] \in {"retain", "tryPin"}
    <3>1. HoldsStrong(t)
      BY <2>2 DEF IInv, Local, Relies
    <3> QED
      BY <3>1, StrongHasShare DEF IInv
  <2> QED
    BY <2>1, <2>2 DEF StrongInc
<1>3. alloc[Inline] = "live"
  BY <1>2, HeldMemory
<1>4. LifecycleState \in {"LIVE", "DEINITING"}
  BY <1>2, <1>3, StateIs
<1>5. StrongShare' <=> StrongShare
  BY <1>1, SameShare DEF SameThread
<1>6. LifecycleState' = LifecycleState /\ WeakHolders' = WeakHolders /\ (Home # Inline)' = (Home # Inline)
  BY <1>1, <1>5, SameState, SameHolders
<1>7. dst[t] \in SUBSET (Slot \cup Thread)
  BY DEF TypeOK, ThreadType
<1>8. Lifecycle!Retain(dst[t])
  BY <1>4, <1>6 DEF Lifecycle!Retain
<1> QED
  BY <1>7, <1>8 DEF Lifecycle!Next

\* A retain succeeds only while the object is live, or for its own deinit.
LEMMA IncrementStrongLifecycle ==
  ASSUME TypeOK, IInv, NEW t \in Thread, IncrementStrong(t)
  PROVE  [Lifecycle!Next]_LifecycleVars
<1> DEFINE w == [old[t] EXCEPT !.strong = @ + Inc(t), !.pinned = @ \/ op[t] = "tryPin"]
           k == IF op[t] = "tryPin" THEN "pinned" ELSE "strong"
<1>0. /\ Commit(t, StrongInc \ {"retainStrongAndRelease"}, w) /\ Settle(t, k) /\ Leave(t)
      /\ UNCHANGED <<alloc, wref, deinitBy, abort>>
  BY DEF IncrementStrong
<1>1. w.side = old[t].side /\ w.deiniting = old[t].deiniting
  BY DEF TypeOK, ThreadType, Word
<1>2. k \in {"strong", "pinned"}
  OBVIOUS
<1> HIDE DEF w, k
<1>3. w.side = Null
  BY <1>0, <1>1 DEF Commit, Attempts
<1>4. /\ old[t] = Bits /\ Home' = Home /\ Bits' = w /\ ~Refused(t)
      /\ op[t] \in StrongInc \ {"retainStrongAndRelease"}
  BY <1>0, <1>3, CommitAtHome
<1>5. src[t] = {} /\ dst[t] # {} /\ Holding(dst[t], "empty")
  BY <1>4 DEF IInv, Local, Fits, One, StrongInc, TryOps
<1>6. (\A u \in Thread \ {t} : SameThread(u)) /\ op'[t] = "none" /\ src'[t] = {} /\ dst'[t] = {}
  BY <1>0, LeaveFrame
<1>7. /\ \A v \in dst[t] : ref'[v] = k /\ v \in Slot
      /\ \A v \in Slot \ dst[t] : ref'[v] = ref[v]
  BY <1>0, <1>2, <1>4, <1>5, <1>6, SettleSlots
<1>8. Strong' = Strong \cup dst[t] /\ Strong \cap dst[t] = {} /\ Unowned' = Unowned
  BY <1>2, <1>5, <1>7 DEF Strong, Unowned, Holding
<1> QED
  BY <1>0, <1>1, <1>4, <1>5, <1>6, <1>8, RetainLifecycle

\* swift_unownedRetainStrongAndRelease takes a strong reference from a live
\* object.
LEMMA RetainStrongAndReleaseLifecycle ==
  ASSUME TypeOK, IInv, NEW t \in Thread, RetainStrongAndRelease(t)
  PROVE  [Lifecycle!Next]_LifecycleVars
<1> DEFINE w == [old[t] EXCEPT !.strong = @ + 1]
<1>0. /\ Commit(t, {"retainStrongAndRelease"}, w)
      /\ ref' = [v \in Slot |-> IF v \in dst[t] THEN "strong" ELSE ref[v]]
      /\ \E p : Proceed(t, "unownedDrop", p, Inline)
      /\ dst' = [dst EXCEPT ![t] = {}]
      /\ UNCHANGED <<alloc, src, owner, wref, deinitBy, abort>>
  BY DEF RetainStrongAndRelease
<1>1. w.side = old[t].side /\ w.deiniting = old[t].deiniting
  BY DEF TypeOK, ThreadType, Word
<1> HIDE DEF w
<1>3. w.side = Null
  BY <1>0, <1>1 DEF Commit, Attempts
<1>4. old[t] = Bits /\ Home' = Home /\ Bits' = w /\ ~Refused(t) /\ op[t] = "retainStrongAndRelease"
  BY <1>0, <1>3, CommitAtHome
<1>5. dst[t] # {} /\ Holding(dst[t], "empty") /\ dst[t] \subseteq Slot
  BY <1>4 DEF IInv, Local, Fits, One, TypeOK, ThreadType
<1>6. (\A u \in Thread \ {t} : SameThread(u)) /\ op'[t] = "unownedDrop"
  <2>1. \A u \in Thread \ {t} : src'[u] = src[u] /\ dst'[u] = dst[u]
    BY <1>0 DEF TypeOK, ThreadType
  <2> QED
    BY <1>0, <2>1, ProceedFrame DEF SameThread
<1>7. Strong' = Strong \cup dst[t] /\ Strong \cap dst[t] = {} /\ Unowned' = Unowned
  BY <1>0, <1>5 DEF Strong, Unowned, Holding
<1>8. op[t] \in StrongInc
  BY <1>4 DEF StrongInc, TryOps
<1> QED
  BY <1>0, <1>1, <1>4, <1>5, <1>6, <1>7, <1>8, RetainLifecycle

\* A release drops references; the last one begins deinit.
LEMMA DecrementStrongLifecycle ==
  ASSUME TypeOK, IInv, NEW t \in Thread, DecrementStrong(t)
  PROVE  [Lifecycle!Next]_LifecycleVars
<1> DEFINE unpinned == [old[t] EXCEPT !.pinned = @ /\ op[t] # "unpin"]
           w == IF Underflows(t)
                THEN [unpinned EXCEPT !.strong = 0, !.deiniting = TRUE]
                ELSE [unpinned EXCEPT !.strong = @ - Dec(t)]
<1>0. /\ Commit(t, StrongDec, w)
      /\ deinitBy' = IF Underflows(t) THEN t ELSE deinitBy
      /\ Settle(t, "empty") /\ Leave(t) /\ UNCHANGED <<alloc, wref, abort>>
  BY DEF DecrementStrong
<1>1. /\ w.side = old[t].side
      /\ w.deiniting = IF Underflows(t) THEN TRUE ELSE old[t].deiniting
  BY DEF TypeOK, ThreadType, Word
<1> HIDE DEF w, unpinned
<1>2. w.side = Null
  BY <1>0, <1>1 DEF Commit, Attempts
<1>3. old[t] = Bits /\ Home' = Home /\ Bits' = w /\ op[t] \in {"release", "unpin", "fromOne"}
  BY <1>0, <1>2, CommitAtHome DEF StrongDec
<1>4. /\ src[t] # {} /\ dst[t] = {} /\ \A v \in src[t] : ref[v] \in {"strong", "pinned"}
  BY <1>3 DEF IInv, Local, Fits, Holding, One
<1>5. (\A u \in Thread \ {t} : SameThread(u)) /\ op'[t] = "none" /\ src'[t] = {} /\ dst'[t] = {}
  BY <1>0, LeaveFrame
<1>6. /\ \A v \in src[t] : ref'[v] = "empty" /\ v \in Slot
      /\ \A v \in Slot \ src[t] : ref'[v] = ref[v]
  BY <1>0, <1>3, <1>4, <1>5, SettleSlots DEF Holding
<1>7. Strong' = Strong \ src[t] /\ src[t] \subseteq Strong /\ Unowned' = Unowned
  BY <1>4, <1>6 DEF Strong, Unowned
<1>8. StrongShare /\ alloc[Inline] = "live"
  <2>1. StrongShare
    BY <1>4, <1>7, StrongHasShare DEF IInv
  <2> QED
    BY <2>1, HeldMemory
<1>9. /\ Bits.deiniting => ~Underflows(t)
      /\ ~Bits.deiniting => (Underflows(t) <=> Strong' = {})
  <2>1. /\ Cardinality(Strong \ src[t]) = Cardinality(Strong) - Cardinality(src[t])
        /\ Cardinality(Strong) \in Nat /\ Cardinality(src[t]) \in Nat
        /\ Cardinality(src[t]) <= Cardinality(Strong)
        /\ Cardinality(Strong) = Cardinality(src[t]) => Strong = src[t]
    <3>1. Strong \in SUBSET Slot /\ src[t] \in SUBSET Strong
      BY <1>7 DEF Strong
    <3> QED
      BY <3>1, Lost
  <2>2. Dec(t) = Cardinality(src[t])
    BY <1>3 DEF Dec
  <2>3. StrongExact /\ Bits.strong \in Nat
    BY HomeType, WordFields DEF IInv
  <2>4. Underflows(t) <=> Bits.strong < Cardinality(src[t])
    BY <1>3, <2>2 DEF Underflows
  <2>5. CASE Bits.deiniting
    BY <2>1, <2>3, <2>4, <2>5 DEF StrongExact
  <2>6. CASE ~Bits.deiniting
    <3>1. Cardinality(Strong) = Bits.strong + 1
      BY <2>3, <2>6 DEF StrongExact
    <3>2. Underflows(t) => Strong' = {}
      BY <1>7, <2>1, <2>3, <2>4, <3>1
    <3>3. Strong' = {} => Cardinality(src[t]) = Cardinality(Strong)
      <4> HAVE Strong' = {}
      <4>1. Strong = src[t]
        BY <1>7
      <4> QED
        BY <4>1
    <3> QED
      BY <2>1, <2>3, <2>4, <2>6, <3>1, <3>2, <3>3
  <2> QED
    BY <2>5, <2>6
<1>10. ~Giving(t) /\ ~Giving(t)' /\ op[t] # "dealloc" /\ op'[t] # "dealloc"
  BY <1>3, <1>5 DEF Giving, WeakDec
<1>11. WeakHolders' = WeakHolders /\ (Home # Inline)' = (Home # Inline)
  BY <1>0, <1>3, <1>5, <1>10, SameHolders
<1>12. LifecycleState' = IF Strong' = {} THEN "DEINITING" ELSE LifecycleState
  <2>1. CASE Underflows(t)
    <3>1. ~Bits.deiniting /\ Strong' = {}
      BY <1>9, <2>1
    <3>2. Bits'.deiniting /\ StrongShare' /\ alloc'[Inline] = "live"
      <4>1. Bits'.deiniting /\ deinitBy' = t /\ t # Null
        BY <1>0, <1>1, <1>3, <2>1, SetsAssumption
      <4> QED
        BY <1>0, <1>8, <4>1 DEF StrongShare
    <3> QED
      BY <3>1, <3>2 DEF LifecycleState
  <2>2. CASE ~Underflows(t)
    <3>1. Bits'.deiniting = Bits.deiniting /\ deinitBy' = deinitBy
      BY <1>0, <1>1, <1>3, <2>2
    <3>2. StrongShare' <=> StrongShare
      BY <1>5, <1>10, <3>1, SameShare DEF SameThread
    <3>3. LifecycleState' = LifecycleState
      BY <1>0, <1>3, <3>1, <3>2, SameState
    <3>4. Strong' = {} => Bits.deiniting
      BY <1>9, <2>2
    <3>5. Bits.deiniting => LifecycleState = "DEINITING"
      BY <1>8 DEF LifecycleState
    <3> QED
      BY <3>3, <3>4, <3>5
  <2> QED
    BY <2>1, <2>2
<1>13. src[t] \in SUBSET (Slot \cup Thread)
  BY DEF TypeOK, ThreadType
<1>14. Lifecycle!Release(src[t])
  BY <1>4, <1>7, <1>11, <1>12 DEF Lifecycle!Release
<1> QED
  BY <1>13, <1>14 DEF Lifecycle!Next

\* An unowned reference is made from a reference that exists.
LEMMA IncrementUnownedLifecycle ==
  ASSUME TypeOK, IInv, NEW t \in Thread, IncrementUnowned(t)
  PROVE  [Lifecycle!Next]_LifecycleVars
<1> DEFINE w == [old[t] EXCEPT !.unowned = @ + Inc(t)]
<1>0. /\ Commit(t, {"unownedRetain"}, w) /\ Settle(t, "unowned") /\ Leave(t)
      /\ UNCHANGED <<alloc, wref, deinitBy, abort>>
  BY DEF IncrementUnowned
<1>1. w.side = old[t].side /\ w.deiniting = old[t].deiniting
  BY DEF TypeOK, ThreadType, Word
<1> HIDE DEF w
<1>2. w.side = Null
  BY <1>0, <1>1 DEF Commit, Attempts
<1>3. old[t] = Bits /\ Home' = Home /\ Bits' = w /\ op[t] = "unownedRetain"
  BY <1>0, <1>2, CommitAtHome
<1>4. src[t] = {} /\ dst[t] # {} /\ Holding(dst[t], "empty")
  BY <1>3 DEF IInv, Local, Fits
<1>5. (\A u \in Thread \ {t} : SameThread(u)) /\ op'[t] = "none" /\ src'[t] = {} /\ dst'[t] = {}
  BY <1>0, LeaveFrame
<1>6. /\ \A v \in dst[t] : ref'[v] = "unowned" /\ v \in Slot
      /\ \A v \in Slot \ dst[t] : ref'[v] = ref[v]
  BY <1>0, <1>3, <1>4, <1>5, SettleSlots
<1>7. Unowned' = Unowned \cup dst[t] /\ dst[t] \cap Unowned = {} /\ Strong' = Strong
  BY <1>4, <1>6 DEF Strong, Unowned, Holding
<1>8. StrongShare \/ Unowned # {}
  BY <1>3, OperationHolds DEF EntryOps
<1>9. alloc[Inline] = "live"
  BY <1>8, HeldMemory
<1>10. /\ LifecycleState \in {"LIVE", "DEINITING", "DEINITED"}
       /\ LifecycleState = "DEINITED" => Unowned # {}
  BY <1>8, <1>9, StateIs
<1>11. ~Giving(t) /\ ~Giving(t)' /\ op[t] # "dealloc" /\ op'[t] # "dealloc"
  BY <1>3, <1>5 DEF Giving, WeakDec
<1>12. StrongShare' <=> StrongShare
  BY <1>0, <1>1, <1>3, <1>5, <1>11, SameShare DEF SameThread
<1>13. LifecycleState' = LifecycleState /\ WeakHolders' = WeakHolders /\ (Home # Inline)' = (Home # Inline)
  BY <1>0, <1>1, <1>3, <1>5, <1>11, <1>12, SameState, SameHolders
<1>14. dst[t] \in SUBSET (Slot \cup Thread)
  BY DEF TypeOK, ThreadType
<1>15. Lifecycle!UnownedRetain(dst[t])
  BY <1>4, <1>7, <1>10, <1>13 DEF Lifecycle!UnownedRetain
<1> QED
  BY <1>14, <1>15 DEF Lifecycle!Next

\* Nobody has a strong reference once deinit() has returned.
LEMMA NoneIsStrong ==
  ASSUME TypeOK, IInv, Bits.deiniting, deinitBy = Null
  PROVE  Strong = {}
<1>1. ASSUME NEW v \in Strong PROVE FALSE
  <2>1. v \in Slot /\ owner[v] = Null /\ ref[v] # "empty"
    BY <1>1 DEF IInv, Deinit, Strong
  <2> QED
    BY <2>1 DEF IInv, Slots
<1> QED
  BY <1>1

\* An unowned release drops references; the last share leads to the free.
LEMMA DecrementUnownedLifecycle ==
  ASSUME TypeOK, IInv, NEW t \in Thread, DecrementUnowned(t)
  PROVE  [Lifecycle!Next]_LifecycleVars
<1> DEFINE w == [old[t] EXCEPT !.unowned = @ - Dec(t)]
<1>0. /\ Commit(t, UnownedDec, w) /\ Settle(t, "empty")
      /\ UNCHANGED <<alloc, wref, deinitBy, abort>>
  BY DEF DecrementUnowned
<1>1. w.side = old[t].side /\ w.deiniting = old[t].deiniting
  BY DEF TypeOK, ThreadType, Word
<1> HIDE DEF w
<1>2. w.side = Null
  BY <1>0, <1>1 DEF Commit, Attempts
<1>3. /\ old[t] = Bits /\ Home' = Home /\ Bits' = w /\ op[t] \in UnownedDec /\ pc[t] \in AtWord
      /\ loc[t] = Home
  BY <1>0, <1>2, CommitAtHome
<1>4. /\ alloc[Inline] = "live" /\ Bits.unowned \in Nat /\ Dec(t) \in Nat
      /\ op[t] = "dealloc" =>
           /\ src[t] = {} /\ Bits.deiniting /\ deinitBy = Null
           /\ \A u \in Thread : op[u] = "dealloc" => u = t
      /\ op[t] # "dealloc" => src[t] # {} /\ src[t] \subseteq Unowned /\ Dec(t) = Cardinality(src[t])
      /\ op[t] = "unownedDrop" => StrongShare
      /\ dst[t] = {} /\ Holding(src[t], "unowned")
  BY <1>3, UnownedShare
<1>5. op[t] = "unownedDrop" => Bits.unowned # Dec(t)
  <2> SUFFICES ASSUME op[t] = "unownedDrop" PROVE Bits.unowned # Dec(t)
    OBVIOUS
  <2>1. src[t] \subseteq Unowned /\ Dec(t) = Cardinality(src[t]) /\ StrongShare
    BY <1>4
  <2>2. Bits.unowned = Cardinality(Unowned) + 1
    BY <1>4, <2>1 DEF IInv, UnownedExact
  <2>3. Cardinality(src[t]) <= Cardinality(Unowned) /\ Cardinality(src[t]) \in Nat
        /\ Cardinality(Unowned) \in Nat
    BY <2>1, FiniteHolders, FiniteShares, FS_Subset
  <2> QED
    BY <2>1, <2>2, <2>3
<1>6. /\ \A u \in Thread \ {t} : SameThread(u)
      /\ op'[t] \in {"none", "unownedFree"} /\ src'[t] = {} /\ dst'[t] = {}
  <2>1. CASE Leave(t)
    BY <2>1, LeaveFrame
  <2>2. CASE ~Leave(t)
    <3>1. /\ \E p, l : Proceed(t, "unownedFree", p, l)
          /\ src' = [src EXCEPT ![t] = {}] /\ dst' = dst
      BY <1>3, <1>5, <2>2 DEF DecrementUnowned
    <3>2. /\ \A u \in Thread \ {t} : src'[u] = src[u] /\ dst'[u] = dst[u]
          /\ src'[t] = {} /\ dst'[t] = {}
      BY <1>4, <3>1 DEF TypeOK, ThreadType
    <3>3. /\ \A u \in Thread \ {t} : /\ pc'[u] = pc[u] /\ op'[u] = op[u]
                                     /\ loc'[u] = loc[u] /\ old'[u] = old[u]
          /\ op'[t] = "unownedFree"
      BY <3>1, ProceedFrame
    <3> QED
      BY <3>2, <3>3 DEF SameThread
  <2> QED
    BY <2>1, <2>2
<1>7. /\ \A v \in src[t] : ref'[v] = "empty" /\ v \in Slot
      /\ \A v \in Slot \ src[t] : ref'[v] = ref[v]
  BY <1>0, <1>3, <1>4, <1>6, SettleSlots DEF Holding
<1>8. Strong' = Strong /\ Unowned' = Unowned \ src[t]
  BY <1>4, <1>7 DEF Strong, Unowned, Holding
<1>9. ~Giving(t) /\ ~Giving(t)' /\ op'[t] # "dealloc"
  BY <1>3, <1>6 DEF Giving, UnownedDec, WeakDec
<1>10. WeakHolders' = WeakHolders /\ (Home # Inline)' = (Home # Inline)
  BY <1>0, <1>3, <1>6, <1>9, SameHolders
<1>11. CASE op[t] = "dealloc"
  <2>1. Unowned' = Unowned /\ Strong = {}
    BY <1>4, <1>8, <1>11, NoneIsStrong
  <2>2. LifecycleState = "DEINITING"
    <3>1. StrongShare
      BY <1>11 DEF StrongShare
    <3> QED
      BY <1>4, <1>11, <3>1 DEF LifecycleState
  <2>3. LifecycleState' = "DEINITED"
    <3>1. \A u \in Thread : op'[u] # "dealloc"
      BY <1>4, <1>6, <1>9, <1>11 DEF SameThread
    <3>2. Bits'.deiniting /\ deinitBy' = Null /\ alloc'[Inline] = "live"
      BY <1>0, <1>1, <1>3, <1>4, <1>11
    <3> QED
      BY <3>1, <3>2 DEF LifecycleState, StrongShare
  <2>4. Lifecycle!DeinitDone
    BY <1>8, <1>10, <2>1, <2>2, <2>3 DEF Lifecycle!DeinitDone
  <2> QED
    BY <2>4 DEF Lifecycle!Next
<1>12. CASE op[t] # "dealloc"
  <2>1. StrongShare' <=> StrongShare
    BY <1>0, <1>1, <1>3, <1>6, <1>9, <1>12, SameShare DEF SameThread
  <2>2. LifecycleState' = LifecycleState
    BY <1>0, <1>1, <1>3, <2>1, SameState
  <2>3. src[t] \in SUBSET (Slot \cup Thread)
    BY DEF TypeOK, ThreadType
  <2>4. Lifecycle!UnownedRelease(src[t])
    BY <1>4, <1>8, <1>10, <1>12, <2>2 DEF Lifecycle!UnownedRelease
  <2> QED
    BY <2>3, <2>4 DEF Lifecycle!Next
<1> QED
  BY <1>11, <1>12

\* swift_slowDealloc of an object frees it, when nothing but weak holders is
\* left.
LEMMA SlowDeallocLifecycle ==
  ASSUME TypeOK, IInv, NEW t \in Thread, swift_slowDealloc(t)
  PROVE  [Lifecycle!Next]_LifecycleVars
<1>1. /\ pc[t] = "free" /\ alloc' = [alloc EXCEPT ![Inline] = "freed"] /\ Leave(t)
      /\ UNCHANGED <<mem, slotVars, deinitBy>> /\ op[t] \in {"dealloc", "unownedFree"}
  BY DEF swift_slowDealloc, IInv, Local, Placed
<1>2. (\A u \in Thread \ {t} : SameThread(u)) /\ op'[t] = "none" /\ pc'[t] = "idle"
  BY <1>1, LeaveFrame
<1>3. ~Giving(t) /\ ~Giving(t)'
  BY <1>1, <1>2 DEF Giving, AtWord
<1>4. /\ Home' = Home /\ Bits' = Bits /\ Strong' = Strong /\ Unowned' = Unowned
      /\ (Home # Inline)' = (Home # Inline)
  BY <1>1 DEF Home, Bits, Strong, Unowned, slotVars
<1>5. WeakHolders' = WeakHolders
  BY <1>1, <1>2, <1>3, SameHolders DEF slotVars
<1>6. /\ Home \in Loc /\ Inline \in Loc /\ alloc \in [Loc -> {"none", "live", "freed"}]
      /\ alloc[Inline] = "live"
  BY <1>1, HomeType, OperationMemory DEF IInv, TypeOK, MemoryType
<1>7. alloc'[Inline] = "freed" /\ (Home # Inline => alloc'[Home] = alloc[Home])
  BY <1>1, <1>6
<1>8. LifecycleState' = IF Home # Inline /\ alloc[Home] = "live" THEN "FREED" ELSE "DEAD"
  BY <1>4, <1>7 DEF LifecycleState
<1>9. /\ Unowned = {} /\ Strong = {}
      /\ \/ LifecycleState = "DEINITED"
         \/ LifecycleState = "DEINITING" /\ ~(Home # Inline)
  <2>1. CASE op[t] = "dealloc"
    <3>1. Unowned = {} /\ Home = Inline /\ Strong = {}
      BY <1>1, <2>1, NobodyButDealloc
    <3>2. Bits.deiniting /\ StrongShare
      BY <2>1 DEF IInv, Deinit, StrongShare
    <3> QED
      BY <1>6, <3>1, <3>2 DEF LifecycleState
  <2>2. CASE op[t] = "unownedFree"
    <3>1. Bits.unowned = 0 /\ ~StrongShare
      BY <2>2 DEF IInv, FreeObject, Freeing
    <3>2. Bits.deiniting /\ deinitBy = Null
      BY <3>1 DEF StrongShare
    <3>3. Strong = {}
      BY <3>2, NoneIsStrong
    <3>4. Unowned = {}
      <4>1. Unowned # {} => Bits.unowned > 0
        BY HeldMemory
      <4> QED
        BY <3>1, <4>1
    <3> QED
      BY <1>6, <3>1, <3>2, <3>3, <3>4 DEF LifecycleState
  <2> QED
    BY <1>1, <2>1, <2>2
<1>10. Home # Inline /\ alloc[Home] # "live" => WeakHolders = {}
  <2> HAVE Home # Inline /\ alloc[Home] # "live"
  <2>1. WeakSlots = {} /\ WeakCarriers = {}
    BY HeldMemory
  <2> QED
    BY <2>1 DEF WeakHolders
<1>11. Lifecycle!Free
  BY <1>4, <1>5, <1>8, <1>9, <1>10 DEF Lifecycle!Free
<1> QED
  BY <1>11 DEF Lifecycle!Next

\* A weak reference is made from a live object or from another one.
LEMMA IncrementWeakLifecycle ==
  ASSUME TypeOK, IInv, NEW t \in Thread, IncrementWeak(t)
  PROVE  [Lifecycle!Next]_LifecycleVars
<1> DEFINE w == [old[t] EXCEPT !.weak = @ + 1]
<1>0. /\ Commit(t, {"weakInit", "weakAssign", "weakCopy"}, w) /\ StoreWeak(t, loc[t])
      /\ UNCHANGED <<alloc, deinitBy, abort>>
  BY DEF IncrementWeak
<1>1. w.side = old[t].side /\ w.deiniting = old[t].deiniting
  BY DEF TypeOK, ThreadType, Word
<1> HIDE DEF w
<1>2. w.side = Null
  BY <1>0, <1>1 DEF Commit, Attempts
<1>3. /\ old[t] = Bits /\ Home' = Home /\ Bits' = w /\ op[t] \in {"weakInit", "weakAssign", "weakCopy"}
      /\ pc[t] \in {"cas", "store"} /\ loc[t] = Home /\ alloc[Home] = "live"
  BY <1>0, <1>2, CommitAtHome
<1>4. Home # Inline
  BY <1>3 DEF IInv, Local, Placed, FormOps, EntryOps, AtWord
<1>5. CASE op[t] = "weakCopy"
  <2>1. WeakHolders # {}
    <3>1. PICK v \in Slot : owner[v] = t /\ wref[v] # Null
      BY <1>5 DEF IInv, Local, Relies
    <3> QED
      BY <3>1, WeakHeld
  <2>2. op[t] \in FormOps \cup {"weakCopy"}
    BY <1>5
  <2>3. Bits'.deiniting = Bits.deiniting
    BY <1>1, <1>3
  <2> QED
    BY <1>0, <1>3, <1>4, <2>1, <2>2, <2>3, StoreWeakLifecycle
<1>6. CASE op[t] # "weakCopy"
  <2>1. op[t] \in FormOps /\ Steady(t)
    BY <1>3, <1>6 DEF FormOps, Steady
  <2>2. PICK v \in Slot : owner[v] = t /\ ref[v] \in {"strong", "pinned"}
    BY <2>1 DEF IInv, Local, Relies, Owns
  <2>3. deinitBy = Null /\ v \in Strong /\ t # Null
    BY <2>1, <2>2, SetsAssumption DEF IInv, Local, Relies, Strong
  <2>4. ~Bits.deiniting
    BY <2>2, <2>3 DEF IInv, Deinit
  <2>5. alloc[Inline] = "live"
    BY <2>4, HeldMemory DEF StrongShare
  <2>6. LifecycleState = "LIVE"
    BY <2>4, <2>5 DEF LifecycleState
  <2> QED
    BY <1>0, <1>1, <1>3, <1>4, <2>1, <2>6, StoreWeakLifecycle
<1> QED
  BY <1>5, <1>6

\* What AfterDecrement says of the slots, as the life cycle needs it.
LEMMA OnlyWeakSlots ==
  ASSUME TypeOK, TypeOK',
         \A v \in Slot : ref[v] \in {"strong", "pinned", "unowned"}
                         \/ ref'[v] \in {"strong", "pinned", "unowned"} =>
                           ref'[v] = ref[v] /\ owner'[v] = owner[v]
  PROVE  \A v \in Slot : \/ ref'[v] = ref[v]
                         \/ ref[v] \in {"empty", "weak"} /\ ref'[v] \in {"empty", "weak"}
<1>1. /\ \A v \in Slot : ref[v] \in {"empty", "strong", "pinned", "unowned", "weak"}
      /\ \A v \in Slot : ref'[v] \in {"empty", "strong", "pinned", "unowned", "weak"}
  BY DEF TypeOK, SlotType
<1> QED
  BY <1>1

\* A weak release drops its holder.
LEMMA DecrementWeakLifecycle ==
  ASSUME TypeOK, TypeOK', IInv, NEW t \in Thread, DecrementWeak(t)
  PROVE  [Lifecycle!Next]_LifecycleVars
<1> DEFINE w == [old[t] EXCEPT !.weak = @ - 1]
<1>0. Commit(t, WeakDec, w) /\ UNCHANGED <<alloc, deinitBy, abort>>
  BY DEF DecrementWeak
<1>1. w.side = old[t].side /\ w.deiniting = old[t].deiniting
  BY DEF TypeOK, ThreadType, Word
<1> HIDE DEF w
<1>2. w.side = Null
  BY <1>0, <1>1 DEF Commit, Attempts
<1>3. /\ old[t] = Bits /\ Home' = Home /\ Bits' = w /\ op[t] \in WeakDec
      /\ pc[t] \in AtWord /\ loc[t] = Home
  BY <1>0, <1>2, CommitAtHome
<1>4. Home # Inline /\ op[t] # "dealloc"
  BY <1>3 DEF IInv, Local, Placed, EntryOps, WeakDec
<1>5. /\ \A u \in Thread \ {t} : SameThread(u)
      /\ op'[t] # "dealloc" /\ ~(op'[t] \in WeakDec /\ pc'[t] \in AtWord)
      /\ \A v \in Slot : ref[v] \in {"strong", "pinned", "unowned"}
                         \/ ref'[v] \in {"strong", "pinned", "unowned"} =>
                           ref'[v] = ref[v] /\ owner'[v] = owner[v]
      /\ op[t] = "unownedFree" => wref' = wref
  <2>1. CASE LastWeak(t)
    <3>1. /\ pc' = [pc EXCEPT ![t] = "delete"]
          /\ UNCHANGED <<op, loc, old, src, dst, slotVars>>
      BY <2>1 DEF DecrementWeak
    <3>2. (\A u \in Thread \ {t} : SameThread(u)) /\ pc'[t] = "delete" /\ op'[t] = op[t]
      BY <3>1 DEF SameThread, TypeOK, ThreadType
    <3> QED
      BY <1>4, <3>1, <3>2 DEF AtWord, slotVars
  <2>2. CASE ~LastWeak(t)
    <3>1. AfterDecrementWeak(t)
      BY <2>2 DEF DecrementWeak
    <3>2. op[t] = "unownedFree" => wref' = wref
      BY <3>1 DEF AfterDecrementWeak, slotVars
    <3> QED
      BY <1>0, <1>3, <1>4, <3>1, <3>2, AfterDecrement DEF Frame
  <2> QED
    BY <2>1, <2>2
<1>6. \A v \in Slot : \/ ref'[v] = ref[v]
                      \/ ref[v] \in {"empty", "weak"} /\ ref'[v] \in {"empty", "weak"}
  BY <1>5, OnlyWeakSlots
<1>7. CASE op[t] = "unownedFree"
  <2>1. ~Giving(t) /\ ~Giving(t)'
    BY <1>5, <1>7 DEF Giving
  <2> QED
    BY <1>0, <1>1, <1>3, <1>4, <1>5, <1>6, <1>7, <2>1, QuietLifecycle
<1>8. CASE op[t] # "unownedFree"
  <2>1. WeakHolders # {}
    BY <1>3, <1>8 DEF WeakHolders, WeakCarriers
  <2> QED
    BY <1>0, <1>1, <1>3, <1>4, <1>5, <1>6, <2>1, QuietLifecycle
<1> QED
  BY <1>7, <1>8

\* Deleting the entry ends the life cycle, after the object is freed.
LEMMA DeleteEntryLifecycle ==
  ASSUME TypeOK, TypeOK', IInv, NEW t \in Thread, DeleteEntry(t)
  PROVE  [Lifecycle!Next]_LifecycleVars
<1>1. /\ pc[t] = "delete" /\ alloc' = [alloc EXCEPT ![loc[t]] = "freed"]
      /\ AfterDecrementWeak(t) /\ UNCHANGED <<mem, deinitBy, abort>>
  BY DEF DeleteEntry, Discard
<1>2. op[t] \in WeakDec /\ loc[t] = Home /\ Home # Inline /\ op[t] # "dealloc"
  BY <1>1 DEF IInv, Local, Placed, EntryOps, WeakDec
<1>3. Home' = Home /\ Bits' = Bits
  BY <1>1 DEF Home, Bits
<1>4. /\ \A u \in Thread \ {t} : SameThread(u)
      /\ op'[t] # "dealloc" /\ ~(op'[t] \in WeakDec /\ pc'[t] \in AtWord)
      /\ \A v \in Slot : ref[v] \in {"strong", "pinned", "unowned"}
                         \/ ref'[v] \in {"strong", "pinned", "unowned"} =>
                           ref'[v] = ref[v] /\ owner'[v] = owner[v]
  BY <1>1, <1>2, <1>3, AfterDecrement DEF Frame
<1>5. \A v \in Slot : \/ ref'[v] = ref[v]
                      \/ ref[v] \in {"empty", "weak"} /\ ref'[v] \in {"empty", "weak"}
  BY <1>4, OnlyWeakSlots
<1>6. WeakSlots = {} /\ WeakCarriers = {} /\ alloc[Home] = "live"
  <2>1. Bits.weak = 0 /\ alloc[Home] = "live"
    BY <1>1, <1>2 DEF IInv, FreeEntry, EntryAllocated, EntryHeld
  <2>2. ~(Bits.weak > 0)
    BY <2>1
  <2> QED
    BY <1>2, <2>1, <2>2, HeldMemory
<1>7. wref' = wref
  <2>1. \A v \in Slot : wref[v] = Null
    BY <1>6 DEF WeakSlots
  <2>2. CASE op[t] # "weakTakeAssign"
    BY <1>1, <2>2 DEF AfterDecrementWeak, slotVars
  <2>3. CASE op[t] = "weakTakeAssign"
    <3>1. PICK s \in src[t], d \in dst[t] : Move(t, s, d)
      BY <1>1, <2>3 DEF AfterDecrementWeak
    <3>2. s \in Slot /\ d \in Slot
      BY <3>1 DEF TypeOK, ThreadType
    <3> QED
      BY <2>1, <3>1, <3>2, MoveNil
  <2> QED
    BY <2>2, <2>3
<1>8. ~Giving(t) /\ ~Giving(t)'
  BY <1>1, <1>4 DEF Giving, AtWord
<1>9. /\ WeakHolders' = WeakHolders /\ WeakHolders = {} /\ (Home # Inline)' = (Home # Inline)
      /\ Strong' = Strong /\ Unowned' = Unowned
  <2>1. WeakHolders' = WeakHolders
    BY <1>4, <1>7, <1>8, SameHolders
  <2>2. Strong' = Strong /\ Unowned' = Unowned
    BY <1>5 DEF Strong, Unowned
  <2> QED
    BY <1>3, <1>6, <2>1, <2>2 DEF WeakHolders
<1>10. StrongShare' <=> StrongShare
  BY <1>1, <1>2, <1>3, <1>4, SameShare DEF SameThread
<1>11. alloc'[Inline] = alloc[Inline] /\ alloc'[Home] = "freed"
  <2>1. Home \in Loc /\ Inline \in Loc /\ alloc \in [Loc -> {"none", "live", "freed"}]
    BY HomeType DEF IInv, TypeOK, MemoryType
  <2> QED
    BY <1>1, <1>2, <2>1
<1>12. CASE alloc[Inline] = "live"
  <2>1. LifecycleState' = LifecycleState
    BY <1>3, <1>10, <1>11, <1>12 DEF LifecycleState
  <2> QED
    BY <1>9, <2>1 DEF LifecycleVars
<1>13. CASE alloc[Inline] # "live"
  <2>1. LifecycleState = "FREED" /\ LifecycleState' = "DEAD"
    BY <1>2, <1>3, <1>6, <1>11, <1>13 DEF LifecycleState
  <2>2. Lifecycle!DeleteSideTable
    BY <1>9, <2>1 DEF Lifecycle!DeleteSideTable
  <2> QED
    BY <2>2 DEF Lifecycle!Next
<1> QED
  BY <1>12, <1>13

\* Every step inside the runtime is a step of the life cycle or a stutter.
LEMMA StepLifecycle ==
  ASSUME TypeOK, TypeOK', IInv, NEW t \in Thread, Step(t)
  PROVE  [Lifecycle!Next]_LifecycleVars
<1>1. CASE \/ Load(t) \/ Retry(t) \/ ForwardToSideTable(t) \/ Refuse(t) \/ Query(t) \/ Overflow(t)
  BY <1>1, ThinkLifecycle
<1>2. CASE IncrementStrong(t) \/ RetainStrongAndRelease(t) \/ DecrementStrong(t)
  BY <1>2, IncrementStrongLifecycle, RetainStrongAndReleaseLifecycle, DecrementStrongLifecycle
<1>3. CASE IncrementUnowned(t) \/ DecrementUnowned(t) \/ swift_slowDealloc(t)
  BY <1>3, IncrementUnownedLifecycle, DecrementUnownedLifecycle, SlowDeallocLifecycle
<1>4. CASE Preflight(t) \/ Install(t) \/ CheckDeiniting(t)
  BY <1>4, PreflightLifecycle, InstallLifecycle, CheckLifecycle
<1>5. CASE IncrementWeak(t) \/ DecrementWeak(t) \/ DeleteEntry(t)
  BY <1>5, IncrementWeakLifecycle, DecrementWeakLifecycle, DeleteEntryLifecycle
<1> QED
  BY <1>1, <1>2, <1>3, <1>4, <1>5 DEF Step

\* Every step is a step of the life cycle or a stutter.
LEMMA NextLifecycle ==
  ASSUME TypeOK, TypeOK', IInv, [Next]_vars
  PROVE  [Lifecycle!Next]_LifecycleVars
<1>1. ASSUME NEW t \in Thread,
             EntryPoint(t) \/ Step(t) \/ swift_deallocObject(t) \/ \E u \in Thread : Transfer(t, u)
      PROVE  [Lifecycle!Next]_LifecycleVars
  BY <1>1, EntryPointLifecycle, StepLifecycle, DeallocObjectLifecycle, TransferLifecycle
<1>2. CASE UNCHANGED vars
  <2>1. UNCHANGED <<mem, alloc, pc, op, ref, wref, deinitBy>>
    BY <1>2 DEF vars, threadVars, slotVars
  <2>2. /\ Home' = Home /\ Strong' = Strong /\ Unowned' = Unowned
        /\ StrongShare' = StrongShare /\ WeakHolders' = WeakHolders
    BY <2>1 DEF Home, Bits, Strong, Unowned, StrongShare, WeakHolders, WeakSlots, WeakCarriers
  <2>3. LifecycleState' = LifecycleState
    BY <2>1, <2>2 DEF LifecycleState, Bits
  <2> QED
    BY <2>2, <2>3 DEF LifecycleVars
<1> QED
  BY <1>1, <1>2 DEF Next, Terminated

\* A new object is live.
LEMMA InitLifecycle ==
  ASSUME Init
  PROVE  Lifecycle!Init
<1>1. PICK t \in Thread, v \in Slot :
        /\ mem = [l \in Loc |-> RefCountBits(0, IF l = Inline THEN 1 ELSE 0)]
        /\ alloc = [l \in Loc |-> IF l = Inline THEN "live" ELSE "none"]
        /\ op = [u \in Thread |-> "none"]
        /\ ref = [w \in Slot |-> IF w = v THEN "strong" ELSE "empty"]
        /\ wref = [w \in Slot |-> Null]
  BY DEF Init
<1>2. Inline \in Loc
  BY DEF Loc
<1>3. mem[Inline].side = Null /\ ~mem[Inline].deiniting /\ alloc[Inline] = "live"
  BY <1>1, <1>2 DEF RefCountBits
<1>4. Home = Inline /\ LifecycleState = "LIVE"
  BY <1>3 DEF Home, Bits, LifecycleState
<1>5. Strong = {v} /\ Unowned = {}
  BY <1>1 DEF Strong, Unowned
<1>6. WeakHolders = {}
  BY <1>1 DEF WeakHolders, WeakSlots, WeakCarriers, WeakDec
<1> QED
  BY <1>4, <1>5, <1>6 DEF Lifecycle!Init

\* The packed words, the side table and the races of RefCount.h implement the
\* life cycle that the comment at its head describes: every step of a
\* disciplined program is a step of ObjectLifecycle or changes nothing there.
\* In particular deinit runs once, no strong reference is made after it began
\* except by deinit itself, and an object is freed only after its deinit.
THEOREM ObjectsLiveAsPromised ==
  ASSUME TakeWhileHeld, NonAtomicRule # "soleStrong"
  PROVE  Spec => ImplementsLifecycle
<1>1. Init => Lifecycle!Init
  BY InitLifecycle
<1>2. TypeOK /\ TypeOK' /\ IInv /\ [Next]_vars => [Lifecycle!Next]_LifecycleVars
  BY NextLifecycle
<1>3. Disciplined
  BY DEF Disciplined
<1>4. Spec => [](TypeOK /\ WeakOpsAtEntry /\ IInv)
  BY <1>3, Invariance
<1> QED
  BY <1>1, <1>2, <1>4, PTL DEF Spec, ImplementsLifecycle, Lifecycle!Spec, Lifecycle!vars, LifecycleVars

-----------------------------------------------------------------------------
(* isUniquelyReferenced.                                                   *)

\* The step of t does not leave it with a word that isUniquelyReferenced has
\* just read.
MovesOn(t) ==
  /\ \A u \in Thread \ {t} : SameThread(u)
  /\ pc'[t] \notin {"cas", "store"} \/ op'[t] # "isUnique"

\* Entering the runtime answers no query.
LEMMA EnterMovesOn ==
  ASSUME TypeOK, NEW t \in Thread, NEW o, NEW l, NEW S, NEW D,
         NEW p \in {"load", "nload", "preflight", "check"}, Enter(t, o, p, l, S, D)
  PROVE  MovesOn(t)
<1>1. (\A u \in Thread \ {t} : SameThread(u)) /\ pc'[t] = p
  BY EnterFrame
<1> QED
  BY <1>1 DEF MovesOn

\* Nor does leaving it.
LEMMA LeaveMovesOn ==
  ASSUME TypeOK, NEW t \in Thread, Leave(t) \/ \E reason : Abort(t, reason)
  PROVE  MovesOn(t)
<1>1. (\A u \in Thread \ {t} : SameThread(u)) /\ pc'[t] \in {"idle", "aborted"}
  BY LeaveFrame, AbortFrame
<1> QED
  BY <1>1 DEF MovesOn

\* Nor does going on to the next stage of an operation.
LEMMA ProceedMovesOn ==
  ASSUME TypeOK, NEW t \in Thread, NEW o, NEW l,
         NEW p \in {"load", "nload", "preflight", "check", "free"}, Proceed(t, o, p, l),
         \A u \in Thread \ {t} : src'[u] = src[u] /\ dst'[u] = dst[u]
  PROVE  MovesOn(t)
<1>1. /\ \A u \in Thread \ {t} : /\ pc'[u] = pc[u] /\ op'[u] = op[u]
                                 /\ loc'[u] = loc[u] /\ old'[u] = old[u]
      /\ pc'[t] = p
  BY ProceedFrame
<1> QED
  BY <1>1 DEF MovesOn, SameThread

\* Nor does storing a weak reference.
LEMMA StoreWeakMovesOn ==
  ASSUME TypeOK, NEW t \in Thread, NEW e, StoreWeak(t, e)
  PROVE  MovesOn(t)
<1>1. \/ Leave(t)
      \/ /\ \E l : Proceed(t, "weakDestroy", "load", l)
         /\ dst' = [dst EXCEPT ![t] = {}] /\ src' = src
  BY DEF StoreWeak
<1>2. CASE \E l : Proceed(t, "weakDestroy", "load", l)
           /\ dst' = [dst EXCEPT ![t] = {}] /\ src' = src
  <2>1. \A u \in Thread \ {t} : src'[u] = src[u] /\ dst'[u] = dst[u]
    BY <1>2 DEF TypeOK, ThreadType
  <2> QED
    BY <1>2, <2>1, ProceedMovesOn
<1> QED
  BY <1>1, <1>2, LeaveMovesOn

\* Nor does going on in the side table.
LEMMA UseMovesOn ==
  ASSUME TypeOK, NEW t \in Thread, NEW e, UseSideTable(t, e)
  PROVE  MovesOn(t)
<1>1. \/ /\ \E l : \E p \in {"load", "check"} : Proceed(t, op[t], p, l)
         /\ UNCHANGED <<src, dst>>
      \/ Abort(t, "unownedOverflow")
      \/ StoreWeak(t, Null)
  BY DEF UseSideTable
<1>2. CASE /\ \E l : \E p \in {"load", "check"} : Proceed(t, op[t], p, l)
           /\ UNCHANGED <<src, dst>>
  BY <1>2, ProceedMovesOn
<1> QED
  BY <1>1, <1>2, LeaveMovesOn, StoreWeakMovesOn

\* Nor does what follows a weak release.
LEMMA AfterDecrementMovesOn ==
  ASSUME TypeOK, NEW t \in Thread, AfterDecrementWeak(t)
  PROVE  MovesOn(t)
<1>1. \/ Leave(t)
      \/ /\ \E o, l : \E p \in {"load", "free"} : Proceed(t, o, p, l)
         /\ UNCHANGED <<src, dst>>
      \/ /\ \E l : Proceed(t, "weakCopy", "check", l)
         /\ src' = [src EXCEPT ![t] = {}] /\ dst' = dst
  BY DEF AfterDecrementWeak
<1>2. CASE /\ \E o, l : \E p \in {"load", "free"} : Proceed(t, o, p, l)
           /\ UNCHANGED <<src, dst>>
  BY <1>2, ProceedMovesOn
<1>3. CASE /\ \E l : Proceed(t, "weakCopy", "check", l)
           /\ src' = [src EXCEPT ![t] = {}] /\ dst' = dst
  <2>1. \A u \in Thread \ {t} : src'[u] = src[u] /\ dst'[u] = dst[u]
    BY <1>3 DEF TypeOK, ThreadType
  <2> QED
    BY <1>3, <2>1, ProceedMovesOn
<1> QED
  BY <1>1, <1>2, <1>3, LeaveMovesOn

\* No entry point changes a word that a thread has read.
LEMMA EntryPointMovesOn ==
  ASSUME TypeOK, NEW t \in Thread, EntryPoint(t)
  PROVE  MovesOn(t)
<1>0. ASSUME NEW o, NEW S, NEW D, Call(t, o, S, D)
      PROVE  MovesOn(t)
  BY <1>0, EnterMovesOn DEF Call
<1>1. CASE \/ swift_retain_n(t) \/ swift_release_n(t) \/ swift_tryPin(t) \/ swift_unpin(t)
           \/ swift_tryRetain(t) \/ swift_unownedRetain_n(t) \/ swift_unownedRelease_n(t)
  BY <1>0, <1>1 DEF swift_retain_n, swift_release_n, swift_tryPin, swift_unpin,
       swift_tryRetain, swift_unownedRetain_n, swift_unownedRelease_n
<1>2. CASE \/ swift_unownedRetainStrong(t) \/ swift_unownedRetainStrongAndRelease(t)
           \/ swift_unownedCheck(t) \/ swift_isUniquelyReferenced_native(t)
  BY <1>0, <1>2 DEF swift_unownedRetainStrong, swift_unownedRetainStrongAndRelease,
       swift_unownedCheck, swift_isUniquelyReferenced_native
<1>3. CASE \/ swift_setDeallocating(t) \/ swift_weakInit(t) \/ swift_weakAssign(t)
           \/ swift_weakLoadStrong(t) \/ swift_weakTakeStrong(t) \/ swift_weakCopyAssign(t)
  <2>1. \E o, l, S, D : \E p \in {"load", "nload", "preflight", "check"} : Enter(t, o, p, l, S, D)
    <3>1. CASE swift_setDeallocating(t)
      BY <3>1 DEF swift_setDeallocating
    <3>2. CASE swift_weakInit(t)
      BY <3>2 DEF swift_weakInit
    <3>3. CASE swift_weakAssign(t)
      BY <3>3 DEF swift_weakAssign
    <3>4. CASE swift_weakLoadStrong(t)
      BY <3>4 DEF swift_weakLoadStrong
    <3>5. CASE swift_weakTakeStrong(t)
      BY <3>5 DEF swift_weakTakeStrong
    <3>6. CASE swift_weakCopyAssign(t)
      BY <3>6 DEF swift_weakCopyAssign
    <3> QED
      BY <1>3, <3>1, <3>2, <3>3, <3>4, <3>5, <3>6
  <2> QED
    BY <2>1, EnterMovesOn
<1>4. CASE swift_weakDestroy(t)
  <2>1. /\ pc[t] = "idle" /\ UNCHANGED <<src, dst>>
        /\ UNCHANGED <<pc, op, loc, old>> \/ \E l : Proceed(t, "weakDestroy", "load", l)
    BY <1>4 DEF swift_weakDestroy
  <2>2. CASE UNCHANGED <<pc, op, loc, old>>
    BY <2>1, <2>2 DEF MovesOn, SameThread
  <2> QED
    BY <2>1, <2>2, ProceedMovesOn
<1>5. CASE swift_weakCopyInit(t) \/ swift_weakTakeInit(t) \/ swift_weakTakeAssign(t)
  <2>1. \/ pc[t] = "idle" /\ UNCHANGED threadVars
        \/ \E o, l, S, D : \E p \in {"load", "check"} : Enter(t, o, p, l, S, D)
    <3>1. CASE swift_weakCopyInit(t)
      BY <3>1 DEF swift_weakCopyInit
    <3>2. CASE swift_weakTakeInit(t)
      BY <3>2 DEF swift_weakTakeInit
    <3>3. CASE swift_weakTakeAssign(t)
      BY <3>3 DEF swift_weakTakeAssign
    <3> QED
      BY <1>5, <3>1, <3>2, <3>3
  <2>2. CASE pc[t] = "idle" /\ UNCHANGED threadVars
    BY <2>2 DEF MovesOn, SameThread, threadVars
  <2> QED
    BY <2>1, <2>2, EnterMovesOn
<1> QED
  BY <1>1, <1>2, <1>3, <1>4, <1>5 DEF EntryPoint

\* Only the load of a query makes it answer.
LEMMA StepMovesOn ==
  ASSUME TypeOK, NEW t \in Thread, Step(t), ~Load(t)
  PROVE  MovesOn(t)
<1>1. CASE Retry(t)
  BY <1>1 DEF Retry, Attempts, Queries, MovesOn, SameThread, TypeOK, ThreadType
<1>2. CASE ForwardToSideTable(t)
  <2>1. (\E l : \E p \in {"load", "nload"} : Proceed(t, op[t], p, l)) /\ UNCHANGED <<src, dst>>
    BY <1>2 DEF ForwardToSideTable, Again
  <2> QED
    BY <2>1, ProceedMovesOn
<1>3. CASE Refuse(t) \/ Query(t)
  BY <1>3, LeaveMovesOn DEF Refuse, Query
<1>4. CASE Overflow(t)
  BY <1>4, LeaveMovesOn, ProceedMovesOn DEF Overflow
<1>5. CASE IncrementStrong(t) \/ DecrementStrong(t) \/ IncrementUnowned(t) \/ swift_slowDealloc(t)
  BY <1>5, LeaveMovesOn DEF IncrementStrong, DecrementStrong, IncrementUnowned, swift_slowDealloc
<1>6. CASE RetainStrongAndRelease(t)
  <2>1. /\ \E p \in {"load", "nload"} : Proceed(t, "unownedDrop", p, Inline)
        /\ \A u \in Thread \ {t} : src'[u] = src[u] /\ dst'[u] = dst[u]
    BY <1>6 DEF RetainStrongAndRelease, Again, TypeOK, ThreadType
  <2> QED
    BY <2>1, ProceedMovesOn
<1>7. CASE DecrementUnowned(t)
  <2>1. CASE Leave(t)
    BY <2>1, LeaveMovesOn
  <2>2. CASE ~Leave(t)
    <3>1. /\ \E o, l : \E p \in {"load", "nload", "free"} : Proceed(t, o, p, l)
          /\ src' = [src EXCEPT ![t] = {}] /\ dst' = dst
      BY <1>7, <2>2 DEF DecrementUnowned, Again
    <3>2. \A u \in Thread \ {t} : src'[u] = src[u] /\ dst'[u] = dst[u]
      BY <3>1 DEF TypeOK, ThreadType
    <3> QED
      BY <3>1, <3>2, ProceedMovesOn
  <2> QED
    BY <2>1, <2>2
<1>8. CASE Preflight(t)
  <2>1. \/ \E e : UseSideTable(t, e)
        \/ /\ \E e : loc' = [loc EXCEPT ![t] = e]
           /\ old' = [old EXCEPT ![t] = mem[Inline]]
           /\ pc' = [pc EXCEPT ![t] = "install"]
           /\ UNCHANGED <<op, src, dst>>
    BY <1>8 DEF Preflight
  <2> QED
    BY <2>1, UseMovesOn DEF MovesOn, SameThread, TypeOK, ThreadType
<1>9. CASE Install(t)
  <2>1. \/ \E e : UseSideTable(t, e)
        \/ /\ pc[t] = "install" /\ old' = [old EXCEPT ![t] = mem[Inline]]
           /\ UNCHANGED <<pc, op, loc, src, dst>>
    BY <1>9 DEF Install
  <2> QED
    BY <2>1, UseMovesOn DEF MovesOn, SameThread, TypeOK, ThreadType
<1>10. CASE CheckDeiniting(t)
  <2>1. \/ StoreWeak(t, Null)
        \/ Proceed(t, op[t], "load", loc[t]) /\ UNCHANGED <<src, dst>>
    BY <1>10 DEF CheckDeiniting
  <2> QED
    BY <2>1, StoreWeakMovesOn, ProceedMovesOn
<1>11. CASE IncrementWeak(t)
  BY <1>11, StoreWeakMovesOn DEF IncrementWeak
<1>12. CASE DecrementWeak(t)
  <2>1. \/ AfterDecrementWeak(t)
        \/ pc' = [pc EXCEPT ![t] = "delete"] /\ UNCHANGED <<op, loc, old, src, dst>>
    BY <1>12 DEF DecrementWeak
  <2> QED
    BY <2>1, AfterDecrementMovesOn DEF MovesOn, SameThread, TypeOK, ThreadType
<1>13. CASE DeleteEntry(t)
  BY <1>13, AfterDecrementMovesOn DEF DeleteEntry
<1> QED
  BY <1>1, <1>2, <1>3, <1>4, <1>5, <1>6, <1>7, <1>8, <1>9, <1>10, <1>11, <1>12, <1>13 DEF Step

\* A thread that has no reference at all cannot make one, whatever it is
\* still doing in the runtime.
LEMMA EmptyHanded ==
  ASSUME TypeOK, IInv, NEW u \in Thread, ~Bits.deiniting, deinitBy = Null,
         \A v \in Slot : owner[v] = u => ref[v] = "empty",
         EntryPoint(u) \/ Step(u) \/ swift_deallocObject(u) \/ \E w \in Thread : Transfer(u, w)
  PROVE  Strong' = Strong /\ \A v \in Strong : owner'[v] = owner[v]
<1>0. u # Null /\ Fits(u) /\ Relies(u) /\ Slots /\ Placed(u)
  BY SetsAssumption DEF IInv, Local
<1>1. /\ \A K : "empty" \notin K => Owns(u, K) = {}
      /\ ~HoldsStrong(u) /\ ~HoldsObject(u)
  BY <1>0 DEF Owns, HoldsStrong, HoldsObject
<1>2. /\ Owns(u, {"strong"}) = {} /\ Owns(u, {"pinned"}) = {} /\ Owns(u, {"unowned"}) = {}
      /\ Owns(u, {"weak"}) = {} /\ Owns(u, {"strong", "pinned"}) = {}
  BY <1>1
<1>3. ~swift_deallocObject(u)
  BY <1>0 DEF swift_deallocObject
<1>4. ~EntryPoint(u)
  <2>1. Batches(Owns(u, {"strong"})) = {} /\ Batches(Owns(u, {"unowned"})) = {}
    BY <1>2 DEF Batches
  <2>2. /\ ~swift_retain_n(u) /\ ~swift_release_n(u) /\ ~swift_tryPin(u) /\ ~swift_unpin(u)
        /\ ~swift_tryRetain(u) /\ ~swift_unownedRetain_n(u) /\ ~swift_unownedRelease_n(u)
    BY <1>1, <1>2, <2>1 DEF swift_retain_n, swift_release_n, swift_tryPin, swift_unpin,
         swift_tryRetain, swift_unownedRetain_n, swift_unownedRelease_n
  <2>3. /\ ~swift_unownedRetainStrong(u) /\ ~swift_unownedRetainStrongAndRelease(u)
        /\ ~swift_unownedCheck(u) /\ ~swift_isUniquelyReferenced_native(u)
        /\ ~swift_setDeallocating(u) /\ ~swift_weakInit(u) /\ ~swift_weakAssign(u)
    BY <1>1, <1>2 DEF swift_unownedRetainStrong, swift_unownedRetainStrongAndRelease,
         swift_unownedCheck, swift_isUniquelyReferenced_native, swift_setDeallocating,
         swift_weakInit, swift_weakAssign
  <2>4. /\ ~swift_weakLoadStrong(u) /\ ~swift_weakTakeStrong(u) /\ ~swift_weakDestroy(u)
        /\ ~swift_weakCopyInit(u) /\ ~swift_weakTakeInit(u) /\ ~swift_weakCopyAssign(u)
        /\ ~swift_weakTakeAssign(u)
    BY <1>2 DEF swift_weakLoadStrong, swift_weakTakeStrong, swift_weakDestroy, swift_weakCopyInit,
         swift_weakTakeInit, swift_weakCopyAssign, swift_weakTakeAssign
  <2> QED
    BY <2>2, <2>3, <2>4 DEF EntryPoint
<1>5. ASSUME NEW w \in Thread, Transfer(u, w)
      PROVE  Strong' = Strong /\ \A v \in Strong : owner'[v] = owner[v]
  <2>1. PICK x \in Slot : owner[x] = u /\ owner' = [owner EXCEPT ![x] = w] /\ ref' = ref
    BY <1>5 DEF Transfer
  <2>2. ref[x] = "empty"
    BY <2>1
  <2> QED
    BY <2>1, <2>2 DEF Strong, TypeOK, SlotType
<1>6. CASE Step(u)
  <2>1. \A v \in src[u] \cup dst[u] : v \in Slot /\ owner[v] = u /\ ref[v] = "empty"
    BY <1>0 DEF Slots, TypeOK, ThreadType
  <2>2. ~(\E v \in Slot : owner[v] = u /\ wref[v] # Null)
    BY <1>0 DEF Slots
  <2>3. op[u] \in {"none", "weakDestroy", "unownedFree"}
    <3>1. op[u] \notin {"retain", "tryPin", "weakTake"} \cup FormOps
      BY <1>0, <1>1 DEF Relies
    <3>2. op[u] \notin {"tryRetain", "unownedRetain", "unownedRetainStrong", "unownedCheck",
                        "isUnique", "unownedDrop", "weakLoad", "weakCopy"}
      BY <1>0, <1>1, <1>2, <2>2 DEF Relies, Steady
    <3>3. op[u] # "dealloc"
      BY DEF IInv, Deinit
    <3>4. op[u] \notin {"release", "fromOne", "unpin", "unownedRelease", "retainStrongAndRelease",
                        "weakCopyAssign", "weakTakeAssign"}
      BY <1>0, <2>1 DEF Fits, Holding, One
    <3>5. op[u] \in Ops
      BY DEF TypeOK, ThreadType
    <3> QED
      BY <3>1, <3>2, <3>3, <3>4, <3>5
         DEF Ops, TryOps, StrongDec, UnownedDec, WeakDec, Queries, FormOps
  <2>4. UNCHANGED slotVars
    <3>1. CASE Load(u) \/ ForwardToSideTable(u) \/ Retry(u) \/ swift_slowDealloc(u)
      BY <3>1 DEF Load, ForwardToSideTable, Retry, swift_slowDealloc
    <3>2. ~Refuse(u) /\ ~Query(u) /\ ~Overflow(u)
      BY <2>3 DEF Refuse, Refused, Query, Overflow, Overflows, TryOps, Queries, StrongInc
    <3>3. /\ ~IncrementStrong(u) /\ ~RetainStrongAndRelease(u) /\ ~DecrementStrong(u)
          /\ ~IncrementUnowned(u) /\ ~DecrementUnowned(u) /\ ~IncrementWeak(u)
      BY <2>3 DEF IncrementStrong, RetainStrongAndRelease, DecrementStrong, IncrementUnowned,
           DecrementUnowned, IncrementWeak, Commit, StrongInc, StrongDec, UnownedDec, TryOps
    <3>4. ~Preflight(u) /\ ~Install(u) /\ ~CheckDeiniting(u)
      BY <1>0, <2>3 DEF Placed, Preflight, Install, CheckDeiniting, FormOps
    <3>5. CASE DecrementWeak(u) \/ DeleteEntry(u)
      BY <2>3, <3>5 DEF DecrementWeak, DeleteEntry, AfterDecrementWeak
    <3> QED
      BY <1>6, <3>1, <3>2, <3>3, <3>4, <3>5 DEF Step
  <2> QED
    BY <2>4 DEF slotVars, Strong
<1> QED
  BY <1>3, <1>4, <1>5, <1>6

\* When a query comes to say unique its thread is the sole holder, and stays
\* so while all other references are its own.
LEMMA UniqueStep ==
  ASSUME TypeOK, IInv, [Next]_vars, NEW t \in Thread, SaysUnique(t)',
         \/ ~SaysUnique(t)
         \/ Sole(t) /\ \A v \in Slot : ref[v] \in {"weak", "unowned"} => owner[v] = t
  PROVE  Sole(t)'
<1>1. ASSUME Load(t)
      PROVE  Sole(t)'
  <2>1. /\ pc[t] \in {"load", "nload"} /\ op'[t] = op[t] /\ pc[t] \in AtWord
        /\ UNCHANGED <<mem, slotVars>>
    BY <1>1 DEF Load, AtWord
  <2>2. old'[t] = mem[loc[t]]
    <3>1. Readable(loc[t]) = {mem[loc[t]]}
      BY <2>1, ReadsWord
    <3> QED
      BY <1>1, <3>1 DEF Load, TypeOK, ThreadType
  <2>3. op[t] = "isUnique" /\ mem[loc[t]].side = Null /\ mem[loc[t]].strong = 0
    BY <2>1, <2>2 DEF SaysUnique
  <2>4. mem[loc[t]] = Bits
    <3>1. loc[t] \in {Inline, Home}
      BY <2>1 DEF IInv, Local, Placed
    <3> QED
      BY <2>3, <3>1 DEF Home, Bits
  <2>5. PICK v \in Slot : owner[v] = t /\ ref[v] \in {"strong", "pinned"}
    BY <2>3 DEF IInv, Local, Relies, Steady, Owns
  <2>6. deinitBy = Null /\ v \in Strong /\ t # Null
    BY <2>3, <2>5, SetsAssumption DEF IInv, Local, Relies, Steady, Strong
  <2>7. ~Bits.deiniting
    BY <2>5, <2>6 DEF IInv, Deinit
  <2>8. Cardinality(Strong) = 1
    BY <2>3, <2>4, <2>7 DEF IInv, StrongExact
  <2>9. Strong = {v}
    <3>1. Strong \in SUBSET Slot /\ {v} \in SUBSET Strong
      BY <2>6 DEF Strong
    <3>2. Cardinality({v}) = 1
      BY FS_Singleton
    <3> QED
      BY <2>8, <3>1, <3>2, Lost
  <2>10. Strong' = Strong /\ owner' = owner
    BY <2>1 DEF slotVars, Strong
  <2> QED
    BY <2>5, <2>8, <2>9, <2>10 DEF Sole
<1>2. ASSUME MovesOn(t)
      PROVE  FALSE
  BY <1>2 DEF MovesOn, SaysUnique, Decides
<1>3. ASSUME NEW u \in Thread \ {t}, SameThread(t),
             EntryPoint(u) \/ Step(u) \/ swift_deallocObject(u) \/ \E w \in Thread : Transfer(u, w)
      PROVE  Sole(t)'
  <2>1. SaysUnique(t) /\ op[t] = "isUnique"
    BY <1>3 DEF SaysUnique, SameThread, Decides
  <2>2. Sole(t) /\ \A v \in Slot : ref[v] \in {"weak", "unowned"} => owner[v] = t
    BY <2>1
  <2>3. deinitBy = Null
    BY <2>1 DEF IInv, Local, Relies, Steady
  <2>4. ~Bits.deiniting
    <3>1. PICK v \in Slot : owner[v] = t /\ ref[v] \in {"strong", "pinned"}
      BY <2>1 DEF IInv, Local, Relies, Steady, Owns
    <3>2. v \in Strong /\ t # Null
      BY <3>1, SetsAssumption DEF Strong
    <3> QED
      BY <2>3, <3>1, <3>2 DEF IInv, Deinit
  <2>5. \A v \in Slot : owner[v] = u => ref[v] = "empty"
    <3>1. \A v \in Slot : ref[v] \in {"empty", "strong", "pinned", "unowned", "weak"}
      BY DEF TypeOK, SlotType
    <3>2. \A v \in Slot : ref[v] \in {"strong", "pinned"} => owner[v] = t
      BY <2>2 DEF Sole, Strong
    <3> QED
      BY <2>2, <3>1, <3>2
  <2>6. Strong' = Strong /\ \A v \in Strong : owner'[v] = owner[v]
    BY <1>3, <2>3, <2>4, <2>5, EmptyHanded
  <2> QED
    BY <2>2, <2>6 DEF Sole
<1>4. ASSUME NEW u \in Thread,
             EntryPoint(u) \/ Step(u) \/ swift_deallocObject(u) \/ \E w \in Thread : Transfer(u, w)
      PROVE  Sole(t)'
  <2>1. Load(u) \/ MovesOn(u) \/ (Transfer(u, t) \/ \E w \in Thread : Transfer(u, w))
    <3>1. CASE swift_deallocObject(u)
      <4>1. (\E p \in {"free", "load"} : Proceed(u, "dealloc", p, Inline)) /\ UNCHANGED <<src, dst>>
        BY <3>1 DEF swift_deallocObject
      <4> QED
        BY <4>1, ProceedMovesOn
    <3> QED
      BY <1>4, <3>1, EntryPointMovesOn, StepMovesOn
  <2>2. \A w \in Thread \ {u} : SameThread(w)
    <3>1. CASE Load(u)
      BY <3>1 DEF Load, SameThread, TypeOK, ThreadType
    <3>2. CASE \E w \in Thread : Transfer(u, w)
      BY <3>2 DEF Transfer, SameThread, threadVars
    <3> QED
      BY <2>1, <3>1, <3>2 DEF MovesOn, Transfer
  <2>3. CASE u # t
    BY <1>3, <1>4, <2>2, <2>3
  <2>4. CASE u = t /\ \E w \in Thread : Transfer(u, w)
    <3>1. pc[t] = "idle" /\ pc' = pc
      BY <2>4 DEF Transfer, threadVars
    <3> QED
      BY <3>1 DEF SaysUnique, Decides
  <2>5. CASE u = t /\ (Load(u) \/ MovesOn(u))
    BY <1>1, <1>2, <2>5
  <2> QED
    BY <2>1, <2>3, <2>4, <2>5
<1>5. CASE UNCHANGED vars
  <2>1. UNCHANGED <<pc, op, old, ref, owner>>
    BY <1>5 DEF vars, threadVars, slotVars
  <2>2. SaysUnique(t)' = SaysUnique(t) /\ Sole(t)' = Sole(t)
    BY <2>1 DEF SaysUnique, Decides, Sole, Strong
  <2> QED
    BY <2>2
<1> QED
  BY <1>4, <1>5 DEF Next, Terminated

\* When isUniquelyReferenced says yes its caller holds the only strong
\* reference, and this stays so until the caller acts on the answer unless
\* another thread has a weak or unowned reference of its own: no retain that
\* has read the word before can still succeed.  Copy-on-write rests on this.
THEOREM UniquenessIsRight ==
  ASSUME TakeWhileHeld, NonAtomicRule # "soleStrong"
  PROVE  Spec => UniqueIsSole
<1> DEFINE A == \A t \in Thread :
                  /\ SaysUnique(t)'
                  /\ ~SaysUnique(t) \/ (Sole(t) /\ \A v \in Slot : ref[v] \in {"weak", "unowned"}
                                                                   => owner[v] = t)
                  => Sole(t)'
<1>1. TypeOK /\ IInv /\ [Next]_vars => [A]_vars
  BY UniqueStep
<1>2. Disciplined
  BY DEF Disciplined
<1>3. Spec => [](TypeOK /\ WeakOpsAtEntry /\ IInv)
  BY <1>2, Invariance
<1> QED
  BY <1>1, <1>3, PTL DEF Spec, UniqueIsSole
=============================================================================
