------------------------------ MODULE RefCount ------------------------------
(***************************************************************************)
(* The reference counts of one Swift heap object, as its threads see them: *)
(* the word in the object header (InlineRefCounts), the side table entries *)
(* it can be moved to (HeapObjectSideTableEntry) and the runtime entry     *)
(* points that load and compare-exchange those words.                      *)
(*                                                                         *)
(* RefCounts<T> is one template used for both words, so a thread's steps   *)
(* are written once and applied to the location loc[t] it is working on:   *)
(* Inline, or the side table entry that the inline word points to.  A      *)
(* load and the compare-exchange that follows it are separate steps, so a  *)
(* thread always decides on a word that may be stale.                      *)
(*                                                                         *)
(* Slots stand for the program's reference variables.  ref, owner and wref *)
(* record what the program holds; the runtime never reads ref or owner.    *)
(***************************************************************************)
EXTENDS Integers, FiniteSets

CONSTANTS
  Thread,             \* threads of the program
  Slot,               \* reference variables
  Entry,              \* addresses `new HeapObjectSideTableEntry` can return
  Inline,             \* the location of the word in the object header
  Null,               \* a null pointer
  InlineMaxStrong,    \* largest StrongExtraRefCount of the inline word
  SideMaxStrong,      \* ... and of a side table word
  InlineMaxUnowned,   \* largest UnownedRefCount of the inline word
  SideMaxUnowned,     \* ... and of a side table word
  MaxWeak,            \* largest weakBits
  MaxN,               \* bound on the n of the _n entry points
  TakeWhileHeld,      \* callers of swift_weakTakeStrong hold the object
  NonAtomicRule       \* when the program calls the swift_nonatomic_ functions

ASSUME SetsAssumption ==
  /\ IsFiniteSet(Slot) /\ IsFiniteSet(Thread)
  /\ Inline \notin Entry /\ Null \notin Entry \cup Thread

ASSUME LimitsAssumption ==
  /\ InlineMaxStrong \in Nat /\ SideMaxStrong \in Nat
  /\ InlineMaxUnowned \in Nat \ {0} /\ SideMaxUnowned \in Nat
  /\ InlineMaxStrong <= SideMaxStrong /\ InlineMaxUnowned <= SideMaxUnowned
  /\ MaxWeak \in Nat \ {0} /\ MaxN \in Nat \ {0}
  /\ TakeWhileHeld \in BOOLEAN
  /\ NonAtomicRule \in {"never", "exclusive", "soleStrong"}

VARIABLES
  mem,       \* the word at each location
  alloc,     \* "none", "live" or "freed", for the object and each entry
  pc,        \* where each thread is in the runtime; "idle" when outside
  op,        \* the operation it is performing
  loc,       \* the location it is working on
  old,       \* its `oldbits`
  src,       \* slots the operation takes references from
  dst,       \* slots the operation puts references into
  ref,       \* what each slot holds
  owner,     \* the thread that uses the slot, Null when it is unused
  wref,      \* the side table pointer in a weak variable
  deinitBy,  \* the thread running deinit() of the object
  abort      \* why the runtime killed the process, or "none"

threadVars == <<pc, op, loc, old, src, dst>>
slotVars == <<ref, owner, wref>>
vars == <<mem, alloc, threadVars, slotVars, deinitBy, abort>>

Loc == Entry \cup {Inline}

-----------------------------------------------------------------------------
(* The words. `side` is the pointer of a word with UseSlowRC set.          *)

Word == [side: Entry \cup {Null}, strong: Nat, unowned: Int, weak: Int,
         deiniting: BOOLEAN, pinned: BOOLEAN]

RefCountBits(strongExtra, unowned) ==
  [side |-> Null, strong |-> strongExtra, unowned |-> unowned, weak |-> 0,
   deiniting |-> FALSE, pinned |-> FALSE]

SideTablePointer(e) == [RefCountBits(0, 0) EXCEPT !.side = e]

\* A side table word made from an inline one: same counts and flags, and a
\* weak count of 1 on behalf of the unowned count.
SideTableRefCountBits(w) == [w EXCEPT !.weak = 1]

MaxStrong(l) == IF l = Inline THEN InlineMaxStrong ELSE SideMaxStrong

MaxUnowned(l) == IF l = Inline THEN InlineMaxUnowned ELSE SideMaxUnowned

-----------------------------------------------------------------------------
(* What the program holds.                                                 *)

Strong == {v \in Slot : ref[v] \in {"strong", "pinned"}}
Unowned == {v \in Slot : ref[v] = "unowned"}
Unused == {v \in Slot : owner[v] = Null}
Owns(t, kinds) == {v \in Slot : owner[v] = t /\ ref[v] \in kinds}

\* A thread may pass the object to an operation that retains it if it owns a
\* strong reference or is running deinit(self).
HoldsStrong(t) == Owns(t, {"strong", "pinned"}) # {} \/ deinitBy = t

\* Operations that only need the object's memory also accept an unowned one.
HoldsObject(t) == HoldsStrong(t) \/ Owns(t, {"unowned"}) # {}

Batches(S) == {R \in SUBSET S : R # {} /\ Cardinality(R) <= MaxN}

Init ==
  \E t \in Thread, v \in Slot :
    /\ mem = [l \in Loc |-> RefCountBits(0, IF l = Inline THEN 1 ELSE 0)]
    /\ alloc = [l \in Loc |-> IF l = Inline THEN "live" ELSE "none"]
    /\ pc = [u \in Thread |-> "idle"]
    /\ op = [u \in Thread |-> "none"]
    /\ loc = [u \in Thread |-> Inline]
    /\ old = [u \in Thread |-> RefCountBits(0, 0)]
    /\ src = [u \in Thread |-> {}]
    /\ dst = [u \in Thread |-> {}]
    /\ ref = [w \in Slot |-> IF w = v THEN "strong" ELSE "empty"]
    /\ owner = [w \in Slot |-> IF w = v THEN t ELSE Null]
    /\ wref = [w \in Slot |-> Null]
    /\ deinitBy = Null
    /\ abort = "none"

-----------------------------------------------------------------------------
(* Entering and leaving the runtime.                                       *)

\* Thread t calls operation o, which starts working at stage p of location l,
\* takes from the slots S and fills the slots D, reserving them.
Enter(t, o, p, l, S, D) ==
  /\ pc[t] = "idle"
  /\ op' = [op EXCEPT ![t] = o]
  /\ pc' = [pc EXCEPT ![t] = p]
  /\ loc' = [loc EXCEPT ![t] = l]
  /\ src' = [src EXCEPT ![t] = S]
  /\ dst' = [dst EXCEPT ![t] = D]
  /\ owner' = [v \in Slot |-> IF v \in D THEN t ELSE owner[v]]
  /\ UNCHANGED <<mem, alloc, old, deinitBy, abort>>

\* No other thread can reach the object: the program runs in one thread, as
\* -assume-single-threaded promises.
Exclusive(t) ==
  /\ \A u \in Thread \ {t} : pc[u] = "idle" /\ deinitBy # u
  /\ \A v \in Slot : owner[v] \in {t, Null}

\* What doDecrementNonAtomic says of its caller: no other thread has a strong
\* reference.
SoleStrong(t) == deinitBy \in {t, Null} /\ \A v \in Strong : owner[v] = t

\* Operations with a variant that loads and stores instead of looping on a
\* compare-exchange, at stages "nload" and "store" below.
MayBeNonAtomic(t, o) ==
  \/ /\ NonAtomicRule = "exclusive" /\ Exclusive(t)
     /\ o \in {"retain", "release", "tryPin", "unpin", "unownedRetain",
               "unownedRelease", "unownedRetainStrong", "retainStrongAndRelease"}
  \/ /\ NonAtomicRule = "soleStrong" /\ SoleStrong(t)
     /\ o \in {"release", "unpin"}

Call(t, o, S, D) ==
  /\ \/ Enter(t, o, "load", Inline, S, D)
     \/ MayBeNonAtomic(t, o) /\ Enter(t, o, "nload", Inline, S, D)
  /\ UNCHANGED <<ref, wref>>

Leave(t) ==
  /\ op' = [op EXCEPT ![t] = "none"]
  /\ pc' = [pc EXCEPT ![t] = "idle"]
  /\ loc' = [loc EXCEPT ![t] = Inline]
  /\ old' = [old EXCEPT ![t] = RefCountBits(0, 0)]
  /\ src' = [src EXCEPT ![t] = {}]
  /\ dst' = [dst EXCEPT ![t] = {}]

\* Thread t goes on as operation o at stage p of location l, having no use
\* for the word it read last.
Proceed(t, o, p, l) ==
  /\ op' = [op EXCEPT ![t] = o]
  /\ pc' = [pc EXCEPT ![t] = p]
  /\ loc' = [loc EXCEPT ![t] = l]
  /\ old' = [old EXCEPT ![t] = RefCountBits(0, 0)]

\* The filled slots now hold references of kind k, the consumed ones nothing.
Settle(t, k) ==
  /\ ref' = [v \in Slot |-> IF v \in dst[t] THEN k
                            ELSE IF v \in src[t] THEN "empty" ELSE ref[v]]
  /\ owner' = [v \in Slot |-> IF v \in src[t] THEN Null ELSE owner[v]]

\* The thread calls swift_abort*.  Other threads run on until the process
\* is gone.
Abort(t, reason) ==
  /\ abort' = reason
  /\ pc' = [pc EXCEPT ![t] = "aborted"]
  /\ UNCHANGED <<op, loc, old, src, dst>>

-----------------------------------------------------------------------------
(* Entry points of HeapObject.cpp and WeakReference.h.                     *)

swift_retain_n(t) ==
  /\ HoldsStrong(t)
  /\ \E R \in Batches(Unused) : Call(t, "retain", {}, R)

swift_release_n(t) ==
  \E R \in Batches(Owns(t, {"strong"})) : Call(t, "release", R, {})

\* Precondition: the reference count is 1, and only this thread knows the
\* object.  It goes on to destroy the contents and call swift_deallocObject.
swift_setDeallocating(t) ==
  \E v \in Owns(t, {"strong"}) :
    /\ Exclusive(t) /\ deinitBy = Null /\ Strong = {v}
    /\ Enter(t, "fromOne", "nload", Inline, {v}, {})
    /\ UNCHANGED <<ref, wref>>

swift_isUniquelyReferenced_native(t) ==
  /\ Owns(t, {"strong"}) # {} /\ deinitBy = Null
  /\ Call(t, "isUnique", {}, {})

swift_tryPin(t) ==
  /\ HoldsStrong(t)
  /\ \E v \in Unused : Call(t, "tryPin", {}, {v})

swift_unpin(t) ==
  \E v \in Owns(t, {"pinned"}) : Call(t, "unpin", {v}, {})

swift_tryRetain(t) ==
  /\ HoldsObject(t)
  /\ \E v \in Unused : Call(t, "tryRetain", {}, {v})

swift_unownedRetain_n(t) ==
  /\ HoldsObject(t)
  /\ \E R \in Batches(Unused) : Call(t, "unownedRetain", {}, R)

swift_unownedRelease_n(t) ==
  \E R \in Batches(Owns(t, {"unowned"})) : Call(t, "unownedRelease", R, {})

swift_unownedRetainStrong(t) ==
  /\ Owns(t, {"unowned"}) # {}
  /\ \E v \in Unused : Call(t, "unownedRetainStrong", {}, {v})

swift_unownedRetainStrongAndRelease(t) ==
  \E u \in Owns(t, {"unowned"}), v \in Unused :
    Call(t, "retainStrongAndRelease", {u}, {v})

swift_unownedCheck(t) ==
  /\ Owns(t, {"unowned"}) # {}
  /\ Call(t, "unownedCheck", {}, {})

swift_weakInit(t) ==
  /\ HoldsStrong(t)
  /\ \E v \in Unused :
       /\ Enter(t, "weakInit", "preflight", Inline, {}, {v})
       /\ UNCHANGED <<ref, wref>>

\* The new value may be nil; then only the old reference is destroyed.
swift_weakAssign(t) ==
  \E v \in Owns(t, {"weak"}) :
    \/ /\ HoldsStrong(t)
       /\ Enter(t, "weakAssign", "preflight", Inline, {}, {v})
       /\ UNCHANGED <<ref, wref>>
    \/ /\ wref[v] # Null
       /\ Enter(t, "weakDestroy", "load", wref[v], {}, {})
       /\ wref' = [wref EXCEPT ![v] = Null]
       /\ UNCHANGED ref

\* A nil weak variable loads nil without calling the side table.
swift_weakLoadStrong(t) ==
  \E v \in Owns(t, {"weak"}), d \in Unused :
    /\ wref[v] # Null
    /\ Enter(t, "weakLoad", "load", wref[v], {}, {d})
    /\ UNCHANGED <<ref, wref>>

MutantTakeStrong(t) ==  \* the variable keeps its pointer
  \E v \in Owns(t, {"weak"}), d \in Unused :
    /\ wref[v] # Null
    /\ TakeWhileHeld => HoldsStrong(t)
    /\ Enter(t, "weakTake", "load", wref[v], {}, {d})
    /\ UNCHANGED <<ref, wref>>

\* The variable is emptied before its entry is used; its weak count is then
\* carried by the thread until decrementWeak.
swift_weakTakeStrong(t) ==
  \E v \in Owns(t, {"weak"}), d \in Unused :
    /\ wref[v] # Null
    /\ TakeWhileHeld => HoldsStrong(t)
    /\ Enter(t, "weakTake", "load", wref[v], {}, {d})
    /\ wref' = [wref EXCEPT ![v] = Null]
    /\ UNCHANGED ref

swift_weakDestroy(t) ==
  \E v \in Owns(t, {"weak"}) :
    /\ pc[t] = "idle"
    /\ ref' = [ref EXCEPT ![v] = "empty"]
    /\ owner' = [owner EXCEPT ![v] = Null]
    /\ wref' = [wref EXCEPT ![v] = Null]
    /\ IF wref[v] = Null
       THEN UNCHANGED <<pc, op, loc, old>>
       ELSE Proceed(t, "weakDestroy", "load", wref[v])
    /\ UNCHANGED <<mem, alloc, src, dst, deinitBy, abort>>

swift_weakCopyInit(t) ==
  \E s \in Owns(t, {"weak"}), d \in Unused :
    IF wref[s] = Null
    THEN /\ pc[t] = "idle"
         /\ ref' = [ref EXCEPT ![d] = "weak"]
         /\ owner' = [owner EXCEPT ![d] = t]
         /\ UNCHANGED <<mem, alloc, threadVars, wref, deinitBy, abort>>
    ELSE /\ Enter(t, "weakCopy", "check", wref[s], {}, {d})
         /\ UNCHANGED <<ref, wref>>

\* nativeTakeInit: the reference moves and no count changes.
Move(t, s, d) ==
  /\ ref' = [ref EXCEPT ![s] = "empty", ![d] = "weak"]
  /\ owner' = [owner EXCEPT ![s] = Null, ![d] = t]
  /\ wref' = [wref EXCEPT ![s] = Null, ![d] = wref[s]]

swift_weakTakeInit(t) ==
  \E s \in Owns(t, {"weak"}), d \in Unused :
    /\ pc[t] = "idle"
    /\ Move(t, s, d)
    /\ UNCHANGED <<mem, alloc, threadVars, deinitBy, abort>>

\* nativeDestroy of the destination, then nativeCopyInit; assigning a
\* variable to itself returns at once.
swift_weakCopyAssign(t) ==
  \E s \in Owns(t, {"weak"}), d \in Owns(t, {"weak"}) :
    /\ s # d
    /\ wref[d] # Null \/ wref[s] # Null
    /\ IF wref[d] # Null
       THEN Enter(t, "weakCopyAssign", "load", wref[d], {s}, {d})
       ELSE Enter(t, "weakCopy", "check", wref[s], {}, {d})
    /\ wref' = [wref EXCEPT ![d] = Null]
    /\ UNCHANGED ref

swift_weakTakeAssign(t) ==
  \E s \in Owns(t, {"weak"}), d \in Owns(t, {"weak"}) :
    /\ s # d
    /\ IF wref[d] # Null
       THEN /\ Enter(t, "weakTakeAssign", "load", wref[d], {s}, {d})
            /\ wref' = [wref EXCEPT ![d] = Null]
            /\ UNCHANGED ref
       ELSE /\ pc[t] = "idle"
            /\ Move(t, s, d)
            /\ UNCHANGED <<mem, alloc, threadVars, deinitBy, abort>>

MutantFreedNow ==  \* the unowned references are forgotten
  mem[Inline].side = Null /\ mem[Inline].deiniting /\ mem[Inline].strong = 0

\* The last release called deinit(), which ends by deallocating the object:
\* at once if nothing else can refer to it, else by dropping the unowned
\* count held on behalf of the strong references.
canBeFreedNow ==
  LET bits == mem[Inline]
  IN bits.side = Null /\ bits.deiniting /\ bits.strong = 0 /\ bits.unowned = 1

swift_deallocObject(t) ==
  /\ deinitBy = t
  /\ pc[t] = "idle"
  /\ Strong = {}
  /\ deinitBy' = Null
  /\ Proceed(t, "dealloc", IF canBeFreedNow THEN "free" ELSE "load", Inline)
  /\ UNCHANGED <<mem, alloc, src, dst, slotVars, abort>>

\* The program passes a reference to another thread.  deinit() may not let a
\* strong reference to self escape.
Transfer(t, u) ==
  \E v \in Slot :
    /\ u # t /\ owner[v] = t /\ pc[t] = "idle"
    /\ ref[v] # "pinned"
    /\ ref[v] = "strong" => deinitBy = Null
    /\ owner' = [owner EXCEPT ![v] = u]
    /\ UNCHANGED <<mem, alloc, threadVars, ref, wref, deinitBy, abort>>

-----------------------------------------------------------------------------
(* RefCounts<RefCountBits>: loads, compare-exchanges and slow paths.       *)

\* What a load of location l can return.  Memory that is not allocated holds
\* its last value, or what a new owner of the memory has put there.
Readable(l) == {mem[l]} \cup (IF alloc[l] = "live" THEN {} ELSE {RefCountBits(0, 1)})

Load(t) ==
  /\ pc[t] \in {"load", "nload"}
  /\ \E w \in Readable(loc[t]) : old' = [old EXCEPT ![t] = w]
  /\ pc' = [pc EXCEPT ![t] = IF @ = "load" THEN "cas" ELSE "store"]
  /\ UNCHANGED <<mem, alloc, op, loc, src, dst, slotVars, deinitBy, abort>>

\* The thread has loaded a word and decides what to do with it.
Decides(t) == pc[t] \in {"cas", "store"}

\* Where the next part of an operation starts: a non-atomic one stays so.
Again(t) == IF pc[t] = "store" THEN "nload" ELSE "load"

StrongDec == {"release", "unpin", "fromOne"}

\* Every operation of RefCounts<InlineRefCountBits> that meets a side table
\* pointer is done again on the entry, where increments and decrements of the
\* strong count, decrementFromOneNonAtomic included, are always atomic.
ForwardToSideTable(t) ==
  /\ Decides(t) /\ old[t].side # Null
  /\ Proceed(t, op[t], IF op[t] \in {"retain"} \cup StrongDec THEN "load" ELSE Again(t),
             old[t].side)
  /\ UNCHANGED <<mem, alloc, src, dst, slotVars, deinitBy, abort>>

TryOps == {"tryRetain", "weakLoad", "unownedRetainStrong", "retainStrongAndRelease"}

MutantRefused(t) ==  \* tryIncrement forgets to look at IsDeiniting
  op[t] = "tryPin" /\ old[t].pinned

\* The operation gives up because of a flag in the word it read.
Refused(t) ==
  \/ op[t] \in TryOps /\ old[t].deiniting
  \/ op[t] = "tryPin" /\ old[t].pinned

Refuse(t) ==
  /\ Decides(t) /\ old[t].side = Null /\ Refused(t)
  /\ IF op[t] \in {"unownedRetainStrong", "retainStrongAndRelease"}
     THEN Abort(t, "retainUnowned") /\ UNCHANGED owner
     ELSE /\ owner' = [v \in Slot |-> IF v \in dst[t] THEN Null ELSE owner[v]]
          /\ Leave(t)
          /\ UNCHANGED abort
  /\ UNCHANGED <<mem, alloc, ref, wref, deinitBy>>

Queries == {"unownedCheck", "isUnique"}

\* swift_unownedCheck and swift_isUniquelyReferenced read a word and write
\* nothing.
Query(t) ==
  /\ Decides(t) /\ old[t].side = Null /\ op[t] \in Queries
  /\ IF op[t] = "unownedCheck" /\ old[t].deiniting
     THEN Abort(t, "retainUnowned")
     ELSE Leave(t) /\ UNCHANGED abort
  /\ UNCHANGED <<mem, alloc, slotVars, deinitBy>>

StrongInc == TryOps \cup {"retain", "tryPin"}

MutantInc(t) == 1  \* the n of swift_retain_n is ignored

\* By how much the operation increments or decrements.
Inc(t) == Cardinality(dst[t])
Dec(t) == IF op[t] = "dealloc" THEN 1 ELSE Cardinality(src[t])

Overflows(t) ==
  \/ op[t] \in StrongInc /\ old[t].strong + Inc(t) > MaxStrong(loc[t])
  \/ op[t] = "unownedRetain" /\ old[t].unowned + Inc(t) > MaxUnowned(loc[t])
  \/ op[t] \in {"weakInit", "weakAssign", "weakCopy"} /\ old[t].weak = MaxWeak

\* incrementUnownedSlow moves an overflowing inline word to a side table;
\* every other overflow kills the process.
Overflow(t) ==
  /\ Decides(t) /\ old[t].side = Null /\ ~Refused(t) /\ Overflows(t)
  /\ IF op[t] = "unownedRetain" /\ loc[t] = Inline
     THEN Proceed(t, op[t], "preflight", Inline) /\ UNCHANGED <<dst, src, abort>>
     ELSE Abort(t, IF op[t] \in StrongInc THEN "retainOverflow"
                   ELSE IF op[t] = "unownedRetain" THEN "unownedOverflow"
                   ELSE "weakOverflow")
  /\ UNCHANGED <<mem, alloc, slotVars, deinitBy>>

\* The thread reaches its compare-exchange or store.
Attempts(t) ==
  /\ Decides(t) /\ old[t].side = Null
  /\ op[t] \notin Queries /\ ~Refused(t) /\ ~Overflows(t)

MutantRetry(t) ==  \* oldbits is not refreshed
  /\ Attempts(t) /\ pc[t] = "cas" /\ alloc[loc[t]] = "live" /\ mem[loc[t]] # old[t]
  /\ UNCHANGED vars

\* A failed compare-exchange leaves the current word in oldbits.
Retry(t) ==
  /\ Attempts(t) /\ pc[t] = "cas" /\ alloc[loc[t]] = "live" /\ mem[loc[t]] # old[t]
  /\ old' = [old EXCEPT ![t] = mem[loc[t]]]
  /\ UNCHANGED <<mem, alloc, pc, op, loc, src, dst, slotVars, deinitBy, abort>>

\* The compare-exchange, or store, of an operation in O stores w.
Commit(t, O, w) ==
  /\ Attempts(t) /\ op[t] \in O
  /\ pc[t] = "store" \/ mem[loc[t]] = old[t] \/ alloc[loc[t]] # "live"
  /\ mem' = [mem EXCEPT ![loc[t]] = w]

\* increment, tryIncrement and tryIncrementAndPin.
IncrementStrong(t) ==
  /\ Commit(t, StrongInc \ {"retainStrongAndRelease"},
            [old[t] EXCEPT !.strong = @ + Inc(t), !.pinned = @ \/ op[t] = "tryPin"])
  /\ Settle(t, IF op[t] = "tryPin" THEN "pinned" ELSE "strong")
  /\ Leave(t)
  /\ UNCHANGED <<alloc, wref, deinitBy, abort>>

\* swift_unownedRetainStrongAndRelease goes on to drop the unowned reference.
RetainStrongAndRelease(t) ==
  /\ Commit(t, {"retainStrongAndRelease"}, [old[t] EXCEPT !.strong = @ + 1])
  /\ ref' = [v \in Slot |-> IF v \in dst[t] THEN "strong" ELSE ref[v]]
  /\ Proceed(t, "unownedDrop", Again(t), Inline)
  /\ dst' = [dst EXCEPT ![t] = {}]
  /\ UNCHANGED <<alloc, src, owner, wref, deinitBy, abort>>

MutantUnderflows(t) == old[t].strong + 1 < Dec(t)  \* off by one

\* doDecrement: an underflowing decrement starts deinit in this thread.
Underflows(t) == old[t].strong < Dec(t)

DecrementStrong(t) ==
  /\ LET unpinned == [old[t] EXCEPT !.pinned = @ /\ op[t] # "unpin"]
     IN Commit(t, StrongDec,
               IF Underflows(t)
               THEN [unpinned EXCEPT !.strong = 0, !.deiniting = TRUE]
               ELSE [unpinned EXCEPT !.strong = @ - Dec(t)])
  /\ deinitBy' = IF Underflows(t) THEN t ELSE deinitBy
  /\ Settle(t, "empty")
  /\ Leave(t)
  /\ UNCHANGED <<alloc, wref, abort>>

IncrementUnowned(t) ==
  /\ Commit(t, {"unownedRetain"}, [old[t] EXCEPT !.unowned = @ + Inc(t)])
  /\ Settle(t, "unowned")
  /\ Leave(t)
  /\ UNCHANGED <<alloc, wref, deinitBy, abort>>

\* decrementUnownedShouldFree: the thread that drops the last unowned count
\* frees the object, after HeapObjectSideTableEntry has dropped the weak
\* count held on behalf of the unowned references.  Only
\* swift_unownedRetainStrongAndRelease ignores the request to free.
UnownedDec == {"unownedRelease", "unownedDrop", "dealloc"}

DecrementUnowned(t) ==
  /\ Commit(t, UnownedDec, [old[t] EXCEPT !.unowned = @ - Dec(t)])
  /\ Settle(t, "empty")
  /\ IF old[t].unowned # Dec(t) \/ (op[t] = "unownedDrop" /\ loc[t] = Inline)
     THEN Leave(t)
     ELSE /\ IF loc[t] = Inline
             THEN Proceed(t, "unownedFree", "free", Inline)
             ELSE Proceed(t, IF op[t] = "unownedDrop" THEN "weakDestroy"
                             ELSE "unownedFree", Again(t), loc[t])
          /\ src' = [src EXCEPT ![t] = {}]
          /\ UNCHANGED dst
  /\ UNCHANGED <<alloc, wref, deinitBy, abort>>

swift_slowDealloc(t) ==
  /\ pc[t] = "free"
  /\ alloc' = [alloc EXCEPT ![Inline] = "freed"]
  /\ Leave(t)
  /\ UNCHANGED <<mem, slotVars, deinitBy, abort>>

-----------------------------------------------------------------------------
(* Weak references and the side table.                                     *)

\* The new weak variable gets its pointer; an assignment then destroys the
\* old one.
StoreWeak(t, e) ==
  \E d \in dst[t] :
    /\ ref' = [ref EXCEPT ![d] = "weak"]
    /\ wref' = [wref EXCEPT ![d] = e]
    /\ IF op[t] = "weakAssign" /\ wref[d] # Null
       THEN /\ Proceed(t, "weakDestroy", "load", wref[d])
            /\ dst' = [dst EXCEPT ![t] = {}]
            /\ UNCHANGED src
       ELSE Leave(t)
    /\ UNCHANGED owner

\* allocateSideTable returned e, possibly null, to formWeakReference or to
\* incrementUnownedSlow.
UseSideTable(t, e) ==
  IF e # Null
  THEN /\ Proceed(t, op[t], IF op[t] = "unownedRetain" THEN "load" ELSE "check", e)
       /\ UNCHANGED <<src, dst, slotVars, abort>>
  ELSE IF op[t] = "unownedRetain"
  THEN Abort(t, "unownedOverflow") /\ UNCHANGED slotVars
  ELSE StoreWeak(t, Null) /\ UNCHANGED abort

\* First half of allocateSideTable: a new entry unless the word rules it out.
Preflight(t) ==
  /\ pc[t] = "preflight"
  /\ LET word == mem[Inline]
     IN IF word.side # Null \/ word.deiniting
        THEN UseSideTable(t, word.side) /\ UNCHANGED alloc
        ELSE \E e \in Entry :
               /\ alloc[e] = "none"
               /\ alloc' = [alloc EXCEPT ![e] = "live"]
               /\ loc' = [loc EXCEPT ![t] = e]
               /\ old' = [old EXCEPT ![t] = word]
               /\ pc' = [pc EXCEPT ![t] = "install"]
               /\ UNCHANGED <<op, src, dst, slotVars, abort>>
  /\ UNCHANGED <<mem, deinitBy>>

MutantDiscard(e) == UNCHANGED alloc  \* the unused entry is not deleted

\* `delete side`.
Discard(e) == alloc' = [alloc EXCEPT ![e] = "freed"]

\* Second half: one turn of its loop.  Another thread's entry is used
\* instead of ours; an object that began deinit gets none, and ours leaks.
Install(t) ==
  /\ pc[t] = "install"
  /\ IF old[t].side # Null
     THEN /\ Discard(loc[t])
          /\ UseSideTable(t, old[t].side)
          /\ UNCHANGED mem
     ELSE IF old[t].deiniting
     THEN UseSideTable(t, Null) /\ UNCHANGED <<mem, alloc>>
     ELSE /\ UNCHANGED alloc
          /\ IF mem[Inline] = old[t]
             THEN /\ mem' = [mem EXCEPT ![loc[t]] = SideTableRefCountBits(old[t]),
                                        ![Inline] = SideTablePointer(loc[t])]
                  /\ UseSideTable(t, loc[t])
             ELSE /\ mem' = [mem EXCEPT ![loc[t]] = SideTableRefCountBits(old[t])]
                  /\ old' = [old EXCEPT ![t] = mem[Inline]]
                  /\ UNCHANGED <<pc, op, loc, src, dst, slotVars, abort>>
  /\ UNCHANGED deinitBy

\* HeapObjectSideTableEntry::incrementWeak reads isDeiniting() first.
CheckDeiniting(t) ==
  /\ pc[t] = "check"
  /\ \E w \in Readable(loc[t]) :
       IF w.deiniting
       THEN StoreWeak(t, Null)
       ELSE Proceed(t, op[t], "load", loc[t]) /\ UNCHANGED <<src, dst, slotVars>>
  /\ UNCHANGED <<mem, alloc, deinitBy, abort>>

IncrementWeak(t) ==
  /\ Commit(t, {"weakInit", "weakAssign", "weakCopy"},
            [old[t] EXCEPT !.weak = @ + 1])
  /\ StoreWeak(t, loc[t])
  /\ UNCHANGED <<alloc, deinitBy, abort>>

WeakDec == {"weakDestroy", "weakTake", "weakCopyAssign", "weakTakeAssign",
            "unownedFree"}

\* What follows decrementWeak in its callers.
AfterDecrementWeak(t) ==
  \/ /\ op[t] = "weakDestroy"
     /\ Leave(t)
     /\ UNCHANGED slotVars
  \/ /\ op[t] = "weakTake"
     /\ Proceed(t, "weakLoad", "load", loc[t])
     /\ UNCHANGED <<src, dst, slotVars>>
  \/ /\ op[t] = "unownedFree"
     /\ Proceed(t, op[t], "free", Inline)
     /\ UNCHANGED <<src, dst, slotVars>>
  \/ \E s \in src[t] :
       /\ op[t] = "weakCopyAssign"
       /\ IF wref[s] = Null
          THEN Leave(t)
          ELSE /\ Proceed(t, "weakCopy", "check", wref[s])
               /\ src' = [src EXCEPT ![t] = {}]
               /\ UNCHANGED dst
       /\ UNCHANGED slotVars
  \/ \E s \in src[t], d \in dst[t] :
       /\ op[t] = "weakTakeAssign"
       /\ Move(t, s, d)
       /\ Leave(t)

MutantLastWeak(t) == old[t].weak = 0  \* the count is tested too early

LastWeak(t) == old[t].weak = 1

\* decrementWeakShouldCleanUp; the thread that reaches zero deletes the entry.
DecrementWeak(t) ==
  /\ Commit(t, WeakDec, [old[t] EXCEPT !.weak = @ - 1])
  /\ IF LastWeak(t)
     THEN /\ pc' = [pc EXCEPT ![t] = "delete"]
          /\ UNCHANGED <<op, loc, old, src, dst, slotVars>>
     ELSE AfterDecrementWeak(t)
  /\ UNCHANGED <<alloc, deinitBy, abort>>

DeleteEntry(t) ==
  /\ pc[t] = "delete"
  /\ Discard(loc[t])
  /\ AfterDecrementWeak(t)
  /\ UNCHANGED <<mem, deinitBy, abort>>

-----------------------------------------------------------------------------

EntryPoint(t) ==
  \/ swift_retain_n(t) \/ swift_release_n(t) \/ swift_tryPin(t) \/ swift_unpin(t)
  \/ swift_tryRetain(t) \/ swift_unownedRetain_n(t) \/ swift_unownedRelease_n(t)
  \/ swift_unownedRetainStrong(t) \/ swift_unownedRetainStrongAndRelease(t)
  \/ swift_unownedCheck(t) \/ swift_setDeallocating(t)
  \/ swift_isUniquelyReferenced_native(t) \/ swift_weakInit(t) \/ swift_weakAssign(t)
  \/ swift_weakLoadStrong(t) \/ swift_weakTakeStrong(t) \/ swift_weakDestroy(t)
  \/ swift_weakCopyInit(t) \/ swift_weakTakeInit(t) \/ swift_weakCopyAssign(t)
  \/ swift_weakTakeAssign(t)

\* A step inside the runtime.
Step(t) ==
  \/ Load(t) \/ ForwardToSideTable(t) \/ Refuse(t) \/ Query(t)
  \/ Overflow(t) \/ Retry(t)
  \/ IncrementStrong(t) \/ RetainStrongAndRelease(t) \/ DecrementStrong(t)
  \/ IncrementUnowned(t) \/ DecrementUnowned(t) \/ swift_slowDealloc(t)
  \/ Preflight(t) \/ Install(t) \/ CheckDeiniting(t)
  \/ IncrementWeak(t) \/ DecrementWeak(t) \/ DeleteEntry(t)

Idle == \A t \in Thread : pc[t] = "idle"

\* The program is over: it was killed, or nothing refers to the object.
Terminated ==
  /\ abort # "none" \/ (Idle /\ Unused = Slot /\ deinitBy = Null)
  /\ UNCHANGED vars

Next ==
  \/ \E t \in Thread : \/ EntryPoint(t) \/ Step(t) \/ swift_deallocObject(t)
                       \/ \E u \in Thread : Transfer(t, u)
  \/ Terminated

Spec == Init /\ [][Next]_vars

\* The scheduler runs every thread that is inside the runtime, and a deinit()
\* that has dropped its references to self returns.
Fairness ==
  \A t \in Thread : WF_vars(Step(t)) /\ WF_vars(swift_deallocObject(t))

FairSpec == Spec /\ Fairness

-----------------------------------------------------------------------------
(* Properties.                                                             *)

AtWord == {"load", "nload", "cas", "store"}

Stages == {"idle", "load", "nload", "cas", "store", "preflight", "install", "check", "delete", "free",
           "aborted"}

Ops == {"none", "retain", "tryPin", "unownedRetain",
        "weakInit", "weakAssign", "weakCopy"}
         \cup TryOps \cup StrongDec \cup UnownedDec \cup WeakDec \cup Queries

MemoryType ==
  /\ mem \in [Loc -> Word]
  /\ alloc \in [Loc -> {"none", "live", "freed"}]

ThreadType ==
  /\ pc \in [Thread -> Stages]
  /\ op \in [Thread -> Ops]
  /\ loc \in [Thread -> Loc]
  /\ old \in [Thread -> Word]
  /\ src \in [Thread -> SUBSET Slot]
  /\ dst \in [Thread -> SUBSET Slot]

SlotType ==
  /\ ref \in [Slot -> {"empty", "strong", "pinned", "unowned", "weak"}]
  /\ owner \in [Slot -> Thread \cup {Null}]
  /\ wref \in [Slot -> Entry \cup {Null}]

\* Every variable has its type; in particular a strong count is never
\* negative, because an underflowing decrement is turned into a deinit.
TypeOK ==
  /\ MemoryType /\ ThreadType /\ SlotType
  /\ deinitBy \in Thread \cup {Null}
  /\ abort \in {"none", "retainUnowned", "retainOverflow", "unownedOverflow",
                "weakOverflow"}

\* Weak counts are only in side table entries, and only a new entry is
\* installed.
AtEntry(t) ==
  \/ pc[t] = "install"
  \/ op[t] \in {"weakInit", "weakAssign", "weakCopy"} /\ pc[t] \in AtWord \cup {"check"}
  => loc[t] \in Entry

WeakOpsAtEntry == \A t \in Thread : AtEntry(t)

\* The location that holds the counts, and the counts.
Home == IF mem[Inline].side = Null THEN Inline ELSE mem[Inline].side
Bits == mem[Home]

\* The unowned count that stands for the strong references is still in the
\* word: deinit has not finished.
StrongShare ==
  \/ ~Bits.deiniting \/ deinitBy # Null
  \/ \E t \in Thread : op[t] = "dealloc"

\* Threads that have yet to give back a weak count they took over.
WeakCarriers ==
  {t \in Thread : op[t] \in WeakDec /\ pc[t] \in AtWord}

WeakSlots == {v \in Slot : wref[v] # Null}

\* The counts that threads update by compare-exchange are at all times those
\* of the references the program holds: the strong count (biased by one until
\* deinit begins), the unowned count with one for all strong references, the
\* weak count with one for all unowned references.
CountsExact ==
  /\ Cardinality(Strong) = Bits.strong + (IF Bits.deiniting THEN 0 ELSE 1)
  /\ Home # Inline \/ alloc[Inline] = "live" =>
       Bits.unowned = Cardinality(Unowned) + (IF StrongShare THEN 1 ELSE 0)
  /\ Home # Inline =>
       Bits.weak = Cardinality(WeakSlots) + Cardinality(WeakCarriers)
                   + (IF Bits.unowned > 0 THEN 1 ELSE 0)

\* No thread is about to read, write or free memory that has been freed, and
\* the memory a reference stands for is allocated.
MemorySafe ==
  /\ \A t \in Thread :
       /\ pc[t] \notin {"idle", "aborted"} => alloc[loc[t]] = "live"
       /\ pc[t] \in {"preflight", "install", "free"} => alloc[Inline] = "live"
       /\ pc[t] # "aborted" /\ old[t].side # Null => alloc[old[t].side] = "live"
  /\ Strong # {} \/ Unowned # {} \/ deinitBy # Null => alloc[Inline] = "live"
  /\ \A v \in Slot : wref[v] # Null => alloc[wref[v]] = "live"

\* Assertions of RefCount.h and HeapObject.cpp on words that hold counts (not a
\* side table pointer), at the points where the thread is about to succeed: the
\* unowned and weak counts are not zero when
\* incremented, only a deiniting object loses its last unowned count, a
\* release that underflows meets a live object, an unpin a pinned one,
\* decrementFromOneNonAtomic a count of one, isUniquelyReferenced a live
\* object, an entry is deleted without unowned references, and
\* swift_unownedRetainStrongAndRelease never deallocates.
AssertionsHold ==
  \A t \in Thread :
    LET word == mem[loc[t]]
    IN /\ Decides(t) /\ old[t] = word /\ word.side = Null =>
            /\ op[t] = "unownedRetain" => word.unowned # 0
            /\ op[t] \in {"weakInit", "weakAssign", "weakCopy"} \cup WeakDec =>
                 word.weak # 0
            /\ op[t] \in UnownedDec => word.unowned >= Dec(t)
            /\ op[t] \in UnownedDec /\ word.unowned = Dec(t) =>
                 word.deiniting /\ op[t] # "unownedDrop"
            /\ op[t] \in StrongDec =>
                 word.strong + (IF word.deiniting THEN 0 ELSE 1) >= Dec(t)
            /\ op[t] = "unpin" => word.pinned
            /\ op[t] = "fromOne" => ~word.deiniting /\ word.strong = 0
            /\ op[t] = "isUnique" => ~word.deiniting
       /\ pc[t] = "delete" => word.unowned = 0

\* A non-atomic store overwrites no other thread's update: the word is still
\* the one that was loaded.  With NonAtomicRule = "soleStrong", which is what
\* doDecrementNonAtomic asks of its callers, this does not hold.
NonAtomicStoreIsSafe ==
  \A t \in Thread : pc[t] = "store" => mem[loc[t]] = old[t]

\* isUniquelyReferenced is about to answer yes.
SaysUnique(t) ==
  op[t] = "isUnique" /\ Decides(t) /\ old[t].side = Null /\ old[t].strong = 0

Sole(t) == Cardinality(Strong) = 1 /\ \A v \in Strong : owner[v] = t

\* What copy-on-write rests on: when isUniquelyReferenced reads the word that
\* makes it answer yes, the caller's is the only strong reference, and it
\* remains the only one while no other thread has a weak or unowned reference
\* to make a strong one of.
UniqueIsSole ==
  [][\A t \in Thread :
       /\ SaysUnique(t)'
       /\ ~SaysUnique(t) \/ (Sole(t) /\ \A v \in Slot : ref[v] \in {"weak", "unowned"}
                                                        => owner[v] = t)
       => Sole(t)']_vars

\* When the program has let go of everything, the object and its side table
\* entry have been given back, and so has every entry that lost the race to
\* be installed.
NoLeak ==
  abort = "none" /\ Idle /\ Unused = Slot /\ deinitBy = Null =>
    \A l \in Loc : alloc[l] # "live"

\* If at some point all references are gone for good, everything is freed.
EventuallyFreed ==
  <>[](Unused = Slot) => <>(\A l \in Loc : alloc[l] # "live")

\* The compare-exchange loops are lock-free: while some thread is always
\* inside the runtime, operations keep completing.
LockFree ==
  <>[](~Idle /\ abort = "none") =>
    []<><<\E t \in Thread : pc[t] # "idle" /\ pc'[t] = "idle">>_pc
=============================================================================
