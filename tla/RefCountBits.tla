---------------------------- MODULE RefCountBits ----------------------------
(***************************************************************************)
(* How the reference counts are packed into machine words: RefCountBitsT   *)
(* and SideTableRefCountBits of RefCount.h, at any field widths.           *)
(*                                                                         *)
(* From the least significant bit up a word holds IsPinned, the unowned    *)
(* count, IsDeiniting, the strong extra count and UseSlowRC.  Strong       *)
(* arithmetic is done on the whole word, so that an overflow, an underflow *)
(* and a side table all show in the sign bit; a word with UseSlowRC holds  *)
(* a shifted side table pointer and a mark bit instead of the counts.      *)
(*                                                                         *)
(* One thread calls the operations on one object.  `want` keeps the same   *)
(* state unpacked, in the form module RefCount uses, and `due` the outcome *)
(* an operation on unpacked counts has.                                    *)
(***************************************************************************)
EXTENDS Integers

CONSTANTS
  InlineLayout,    \* field widths of the object header's word
  SideLayout,      \* field widths of a side table word
  UnusedLowBits,   \* zero bits of an entry's address that are not stored
  WeakBits,        \* width of weakBits
  Address,         \* addresses of side table entries
  InitialUnowned,  \* 1 for a heap object, 2 after initForNotFreeing
  MaxN             \* bound on the n of the _n entry points

VARIABLES
  inline,   \* the word in the object header
  side,     \* the word in its side table entry
  weak,     \* the entry's weakBits
  want,     \* the same, unpacked
  got,      \* outcome of the last operation
  due       \* the outcome it should have had

vars == <<inline, side, weak, want, got, due>>

-----------------------------------------------------------------------------
(* Layout.                                                                 *)

IsPinnedShift == 0
UnownedRefCountShift == 1
IsDeinitingShift(L) == 1 + L.unowned
StrongExtraRefCountShift(L) == 2 + L.unowned
UseSlowRCShift(L) == 2 + L.unowned + L.strong
SideTableBitCount(L) == 1 + L.unowned + L.strong
SideTableMarkShift(L) == SideTableBitCount(L)
Width(L) == 3 + L.unowned + L.strong

getField(b, shift, count) == (b \div 2^shift) % 2^count

setField(b, shift, count, val) ==
  b + ((val % 2^count) - getField(b, shift, count)) * 2^shift

hasSideTable(L, b) == getField(b, UseSlowRCShift(L), 1) = 1
getUnownedRefCount(L, b) == getField(b, UnownedRefCountShift, L.unowned)
getIsPinned(L, b) == getField(b, IsPinnedShift, 1) = 1
getIsDeiniting(L, b) == getField(b, IsDeinitingShift(L), 1) = 1
getStrongExtraRefCount(L, b) == getField(b, StrongExtraRefCountShift(L), L.strong)
getSideTable(L, b) == getField(b, 0, SideTableBitCount(L)) * 2^UnusedLowBits

RefCountBits(L, strongExtraCount, unownedCount) ==
  strongExtraCount * 2^StrongExtraRefCountShift(L)
    + unownedCount * 2^UnownedRefCountShift

MutantSideTableBits(L, a) ==  \* the mark bit is left out
  (a \div 2^UnusedLowBits) + 2^UseSlowRCShift(L)

\* InlineRefCountBits(side): the mark bit keeps a decrement from borrowing
\* UseSlowRC away.
SideTableBits(L, a) ==
  (a \div 2^UnusedLowBits) + 2^UseSlowRCShift(L) + 2^SideTableMarkShift(L)

MutantCopyFields(b) ==  \* the word is copied although the layouts differ
  b

\* SideTableRefCountBits(InlineRefCountBits): field by field when the layouts
\* differ, which for equal layouts copies the word.
CopyFields(b) ==
  LET I == InlineLayout
      c1 == setField(0, UnownedRefCountShift, SideLayout.unowned, getUnownedRefCount(I, b))
      c2 == setField(c1, IsPinnedShift, 1, getField(b, IsPinnedShift, 1))
      c3 == setField(c2, IsDeinitingShift(SideLayout), 1, getField(b, IsDeinitingShift(I), 1))
      c4 == setField(c3, StrongExtraRefCountShift(SideLayout), SideLayout.strong,
                     getStrongExtraRefCount(I, b))
  IN setField(c4, UseSlowRCShift(SideLayout), 1, getField(b, UseSlowRCShift(I), 1))

-----------------------------------------------------------------------------
(* Assumptions.                                                            *)

\* The pointer fits its field.  It is even, because entries are aligned to
\* twice the granularity UnusedLowBits needs, and so far from the end of the
\* address space that adding MaxN strong references to the stored word does
\* not carry out of UseSlowRC.
ASSUME AddressAssumption ==
  \A a \in Address :
    /\ a \in Nat \ {0} /\ a % 2^(UnusedLowBits + 1) = 0
    /\ a \div 2^UnusedLowBits + MaxN * 2^StrongExtraRefCountShift(InlineLayout)
         < 2^SideTableBitCount(InlineLayout)

\* An increment overflows into UseSlowRC and no further, and changes an
\* unowned count that it overflows.
ASSUME LayoutAssumption ==
  /\ InlineLayout.unowned <= SideLayout.unowned
  /\ InlineLayout.strong <= SideLayout.strong
  /\ InlineLayout.strong \in Nat \ {0} /\ InlineLayout.unowned \in Nat \ {0}
  /\ MaxN \in 1..(2^InlineLayout.strong) /\ MaxN < 2^InlineLayout.unowned
  /\ InitialUnowned \in {1, 2} /\ WeakBits \in Nat \ {0}

-----------------------------------------------------------------------------
(* RefCountBitsT.                                                          *)

\* SignedBitsType(bits) >= 0.
NonNegative(L, b) == b < 2^(Width(L) - 1)

incrementStrongExtraRefCount(L, b, inc) ==
  (b + inc * 2^StrongExtraRefCountShift(L)) % 2^Width(L)

decrementStrongExtraRefCount(L, b, dec, unpin) ==
  (b - unpin * 2^IsPinnedShift - dec * 2^StrongExtraRefCountShift(L)) % 2^Width(L)

setUnownedRefCount(L, b, val) == setField(b, UnownedRefCountShift, L.unowned, val)

bitsAreUniquelyReferenced(L, b) ==
  ~hasSideTable(L, b) /\ ~getIsDeiniting(L, b) /\ getStrongExtraRefCount(L, b) = 0

MutantUniqueOrPinned(L, b) ==  \* IsPinned is counted among the ignored bits
  LET rotated == b \div 2 + (b % 2) * 2^(Width(L) - 1)
  IN ~NonNegative(L, rotated) \/ rotated < 2^(L.unowned + 2)

\* The bit twiddling: IsPinned is rotated into the sign bit and the word
\* compared with 1 << (count of ignored bits).
bitsAreUniquelyReferencedOrPinned(L, b) ==
  LET rotated == b \div 2 + (b % 2) * 2^(Width(L) - 1)
  IN ~NonNegative(L, rotated) \/ rotated < 2^(L.unowned + 1)

-----------------------------------------------------------------------------
(* RefCounts: what an operation makes of a word.                           *)

Outcome(b, result) == [bits |-> b, result |-> result]

\* The slow paths of the increments.
IncrementSlow(L, b) == Outcome(b, IF hasSideTable(L, b) THEN "side" ELSE "overflow")

increment(L, b, inc) ==
  LET new == incrementStrongExtraRefCount(L, b, inc)
  IN IF NonNegative(L, new) THEN Outcome(new, "done") ELSE IncrementSlow(L, b)

tryIncrement(L, b) ==
  IF ~hasSideTable(L, b) /\ getIsDeiniting(L, b) THEN Outcome(b, "refused")
  ELSE increment(L, b, 1)

tryIncrementAndPin(L, b) ==
  IF ~hasSideTable(L, b) /\ getIsPinned(L, b) THEN Outcome(b, "refused")
  ELSE LET new == incrementStrongExtraRefCount(L, setField(b, IsPinnedShift, 1, 1), 1)
       IN IF NonNegative(L, new) THEN Outcome(new, "done") ELSE IncrementSlow(L, b)

doDecrement(L, b, dec, unpin) ==
  LET new == decrementStrongExtraRefCount(L, b, dec, unpin)
      c1 == setField(b, StrongExtraRefCountShift(L), L.strong, 0)
      c2 == setField(c1, IsDeinitingShift(L), 1, 1)
  IN IF NonNegative(L, new) THEN Outcome(new, "done")
     ELSE IF hasSideTable(L, b) THEN Outcome(b, "side")
     ELSE Outcome(IF unpin = 1 THEN setField(c2, IsPinnedShift, 1, 0) ELSE c2, "deinit")

incrementUnowned(L, b, inc) ==
  LET new == setUnownedRefCount(L, b, getUnownedRefCount(L, b) + inc)
  IN IF hasSideTable(L, b) THEN Outcome(b, "side")
     ELSE IF getUnownedRefCount(L, new) # getUnownedRefCount(L, b) + inc
     THEN Outcome(b, "overflow")
     ELSE Outcome(new, "done")

decrementUnownedShouldFree(L, b, dec) ==
  LET new == setUnownedRefCount(L, b, getUnownedRefCount(L, b) - dec)
  IN IF hasSideTable(L, b) THEN Outcome(b, "side")
     ELSE Outcome(new, IF getUnownedRefCount(L, new) = 0 THEN "free" ELSE "done")

-----------------------------------------------------------------------------
(* The object: its word, then its side table entry.                        *)

Init ==
  /\ inline = RefCountBits(InlineLayout, 0, InitialUnowned)
  /\ side = 0 /\ weak = 0
  /\ want = [side |-> 0, strong |-> 0, unowned |-> InitialUnowned, weak |-> 0,
             pinned |-> FALSE, deiniting |-> FALSE]
  /\ got = "none" /\ due = "none"

\* Operation Op is done on the inline word and, if that has a side table, on
\* the entry's; it should have the outcome d and leave the counts w.
OnObject(Op(_, _), d, w) ==
  LET i == Op(InlineLayout, inline)
      s == Op(SideLayout, side)
  IN /\ want.unowned > 0
     /\ IF i.result = "side"
        THEN side' = s.bits /\ got' = s.result /\ UNCHANGED inline
        ELSE inline' = i.bits /\ got' = i.result /\ UNCHANGED side
     /\ due' = d
     /\ want' = IF d \in {"overflow", "refused"} THEN want ELSE w

MaxCount(bits) == 2^bits - 1
MaxStrong == MaxCount(IF want.side = 0 THEN InlineLayout.strong ELSE SideLayout.strong)

\* Strong references there are to release.
Held == want.strong + (IF want.deiniting THEN 0 ELSE 1)

\* deinit() may retain self.
Increment(n) ==
  /\ Held > 0 \/ want.deiniting
  /\ OnObject(LAMBDA L, b : increment(L, b, n),
              IF want.strong + n > MaxStrong THEN "overflow" ELSE "done",
              [want EXCEPT !.strong = @ + n])
  /\ UNCHANGED weak

TryIncrement ==
  /\ OnObject(tryIncrement,
              IF want.deiniting THEN "refused"
              ELSE IF want.strong + 1 > MaxStrong THEN "overflow" ELSE "done",
              [want EXCEPT !.strong = @ + 1])
  /\ UNCHANGED weak

TryIncrementAndPin ==
  /\ Held > 0
  /\ OnObject(tryIncrementAndPin,
              IF want.pinned THEN "refused"
              ELSE IF want.strong + 1 > MaxStrong THEN "overflow" ELSE "done",
              [want EXCEPT !.strong = @ + 1, !.pinned = TRUE])
  /\ UNCHANGED weak

\* unpin is 1 for swift_unpin, which releases one reference.
Decrement(n, unpin) ==
  /\ Held >= n
  /\ unpin = 1 => n = 1 /\ want.pinned
  /\ OnObject(LAMBDA L, b : doDecrement(L, b, n, unpin),
              IF want.strong < n THEN "deinit" ELSE "done",
              LET w == [want EXCEPT !.pinned = @ /\ unpin = 0]
              IN IF want.strong < n THEN [w EXCEPT !.strong = 0, !.deiniting = TRUE]
                 ELSE [w EXCEPT !.strong = @ - n])
  /\ UNCHANGED weak

\* allocateSideTable: the entry's word is made from the inline one, with a
\* weak count of 1, and is then changed by its first user to s and wk.
allocateSideTable(a, s, wk) ==
  /\ inline' = SideTableBits(InlineLayout, a)
  /\ side' = s
  /\ weak' = wk

IncrementUnowned(n) ==
  \/ /\ want.side # 0 \/ want.unowned + n <= MaxCount(InlineLayout.unowned)
     /\ OnObject(LAMBDA L, b : incrementUnowned(L, b, n),
                 IF want.unowned + n > MaxCount(SideLayout.unowned)
                 THEN "overflow" ELSE "done",
                 [want EXCEPT !.unowned = @ + n])
     /\ UNCHANGED weak
  \/ \E a \in Address :  \* incrementUnownedSlow
       LET s == incrementUnowned(SideLayout, CopyFields(inline), n)
       IN /\ want.side = 0 /\ ~want.deiniting
          /\ want.unowned \in 1..MaxCount(SideLayout.unowned) - n
          /\ incrementUnowned(InlineLayout, inline, n).result = "overflow"
          /\ allocateSideTable(a, s.bits, 1)
          /\ got' = s.result /\ due' = "done"
          /\ want' = [want EXCEPT !.side = a, !.weak = 1, !.unowned = @ + n]

\* The strong references' share, and what initForNotFreeing adds, stay until
\* deinit is over.  The entry's last unowned count takes a weak count along.
DecrementUnowned(n) ==
  LET kept == IF want.deiniting /\ want.strong = 0
              THEN InitialUnowned - 1 ELSE InitialUnowned
      freed == want.unowned = n
      gone == IF freed /\ want.side # 0 THEN 1 ELSE 0
  IN /\ want.unowned - n >= kept
     /\ OnObject(LAMBDA L, b : decrementUnownedShouldFree(L, b, n),
                 IF freed THEN "free" ELSE "done",
                 [want EXCEPT !.unowned = @ - n, !.weak = @ - gone])
     /\ weak' = IF got' = "free" /\ want.side # 0 THEN (weak - 1) % 2^WeakBits ELSE weak

FormWeakReference(a) ==
  /\ want.side = 0 /\ want.unowned > 0 /\ ~want.deiniting
  /\ allocateSideTable(a, CopyFields(inline), 2)
  /\ got' = "done" /\ due' = "done"
  /\ want' = [want EXCEPT !.side = a, !.weak = 2]

\* incrementWeak aborts when weakBits has wrapped to a smaller number.
IncrementWeak ==
  LET new == (weak + 1) % 2^WeakBits
  IN /\ want.side # 0 /\ want.weak > 0
     /\ got' = IF new < weak THEN "overflow" ELSE "done"
     /\ due' = IF want.weak = MaxCount(WeakBits) THEN "overflow" ELSE "done"
     /\ weak' = IF new < weak THEN weak ELSE new
     /\ want' = IF due' = "overflow" THEN want ELSE [want EXCEPT !.weak = @ + 1]
     /\ UNCHANGED <<inline, side>>

DecrementWeak ==
  /\ want.side # 0 /\ want.weak > (IF want.unowned > 0 THEN 1 ELSE 0)
  /\ weak' = (weak - 1) % 2^WeakBits
  /\ got' = IF weak' = 0 THEN "free" ELSE "done"
  /\ due' = IF want.weak = 1 THEN "free" ELSE "done"
  /\ want' = [want EXCEPT !.weak = @ - 1]
  /\ UNCHANGED <<inline, side>>

Next ==
  \/ \E n \in 1..MaxN : \/ Increment(n) \/ IncrementUnowned(n) \/ DecrementUnowned(n)
                        \/ \E unpin \in {0, 1} : Decrement(n, unpin)
  \/ TryIncrement \/ TryIncrementAndPin
  \/ \E a \in Address : FormWeakReference(a)
  \/ IncrementWeak \/ DecrementWeak

Spec == Init /\ [][Next]_vars

-----------------------------------------------------------------------------
(* Queries of the object.                                                  *)

Deref(Q(_, _)) ==
  IF hasSideTable(InlineLayout, inline) THEN Q(SideLayout, side)
  ELSE Q(InlineLayout, inline)

isUniquelyReferenced == Deref(bitsAreUniquelyReferenced)

\* The bit twiddling is tried on the inline word whether or not that has a
\* side table.
isUniquelyReferencedOrPinned ==
  \/ bitsAreUniquelyReferencedOrPinned(InlineLayout, inline)
  \/ Deref(bitsAreUniquelyReferencedOrPinned)

getCount == Deref(getStrongExtraRefCount) + 1
getUnownedCount == Deref(getUnownedRefCount)
getWeakCount ==
  IF hasSideTable(InlineLayout, inline) THEN weak
  ELSE IF getUnownedRefCount(InlineLayout, inline) # 0 THEN 1 ELSE 0

\* What swift_verifyEndOfLifetime says of a stack object.
swift_verifyEndOfLifetime ==
  IF getCount # 0 THEN "Stack object escaped"
  ELSE IF getUnownedCount # 1 THEN "Unowned reference to stack object"
  ELSE IF getWeakCount # 0 THEN "Weak reference to stack object"
  ELSE "ok"

-----------------------------------------------------------------------------
(* Properties.                                                             *)

Unpacked(L, b) ==
  [strong |-> getStrongExtraRefCount(L, b), unowned |-> getUnownedRefCount(L, b),
   pinned |-> getIsPinned(L, b), deiniting |-> getIsDeiniting(L, b)]

\* The packed words hold exactly the counts and flags that unpacked
\* arithmetic gives, wherever they are; arithmetic on one field never spills
\* into another, moving to a side table loses nothing, and the side table
\* pointer is read back as it was stored.
WordsExact ==
  /\ hasSideTable(InlineLayout, inline) <=> want.side # 0
  /\ want.side # 0 =>
       /\ getSideTable(InlineLayout, inline) = want.side
       /\ ~hasSideTable(SideLayout, side)
       /\ weak = want.weak
  /\ Deref(Unpacked) = [f \in {"strong", "unowned", "pinned", "deiniting"} |-> want[f]]

\* Every operation takes the path unpacked counts call for: the sign test and
\* the re-read of the unowned count detect each overflow, underflow and side
\* table, and nothing else.
OutcomesExact == got = due

\* isUniquelyReferenced and the bit twiddling of isUniquelyReferencedOrPinned
\* mean what they say of an object that is not deiniting.
UniqueExact ==
  want.unowned > 0 /\ ~want.deiniting =>
    /\ isUniquelyReferenced <=> want.strong = 0
    /\ isUniquelyReferencedOrPinned <=> want.strong = 0 \/ want.pinned

\* What the code asserts and does not keep: setIsPinned, which
\* tryIncrementAndPin calls before it knows the path, meets no side table word.
SetIsPinnedMeetsCounts ==
  [][TryIncrementAndPin => ~hasSideTable(InlineLayout, inline)]_vars

\* What the code asserts and does not keep: isUniquelyReferencedOrPinned, which
\* asks getIsDeiniting of the inline word first, meets no side table word while
\* the object may be asked.
GetIsDeinitingMeetsCounts ==
  want.unowned > 0 /\ ~want.deiniting => ~hasSideTable(InlineLayout, inline)

\* What the code is for and does not do: swift_verifyEndOfLifetime accepts a
\* stack object whose references are all gone, deinited and with the unowned
\* count initForNotFreeing added.
EndOfLifetimeAccepted ==
  /\ InitialUnowned = 2 /\ want.deiniting /\ want.strong = 0
  /\ want.unowned = 1 /\ want.side = 0
  => swift_verifyEndOfLifetime = "ok"
=============================================================================
