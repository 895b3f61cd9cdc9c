--------------------------- MODULE ObjectLifecycle ---------------------------
(***************************************************************************)
(* What reference counting promises about one object: the life cycle that  *)
(* the head of RefCount.h describes, over the sets of references that      *)
(* exist.  There are no counts, words, side table entries or races here.   *)
(***************************************************************************)
CONSTANT Holder     \* whatever can hold a reference

VARIABLES
  state,      \* "LIVE", "DEINITING", "DEINITED", "FREED" or "DEAD"
  side,       \* the object has a side table
  strong,     \* holders of a strong reference
  unowned,    \* holders of an unowned reference
  weak        \* holders of a weak reference that is not nil

vars == <<state, side, strong, unowned, weak>>

Init ==
  /\ state = "LIVE" /\ ~side
  /\ \E h \in Holder : strong = {h}
  /\ unowned = {} /\ weak = {}

\* New strong references come from strong ones, or from a deinit() that uses
\* self; any other kind of reference yields one only while the object lives.
Retain(S) ==
  /\ state \in {"LIVE", "DEINITING"}
  /\ S # {} /\ S \cap strong = {}
  /\ strong' = strong \cup S
  /\ UNCHANGED <<state, side, unowned, weak>>

\* Releasing the last strong reference begins deinit, once.
Release(S) ==
  /\ S # {} /\ S \subseteq strong
  /\ strong' = strong \ S
  /\ state' = IF strong' = {} THEN "DEINITING" ELSE state
  /\ UNCHANGED <<side, unowned, weak>>

UnownedRetain(S) ==
  /\ state \in {"LIVE", "DEINITING", "DEINITED"}
  /\ state = "DEINITED" => unowned # {}
  /\ S # {} /\ S \cap unowned = {}
  /\ unowned' = unowned \cup S
  /\ UNCHANGED <<state, side, strong, weak>>

UnownedRelease(S) ==
  /\ S # {} /\ S \subseteq unowned
  /\ unowned' = unowned \ S
  /\ UNCHANGED <<state, side, strong, weak>>

\* A side table is gained once, by a live object.
GainSideTable ==
  /\ state = "LIVE" /\ ~side
  /\ side' = TRUE
  /\ UNCHANGED <<state, strong, unowned, weak>>

\* Weak references come, go and move between holders, if there is a side
\* table.  The first one is formed from a live object; others may be copied.
WeakChange ==
  /\ side
  /\ weak = {} => state = "LIVE"
  /\ weak' \in SUBSET Holder
  /\ UNCHANGED <<state, side, strong, unowned>>

\* deinit() has completed.
DeinitDone ==
  /\ state = "DEINITING" /\ strong = {}
  /\ state' = "DEINITED"
  /\ UNCHANGED <<side, strong, unowned, weak>>

\* The allocation is freed when no unowned reference is left, at once if
\* deinit() leaves an object without side table and without any.
Free ==
  /\ unowned = {} /\ strong = {}
  /\ \/ state = "DEINITED"
     \/ state = "DEINITING" /\ ~side
  /\ state' \in (IF side THEN {"FREED"} ELSE {"DEAD"})
                  \cup (IF weak = {} THEN {"DEAD"} ELSE {})
  /\ UNCHANGED <<side, strong, unowned, weak>>

\* The side table entry goes when no weak reference is left.
DeleteSideTable ==
  /\ state = "FREED" /\ weak = {}
  /\ state' = "DEAD"
  /\ UNCHANGED <<side, strong, unowned, weak>>

Next ==
  \/ \E S \in SUBSET Holder :
       \/ Retain(S) \/ Release(S) \/ UnownedRetain(S) \/ UnownedRelease(S)
  \/ WeakChange \/ GainSideTable \/ DeinitDone \/ Free \/ DeleteSideTable

Spec == Init /\ [][Next]_vars
=============================================================================
