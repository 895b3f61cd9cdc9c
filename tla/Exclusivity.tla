----------------------------- MODULE Exclusivity -----------------------------
(***************************************************************************)
(* Dynamic enforcement of the law of exclusivity: swift_beginAccess and    *)
(* swift_endAccess of Exclusivity.cpp.                                     *)
(*                                                                         *)
(* Each thread has an AccessSet, a list threaded through the scratch       *)
(* buffers that the program passes to swift_beginAccess and takes back     *)
(* after swift_endAccess.  Accesses need not end in the reverse of the     *)
(* order in which they began.  A debugger can suspend the tracking at any  *)
(* time and abandon what it began meanwhile.                               *)
(*                                                                         *)
(* open and silent record the accesses the program has underway; the       *)
(* runtime never reads them.                                               *)
(***************************************************************************)
EXTENDS Integers, Sequences, FiniteSets, SequencesExt

CONSTANTS
  Thread,
  Variable,      \* addresses of the program's variables
  Buffer,        \* addresses of scratch buffers
  Null,
  MaxReported    \* maxReportedConflicts

ASSUME ExclusivityAssumption ==
  IsFiniteSet(Buffer) /\ Null \notin Buffer \cup Variable /\ MaxReported \in Nat

VARIABLES
  head,       \* AccessSet::Head of each thread
  access,     \* the Access in each buffer
  disabled,   \* _swift_disableExclusivityChecking
  reported,   \* reportedConflicts, counted up to MaxReported
  open,       \* the accesses of each thread underway, the latest first
  silent,     \* buffers of accesses that began while tracking was suspended
  died        \* why the process was killed, or "no"

vars == <<head, access, disabled, reported, open, silent, died>>

Action == {"read", "modify"}

\* Contents of a buffer that is not in use.
Scratch == [pointer |-> Null, action |-> "read", next |-> Null]

Init ==
  /\ head = [t \in Thread |-> Null]
  /\ access = [b \in Buffer |-> Scratch]
  /\ disabled = FALSE
  /\ reported = 0
  /\ open = [t \in Thread |-> <<>>]
  /\ silent = [t \in Thread |-> {}]
  /\ died = "no"

Opened(t) == {open[t][i].buffer : i \in DOMAIN open[t]}
InUse == UNION {Opened(t) \cup silent[t] : t \in Thread}

\* The values of cur in a loop over the list of thread t, then Null.
Walk(t) ==
  LET cur[i \in 1..(Cardinality(Buffer) + 1)] ==
        IF i = 1 THEN head[t]
        ELSE IF cur[i - 1] = Null THEN Null ELSE access[cur[i - 1]].next
  IN cur

MutantConflicts(b, pointer, action) ==  \* a read after a modification passes
  access[b].pointer = pointer /\ action # "read"

MutantIgnoresPointer(b, pointer, action) ==  \* different values conflict
  ~(action = "read" /\ access[b].action = "read")

\* Accesses to the same value conflict unless both are reads.
Conflicts(b, pointer, action) ==
  /\ access[b].pointer = pointer
  /\ ~(action = "read" /\ access[b].action = "read")

\* reportExclusivityConflict returns at once when enough has been reported;
\* otherwise it kills the process unless the new access is warning-only.
Survives(warningOnly) == reported >= MaxReported \/ warningOnly

\* AccessSet::insert.
Insert(t, b, pointer, action, warningOnly) ==
  LET conflict == \E i \in DOMAIN Walk(t) :
                    Walk(t)[i] # Null /\ Conflicts(Walk(t)[i], pointer, action)
  IN /\ reported' = IF conflict /\ reported < MaxReported THEN reported + 1 ELSE reported
     /\ IF conflict /\ ~Survives(warningOnly)
        THEN died' = "conflict" /\ UNCHANGED <<access, head>>
        ELSE /\ access' = [access EXCEPT ![b] = [pointer |-> pointer, action |-> action,
                                                 next |-> head[t]]]
             /\ head' = [head EXCEPT ![t] = b]
             /\ UNCHANGED died
     /\ open' = [open EXCEPT ![t] = Cons([buffer |-> b, pointer |-> pointer, action |-> action,
                                          warningOnly |-> warningOnly], @)]
     /\ UNCHANGED silent

swift_beginAccess(t, b, pointer, action, warningOnly) ==
  /\ died = "no" /\ b \notin InUse
  /\ IF disabled
     THEN /\ access' = [access EXCEPT ![b].pointer = Null]
          /\ silent' = [silent EXCEPT ![t] = @ \cup {b}]
          /\ UNCHANGED <<head, reported, open, died>>
     ELSE Insert(t, b, pointer, action, warningOnly)
  /\ UNCHANGED disabled

MutantRelink(t, b) ==  \* the tail of the list is dropped
  \E last \in Buffer : /\ access[last].next = b
                       /\ access' = [access EXCEPT ![last].next = Null, ![b] = Scratch]

\* The predecessor of b takes over its successor.  The program then reuses
\* the buffer.
Relink(t, b) ==
  \E i \in 1..Cardinality(Buffer) :
    /\ Walk(t)[i + 1] = b
    /\ access' = [access EXCEPT ![Walk(t)[i]].next = access[b].next, ![b] = Scratch]

\* AccessSet::remove.
RemoveAccess(t, b) ==
  \/ /\ head[t] = b
     /\ head' = [head EXCEPT ![t] = access[b].next]
     /\ access' = [access EXCEPT ![b] = Scratch]
     /\ UNCHANGED died
  \/ /\ head[t] # b
     /\ Relink(t, b)
     /\ UNCHANGED <<head, died>>
  \/ /\ \A i \in DOMAIN Walk(t) : Walk(t)[i] # b
     /\ died' = "access not found in set"
     /\ UNCHANGED <<head, access>>

\* The access in b is no longer underway.
Close(t, b) ==
  \/ /\ b \in silent[t]
     /\ silent' = [silent EXCEPT ![t] = @ \ {b}]
     /\ UNCHANGED open
  \/ \E i \in DOMAIN open[t] :
       /\ open[t][i].buffer = b
       /\ open' = [open EXCEPT ![t] = RemoveAt(@, i)]
       /\ UNCHANGED silent

MutantUntracked(b) == FALSE  \* the null pointer is not tested

Untracked(b) == access[b].pointer = Null

swift_endAccess(t, b) ==
  /\ died = "no"
  /\ Close(t, b)
  /\ IF Untracked(b)
     THEN access' = [access EXCEPT ![b] = Scratch] /\ UNCHANGED <<head, died>>
     ELSE RemoveAccess(t, b)
  /\ UNCHANGED <<disabled, reported>>

\* A debugger sets and clears the flag.
SetDisabled ==
  /\ died = "no"
  /\ disabled' = ~disabled
  /\ UNCHANGED <<head, access, reported, open, silent, died>>

\* Code run by the debugger crashed and its frame is unwound: an access that
\* began while tracking was suspended is never ended.
Abandon(t, b) ==
  /\ died = "no" /\ disabled
  /\ b \in silent[t]
  /\ silent' = [silent EXCEPT ![t] = @ \ {b}]
  /\ access' = [access EXCEPT ![b] = Scratch]
  /\ UNCHANGED <<head, disabled, reported, open, died>>

Next ==
  \/ \E t \in Thread, b \in Buffer :
       \/ \E p \in Variable, a \in Action, w \in BOOLEAN : swift_beginAccess(t, b, p, a, w)
       \/ swift_endAccess(t, b)
       \/ Abandon(t, b)
  \/ SetDisabled
  \/ died # "no" /\ UNCHANGED vars

Spec == Init /\ [][Next]_vars

-----------------------------------------------------------------------------
(* Properties.                                                             *)

\* The list through the scratch buffers is always the thread's tracked
\* accesses, the latest first, however their ends interleave: none is lost,
\* and no buffer the program has taken back, or the debugger has abandoned,
\* is still linked.
ListExact ==
  died # "conflict" => \A t \in Thread :
    /\ DOMAIN open[t] \subseteq DOMAIN Walk(t)
    /\ \A i \in DOMAIN Walk(t) :
         Walk(t)[i] = IF i \in DOMAIN open[t] THEN open[t][i].buffer ELSE Null
    /\ \A i \in DOMAIN open[t] : /\ access[open[t][i].buffer].pointer = open[t][i].pointer
                                 /\ access[open[t][i].buffer].action = open[t][i].action

\* Access j of thread t overlaps an earlier one that it conflicts with.
Violates(t, j) ==
  \E i \in (j + 1)..Len(open[t]) :
    /\ open[t][i].pointer = open[t][j].pointer
    /\ {open[t][i].action, open[t][j].action} # {"read"}

\* The law of exclusivity: while fewer conflicts than the limit have been
\* reported, no thread of a living process has two overlapping accesses to a
\* variable, one of them a modification, unless the later one asked for a
\* warning only.
LawOfExclusivity ==
  died = "no" =>
    \A t \in Thread : \A j \in DOMAIN open[t] :
      Violates(t, j) => open[t][j].warningOnly \/ reported = MaxReported

\* swift_endAccess finds every access it looks for: the process is never
\* killed for a missing one, whenever tracking was suspended and resumed.
EndFindsAccess == died # "access not found in set"

\* A conflict is counted, and the process killed for one, only when there is
\* one: the access just begun overlaps an earlier one of its thread to the
\* same variable, and one of them modifies it.
NoFalseReport ==
  [][reported' # reported \/ (died' = "conflict" /\ died = "no") =>
       \E t \in Thread : /\ Len(open'[t]) > Len(open[t])
                         /\ Violates(t, 1)']_vars

\* What WarningOnly suggests and the report limit breaks: without that flag a
\* conflict is always an exclusivity failure.
ConflictIsFatal ==
  died = "no" =>
    \A t \in Thread : \A j \in DOMAIN open[t] : Violates(t, j) => open[t][j].warningOnly
==============================================================================
