-------------------------- MODULE ForeignTypesProofs --------------------------
(***************************************************************************)
(* Proofs about ForeignTypes: the records of one name have one canonical   *)
(* record, which is initialized once and before any call returns it.       *)
(*                                                                         *)
(* The null entry of a name is owned by the one frame, of all stacks, that *)
(* inserted it; nothing is assumed of the order in which initialization    *)
(* functions ask for each other's records.  An iterator that was kept      *)
(* while the lock was dropped is used only if it still points.             *)
(***************************************************************************)
EXTENDS ForeignTypes, TLAPS

USE ForeignTypesAssumption

Label ==
  {"fastPath", "lookup", "wait", "initialize", "initialized", "publish", "checkCache", "setCache"}
Frames == [nonUnique : Record, unique : Record \cup {None}, at : Label,
           savedSize : Nat, savedIterator : Nat]

TypeOK ==
  /\ types \in [Name -> Record \cup {None, Placeholder}]
  /\ cache \in [Record -> Record \cup {None}]
  /\ stack \in [Thread -> Seq(Frames)]
  /\ waiting \in SUBSET Thread
  /\ initialized \in [Record -> Nat]
  /\ answer \in [Thread -> [of : Record, is : Record] \cup {None}]

\* The frame has made the entry null and has not changed it yet.
Owning(f) == f.at \in {"initialize", "initialized", "publish"}

\* What a frame relies on of the entry y of its name and the number c of
\* times its record was initialized.
FrameInv(f, y, c) ==
  /\ Owning(f) => f.nonUnique \in HasInit /\ f.unique = f.nonUnique /\ y = Placeholder
  /\ f.at \in {"initialize", "initialized"} => c = 0
  /\ f.at = "publish" => c = 1
  /\ f.at \in {"checkCache", "setCache"} => f.unique = y /\ y \in Record
  /\ f.at = "wait" => y # None

\* Only the innermost call of a thread is anywhere else than in the
\* initialization function of its record.
StackInv(t) ==
  \A i \in 1..Len(stack[t]) :
    /\ FrameInv(stack[t][i], types[NameOf[stack[t][i].nonUnique]], initialized[stack[t][i].nonUnique])
    /\ i < Len(stack[t]) => stack[t][i].at = "initialized"

\* A null entry has one owner.
SoleInv ==
  \A t, u \in Thread : \A i \in 1..Len(stack[t]), j \in 1..Len(stack[u]) :
    /\ Owning(stack[t][i]) /\ Owning(stack[u][j])
    /\ NameOf[stack[t][i].nonUnique] = NameOf[stack[u][j].nonUnique]
    => t = u /\ i = j

\* An entry that is not null is a record of that name, initialized if it has
\* to be.
NameInv(n) ==
  types[n] \in Record =>
    NameOf[types[n]] = n /\ (types[n] \in HasInit => initialized[types[n]] = 1)

RecordInv(r) ==
  /\ initialized[r] <= 1
  /\ types[NameOf[r]] = None => initialized[r] = 0
  /\ cache[r] # None => cache[r] = types[NameOf[r]]

AnswerInv(t) ==
  Answered(t) => answer[t].is = types[NameOf[answer[t].of]]

\* An iterator is as old as its size says: while the map has that size, it
\* has the same buckets.
SavedFrame(f, map) ==
  f.savedSize <= map.size /\ (f.savedSize = map.size => f.savedIterator = map.buckets)

SavedInv ==
  /\ table \in [size : Nat, buckets : Nat] /\ (table.size = 0 => table.buckets = 0)
  /\ \A t \in Thread : \A i \in 1..Len(stack[t]) : SavedFrame(stack[t][i], table)

\* Holds initially and, with SavedInv, is kept by every step.
IInv ==
  /\ TypeOK
  /\ \A t \in Thread : StackInv(t) /\ AnswerInv(t)
  /\ SoleInv
  /\ \A n \in Name : NameInv(n)
  /\ \A r \in Record : RecordInv(r)

-----------------------------------------------------------------------------
\* What a step leaves of the stack of the thread that takes it.

LEMMA FrameType ==
  ASSUME TypeOK, NEW u \in Thread, NEW i \in 1..Len(stack[u])
  PROVE  /\ stack[u][i] \in Frames /\ stack[u][i].nonUnique \in Record
         /\ NameOf[stack[u][i].nonUnique] \in Name
<1>1. stack[u] \in Seq(Frames)
  BY DEF TypeOK
<1>2. stack[u][i] \in Frames
  BY <1>1
<1>3. stack[u][i].nonUnique \in Record
  BY <1>2 DEF Frames
<1> QED BY <1>2, <1>3

LEMMA TopFrame ==
  ASSUME IInv, NEW t \in Thread, stack[t] # <<>>
  PROVE  /\ Len(stack[t]) \in Nat \ {0} /\ Len(stack[t]) \in 1..Len(stack[t])
         /\ stack[t] \in Seq(Frames)
         /\ Top(t) \in Frames /\ Top(t).nonUnique \in Record /\ NameOf[Top(t).nonUnique] \in Name
         /\ FrameInv(Top(t), types[NameOf[Top(t).nonUnique]], initialized[Top(t).nonUnique])
         /\ RecordInv(Top(t).nonUnique) /\ NameInv(NameOf[Top(t).nonUnique])
<1>1. TypeOK /\ StackInv(t)
  BY DEF IInv
<1>2. Len(stack[t]) \in Nat \ {0} /\ Len(stack[t]) \in 1..Len(stack[t]) /\ stack[t] \in Seq(Frames)
  BY <1>1 DEF TypeOK
<1>3. /\ Top(t) \in Frames /\ Top(t).nonUnique \in Record /\ NameOf[Top(t).nonUnique] \in Name
  BY <1>1, <1>2, FrameType DEF Top
<1>4. FrameInv(Top(t), types[NameOf[Top(t).nonUnique]], initialized[Top(t).nonUnique])
  BY <1>1, <1>2 DEF StackInv, Top
<1> QED BY <1>2, <1>3, <1>4 DEF IInv

\* The innermost frame of thread t goes on at a place with a unique record.
Replaces(t, label, unique) ==
  /\ stack' \in [Thread -> Seq(Frames)]
  /\ Len(stack'[t]) = Len(stack[t])
  /\ \A i \in 1..(Len(stack[t]) - 1) : stack'[t][i] = stack[t][i]
  /\ stack'[t][Len(stack[t])].nonUnique = Top(t).nonUnique
  /\ stack'[t][Len(stack[t])].at = label
  /\ stack'[t][Len(stack[t])].unique = unique
  /\ \A u \in Thread \ {t} : stack'[u] = stack[u]

LEMMA ReplaceTopFacts ==
  ASSUME IInv, NEW t \in Thread, stack[t] # <<>>, NEW f \in Frames,
         f.nonUnique = Top(t).nonUnique, ReplaceTop(t, f)
  PROVE  Replaces(t, f.at, f.unique) /\ stack'[t][Len(stack[t])] = f
<1> DEFINE s == stack[t]
           n == Len(s)
           s1 == [s EXCEPT ![n] = f]
<1>1. s \in Seq(Frames) /\ n \in Nat \ {0}
  BY TopFrame
<1>2. stack' = [stack EXCEPT ![t] = s1]
  BY DEF ReplaceTop
<1>3. s1 \in Seq(Frames) /\ Len(s1) = n /\ s1[n] = f /\ \A i \in 1..(n - 1) : s1[i] = s[i]
  BY <1>1
<1> HIDE DEF s1
<1>4. /\ stack'[t] = s1 /\ \A u \in Thread \ {t} : stack'[u] = stack[u]
      /\ stack' \in [Thread -> Seq(Frames)]
  BY <1>2, <1>3 DEF IInv, TypeOK
<1> QED BY <1>3, <1>4 DEF Replaces

LEMMA GotoFacts ==
  ASSUME IInv, NEW t \in Thread, stack[t] # <<>>, NEW label \in Label, Goto(t, label)
  PROVE  Replaces(t, label, Top(t).unique)
<1> DEFINE f == [Top(t) EXCEPT !.at = label]
<1>1. f \in Frames /\ f.nonUnique = Top(t).nonUnique /\ f.at = label /\ f.unique = Top(t).unique
  BY TopFrame DEF Frames
<1>2. ReplaceTop(t, f)
  BY DEF Goto
<1> HIDE DEF f
<1>3. Replaces(t, f.at, f.unique)
  BY <1>1, <1>2, ReplaceTopFacts
<1> QED BY <1>1, <1>3

\* The critical section saves an iterator and goes on.
LEMMA SaveFacts ==
  ASSUME NEW f \in Frames, NEW map \in [size : Nat, buckets : Nat]
  PROVE  /\ Save(f, map) \in Frames /\ SavedFrame(Save(f, map), map)
         /\ Save(f, map).nonUnique = f.nonUnique /\ Save(f, map).at = f.at
         /\ Save(f, map).unique = f.unique
<1> DEFINE g == Save(f, map)
<1>1. map.size \in Nat /\ map.buckets \in Nat
  OBVIOUS
<1>2. /\ g \in Frames /\ g.nonUnique = f.nonUnique /\ g.at = f.at /\ g.unique = f.unique
      /\ g.savedSize = map.size /\ g.savedIterator = map.buckets
  BY <1>1 DEF Save, Frames
<1> HIDE DEF g
<1>3. SavedFrame(g, map)
  BY <1>1, <1>2 DEF SavedFrame
<1> QED BY <1>2, <1>3 DEF g

LEMMA SavedMove ==
  ASSUME IInv, NEW t \in Thread, stack[t] # <<>>, NEW label \in Label,
         NEW unique \in Record \cup {None}, NEW map \in [size : Nat, buckets : Nat],
         ReplaceTop(t, [Save(Top(t), map) EXCEPT !.at = label, !.unique = unique])
  PROVE  Replaces(t, label, unique) /\ SavedFrame(stack'[t][Len(stack[t])], map)
<1> DEFINE f == Save(Top(t), map)
           g == [f EXCEPT !.at = label, !.unique = unique]
<1>1. f \in Frames /\ f.nonUnique = Top(t).nonUnique /\ SavedFrame(f, map)
  BY TopFrame, SaveFacts
<1>2. ReplaceTop(t, g)
  OBVIOUS
<1> HIDE DEF f
<1>3. /\ g \in Frames /\ g.nonUnique = f.nonUnique /\ g.at = label /\ g.unique = unique
      /\ g.savedSize = f.savedSize /\ g.savedIterator = f.savedIterator
  BY <1>1 DEF Frames
<1> HIDE DEF g
<1>4. Replaces(t, g.at, g.unique) /\ stack'[t][Len(stack[t])] = g
  BY <1>1, <1>2, <1>3, ReplaceTopFacts
<1> QED BY <1>1, <1>3, <1>4 DEF SavedFrame

\* getCurrentEntry returns the entry of the map itself.
LEMMA IteratorPoints ==
  ASSUME IInv, SavedInv, NEW t \in Thread, stack[t] # <<>>, NEW f, f = CurrentEntry(Top(t))
  PROVE  /\ f \in Frames /\ f.nonUnique = Top(t).nonUnique /\ f.at = Top(t).at
         /\ f.unique = Top(t).unique /\ SavedFrame(f, table) /\ Points(f)
<1>1. Top(t) \in Frames /\ table \in [size : Nat, buckets : Nat] /\ SavedFrame(Top(t), table)
  BY TopFrame DEF SavedInv, Top
<1>2. CASE table.size # Top(t).savedSize
  <2>1. f = Save(Top(t), table)
    BY <1>2 DEF CurrentEntry
  <2>2. f.savedIterator = table.buckets
    BY <1>1, <2>1 DEF Save, Frames
  <2> QED BY <1>1, <2>1, <2>2, SaveFacts DEF Points
<1>3. CASE table.size = Top(t).savedSize
  <2>1. f = Top(t)
    BY <1>3 DEF CurrentEntry
  <2> QED BY <1>1, <1>3, <2>1 DEF Points, SavedFrame
<1> QED BY <1>2, <1>3

\* The innermost frame of thread t goes.
Pops(t) ==
  /\ stack' \in [Thread -> Seq(Frames)]
  /\ Len(stack'[t]) = Len(stack[t]) - 1
  /\ \A i \in 1..(Len(stack[t]) - 1) : stack'[t][i] = stack[t][i]
  /\ \A u \in Thread \ {t} : stack'[u] = stack[u]

LEMMA ReturnFacts ==
  ASSUME IInv, NEW t \in Thread, stack[t] # <<>>, NEW unique \in Record, Return(t, unique)
  PROVE  /\ Pops(t)
         /\ answer' \in [Thread -> [of : Record, is : Record] \cup {None}]
         /\ answer'[t].of = Top(t).nonUnique /\ answer'[t].is = unique
         /\ \A u \in Thread \ {t} : answer'[u] = answer[u]
<1> DEFINE s == stack[t]
           n == Len(s)
           s1 == SubSeq(s, 1, n - 1)
<1>1. s \in Seq(Frames) /\ n \in Nat \ {0} /\ s[n] \in Frames /\ Top(t).nonUnique \in Record
  BY TopFrame DEF Top
<1>2. stack' = [stack EXCEPT ![t] = s1]
  BY DEF Return
<1>3. s1 \in Seq(Frames) /\ Len(s1) = n - 1 /\ \A i \in 1..(n - 1) : s1[i] = s[i]
  BY <1>1
<1> HIDE DEF s1
<1>4. stack'[t] = s1 /\ \A u \in Thread \ {t} : stack'[u] = stack[u]
  BY <1>2 DEF IInv, TypeOK
<1>5. stack' \in [Thread -> Seq(Frames)]
  BY <1>2, <1>3 DEF IInv, TypeOK
<1>6. Pops(t)
  BY <1>3, <1>4, <1>5 DEF Pops
<1> DEFINE a == [of |-> Top(t).nonUnique, is |-> unique]
<1>7. a \in [of : Record, is : Record] /\ a.of = Top(t).nonUnique /\ a.is = unique
  BY <1>1
<1>8. answer' = [answer EXCEPT ![t] = a]
  BY DEF Return
<1> HIDE DEF a
<1> QED BY <1>6, <1>7, <1>8 DEF IInv, TypeOK

-----------------------------------------------------------------------------
\* Iterators: an insertion changes the size, so that no older iterator claims
\* to be valid.

LEMMA SavedKept ==
  ASSUME SavedInv, NEW t \in Thread, TypeOK, table' = table \/ Insert,
         \A u \in Thread \ {t} : stack'[u] = stack[u],
         \A i \in 1..Len(stack'[t]) :
           \/ SavedFrame(stack'[t][i], table')
           \/ i \in 1..Len(stack[t]) /\ stack'[t][i].savedSize = stack[t][i].savedSize
              /\ stack'[t][i].savedIterator = stack[t][i].savedIterator
  PROVE  SavedInv'
<1>1. /\ table \in [size : Nat, buckets : Nat] /\ table' \in [size : Nat, buckets : Nat]
      /\ table'.size = 0 => table'.buckets = 0
      /\ table' = table \/ table'.size = table.size + 1
  BY DEF SavedInv, Insert
<1>2. ASSUME NEW u \in Thread, NEW i \in 1..Len(stack[u]), NEW g,
             g.savedSize = stack[u][i].savedSize, g.savedIterator = stack[u][i].savedIterator
      PROVE  SavedFrame(g, table')
  <2>1. SavedFrame(stack[u][i], table) /\ stack[u][i].savedSize \in Nat
    BY FrameType DEF SavedInv, Frames
  <2>2. table.size \in Nat
    BY <1>1
  <2> QED BY <1>1, <1>2, <2>1, <2>2 DEF SavedFrame
<1>3. ASSUME NEW u \in Thread, NEW i \in 1..Len(stack'[u])
      PROVE  SavedFrame(stack'[u][i], table')
  <2>1. CASE u = t
    BY <1>2, <1>3, <2>1
  <2>2. CASE u # t
    <3>1. stack'[u] = stack[u]
      BY <2>2
    <3> QED BY <1>2, <1>3, <3>1
  <2> QED BY <2>1, <2>2
<1> QED BY <1>1, <1>3 DEF SavedInv

LEMMA SavedReplaced ==
  ASSUME IInv, SavedInv, NEW t \in Thread, stack[t] # <<>>, NEW label, NEW unique,
         Replaces(t, label, unique), table' = table \/ Insert,
         SavedFrame(stack'[t][Len(stack[t])], table')
  PROVE  SavedInv'
<1>1. Len(stack[t]) \in Nat \ {0} /\ TypeOK
  BY TopFrame DEF IInv
<1>2. ASSUME NEW i \in 1..Len(stack'[t])
      PROVE  \/ SavedFrame(stack'[t][i], table')
             \/ i \in 1..Len(stack[t]) /\ stack'[t][i] = stack[t][i]
  <2>1. CASE i = Len(stack[t])
    BY <2>1
  <2>2. CASE i # Len(stack[t])
    <3>1. i \in 1..(Len(stack[t]) - 1) /\ i \in 1..Len(stack[t])
      BY <1>1, <2>2 DEF Replaces
    <3> QED BY <3>1 DEF Replaces
  <2> QED BY <2>1, <2>2
<1> QED BY <1>1, <1>2, SavedKept DEF Replaces

LEMMA SavedGoto ==
  ASSUME IInv, SavedInv, NEW t \in Thread, stack[t] # <<>>, NEW label \in Label, Goto(t, label),
         UNCHANGED table
  PROVE  SavedInv'
<1> DEFINE f == [Top(t) EXCEPT !.at = label]
<1>1. /\ f \in Frames /\ f.nonUnique = Top(t).nonUnique
      /\ f.savedSize = Top(t).savedSize /\ f.savedIterator = Top(t).savedIterator
  BY TopFrame DEF Frames
<1>2. ReplaceTop(t, f)
  BY DEF Goto
<1> HIDE DEF f
<1>3. Replaces(t, f.at, f.unique) /\ stack'[t][Len(stack[t])] = f
  BY <1>1, <1>2, ReplaceTopFacts
<1>4. SavedFrame(Top(t), table)
  BY TopFrame DEF SavedInv, Top
<1> QED BY <1>1, <1>3, <1>4, SavedReplaced DEF SavedFrame

LEMMA SavedPopped ==
  ASSUME IInv, SavedInv, NEW t \in Thread, stack[t] # <<>>, Pops(t), UNCHANGED table
  PROVE  SavedInv'
<1>1. Len(stack[t]) \in Nat \ {0} /\ TypeOK
  BY TopFrame DEF IInv
<1>2. ASSUME NEW i \in 1..Len(stack'[t])
      PROVE  i \in 1..Len(stack[t]) /\ stack'[t][i] = stack[t][i]
  BY <1>1 DEF Pops
<1> QED BY <1>1, <1>2, SavedKept DEF Pops

\* A call begins without an iterator.
LEMMA SavedPushed ==
  ASSUME IInv, SavedInv, NEW t \in Thread, NEW r \in Record, NEW s \in Seq(Frames),
         Len(s) = Len(stack[t]), stack' = [stack EXCEPT ![t] = Append(s, Frame(r))],
         \A i \in 1..Len(s) : /\ s[i].savedSize = stack[t][i].savedSize
                             /\ s[i].savedIterator = stack[t][i].savedIterator,
         UNCHANGED table
  PROVE  SavedInv'
<1>1. TypeOK /\ table \in [size : Nat, buckets : Nat] /\ (table.size = 0 => table.buckets = 0)
  BY DEF IInv, SavedInv
<1>2. Frame(r).savedSize = 0 /\ Frame(r).savedIterator = 0 /\ Frame(r) \in Frames
  BY DEF Frame, Frames, Label
<1>3. SavedFrame(Frame(r), table)
  <2>1. table.size \in Nat
    BY <1>1
  <2> QED BY <1>1, <1>2, <2>1 DEF SavedFrame
<1>4. stack'[t] = Append(s, Frame(r)) /\ \A u \in Thread \ {t} : stack'[u] = stack[u]
  BY <1>1 DEF TypeOK
<1> HIDE DEF Frame
<1>5. ASSUME NEW i \in 1..Len(stack'[t])
      PROVE  \/ stack'[t][i] = Frame(r)
             \/ i \in 1..Len(s) /\ stack'[t][i] = s[i]
  <2>1. /\ Len(s) \in Nat /\ Len(Append(s, Frame(r))) = Len(s) + 1
        /\ Append(s, Frame(r))[Len(s) + 1] = Frame(r)
    BY <1>2
  <2>2. CASE i = Len(s) + 1
    BY <1>4, <2>1, <2>2
  <2>3. CASE i # Len(s) + 1
    <3>1. i \in 1..Len(s)
      BY <1>4, <2>1, <2>3
    <3>2. Append(s, Frame(r))[i] = s[i]
      BY <1>2, <3>1
    <3> QED BY <1>4, <3>1, <3>2
  <2> QED BY <2>2, <2>3
<1>6. ASSUME NEW i \in 1..Len(stack'[t])
      PROVE  \/ SavedFrame(stack'[t][i], table')
             \/ i \in 1..Len(stack[t]) /\ stack'[t][i].savedSize = stack[t][i].savedSize
                /\ stack'[t][i].savedIterator = stack[t][i].savedIterator
  BY <1>3, <1>5
<1> QED BY <1>1, <1>4, <1>6, SavedKept

-----------------------------------------------------------------------------
\* No other frame owns the entry of the record of t's innermost frame.
Sole(t) ==
  \A u \in Thread : \A i \in 1..Len(stack[u]) :
    Owning(stack[u][i]) /\ NameOf[stack[u][i].nonUnique] = NameOf[Top(t).nonUnique] =>
      u = t /\ i = Len(stack[t])

\* A step changes at most the entry that its thread owns or creates, and the
\* count of its record, and no entry that is a record.
ChangesOwn(t) ==
  /\ \A u \in Thread \ {t} : stack'[u] = stack[u]
  /\ \A n \in Name \ {NameOf[Top(t).nonUnique]} : types'[n] = types[n]
  /\ \A n \in Name : types[n] \in Record => types'[n] = types[n]
  /\ \A n \in Name : types[n] # None => types'[n] # None
  /\ \A r \in Record \ {Top(t).nonUnique} : initialized'[r] = initialized[r]
  /\ UNCHANGED <<types, initialized>> \/ Sole(t)

\* The frames of thread t but for the innermost are in order after the step.
OuterFrames(t) ==
  \A i \in 1..(Len(stack[t]) - 1) :
    /\ FrameInv(stack[t][i], types'[NameOf[stack[t][i].nonUnique]],
                initialized'[stack[t][i].nonUnique])
    /\ stack[t][i].at = "initialized"

LEMMA OwnSole ==
  ASSUME IInv, NEW t \in Thread, stack[t] # <<>>, Owning(Top(t))
  PROVE  Sole(t)
BY TopFrame DEF IInv, SoleInv, Sole, Top

LEMMA OtherFrames ==
  ASSUME IInv, NEW t \in Thread, ChangesOwn(t)
  PROVE  OuterFrames(t) /\ \A u \in Thread \ {t} : StackInv(u)'
<1>1. TypeOK /\ \A u \in Thread : StackInv(u) /\ Len(stack[u]) \in Nat
  BY DEF IInv, TypeOK
<1>2. ASSUME NEW u \in Thread, NEW i \in 1..Len(stack[u]), u # t \/ i < Len(stack[t])
      PROVE  FrameInv(stack[u][i], types'[NameOf[stack[u][i].nonUnique]],
                      initialized'[stack[u][i].nonUnique])
  <2> DEFINE f == stack[u][i]
  <2>1. f.nonUnique \in Record /\ NameOf[f.nonUnique] \in Name
    BY <1>1, FrameType
  <2>2. FrameInv(f, types[NameOf[f.nonUnique]], initialized[f.nonUnique])
    BY <1>1 DEF StackInv
  <2>3. CASE UNCHANGED <<types, initialized>>
    BY <2>2, <2>3
  <2>4. CASE Sole(t) /\ Owning(f)
    <3>1. NameOf[f.nonUnique] # NameOf[Top(t).nonUnique]
      BY <1>1, <1>2, <2>4 DEF Sole
    <3>2. /\ types'[NameOf[f.nonUnique]] = types[NameOf[f.nonUnique]]
          /\ initialized'[f.nonUnique] = initialized[f.nonUnique]
      BY <2>1, <3>1 DEF ChangesOwn
    <3> QED BY <2>2, <3>2
  <2>5. CASE ~Owning(f)
    <3>1. /\ types[NameOf[f.nonUnique]] \in Record =>
               types'[NameOf[f.nonUnique]] = types[NameOf[f.nonUnique]]
          /\ types[NameOf[f.nonUnique]] # None => types'[NameOf[f.nonUnique]] # None
      BY <2>1 DEF ChangesOwn
    <3> QED BY <2>2, <2>5, <3>1 DEF FrameInv, Owning
  <2> QED BY <2>3, <2>4, <2>5 DEF ChangesOwn
<1>3. ASSUME NEW u \in Thread \ {t} PROVE StackInv(u)'
  <2>0. stack'[u] = stack[u]
    BY DEF ChangesOwn
  <2>1. ASSUME NEW i \in 1..Len(stack'[u])
        PROVE  /\ FrameInv(stack'[u][i], types'[NameOf[stack'[u][i].nonUnique]],
                           initialized'[stack'[u][i].nonUnique])
               /\ i < Len(stack'[u]) => stack'[u][i].at = "initialized"
    <3>1. FrameInv(stack[u][i], types'[NameOf[stack[u][i].nonUnique]],
                   initialized'[stack[u][i].nonUnique])
      BY <1>2, <2>0
    <3>2. i < Len(stack[u]) => stack[u][i].at = "initialized"
      BY <1>1, <2>0 DEF StackInv
    <3> QED BY <2>0, <3>1, <3>2
  <2> QED BY <2>1 DEF StackInv
<1>4. ASSUME NEW i \in 1..(Len(stack[t]) - 1)
      PROVE  /\ FrameInv(stack[t][i], types'[NameOf[stack[t][i].nonUnique]],
                         initialized'[stack[t][i].nonUnique])
             /\ stack[t][i].at = "initialized"
  <2>1. i \in 1..Len(stack[t]) /\ i < Len(stack[t])
    BY <1>1
  <2> QED BY <1>1, <1>2, <2>1 DEF StackInv
<1> QED BY <1>3, <1>4 DEF OuterFrames

\* What calls were given stays the canonical record of its name.
LEMMA AnswersKept ==
  ASSUME IInv, NEW t \in Thread, ChangesOwn(t), NEW u \in Thread, answer'[u] = answer[u]
  PROVE  AnswerInv(u)'
<1> SUFFICES ASSUME answer[u] # None
             PROVE  answer[u].is = types'[NameOf[answer[u].of]]
  BY DEF AnswerInv, Answered
<1>1. answer[u] \in [of : Record, is : Record] /\ answer[u].is = types[NameOf[answer[u].of]]
  BY DEF IInv, TypeOK, AnswerInv, Answered
<1>2. NameOf[answer[u].of] \in Name /\ types[NameOf[answer[u].of]] \in Record
  BY <1>1
<1> QED BY <1>1, <1>2 DEF ChangesOwn

LEMMA SameNames ==
  ASSUME IInv, UNCHANGED <<types, cache, initialized>>
  PROVE  (\A n \in Name : NameInv(n)') /\ (\A r \in Record : RecordInv(r)')
BY DEF IInv, NameInv, RecordInv

\* A step that makes no frame an owner leaves every entry its one owner.
LEMMA SoleFrame ==
  ASSUME SoleInv,
         \A u \in Thread : \A i \in 1..Len(stack'[u]) :
           Owning(stack'[u][i]) => /\ i \in 1..Len(stack[u]) /\ Owning(stack[u][i])
                                   /\ stack'[u][i].nonUnique = stack[u][i].nonUnique
  PROVE  SoleInv'
<1> SUFFICES ASSUME NEW t \in Thread, NEW u \in Thread,
                    NEW i \in 1..Len(stack'[t]), NEW j \in 1..Len(stack'[u]),
                    Owning(stack'[t][i]), Owning(stack'[u][j]),
                    NameOf[stack'[t][i].nonUnique] = NameOf[stack'[u][j].nonUnique]
             PROVE  t = u /\ i = j
  BY DEF SoleInv, Owning
<1>1. /\ i \in 1..Len(stack[t]) /\ Owning(stack[t][i])
      /\ stack'[t][i].nonUnique = stack[t][i].nonUnique
  OBVIOUS
<1>2. /\ j \in 1..Len(stack[u]) /\ Owning(stack[u][j])
      /\ stack'[u][j].nonUnique = stack[u][j].nonUnique
  OBVIOUS
<1>3. NameOf[stack[t][i].nonUnique] = NameOf[stack[u][j].nonUnique]
  BY <1>1, <1>2
<1> QED BY <1>1, <1>2, <1>3 DEF SoleInv

LEMMA ReplaceInv ==
  ASSUME IInv, NEW t \in Thread, stack[t] # <<>>, NEW label \in Label, NEW unique,
         Replaces(t, label, unique), ChangesOwn(t), TypeOK', answer' = answer,
         \A f : f.nonUnique = Top(t).nonUnique /\ f.at = label /\ f.unique = unique =>
           FrameInv(f, types'[NameOf[Top(t).nonUnique]], initialized'[Top(t).nonUnique]),
         label \in {"initialize", "initialized", "publish"} => Sole(t),
         \A n \in Name : NameInv(n)', \A r \in Record : RecordInv(r)'
  PROVE  IInv'
<1> DEFINE n == Len(stack[t])
           f == stack'[t][n]
<1>1. n \in Nat \ {0}
  BY TopFrame
<1>2. /\ Len(stack'[t]) = n
      /\ \A i \in 1..(n - 1) : stack'[t][i] = stack[t][i]
      /\ f.nonUnique = Top(t).nonUnique /\ f.at = label /\ f.unique = unique
      /\ \A u \in Thread \ {t} : stack'[u] = stack[u]
  BY DEF Replaces
<1>3. OuterFrames(t) /\ \A u \in Thread \ {t} : StackInv(u)'
  BY OtherFrames
<1>4. FrameInv(f, types'[NameOf[f.nonUnique]], initialized'[f.nonUnique])
  BY <1>2
<1>5. StackInv(t)'
  <2>1. ASSUME NEW i \in 1..n
        PROVE  /\ FrameInv(stack'[t][i], types'[NameOf[stack'[t][i].nonUnique]],
                           initialized'[stack'[t][i].nonUnique])
               /\ i < n => stack'[t][i].at = "initialized"
    <3>1. CASE i = n
      BY <1>1, <1>4, <3>1
    <3>2. CASE i # n
      <4>1. i \in 1..(n - 1)
        BY <1>1, <3>2
      <4> QED BY <1>2, <1>3, <4>1 DEF OuterFrames
    <3> QED BY <3>1, <3>2
  <2> QED BY <1>2, <2>1 DEF StackInv
<1>6. SoleInv'
  <2>1. ASSUME NEW u \in Thread, NEW i \in 1..Len(stack'[u]), ~(u = t /\ i = n)
        PROVE  i \in 1..Len(stack[u]) /\ stack'[u][i] = stack[u][i]
    <3>1. CASE u = t
      <4>1. i \in 1..(n - 1)
        BY <1>1, <1>2, <2>1, <3>1
      <4> QED BY <1>1, <1>2, <3>1, <4>1
    <3>2. CASE u # t
      <4>1. stack'[u] = stack[u]
        BY <1>2, <3>2
      <4> QED BY <2>1, <4>1
    <3> QED BY <3>1, <3>2
  <2> SUFFICES ASSUME NEW u \in Thread, NEW w \in Thread,
                      NEW i \in 1..Len(stack'[u]), NEW j \in 1..Len(stack'[w]),
                      Owning(stack'[u][i]), Owning(stack'[w][j]),
                      NameOf[stack'[u][i].nonUnique] = NameOf[stack'[w][j].nonUnique]
               PROVE  u = w /\ i = j
    BY DEF SoleInv, Owning
  <2>2. CASE u = t /\ i = n
    <3>1. Sole(t)
      BY <1>2, <2>2 DEF Owning
    <3>2. ~(w = t /\ j = n) => FALSE
      <4> SUFFICES ASSUME ~(w = t /\ j = n) PROVE FALSE
        OBVIOUS
      <4>1. j \in 1..Len(stack[w]) /\ stack'[w][j] = stack[w][j]
        BY <2>1
      <4> QED BY <1>2, <2>2, <3>1, <4>1 DEF Sole
    <3> QED BY <2>2, <3>2
  <2>3. CASE w = t /\ j = n
    <3>1. Sole(t)
      BY <1>2, <2>3 DEF Owning
    <3>2. ~(u = t /\ i = n) => FALSE
      <4> SUFFICES ASSUME ~(u = t /\ i = n) PROVE FALSE
        OBVIOUS
      <4>1. i \in 1..Len(stack[u]) /\ stack'[u][i] = stack[u][i]
        BY <2>1
      <4> QED BY <1>2, <2>3, <3>1, <4>1 DEF Sole
    <3> QED BY <2>3, <3>2
  <2>4. CASE ~(u = t /\ i = n) /\ ~(w = t /\ j = n)
    <3>1. /\ i \in 1..Len(stack[u]) /\ stack'[u][i] = stack[u][i]
          /\ j \in 1..Len(stack[w]) /\ stack'[w][j] = stack[w][j]
      BY <2>1, <2>4
    <3>2. /\ Owning(stack[u][i]) /\ Owning(stack[w][j])
          /\ NameOf[stack[u][i].nonUnique] = NameOf[stack[w][j].nonUnique]
      BY <3>1
    <3> QED BY <3>1, <3>2 DEF IInv, SoleInv
  <2> QED BY <2>2, <2>3, <2>4
<1>7. \A u \in Thread : AnswerInv(u)'
  BY AnswersKept
<1> QED BY <1>3, <1>5, <1>6, <1>7 DEF IInv

\* A call returns the canonical record; what it leaves are its callers, in
\* their initialization functions.
LEMMA PopInv ==
  ASSUME IInv, NEW t \in Thread, stack[t] # <<>>, NEW unique \in Record, Return(t, unique),
         unique = types[NameOf[Top(t).nonUnique]], UNCHANGED <<types, initialized, waiting>>,
         cache' \in [Record -> Record \cup {None}], \A r \in Record : RecordInv(r)'
  PROVE  IInv'
<1> DEFINE n == Len(stack[t])
<1>1. n \in Nat \ {0}
  BY TopFrame
<1>2. /\ Pops(t)
      /\ answer' \in [Thread -> [of : Record, is : Record] \cup {None}]
      /\ answer'[t].of = Top(t).nonUnique /\ answer'[t].is = unique
      /\ \A u \in Thread \ {t} : answer'[u] = answer[u]
  BY ReturnFacts
<1>3. TypeOK'
  BY <1>2 DEF IInv, TypeOK, Pops
<1>4. ChangesOwn(t)
  BY <1>2 DEF ChangesOwn, Pops
<1>5. OuterFrames(t) /\ \A u \in Thread \ {t} : StackInv(u)'
  BY <1>4, OtherFrames
<1>6. StackInv(t)'
  <2>1. ASSUME NEW i \in 1..(n - 1)
        PROVE  /\ FrameInv(stack'[t][i], types'[NameOf[stack'[t][i].nonUnique]],
                           initialized'[stack'[t][i].nonUnique])
               /\ stack'[t][i].at = "initialized"
    BY <1>2, <1>5 DEF OuterFrames, Pops
  <2> QED BY <1>2, <2>1 DEF StackInv, Pops
<1>7. SoleInv'
  <2>1. ASSUME NEW u \in Thread, NEW i \in 1..Len(stack'[u])
        PROVE  i \in 1..Len(stack[u]) /\ stack'[u][i] = stack[u][i]
    <3>1. CASE u = t
      BY <1>1, <1>2, <3>1 DEF Pops
    <3>2. CASE u # t
      BY <1>2, <3>2 DEF Pops
    <3> QED BY <3>1, <3>2
  <2> QED BY <2>1, SoleFrame DEF IInv
<1>8. ASSUME NEW u \in Thread PROVE AnswerInv(u)'
  <2>1. CASE u = t
    BY <1>2, <2>1 DEF AnswerInv
  <2>2. CASE u # t
    BY <1>2, <1>4, <2>2, AnswersKept
  <2> QED BY <2>1, <2>2
<1>9. \A m \in Name : NameInv(m)'
  BY DEF IInv, NameInv
<1> QED BY <1>3, <1>5, <1>6, <1>7, <1>8, <1>9 DEF IInv

\* A step that changes no stack, entry or answer.
LEMMA SameFrames ==
  ASSUME IInv, UNCHANGED <<types, cache, stack, initialized, answer>>, waiting' \in SUBSET Thread
  PROVE  IInv'
<1>1. TypeOK'
  BY DEF IInv, TypeOK
<1>2. \A t \in Thread : StackInv(t)'
  BY DEF IInv, StackInv
<1>3. \A t \in Thread : AnswerInv(t)'
  BY DEF IInv, AnswerInv, Answered
<1>4. SoleInv'
  BY SoleFrame DEF IInv
<1> QED BY <1>1, <1>2, <1>3, <1>4, SameNames DEF IInv

\* The innermost frame goes on, and nothing else of the state changes.
LEMMA MoveInv ==
  ASSUME IInv, NEW t \in Thread, stack[t] # <<>>, NEW label \in Label, NEW unique,
         Replaces(t, label, unique), UNCHANGED <<types, cache, initialized, answer>>,
         waiting' \in SUBSET Thread,
         label \in {"initialize", "initialized", "publish"} => Owning(Top(t)),
         \A f : f.nonUnique = Top(t).nonUnique /\ f.at = label /\ f.unique = unique =>
           FrameInv(f, types[NameOf[Top(t).nonUnique]], initialized[Top(t).nonUnique])
  PROVE  IInv'
<1>1. TypeOK'
  BY DEF IInv, TypeOK, Replaces
<1>2. ChangesOwn(t)
  BY DEF ChangesOwn, Replaces
<1>3. label \in {"initialize", "initialized", "publish"} => Sole(t)
  BY OwnSole
<1> QED BY <1>1, <1>2, <1>3, SameNames, ReplaceInv

LEMMA FastPathInv ==
  ASSUME IInv, NEW t \in Thread, FastPath(t)
  PROVE  IInv'
<1> DEFINE r == Top(t).nonUnique
<1>1. stack[t] # <<>> /\ UNCHANGED <<types, cache, waiting, initialized>> /\ TypeOK
  BY DEF FastPath, At, IInv
<1>2. r \in Record
  BY <1>1, TopFrame
<1>3. CASE cache[r] # None /\ Return(t, cache[r])
  <2>1. cache[r] \in Record /\ cache[r] = types[NameOf[r]]
    BY <1>1, <1>2, <1>3 DEF IInv, TypeOK, RecordInv
  <2> QED BY <1>1, <1>3, <2>1, PopInv, SameNames DEF TypeOK
<1>4. CASE Goto(t, "lookup") /\ UNCHANGED answer
  <2>1. Replaces(t, "lookup", Top(t).unique)
    BY <1>1, <1>4, GotoFacts DEF Label
  <2>2. \A f, y, c : f.at = "lookup" => FrameInv(f, y, c)
    BY DEF FrameInv, Owning
  <2> QED BY <1>1, <1>4, <2>1, <2>2, MoveInv DEF TypeOK, Label
<1> QED BY <1>3, <1>4 DEF FastPath

LEMMA LookupInsertInv ==
  ASSUME IInv, NEW t \in Thread, At(t, "lookup"), types[NameOf[Top(t).nonUnique]] = None,
         types' = [types EXCEPT ![NameOf[Top(t).nonUnique]] = ValueToInsert(Top(t).nonUnique)],
         Replaces(t, IF Top(t).nonUnique \in HasInit THEN "initialize" ELSE "checkCache",
                  Top(t).nonUnique),
         UNCHANGED <<cache, waiting, initialized, answer>>
  PROVE  IInv'
<1> DEFINE r == Top(t).nonUnique
           m == NameOf[r]
           label == IF r \in HasInit THEN "initialize" ELSE "checkCache"
<1>1. stack[t] # <<>> /\ TypeOK /\ r \in Record /\ m \in Name
  BY TopFrame DEF At, IInv
<1>2. Replaces(t, label, r)
  OBVIOUS
<1>3. ValueToInsert(r) \in Record \cup {Placeholder} /\ ValueToInsert(r) # None
  BY <1>1 DEF ValueToInsert
<1>4. /\ types'[m] = ValueToInsert(r)
      /\ \A n \in Name \ {m} : types'[n] = types[n]
      /\ types' \in [Name -> Record \cup {None, Placeholder}]
  BY <1>1, <1>3 DEF TypeOK
<1>5. Sole(t)
  <2>1. \A u \in Thread : \A i \in 1..Len(stack[u]) :
          Owning(stack[u][i]) => types[NameOf[stack[u][i].nonUnique]] = Placeholder
    BY DEF IInv, StackInv, FrameInv
  <2> QED BY <2>1 DEF Sole
<1>6. ChangesOwn(t)
  BY <1>2, <1>3, <1>4, <1>5 DEF ChangesOwn, Replaces
<1>7. TypeOK'
  BY <1>1, <1>2, <1>4 DEF TypeOK, Replaces
<1>8. initialized[r] = 0
  BY <1>1 DEF IInv, RecordInv
<1>9. \A f : f.nonUnique = r /\ f.at = label /\ f.unique = r => FrameInv(f, types'[m], initialized'[r])
  BY <1>1, <1>4, <1>8 DEF FrameInv, Owning, ValueToInsert
<1>10. ASSUME NEW n \in Name PROVE NameInv(n)'
  <2>1. CASE n = m
    BY <1>1, <1>4, <2>1 DEF NameInv, ValueToInsert
  <2>2. CASE n # m
    BY <1>4, <2>2 DEF IInv, NameInv
  <2> QED BY <2>1, <2>2
<1>11. ASSUME NEW s \in Record PROVE RecordInv(s)'
  <2>0. RecordInv(s) /\ cache[s] \in Record \cup {None} /\ NameOf[s] \in Name
    BY <1>1 DEF IInv, TypeOK
  <2>1. CASE NameOf[s] = m
    BY <1>3, <1>4, <2>0, <2>1 DEF RecordInv
  <2>2. CASE NameOf[s] # m
    BY <1>4, <2>0, <2>2 DEF RecordInv
  <2> QED BY <2>1, <2>2
<1>12. label \in Label
  BY DEF Label
<1> HIDE DEF label, r, m
<1> QED BY <1>1, <1>2, <1>5, <1>6, <1>7, <1>9, <1>10, <1>11, <1>12, ReplaceInv DEF r, m

LEMMA LookupInv ==
  ASSUME IInv, SavedInv, NEW t \in Thread, Lookup(t)
  PROVE  IInv' /\ SavedInv'
<1> DEFINE r == Top(t).nonUnique
           m == NameOf[r]
           GoesOn(label, unique) ==
             ReplaceTop(t, [Save(Top(t), table') EXCEPT !.at = label, !.unique = unique])
<1>1. /\ stack[t] # <<>> /\ TypeOK /\ r \in Record /\ m \in Name /\ At(t, "lookup")
      /\ UNCHANGED <<cache, initialized, answer>>
  BY TopFrame DEF Lookup, At, IInv
<1>2. table' \in [size : Nat, buckets : Nat] /\ (table' = table \/ Insert)
  BY DEF Lookup, Insert, SavedInv
<1>3. ASSUME NEW label \in Label, NEW unique \in Record \cup {None}, GoesOn(label, unique)
      PROVE  Replaces(t, label, unique) /\ SavedInv'
  <2>1. Replaces(t, label, unique) /\ SavedFrame(stack'[t][Len(stack[t])], table')
    BY <1>1, <1>2, <1>3, SavedMove
  <2> QED BY <1>1, <1>2, <2>1, SavedReplaced
<1>4. CASE /\ types[m] = None
           /\ types' = [types EXCEPT ![m] = ValueToInsert(r)]
           /\ GoesOn(IF r \in HasInit THEN "initialize" ELSE "checkCache", r)
           /\ UNCHANGED waiting
  <2> DEFINE label == IF r \in HasInit THEN "initialize" ELSE "checkCache"
  <2>1. label \in Label /\ GoesOn(label, r)
    BY <1>4 DEF Label
  <2>2. Replaces(t, label, r) /\ SavedInv'
    <3> HIDE DEF label, GoesOn
    <3> QED BY <1>1, <1>3, <2>1
  <2> QED BY <1>1, <1>4, <2>2, LookupInsertInv
<1>5. CASE types[m] = Placeholder /\ GoesOn("wait", None) /\ waiting' = waiting \cup {t}
           /\ UNCHANGED <<types, table>>
  <2>1. Replaces(t, "wait", None) /\ SavedInv'
    BY <1>3, <1>5 DEF Label
  <2>2. \A f, c : f.at = "wait" => FrameInv(f, types[m], c)
    BY <1>5 DEF FrameInv, Owning
  <2> QED BY <1>1, <1>5, <2>1, <2>2, MoveInv DEF TypeOK, Label
<1>6. CASE types[m] \notin {None, Placeholder} /\ GoesOn("checkCache", types[m])
           /\ UNCHANGED <<types, table, waiting>>
  <2>1. types[m] \in Record
    BY <1>1, <1>6 DEF TypeOK
  <2>2. Replaces(t, "checkCache", types[m]) /\ SavedInv'
    BY <1>3, <1>6, <2>1 DEF Label
  <2>3. \A f, c : f.at = "checkCache" /\ f.unique = types[m] => FrameInv(f, types[m], c)
    BY <2>1 DEF FrameInv, Owning
  <2> QED BY <1>1, <1>6, <2>2, <2>3, MoveInv DEF TypeOK, Label
<1> QED BY <1>4, <1>5, <1>6 DEF Lookup

LEMMA WakeInv ==
  ASSUME IInv, SavedInv, NEW t \in Thread, Wake(t)
  PROVE  IInv' /\ SavedInv'
<1> DEFINE m == NameOf[Top(t).nonUnique]
           f == CurrentEntry(Top(t))
<1>1. /\ stack[t] # <<>> /\ TypeOK /\ m \in Name /\ Top(t).at = "wait"
      /\ UNCHANGED <<types, table, cache, initialized, answer>>
  BY TopFrame DEF Wake, At, IInv
<1>2. /\ f \in Frames /\ f.nonUnique = Top(t).nonUnique /\ f.at = "wait"
      /\ f.unique = Top(t).unique /\ SavedFrame(f, table) /\ Points(f)
  BY <1>1, IteratorPoints
<1>3. Second(f) = {types[m]}
  BY <1>2 DEF Second
<1> HIDE DEF f
<1>4. CASE waiting' = waiting \cup {t} /\ ReplaceTop(t, f)
  <2>1. Replaces(t, "wait", f.unique) /\ stack'[t][Len(stack[t])] = f
    BY <1>1, <1>2, <1>4, ReplaceTopFacts
  <2>2. \A g, c : g.at = "wait" => FrameInv(g, types[m], c)
    BY <1>1, TopFrame DEF FrameInv, Owning
  <2>3. SavedInv'
    BY <1>1, <1>2, <2>1, SavedReplaced
  <2> QED BY <1>1, <1>4, <2>1, <2>2, <2>3, MoveInv DEF TypeOK, Label
<1>5. CASE /\ types[m] # Placeholder /\ UNCHANGED waiting
           /\ ReplaceTop(t, [f EXCEPT !.at = "checkCache", !.unique = types[m]])
  <2> DEFINE g == [f EXCEPT !.at = "checkCache", !.unique = types[m]]
  <2>1. types[m] \in Record
    BY <1>1, <1>5, TopFrame DEF TypeOK, FrameInv
  <2>2. /\ g \in Frames /\ g.nonUnique = f.nonUnique /\ g.at = "checkCache" /\ g.unique = types[m]
        /\ g.savedSize = f.savedSize /\ g.savedIterator = f.savedIterator
    BY <1>2, <2>1 DEF Frames, Label
  <2>3. ReplaceTop(t, g)
    BY <1>5
  <2> HIDE DEF g
  <2>4. Replaces(t, g.at, g.unique) /\ stack'[t][Len(stack[t])] = g
    BY <1>1, <1>2, <2>2, <2>3, ReplaceTopFacts
  <2>5. Replaces(t, "checkCache", types[m]) /\ SavedFrame(stack'[t][Len(stack[t])], table)
    BY <1>2, <2>2, <2>4 DEF SavedFrame
  <2>7. SavedInv'
    BY <1>1, <2>5, SavedReplaced
  <2>6. \A h, c : h.at = "checkCache" /\ h.unique = types[m] => FrameInv(h, types[m], c)
    BY <2>1 DEF FrameInv, Owning
  <2> QED BY <1>1, <1>5, <2>5, <2>6, <2>7, MoveInv DEF TypeOK, Label
<1>6. PICK entry \in Second(f) :
        \/ entry = Placeholder /\ waiting' = waiting \cup {t} /\ ReplaceTop(t, f)
        \/ /\ entry # Placeholder
           /\ ReplaceTop(t, [f EXCEPT !.at = "checkCache", !.unique = entry])
           /\ UNCHANGED waiting
  BY DEF Wake, f
<1>7. entry = types[m]
  BY <1>3, <1>6
<1> QED BY <1>4, <1>5, <1>6, <1>7

\* An initialization function asks for the record of the superclass.
LEMMA PushInv ==
  ASSUME IInv, NEW t \in Thread, At(t, "initialize"), NEW r \in Record,
         stack' = [stack EXCEPT ![t] = Append([@ EXCEPT ![Len(@)].at = "initialized"], Frame(r))],
         UNCHANGED <<types, cache, waiting, initialized, answer>>
  PROVE  IInv'
<1> DEFINE s == stack[t]
           n == Len(s)
           f == [s[n] EXCEPT !.at = "initialized"]
           s1 == [s EXCEPT ![n] = f]
<1>1. TypeOK /\ s # <<>> /\ s[n].at = "initialize" /\ StackInv(t)
  BY DEF IInv, At, Top
<1>2. s \in Seq(Frames) /\ n \in Nat \ {0} /\ s[n] \in Frames
  BY <1>1, TopFrame DEF Top
<1>3. f \in Frames /\ f.at = "initialized" /\ f.nonUnique = s[n].nonUnique /\ f.unique = s[n].unique
  BY <1>2 DEF Frames, Label
<1>4. Frame(r) \in Frames /\ Frame(r).at = "fastPath"
  BY DEF Frames, Frame, Label
<1>5. s1 \in Seq(Frames) /\ Len(s1) = n /\ s1[n] = f /\ \A i \in 1..(n - 1) : s1[i] = s[i]
  <2> HIDE DEF f
  <2> QED BY <1>2, <1>3
<1>6. stack' = [stack EXCEPT ![t] = Append(s1, Frame(r))]
  OBVIOUS
<1> HIDE DEF s1, f
<1>7. /\ Append(s1, Frame(r)) \in Seq(Frames) /\ Len(Append(s1, Frame(r))) = n + 1
      /\ Append(s1, Frame(r))[n + 1] = Frame(r)
      /\ \A i \in 1..n : Append(s1, Frame(r))[i] = s1[i]
  BY <1>2, <1>4, <1>5
<1>8. /\ stack' \in [Thread -> Seq(Frames)] /\ stack'[t] = Append(s1, Frame(r))
      /\ \A u \in Thread \ {t} : stack'[u] = stack[u]
  BY <1>1, <1>6, <1>7 DEF TypeOK
<1>9. Len(stack'[t]) = n + 1 /\ stack'[t][n + 1] = Frame(r)
  BY <1>7, <1>8
<1>10. ASSUME NEW i \in 1..n
       PROVE  /\ stack'[t][i].nonUnique = s[i].nonUnique /\ stack'[t][i].at = "initialized"
              /\ Owning(s[i])
              /\ FrameInv(stack'[t][i], types[NameOf[s[i].nonUnique]], initialized[s[i].nonUnique])
  <2>1. /\ FrameInv(s[i], types[NameOf[s[i].nonUnique]], initialized[s[i].nonUnique])
        /\ i < n => s[i].at = "initialized"
    BY <1>1 DEF StackInv
  <2>2. stack'[t][i] = s1[i]
    BY <1>7, <1>8
  <2>3. CASE i = n
    <3>1. stack'[t][i] = f /\ s[i] = s[n]
      BY <1>5, <2>2, <2>3
    <3> QED BY <1>1, <1>3, <2>1, <3>1 DEF FrameInv, Owning
  <2>4. CASE i # n
    <3>1. i \in 1..(n - 1) /\ i < n
      BY <1>2, <2>4
    <3>2. stack'[t][i] = s[i] /\ s[i].at = "initialized"
      BY <1>5, <2>1, <2>2, <3>1
    <3> QED BY <2>1, <3>2 DEF Owning
  <2> QED BY <2>3, <2>4
<1>11. TypeOK'
  BY <1>1, <1>8 DEF TypeOK
<1>12. ASSUME NEW u \in Thread, u # t PROVE StackInv(u)'
  BY <1>8, <1>12 DEF IInv, StackInv
<1>13. StackInv(t)'
  <2>1. ASSUME NEW i \in 1..(n + 1)
        PROVE  /\ FrameInv(stack'[t][i], types'[NameOf[stack'[t][i].nonUnique]],
                           initialized'[stack'[t][i].nonUnique])
               /\ i < n + 1 => stack'[t][i].at = "initialized"
    <3>1. CASE i = n + 1
      <4>1. \A y, c : FrameInv(Frame(r), y, c)
        BY <1>4 DEF FrameInv, Owning
      <4>2. stack'[t][i] = Frame(r) /\ ~(i < n + 1)
        BY <1>2, <1>9, <3>1
      <4>3. FrameInv(Frame(r), types'[NameOf[stack'[t][i].nonUnique]],
                     initialized'[stack'[t][i].nonUnique])
        BY <4>1
      <4>4. FrameInv(stack'[t][i], types'[NameOf[stack'[t][i].nonUnique]],
                     initialized'[stack'[t][i].nonUnique])
        BY <4>2, <4>3
      <4> QED BY <4>2, <4>4
    <3>2. CASE i # n + 1
      <4>1. i \in 1..n
        BY <1>2, <3>2
      <4> QED BY <1>10, <4>1
    <3> QED BY <3>1, <3>2
  <2> QED BY <1>9, <2>1 DEF StackInv
<1>14. SoleInv'
  <2>1. ASSUME NEW u \in Thread, NEW i \in 1..Len(stack'[u]), Owning(stack'[u][i])
        PROVE  /\ i \in 1..Len(stack[u]) /\ Owning(stack[u][i])
               /\ stack'[u][i].nonUnique = stack[u][i].nonUnique
    <3>1. CASE u = t
      <4>1. i # n + 1
        BY <1>4, <1>9, <2>1, <3>1 DEF Owning
      <4>2. i \in 1..n
        BY <1>2, <1>9, <3>1, <4>1
      <4> QED BY <1>10, <3>1, <4>2
    <3>2. CASE u # t
      <4>1. stack'[u] = stack[u]
        BY <1>8, <3>2
      <4> QED BY <2>1, <4>1
    <3> QED BY <3>1, <3>2
  <2> QED BY <2>1, SoleFrame DEF IInv
<1>15. \A u \in Thread : AnswerInv(u)'
  BY DEF IInv, AnswerInv, Answered
<1> QED BY <1>11, <1>12, <1>13, <1>14, <1>15, SameNames DEF IInv

LEMMA InitializeInv ==
  ASSUME IInv, NEW t \in Thread, Initialize(t)
  PROVE  IInv'
<1> DEFINE r == Top(t).nonUnique
<1>1. /\ stack[t] # <<>> /\ TypeOK /\ r \in Record /\ At(t, "initialize")
      /\ Top(t).at = "initialize" /\ Owning(Top(t))
      /\ UNCHANGED <<types, cache, waiting, initialized, answer>>
  BY TopFrame DEF Initialize, At, IInv, Owning
<1>2. CASE /\ Superclass[r] # None
           /\ stack' = [stack EXCEPT ![t] =
                          Append([@ EXCEPT ![Len(@)].at = "initialized"], Frame(Superclass[r]))]
  <2>1. Superclass[r] \in Record
    BY <1>1, <1>2
  <2> QED BY <1>1, <1>2, <2>1, PushInv
<1>3. CASE Goto(t, "initialized")
  <2>1. Replaces(t, "initialized", Top(t).unique)
    BY <1>1, <1>3, GotoFacts DEF Label
  <2>2. FrameInv(Top(t), types[NameOf[r]], initialized[r])
    BY <1>1, TopFrame
  <2>3. \A f : f.nonUnique = r /\ f.at = "initialized" /\ f.unique = Top(t).unique =>
          FrameInv(f, types[NameOf[r]], initialized[r])
    BY <1>1, <2>2 DEF FrameInv, Owning
  <2> QED BY <1>1, <1>3, <2>1, <2>3, MoveInv DEF TypeOK, Label
<1> QED BY <1>2, <1>3 DEF Initialize

LEMMA EndInitializeInv ==
  ASSUME IInv, NEW t \in Thread, EndInitialize(t)
  PROVE  IInv'
<1> DEFINE r == Top(t).nonUnique
           m == NameOf[r]
<1>1. /\ stack[t] # <<>> /\ TypeOK /\ r \in Record /\ m \in Name
      /\ Top(t).at = "initialized" /\ Owning(Top(t))
      /\ UNCHANGED <<types, cache, waiting, answer>>
  BY TopFrame DEF EndInitialize, At, IInv, Owning
<1>2. types[m] = Placeholder /\ initialized[r] = 0 /\ r \in HasInit /\ Top(t).unique = r
  BY <1>1, TopFrame DEF FrameInv
<1>3. /\ initialized' \in [Record -> Nat] /\ initialized'[r] = 1
      /\ \A s \in Record \ {r} : initialized'[s] = initialized[s]
  BY <1>1, <1>2 DEF EndInitialize, TypeOK
<1>4. Replaces(t, "publish", r)
  BY <1>1, <1>2, GotoFacts DEF Label, EndInitialize
<1>5. Sole(t)
  BY <1>1, OwnSole
<1>6. ChangesOwn(t)
  BY <1>1, <1>3, <1>4, <1>5 DEF ChangesOwn, Replaces
<1>7. TypeOK'
  BY <1>1, <1>3, <1>4 DEF TypeOK, Replaces
<1>8. \A f : f.nonUnique = r /\ f.at = "publish" /\ f.unique = r => FrameInv(f, types'[m], initialized'[r])
  BY <1>1, <1>2, <1>3 DEF FrameInv, Owning
<1>9. ASSUME NEW n \in Name PROVE NameInv(n)'
  BY <1>1, <1>2, <1>3 DEF IInv, NameInv
<1>10. ASSUME NEW s \in Record PROVE RecordInv(s)'
  BY <1>1, <1>2, <1>3 DEF IInv, RecordInv
<1> QED BY <1>1, <1>4, <1>5, <1>6, <1>7, <1>8, <1>9, <1>10, ReplaceInv DEF Label

LEMMA PublishInv ==
  ASSUME IInv, SavedInv, NEW t \in Thread, Publish(t)
  PROVE  IInv' /\ SavedInv'
<1> DEFINE r == Top(t).nonUnique
           m == NameOf[r]
           f == CurrentEntry(Top(t))
           g == [f EXCEPT !.at = "checkCache"]
<1>1. /\ stack[t] # <<>> /\ TypeOK /\ r \in Record /\ m \in Name
      /\ Top(t).at = "publish" /\ Owning(Top(t)) /\ waiting' = {}
      /\ UNCHANGED <<table, cache, initialized, answer>>
  BY TopFrame DEF Publish, At, IInv, Owning
<1>2. types[m] = Placeholder /\ initialized[r] = 1 /\ r \in HasInit
  BY <1>1, TopFrame DEF FrameInv
<1>0. /\ f \in Frames /\ f.nonUnique = r /\ f.unique = Top(t).unique
      /\ SavedFrame(f, table) /\ Points(f)
  BY <1>1, IteratorPoints
<1>3. /\ types' \in [Name -> Record \cup {None, Placeholder}] /\ types'[m] = r
      /\ \A n \in Name \ {m} : types'[n] = types[n]
  <2>1. types' = [types EXCEPT ![m] = r]
    BY <1>0 DEF Publish
  <2> QED BY <1>1, <2>1 DEF TypeOK
<1>4. /\ Replaces(t, "checkCache", Top(t).unique) /\ Top(t).unique = r
      /\ SavedFrame(stack'[t][Len(stack[t])], table)
  <2>1. ReplaceTop(t, g)
    BY DEF Publish
  <2> HIDE DEF f
  <2>2. /\ g \in Frames /\ g.nonUnique = f.nonUnique /\ g.at = "checkCache" /\ g.unique = f.unique
        /\ g.savedSize = f.savedSize /\ g.savedIterator = f.savedIterator
    BY <1>0 DEF Frames, Label
  <2> HIDE DEF g
  <2>3. Replaces(t, g.at, g.unique) /\ stack'[t][Len(stack[t])] = g
    BY <1>0, <1>1, <2>1, <2>2, ReplaceTopFacts
  <2>4. Top(t).unique = r
    BY <1>1, TopFrame DEF FrameInv
  <2> QED BY <1>0, <2>2, <2>3, <2>4 DEF SavedFrame
<1>5. Sole(t)
  BY <1>1, OwnSole
<1>6. ChangesOwn(t)
  BY <1>1, <1>2, <1>3, <1>4, <1>5 DEF ChangesOwn, Replaces
<1>7. TypeOK'
  BY <1>1, <1>3, <1>4 DEF TypeOK, Replaces
<1>8. \A h, c : h.at = "checkCache" /\ h.unique = r => FrameInv(h, types'[m], c)
  BY <1>1, <1>3 DEF FrameInv, Owning
<1>9. ASSUME NEW n \in Name PROVE NameInv(n)'
  <2>1. CASE n = m
    BY <1>1, <1>2, <1>3, <2>1 DEF NameInv
  <2>2. CASE n # m
    BY <1>1, <1>3, <2>2 DEF IInv, NameInv
  <2> QED BY <2>1, <2>2
<1>10. ASSUME NEW s \in Record PROVE RecordInv(s)'
  <2>0. RecordInv(s) /\ cache[s] \in Record \cup {None} /\ NameOf[s] \in Name
    BY <1>1 DEF IInv, TypeOK
  <2>1. CASE NameOf[s] = m
    BY <1>1, <1>2, <1>3, <2>0, <2>1 DEF RecordInv
  <2>2. CASE NameOf[s] # m
    BY <1>1, <1>3, <2>0, <2>2 DEF RecordInv
  <2> QED BY <2>1, <2>2
<1>11. SavedInv'
  BY <1>1, <1>4, SavedReplaced
<1>12. IInv'
  <2> HIDE DEF f, g
  <2> QED BY <1>1, <1>4, <1>5, <1>6, <1>7, <1>8, <1>9, <1>10, ReplaceInv DEF Label
<1> QED BY <1>11, <1>12

LEMMA CheckCacheInv ==
  ASSUME IInv, NEW t \in Thread, CheckCache(t)
  PROVE  IInv'
<1> DEFINE m == NameOf[Top(t).nonUnique]
<1>1. /\ stack[t] # <<>> /\ TypeOK /\ Top(t).at = "checkCache"
      /\ UNCHANGED <<types, cache, waiting, initialized>>
  BY DEF CheckCache, At, IInv
<1>2. Top(t).unique = types[m] /\ types[m] \in Record
  BY <1>1, TopFrame DEF FrameInv
<1>3. CASE Return(t, Top(t).unique)
  BY <1>1, <1>2, <1>3, PopInv, SameNames DEF TypeOK
<1>4. CASE Goto(t, "setCache") /\ UNCHANGED answer
  <2>1. Replaces(t, "setCache", Top(t).unique)
    BY <1>1, <1>4, GotoFacts DEF Label
  <2>2. \A f, c : f.at = "setCache" /\ f.unique = types[m] => FrameInv(f, types[m], c)
    BY <1>2 DEF FrameInv, Owning
  <2> QED BY <1>1, <1>2, <1>4, <2>1, <2>2, MoveInv DEF TypeOK, Label
<1> QED BY <1>3, <1>4 DEF CheckCache

LEMMA SetCacheInv ==
  ASSUME IInv, NEW t \in Thread, SetCache(t)
  PROVE  IInv'
<1> DEFINE r == Top(t).nonUnique
<1>1. /\ stack[t] # <<>> /\ TypeOK /\ Top(t).at = "setCache" /\ r \in Record
      /\ UNCHANGED <<types, waiting, initialized>>
      /\ cache' = [cache EXCEPT ![r] = Top(t).unique] /\ Return(t, Top(t).unique)
  BY TopFrame DEF SetCache, At, IInv
<1>2. Top(t).unique = types[NameOf[r]] /\ types[NameOf[r]] \in Record
  BY <1>1, TopFrame DEF FrameInv
<1>3. /\ cache' \in [Record -> Record \cup {None}] /\ cache'[r] = types[NameOf[r]]
      /\ \A s \in Record \ {r} : cache'[s] = cache[s]
  BY <1>1, <1>2 DEF TypeOK
<1>4. ASSUME NEW s \in Record PROVE RecordInv(s)'
  BY <1>1, <1>3 DEF IInv, RecordInv
<1> QED BY <1>1, <1>2, <1>3, <1>4, PopInv

LEMMA CallInv ==
  ASSUME IInv, NEW t \in Thread, NEW r \in Record, Call(t, r)
  PROVE  IInv'
<1>1. TypeOK /\ stack[t] = <<>> /\ UNCHANGED <<types, cache, waiting, initialized>>
  BY DEF IInv, Call
<1>2. Frame(r) \in Frames /\ Frame(r).at = "fastPath"
  BY DEF Frames, Frame, Label
<1>3. /\ stack' \in [Thread -> Seq(Frames)] /\ stack'[t] = <<Frame(r)>>
      /\ \A u \in Thread \ {t} : stack'[u] = stack[u]
  BY <1>1, <1>2 DEF Call, TypeOK
<1>4. Len(stack'[t]) = 1 /\ stack'[t][1] = Frame(r)
  BY <1>3
<1>5. /\ answer' \in [Thread -> [of : Record, is : Record] \cup {None}]
      /\ answer'[t] = None /\ \A u \in Thread \ {t} : answer'[u] = answer[u]
  BY <1>1 DEF Call, TypeOK
<1>6. TypeOK'
  BY <1>1, <1>3, <1>5 DEF TypeOK
<1>7. ASSUME NEW u \in Thread PROVE StackInv(u)'
  <2>1. CASE u = t
    <3>1. \A y, c : FrameInv(Frame(r), y, c)
      BY <1>2 DEF FrameInv, Owning
    <3>2. ASSUME NEW i \in 1..Len(stack'[t])
          PROVE  /\ FrameInv(stack'[t][i], types'[NameOf[stack'[t][i].nonUnique]],
                             initialized'[stack'[t][i].nonUnique])
                 /\ ~(i < Len(stack'[t]))
      <4>1. i = 1
        BY <1>4, <3>2
      <4> QED BY <1>4, <3>1, <4>1
    <3> QED BY <2>1, <3>2 DEF StackInv
  <2>2. CASE u # t
    BY <1>1, <1>3, <2>2 DEF IInv, StackInv
  <2> QED BY <2>1, <2>2
<1>8. SoleInv'
  <2>1. ASSUME NEW u \in Thread, NEW i \in 1..Len(stack'[u]), Owning(stack'[u][i])
        PROVE  i \in 1..Len(stack[u]) /\ stack'[u][i] = stack[u][i]
    <3>1. CASE u = t
      BY <1>2, <1>4, <2>1, <3>1 DEF Owning
    <3>2. CASE u # t
      BY <1>3, <3>2
    <3> QED BY <3>1, <3>2
  <2> QED BY <2>1, SoleFrame DEF IInv
<1>9. ASSUME NEW u \in Thread PROVE AnswerInv(u)'
  BY <1>1, <1>5 DEF IInv, AnswerInv, Answered
<1> QED BY <1>1, <1>6, <1>7, <1>8, <1>9, SameNames DEF IInv

LEMMA InitializeSaved ==
  ASSUME IInv, SavedInv, NEW t \in Thread, Initialize(t)
  PROVE  SavedInv'
<1> DEFINE r == Top(t).nonUnique
           s == stack[t]
           n == Len(s)
           f == [s[n] EXCEPT !.at = "initialized"]
           s1 == [s EXCEPT ![n] = f]
<1>1. s # <<>> /\ r \in Record /\ UNCHANGED table
  BY TopFrame DEF Initialize, At
<1>2. CASE Goto(t, "initialized")
  BY <1>1, <1>2, SavedGoto DEF Label
<1>3. CASE Superclass[r] # None
           /\ stack' = [stack EXCEPT ![t] = Append(s1, Frame(Superclass[r]))]
  <2>1. Superclass[r] \in Record
    BY <1>1, <1>3
  <2>2. s \in Seq(Frames) /\ n \in Nat \ {0} /\ s[n] \in Frames
    BY <1>1, TopFrame DEF Top
  <2>3. f \in Frames /\ f.savedSize = s[n].savedSize /\ f.savedIterator = s[n].savedIterator
    BY <2>2 DEF Frames, Label
  <2> HIDE DEF f
  <2>4. /\ s1 \in Seq(Frames) /\ Len(s1) = n
        /\ \A i \in 1..n : s1[i] = IF i = n THEN f ELSE s[i]
    BY <2>2, <2>3
  <2>5. stack' = [stack EXCEPT ![t] = Append(s1, Frame(Superclass[r]))]
    BY <1>3
  <2> HIDE DEF s1
  <2>6. \A i \in 1..Len(s1) : s1[i].savedSize = s[i].savedSize /\ s1[i].savedIterator = s[i].savedIterator
    BY <2>3, <2>4
  <2> QED BY <1>1, <2>1, <2>4, <2>5, <2>6, SavedPushed
<1> QED BY <1>2, <1>3 DEF Initialize

LEMMA SavedNext ==
  ASSUME IInv, SavedInv, [Next]_vars
  PROVE  SavedInv'
<1>1. TypeOK
  BY DEF IInv
<1>2. CASE UNCHANGED <<stack, table>>
  BY <1>2 DEF SavedInv
<1>3. ASSUME NEW t \in Thread, FastPath(t) PROVE SavedInv'
  <2> DEFINE c == cache[Top(t).nonUnique]
  <2>1. stack[t] # <<>> /\ UNCHANGED table
    BY <1>3 DEF FastPath, At
  <2>2. CASE c # None /\ Return(t, c)
    <3>1. c \in Record
      BY <1>1, <2>1, <2>2, TopFrame DEF TypeOK
    <3> QED BY <2>1, <2>2, <3>1, ReturnFacts, SavedPopped
  <2>3. CASE Goto(t, "lookup")
    BY <2>1, <2>3, SavedGoto DEF Label
  <2> QED BY <1>3, <2>2, <2>3 DEF FastPath
<1>4. ASSUME NEW t \in Thread, EndInitialize(t) PROVE SavedInv'
  BY <1>4, SavedGoto DEF EndInitialize, At, Label
<1>5. ASSUME NEW t \in Thread, CheckCache(t) \/ SetCache(t) PROVE SavedInv'
  <2>1. /\ stack[t] # <<>> /\ UNCHANGED table /\ Top(t).at \in {"checkCache", "setCache"}
        /\ Return(t, Top(t).unique) \/ Goto(t, "setCache")
    BY <1>5 DEF CheckCache, SetCache, At
  <2>2. Top(t).unique \in Record
    BY <2>1, TopFrame DEF FrameInv
  <2>3. CASE Return(t, Top(t).unique)
    BY <2>1, <2>2, <2>3, ReturnFacts, SavedPopped
  <2>4. CASE Goto(t, "setCache")
    BY <2>1, <2>4, SavedGoto DEF Label
  <2> QED BY <2>1, <2>3, <2>4
<1>6. ASSUME NEW t \in Thread, NEW r \in Record, Call(t, r) PROVE SavedInv'
  <2>1. stack[t] = <<>> /\ UNCHANGED table /\ stack' = [stack EXCEPT ![t] = <<Frame(r)>>]
    BY <1>6 DEF Call
  <2>2. <<>> \in Seq(Frames) /\ Len(<<>>) = Len(stack[t]) /\ 1..Len(<<>>) = {}
    BY <2>1
  <2>3. <<Frame(r)>> = Append(<<>>, Frame(r))
    OBVIOUS
  <2> QED BY <2>1, <2>2, <2>3, SavedPushed
<1>7. CASE UNCHANGED vars \/ \E t \in Thread : SpuriousWakeup(t)
  BY <1>2, <1>7 DEF vars, SpuriousWakeup
<1> QED
  BY <1>3, <1>4, <1>5, <1>6, <1>7, LookupInv, WakeInv, InitializeSaved, PublishInv DEF Next, Step

LEMMA NextInv ==
  ASSUME IInv, SavedInv, [Next]_vars
  PROVE  IInv' /\ SavedInv'
<1>1. TypeOK
  BY DEF IInv
<1>2. ASSUME UNCHANGED vars PROVE IInv'
  BY <1>1, <1>2, SameFrames DEF vars, TypeOK
<1>3. ASSUME NEW t \in Thread, SpuriousWakeup(t) PROVE IInv'
  BY <1>1, <1>3, SameFrames DEF SpuriousWakeup, TypeOK
<1>4. IInv'
  BY <1>2, <1>3, FastPathInv, LookupInv, WakeInv, InitializeInv, EndInitializeInv, PublishInv,
     CheckCacheInv, SetCacheInv, CallInv DEF Next, Step
<1> QED BY <1>4, SavedNext

LEMMA InitInv ==
  ASSUME Init
  PROVE  IInv /\ SavedInv
<1>1. TypeOK
  BY DEF Init, TypeOK
<1>2. \A t \in Thread : Len(stack[t]) = 0
  BY DEF Init
<1>3. (\A t \in Thread : StackInv(t)) /\ SoleInv
  BY <1>2 DEF StackInv, SoleInv
<1>4. \A t \in Thread : AnswerInv(t)
  BY DEF Init, AnswerInv, Answered
<1>5. \A n \in Name : NameInv(n)
  BY DEF Init, NameInv
<1>6. \A r \in Record : RecordInv(r)
  BY DEF Init, RecordInv
<1>7. SavedInv
  BY <1>2 DEF Init, SavedInv
<1> QED BY <1>1, <1>3, <1>4, <1>5, <1>6, <1>7 DEF IInv

\* Of the records with one name exactly one is canonical, and every call for
\* any of them returns it, from the invasive cache or through the lock.
THEOREM CanonicalIsUnique == Spec => []OneCanonical
<1>1. IInv => OneCanonical
  BY DEF IInv, AnswerInv, OneCanonical
<1> QED BY <1>1, InitInv, NextInv, PTL DEF Spec

\* The initialization function of a record runs at most once, and has
\* returned before any call gives the record away.
THEOREM InitializationRunsOnce == Spec => []InitializedOnce
<1>1. IInv => InitializedOnce
  <2> SUFFICES ASSUME IInv, NEW t \in Thread, Answered(t), answer[t].is \in HasInit
               PROVE  initialized[answer[t].is] = 1
    BY DEF IInv, RecordInv, InitializedOnce
  <2>1. answer[t] \in [of : Record, is : Record] /\ answer[t].is = types[NameOf[answer[t].of]]
    BY DEF IInv, TypeOK, AnswerInv, Answered
  <2>2. NameOf[answer[t].of] \in Name /\ types[NameOf[answer[t].of]] \in Record
    BY <2>1
  <2> QED BY <2>1, <2>2 DEF IInv, NameInv
<1> QED BY <1>1, InitInv, NextInv, PTL DEF Spec
==============================================================================
