------------------------- MODULE MetadataCacheProofs -------------------------
(***************************************************************************)
(* Proofs about MetadataCache: each key is built once and every call       *)
(* returns what was built, and no thread waits for itself.                 *)
(*                                                                         *)
(* The thread that inserts an entry owns it until SetHasValue, whatever    *)
(* its builder calls meanwhile: no other frame of any stack is at work on  *)
(* the key, and the entry's word is the owner.                             *)
(***************************************************************************)
EXTENDS MetadataCache, TLAPS

USE MetadataCacheAssumption

Label == {"getOrInsert", "getValue", "lock", "wait", "build", "setValue", "setHasValue"}
Frames == [key : Key, at : Label, need : Nat \ {0}]
Word == Thread \cup {NoThread} \cup (Key \X Nat)
Entry == [exists : BOOLEAN, HasValue : BOOLEAN, word : Word]

TypeOK ==
  /\ entry \in [Key -> Entry]
  /\ lock \in [Cache -> Thread \cup {NoThread}]
  /\ waiting \in [Cache -> SUBSET Thread]
  /\ stack \in [Thread -> Seq(Frames)]
  /\ aborted \in SUBSET Thread
  /\ built \in [Key -> Nat]
  /\ answers \in [Key -> SUBSET (Key \X Nat)]

Building(f) == f.at \in {"build", "setValue", "setHasValue"}

\* What the entry and the count of a key say that a frame of thread t is at
\* work on.
FrameInv(f, t, e, b) ==
  /\ Building(f) => e.exists = TRUE /\ e.HasValue = FALSE
  /\ f.at \in {"build", "setValue"} => e.word = t
  /\ f.at = "setHasValue" => e.word = Metadata(f.key, 1)
  /\ f.at = "build" => b = 0
  /\ f.at \in {"setValue", "setHasValue"} => b = 1

\* Only the innermost call of a thread is anywhere else than in its builder.
StackInv(t) ==
  \A i \in 1..Len(stack[t]) :
    /\ FrameInv(stack[t][i], t, entry[stack[t][i].key], built[stack[t][i].key])
    /\ i < Len(stack[t]) => stack[t][i].at = "build"

\* A key has one builder.
SoleInv ==
  \A t, u \in Thread : \A i \in 1..Len(stack[t]), j \in 1..Len(stack[u]) :
    /\ Building(stack[t][i]) /\ Building(stack[u][j])
    /\ stack[t][i].key = stack[u][j].key
    => t = u /\ i = j

KeyInv(k) ==
  /\ entry[k].exists = FALSE => built[k] = 0 /\ entry[k].HasValue = FALSE
  /\ entry[k].HasValue = TRUE => built[k] = 1 /\ entry[k].word = Metadata(k, 1)
  /\ answers[k] # {} => entry[k].HasValue = TRUE
  /\ answers[k] \subseteq {Metadata(k, 1)}
  /\ built[k] <= 1

\* Holds initially and is kept by every step.
IInv ==
  /\ TypeOK
  /\ \A t \in Thread : StackInv(t)
  /\ SoleInv
  /\ \A k \in Key : KeyInv(k)
  /\ NoSelfWait

-----------------------------------------------------------------------------
\* What a step leaves of the stack of the thread that takes it.

LEMMA GotoFacts ==
  ASSUME TypeOK, NEW t \in Thread, stack[t] # <<>>, NEW label \in Label, Goto(t, label)
  PROVE  /\ stack' \in [Thread -> Seq(Frames)]
         /\ Len(stack[t]) \in Nat \ {0}
         /\ Len(stack'[t]) = Len(stack[t])
         /\ \A i \in 1..(Len(stack[t]) - 1) : stack'[t][i] = stack[t][i]
         /\ stack'[t][Len(stack[t])] = [Top(t) EXCEPT !.at = label]
         /\ Top(t) \in Frames
         /\ \A u \in Thread \ {t} : stack'[u] = stack[u]
<1> DEFINE s == stack[t]
           n == Len(s)
           s1 == [s EXCEPT ![n] = [s[n] EXCEPT !.at = label]]
<1>1. s \in Seq(Frames) /\ n \in Nat \ {0} /\ s[n] \in Frames
  BY DEF TypeOK
<1>2. stack' = [stack EXCEPT ![t] = s1]
  BY DEF Goto
<1>3. [s[n] EXCEPT !.at = label] \in Frames
  BY <1>1 DEF Frames
<1>4. s1 \in Seq(Frames) /\ Len(s1) = n
  BY <1>1, <1>3
<1>5. \A i \in 1..(n - 1) : s1[i] = s[i]
  BY <1>1
<1>6. s1[n] = [s[n] EXCEPT !.at = label]
  BY <1>1
<1>7. stack'[t] = s1 /\ \A u \in Thread \ {t} : stack'[u] = stack[u]
  BY <1>2 DEF TypeOK
<1>8. stack' \in [Thread -> Seq(Frames)]
  BY <1>2, <1>4 DEF TypeOK
<1> HIDE DEF s1
<1> QED BY <1>1, <1>4, <1>5, <1>6, <1>7, <1>8 DEF Top

LEMMA ReturnFacts ==
  ASSUME TypeOK, NEW t \in Thread, stack[t] # <<>>, NEW value, Return(t, value)
  PROVE  /\ stack' \in [Thread -> Seq(Frames)]
         /\ Len(stack[t]) \in Nat \ {0}
         /\ Len(stack'[t]) = Len(stack[t]) - 1
         /\ \A i \in 1..(Len(stack[t]) - 1) : stack'[t][i] = stack[t][i]
         /\ Top(t) \in Frames
         /\ \A u \in Thread \ {t} : stack'[u] = stack[u]
<1> DEFINE s == stack[t]
           n == Len(s)
           s1 == SubSeq(s, 1, n - 1)
<1>1. s \in Seq(Frames) /\ n \in Nat \ {0} /\ s[n] \in Frames
  BY DEF TypeOK
<1>2. stack' = [stack EXCEPT ![t] = s1]
  BY DEF Return
<1>3. s1 \in Seq(Frames) /\ Len(s1) = n - 1 /\ \A i \in 1..(n - 1) : s1[i] = s[i]
  BY <1>1
<1> HIDE DEF s1
<1>4. stack'[t] = s1 /\ \A u \in Thread \ {t} : stack'[u] = stack[u]
  BY <1>2 DEF TypeOK
<1>5. stack' \in [Thread -> Seq(Frames)]
  BY <1>2, <1>3 DEF TypeOK
<1> QED BY <1>1, <1>3, <1>4, <1>5 DEF Top

\* A step that makes no frame a builder leaves every key its one builder.
LEMMA SoleFrame ==
  ASSUME SoleInv,
         \A u \in Thread : \A i \in 1..Len(stack'[u]) :
           Building(stack'[u][i]) => /\ i \in 1..Len(stack[u]) /\ Building(stack[u][i])
                                     /\ stack'[u][i].key = stack[u][i].key
  PROVE  SoleInv'
<1> SUFFICES ASSUME NEW t \in Thread, NEW u \in Thread,
                    NEW i \in 1..Len(stack'[t]), NEW j \in 1..Len(stack'[u]),
                    Building(stack'[t][i]), Building(stack'[u][j]),
                    stack'[t][i].key = stack'[u][j].key
             PROVE  t = u /\ i = j
  BY DEF SoleInv, Building
<1> QED BY DEF SoleInv

\* The innermost frame goes on at a place where it owns nothing.
LEMMA MoveInv ==
  ASSUME IInv, NEW t \in Thread, stack[t] # <<>>, ~Building(Top(t)),
         NEW label \in {"getValue", "lock", "wait"}, Goto(t, label),
         UNCHANGED <<entry, built, answers>>,
         waiting' \in [Cache -> SUBSET Thread], UNCHANGED <<lock, aborted>>,
         label = "wait" => ~Builds(t, Top(t).key)
  PROVE  IInv'
<1> DEFINE n == Len(stack[t])
<1>1. TypeOK /\ label \in Label
  BY DEF IInv, Label
<1>2. /\ stack' \in [Thread -> Seq(Frames)]
      /\ n \in Nat \ {0} /\ Len(stack'[t]) = n
      /\ \A i \in 1..(n - 1) : stack'[t][i] = stack[t][i]
      /\ stack'[t][n] = [Top(t) EXCEPT !.at = label]
      /\ Top(t) \in Frames
      /\ \A u \in Thread \ {t} : stack'[u] = stack[u]
  BY <1>1, GotoFacts
<1>3. /\ stack'[t][n].key = Top(t).key /\ stack'[t][n].at = label
      /\ ~Building(stack'[t][n])
  BY <1>2 DEF Frames, Building
<1>4. TypeOK'
  BY <1>1, <1>2 DEF TypeOK
<1>5. ASSUME NEW u \in Thread PROVE StackInv(u)'
  <2>0. StackInv(u) /\ StackInv(t)
    BY DEF IInv
  <2>1. CASE u # t
    BY <1>2, <2>0, <2>1 DEF StackInv
  <2>2. CASE u = t
    <3>1. ASSUME NEW i \in 1..n
          PROVE  /\ FrameInv(stack'[t][i], t, entry'[stack'[t][i].key], built'[stack'[t][i].key])
                 /\ i < n => stack'[t][i].at = "build"
      <4>1. CASE i < n
        <5>1. stack'[t][i] = stack[t][i]
          BY <1>2, <4>1
        <5>2. /\ FrameInv(stack[t][i], t, entry[stack[t][i].key], built[stack[t][i].key])
              /\ stack[t][i].at = "build"
          BY <2>0, <4>1 DEF StackInv
        <5> QED BY <5>1, <5>2
      <4>2. CASE i = n
        <5>1. stack'[t][i].at \in {"getValue", "lock", "wait"}
          BY <1>3, <4>2
        <5>2. \A e, b : FrameInv(stack'[t][i], t, e, b)
          BY <5>1 DEF FrameInv, Building
        <5> QED BY <1>2, <4>2, <5>2
      <4> QED BY <1>2, <4>1, <4>2
    <3> QED BY <1>2, <2>2, <3>1 DEF StackInv
  <2> QED BY <2>1, <2>2
<1>6. SoleInv'
  <2>1. \A u \in Thread : \A i \in 1..Len(stack'[u]) :
          Building(stack'[u][i]) => i \in 1..Len(stack[u]) /\ stack'[u][i] = stack[u][i]
    BY <1>2, <1>3
  <2> QED BY <2>1, SoleFrame DEF IInv
<1>7. \A k \in Key : KeyInv(k)'
  BY DEF IInv, KeyInv
<1>8. NoSelfWait'
  <2>1. ASSUME NEW u \in Thread, u # t, Waits(u)' PROVE ~Builds(u, Top(u).key)'
    BY <1>2, <2>1 DEF IInv, NoSelfWait, Waits, Builds, Top
  <2>2. ASSUME Waits(t)', Builds(t, Top(t).key)' PROVE FALSE
    <3>1. label = "wait" /\ Top(t)'.key = Top(t).key
      BY <1>2, <1>3, <2>2 DEF Waits, Top
    <3>2. DOMAIN stack'[t] = 1..n /\ DOMAIN stack[t] = 1..n
      BY <1>1, <1>2 DEF TypeOK
    <3>3. PICK i \in 1..n : stack'[t][i].key = Top(t).key /\ Building(stack'[t][i])
      BY <2>2, <3>1, <3>2 DEF Builds, Building
    <3>4. stack'[t][i] = stack[t][i]
      BY <1>2, <1>3, <3>3
    <3> QED BY <3>1, <3>2, <3>3, <3>4 DEF Builds, Building
  <2> QED BY <2>1, <2>2 DEF NoSelfWait
<1> QED BY <1>4, <1>5, <1>6, <1>7, <1>8 DEF IInv

LEMMA FrameType ==
  ASSUME TypeOK, NEW u \in Thread, NEW i \in 1..Len(stack[u])
  PROVE  stack[u][i] \in Frames /\ stack[u][i].key \in Key
<1>1. stack[u] \in Seq(Frames)
  BY DEF TypeOK
<1>2. stack[u][i] \in Frames
  BY <1>1
<1> QED BY <1>2 DEF Frames

\* A step that changes the key of the innermost frame of thread t, which no
\* other frame builds.
ChangesOwn(t) ==
  /\ \A j \in Key \ {Top(t).key} : entry'[j] = entry[j] /\ built'[j] = built[j]
  /\ \A u \in Thread : \A i \in 1..Len(stack[u]) :
       Building(stack[u][i]) /\ stack[u][i].key = Top(t).key => u = t /\ i = Len(stack[t])
  /\ \A u \in Thread \ {t} : stack'[u] = stack[u]

\* The frames of thread t but for the innermost are in order after the step.
OuterFrames(t) ==
  \A i \in 1..(Len(stack[t]) - 1) :
    /\ FrameInv(stack[t][i], t, entry'[stack[t][i].key], built'[stack[t][i].key])
    /\ stack[t][i].at = "build"

LEMMA OtherFrames ==
  ASSUME IInv, NEW t \in Thread, ChangesOwn(t)
  PROVE  OuterFrames(t) /\ \A u \in Thread \ {t} : StackInv(u)'
<1>1. TypeOK /\ \A u \in Thread : StackInv(u) /\ Len(stack[u]) \in Nat
  BY DEF IInv, TypeOK
<1>2. ASSUME NEW u \in Thread, NEW i \in 1..Len(stack[u]), u # t \/ i < Len(stack[t])
      PROVE  FrameInv(stack[u][i], u, entry'[stack[u][i].key], built'[stack[u][i].key])
  <2>1. stack[u][i].key \in Key
    BY <1>1, FrameType
  <2>2. CASE Building(stack[u][i])
    <3>1. stack[u][i].key \in Key \ {Top(t).key}
      BY <1>1, <1>2, <2>1, <2>2 DEF ChangesOwn
    <3>2. FrameInv(stack[u][i], u, entry[stack[u][i].key], built[stack[u][i].key])
      BY <1>1 DEF StackInv
    <3> QED BY <3>1, <3>2 DEF ChangesOwn
  <2>3. CASE ~Building(stack[u][i])
    BY <2>3 DEF FrameInv, Building
  <2> QED BY <2>2, <2>3
<1>3. ASSUME NEW u \in Thread \ {t} PROVE StackInv(u)'
  <2>0. stack'[u] = stack[u]
    BY DEF ChangesOwn
  <2>1. ASSUME NEW i \in 1..Len(stack'[u])
        PROVE  /\ FrameInv(stack'[u][i], u, entry'[stack'[u][i].key], built'[stack'[u][i].key])
               /\ i < Len(stack'[u]) => stack'[u][i].at = "build"
    <3>2. FrameInv(stack[u][i], u, entry'[stack[u][i].key], built'[stack[u][i].key])
      BY <1>2, <2>0
    <3>3. i < Len(stack[u]) => stack[u][i].at = "build"
      BY <1>1, <2>0 DEF StackInv
    <3> QED BY <2>0, <3>2, <3>3
  <2> QED BY <2>1 DEF StackInv
<1>4. ASSUME NEW i \in 1..(Len(stack[t]) - 1)
      PROVE  /\ FrameInv(stack[t][i], t, entry'[stack[t][i].key], built'[stack[t][i].key])
             /\ stack[t][i].at = "build"
  <2>1. i \in 1..Len(stack[t]) /\ i < Len(stack[t])
    BY <1>1
  <2> QED BY <1>1, <1>2, <2>1 DEF StackInv
<1> QED BY <1>3, <1>4 DEF OuterFrames

\* The stack of the thread, once its last frame is known.
LEMMA ChangedStack ==
  ASSUME IInv, NEW t \in Thread, stack[t] # <<>>, Len(stack'[t]) = Len(stack[t]),
         \A i \in 1..(Len(stack[t]) - 1) : stack'[t][i] = stack[t][i],
         OuterFrames(t),
         LET n == Len(stack[t])
         IN  FrameInv(stack'[t][n], t, entry'[stack'[t][n].key], built'[stack'[t][n].key])
  PROVE  StackInv(t)'
<1> DEFINE n == Len(stack[t])
<1>1. n \in Nat \ {0}
  BY DEF IInv, TypeOK
<1>2. ASSUME NEW i \in 1..n
      PROVE  /\ FrameInv(stack'[t][i], t, entry'[stack'[t][i].key], built'[stack'[t][i].key])
             /\ i < n => stack'[t][i].at = "build"
  <2>1. CASE i = n
    BY <1>1, <2>1
  <2>2. CASE i # n
    <3>1. i \in 1..(n - 1)
      BY <1>1, <2>2
    <3> QED BY <3>1 DEF OuterFrames
  <2> QED BY <2>1, <2>2
<1> QED BY <1>2 DEF StackInv

\* A waiter that the step does not concern waits as before.
LEMMA OtherWaiters ==
  ASSUME IInv, NEW t \in Thread, \A u \in Thread \ {t} : stack'[u] = stack[u], ~Waits(t)'
  PROVE  NoSelfWait'
<1>1. ASSUME NEW u \in Thread, Waits(u)' PROVE ~Builds(u, Top(u).key)'
  BY <1>1 DEF IInv, NoSelfWait, Waits, Builds, Top
<1> QED BY <1>1 DEF NoSelfWait

\* getOrInsert inserts: the thread becomes the builder of a key that has none.
LEMMA InsertInv ==
  ASSUME IInv, NEW t \in Thread, At(t, "getOrInsert"), ~entry[Top(t).key].exists,
         entry' = [entry EXCEPT ![Top(t).key] = NewEntry(t)], Goto(t, "build"),
         UNCHANGED <<lock, waiting, aborted, built, answers>>
  PROVE  IInv'
<1> DEFINE n == Len(stack[t])
           k == Top(t).key
<1>1. TypeOK /\ "build" \in Label /\ stack[t] # <<>> /\ Top(t).at = "getOrInsert"
  BY DEF IInv, Label, At
<1>2. /\ stack' \in [Thread -> Seq(Frames)]
      /\ n \in Nat \ {0} /\ Len(stack'[t]) = n
      /\ \A i \in 1..(n - 1) : stack'[t][i] = stack[t][i]
      /\ stack'[t][n] = [Top(t) EXCEPT !.at = "build"]
      /\ Top(t) \in Frames
      /\ \A u \in Thread \ {t} : stack'[u] = stack[u]
  BY <1>1, GotoFacts
<1>3. k \in Key /\ stack'[t][n].key = k /\ stack'[t][n].at = "build"
  BY <1>2 DEF Frames
<1>4. /\ entry'[k] = NewEntry(t)
      /\ \A j \in Key \ {k} : entry'[j] = entry[j]
      /\ entry[k].exists = FALSE /\ entry[k] \in Entry
  BY <1>1, <1>3 DEF TypeOK, Entry
<1>5. built[k] = 0 /\ entry[k].HasValue = FALSE /\ answers[k] = {}
  BY <1>3, <1>4 DEF IInv, KeyInv
<1>6. TypeOK'
  <2>1. NewEntry(t) \in Entry
    BY DEF NewEntry, Entry, Word
  <2> QED BY <1>1, <1>2, <2>1 DEF TypeOK
<1>7. \A u \in Thread : \A i \in 1..Len(stack[u]) :
        Building(stack[u][i]) => stack[u][i].key # k
  BY <1>4 DEF IInv, StackInv, FrameInv
<1> HIDE DEF k
<1>8. OuterFrames(t) /\ \A u \in Thread \ {t} : StackInv(u)'
  <2>1. ChangesOwn(t)
    BY <1>2, <1>4, <1>7 DEF ChangesOwn, k
  <2> QED BY <2>1, OtherFrames
<1>9. FrameInv(stack'[t][n], t, entry'[stack'[t][n].key], built'[stack'[t][n].key])
  BY <1>3, <1>4, <1>5 DEF FrameInv, NewEntry
<1>10. StackInv(t)'
  BY <1>1, <1>2, <1>8, <1>9, ChangedStack
<1>11. SoleInv'
  <2>1. ASSUME NEW u \in Thread, NEW i \in 1..Len(stack'[u]), Building(stack'[u][i]), u # t \/ i # n
        PROVE  /\ i \in 1..Len(stack[u]) /\ Building(stack[u][i])
               /\ stack'[u][i].key = stack[u][i].key /\ stack'[u][i].key # k
    BY <1>2, <1>7, <2>1
  <2> SUFFICES ASSUME NEW u \in Thread, NEW w \in Thread,
                      NEW i \in 1..Len(stack'[u]), NEW j \in 1..Len(stack'[w]),
                      Building(stack'[u][i]), Building(stack'[w][j]),
                      stack'[u][i].key = stack'[w][j].key
               PROVE  u = w /\ i = j
    BY DEF SoleInv, Building
  <2>2. CASE u = t /\ i = n
    BY <1>3, <2>1, <2>2
  <2>3. CASE w = t /\ j = n
    BY <1>3, <2>1, <2>3
  <2>4. CASE ~(u = t /\ i = n) /\ ~(w = t /\ j = n)
    BY <2>1, <2>4 DEF IInv, SoleInv
  <2> QED BY <2>2, <2>3, <2>4
<1>12. ASSUME NEW j \in Key PROVE KeyInv(j)'
  <2>1. CASE j = k
    BY <1>3, <1>4, <1>5, <2>1 DEF KeyInv, NewEntry
  <2>2. CASE j # k
    BY <1>4, <2>2 DEF IInv, KeyInv
  <2> QED BY <2>1, <2>2
<1>13. NoSelfWait'
  <2>1. ~Waits(t)'
    BY <1>2, <1>3 DEF Waits, Top
  <2> QED BY <1>2, <2>1, OtherWaiters
<1> QED BY <1>6, <1>8, <1>10, <1>11, <1>12, <1>13 DEF IInv

LEMMA TopFrame ==
  ASSUME IInv, NEW t \in Thread, stack[t] # <<>>
  PROVE  /\ Len(stack[t]) \in Nat \ {0} /\ Len(stack[t]) \in 1..Len(stack[t])
         /\ Top(t) \in Frames /\ Top(t).key \in Key
         /\ FrameInv(Top(t), t, entry[Top(t).key], built[Top(t).key])
         /\ KeyInv(Top(t).key) /\ entry[Top(t).key] \in Entry
         /\ built[Top(t).key] \in Nat
<1>1. TypeOK /\ StackInv(t)
  BY DEF IInv
<1>2. Len(stack[t]) \in Nat \ {0} /\ Len(stack[t]) \in 1..Len(stack[t])
  BY <1>1 DEF TypeOK
<1>3. Top(t) \in Frames /\ Top(t).key \in Key
  BY <1>1, <1>2, FrameType DEF Top
<1>4. FrameInv(Top(t), t, entry[Top(t).key], built[Top(t).key])
  BY <1>1, <1>2 DEF StackInv, Top
<1> QED BY <1>1, <1>2, <1>3, <1>4 DEF IInv, TypeOK

\* A builder is the only one at work on its key.
LEMMA OwnFrame ==
  ASSUME IInv, NEW t \in Thread, stack[t] # <<>>, Building(Top(t))
  PROVE  \A u \in Thread : \A i \in 1..Len(stack[u]) :
           Building(stack[u][i]) /\ stack[u][i].key = Top(t).key => u = t /\ i = Len(stack[t])
BY TopFrame DEF IInv, SoleInv, Top

\* A call returns the metadata of its key, which has its value.
LEMMA PopInv ==
  ASSUME IInv, NEW t \in Thread, stack[t] # <<>>, Return(t, Metadata(Top(t).key, 1)),
         ChangesOwn(t), entry' \in [Key -> Entry], built' = built, built[Top(t).key] = 1,
         entry'[Top(t).key].exists = TRUE, entry'[Top(t).key].HasValue = TRUE,
         entry'[Top(t).key].word = Metadata(Top(t).key, 1),
         lock' \in [Cache -> Thread \cup {NoThread}], waiting' \in [Cache -> SUBSET Thread],
         aborted' = aborted
  PROVE  IInv'
<1> DEFINE n == Len(stack[t])
           k == Top(t).key
<1>1. TypeOK
  BY DEF IInv
<1>2. /\ stack' \in [Thread -> Seq(Frames)]
      /\ n \in Nat \ {0} /\ Len(stack'[t]) = n - 1
      /\ \A i \in 1..(n - 1) : stack'[t][i] = stack[t][i]
      /\ \A u \in Thread \ {t} : stack'[u] = stack[u]
  BY <1>1, ReturnFacts
<1>3. k \in Key
  BY TopFrame
<1>4. /\ answers' \in [Key -> SUBSET (Key \X Nat)]
      /\ answers'[k] = answers[k] \cup {Metadata(k, 1)}
      /\ \A j \in Key \ {k} : answers'[j] = answers[j]
  BY <1>1, <1>3 DEF Return, TypeOK, Metadata
<1>5. TypeOK'
  BY <1>1, <1>2, <1>4 DEF TypeOK
<1>6. OuterFrames(t) /\ \A u \in Thread \ {t} : StackInv(u)'
  BY OtherFrames
<1>7. StackInv(t)'
  <2>1. ASSUME NEW i \in 1..(n - 1)
        PROVE  /\ FrameInv(stack'[t][i], t, entry'[stack'[t][i].key], built'[stack'[t][i].key])
               /\ stack'[t][i].at = "build"
    BY <1>2, <1>6 DEF OuterFrames
  <2> QED BY <1>2, <2>1 DEF StackInv
<1>8. SoleInv'
  <2>1. \A u \in Thread : \A i \in 1..Len(stack'[u]) :
          i \in 1..Len(stack[u]) /\ stack'[u][i] = stack[u][i]
    <3> SUFFICES ASSUME NEW u \in Thread, NEW i \in 1..Len(stack'[u])
                 PROVE  i \in 1..Len(stack[u]) /\ stack'[u][i] = stack[u][i]
      OBVIOUS
    <3>1. CASE u = t
      BY <1>2, <3>1
    <3>2. CASE u # t
      BY <1>2, <3>2
    <3> QED BY <3>1, <3>2
  <2> QED BY <2>1, SoleFrame DEF IInv
<1>9. ASSUME NEW j \in Key PROVE KeyInv(j)'
  <2>1. CASE j = k
    BY <1>4, <2>1, TopFrame DEF KeyInv
  <2>2. CASE j # k
    <3>1. entry'[j] = entry[j]
      BY <2>2 DEF ChangesOwn
    <3>2. KeyInv(j) /\ answers'[j] = answers[j] /\ built'[j] = built[j]
      BY <1>4, <2>2 DEF IInv
    <3> QED BY <3>1, <3>2 DEF KeyInv
  <2> QED BY <2>1, <2>2
<1>10. NoSelfWait'
  <2>1. ~Waits(t)'
    <3> SUFFICES ASSUME stack'[t] # <<>> PROVE stack'[t][n - 1].at = "build"
      BY <1>2 DEF Waits, Top
    <3>1. n - 1 \in 1..(n - 1)
      BY <1>2
    <3> QED BY <1>2, <1>6, <3>1 DEF OuterFrames
  <2> QED BY <1>2, <2>1, OtherWaiters
<1> QED BY <1>5, <1>6, <1>7, <1>8, <1>9, <1>10 DEF IInv

\* A call that finds the value returns it.
LEMMA FoundInv ==
  ASSUME IInv, NEW t \in Thread, stack[t] # <<>>, entry[Top(t).key].HasValue,
         Return(t, entry[Top(t).key].word), UNCHANGED <<entry, lock, waiting, aborted, built>>
  PROVE  IInv'
<1>1. entry[Top(t).key].HasValue = TRUE
  BY TopFrame DEF Entry
<1>2. /\ entry[Top(t).key].word = Metadata(Top(t).key, 1) /\ built[Top(t).key] = 1
      /\ entry[Top(t).key].exists = TRUE
  BY <1>1, TopFrame DEF KeyInv, Entry
<1>3. ChangesOwn(t)
  <2>1. \A u \in Thread : \A i \in 1..Len(stack[u]) :
          Building(stack[u][i]) => stack[u][i].key # Top(t).key
    BY <1>1 DEF IInv, StackInv, FrameInv
  <2>2. \A u \in Thread \ {t} : stack'[u] = stack[u]
    BY ReturnFacts DEF IInv
  <2> QED BY <2>1, <2>2 DEF ChangesOwn
<1>4. TypeOK
  BY DEF IInv
<1> QED BY <1>1, <1>2, <1>3, <1>4, PopInv DEF TypeOK

LEMMA SetHasValueInv ==
  ASSUME IInv, NEW t \in Thread, SetHasValue(t)
  PROVE  IInv'
<1> DEFINE k == Top(t).key
<1>1. stack[t] # <<>> /\ Top(t).at = "setHasValue" /\ Building(Top(t)) /\ TypeOK
  BY DEF SetHasValue, At, Building, IInv
<1>2. /\ entry[k].word = Metadata(k, 1) /\ built[k] = 1 /\ entry[k].exists = TRUE
      /\ entry[k] \in Entry /\ k \in Key
  BY <1>1, TopFrame DEF FrameInv
<1>3. entry' = [entry EXCEPT ![k] = [entry[k] EXCEPT !.HasValue = TRUE]]
  BY DEF SetHasValue
<1>4. [entry[k] EXCEPT !.HasValue = TRUE] \in Entry
  BY <1>2 DEF Entry
<1>5. /\ entry' \in [Key -> Entry] /\ entry'[k].HasValue = TRUE /\ entry'[k].exists = TRUE
      /\ entry'[k].word = Metadata(k, 1)
      /\ \A j \in Key \ {k} : entry'[j] = entry[j]
  BY <1>1, <1>2, <1>3, <1>4 DEF TypeOK, Entry
<1>6. Return(t, Metadata(k, 1)) /\ built' = built /\ aborted' = aborted
  BY <1>2 DEF SetHasValue
<1>7. ChangesOwn(t)
  <2>1. \A u \in Thread \ {t} : stack'[u] = stack[u]
    BY <1>1, <1>6, ReturnFacts
  <2> QED BY <1>1, <1>5, <1>6, <2>1, OwnFrame DEF ChangesOwn
<1>8. lock' \in [Cache -> Thread \cup {NoThread}] /\ waiting' \in [Cache -> SUBSET Thread]
  BY <1>1 DEF SetHasValue, TypeOK
<1> QED BY <1>1, <1>2, <1>5, <1>6, <1>7, <1>8, PopInv

\* The builder goes on, and what it changes are the count and the entry of
\* its own key.
LEMMA OwnInv ==
  ASSUME IInv, NEW t \in Thread, stack[t] # <<>>, Building(Top(t)),
         NEW label \in {"setValue", "setHasValue"}, Goto(t, label),
         ChangesOwn(t), entry' \in [Key -> Entry], built' \in [Key -> Nat],
         entry'[Top(t).key].exists = TRUE, entry'[Top(t).key].HasValue = FALSE,
         built'[Top(t).key] = 1,
         entry'[Top(t).key].word = IF label = "setValue" THEN t ELSE Metadata(Top(t).key, 1),
         lock' \in [Cache -> Thread \cup {NoThread}], UNCHANGED <<waiting, aborted, answers>>
  PROVE  IInv'
<1> DEFINE n == Len(stack[t])
           k == Top(t).key
<1>1. TypeOK /\ label \in Label
  BY DEF IInv, Label
<1>2. /\ stack' \in [Thread -> Seq(Frames)]
      /\ n \in Nat \ {0} /\ Len(stack'[t]) = n
      /\ \A i \in 1..(n - 1) : stack'[t][i] = stack[t][i]
      /\ stack'[t][n] = [Top(t) EXCEPT !.at = label]
      /\ Top(t) \in Frames
      /\ \A u \in Thread \ {t} : stack'[u] = stack[u]
  BY <1>1, GotoFacts
<1>3. k \in Key /\ stack'[t][n].key = k /\ stack'[t][n].at = label
  BY <1>2 DEF Frames
<1>4. TypeOK'
  BY <1>1, <1>2 DEF TypeOK
<1>5. OuterFrames(t) /\ \A u \in Thread \ {t} : StackInv(u)'
  BY OtherFrames
<1>6. FrameInv(stack'[t][n], t, entry'[stack'[t][n].key], built'[stack'[t][n].key])
  BY <1>3 DEF FrameInv, Building
<1>7. StackInv(t)'
  BY <1>2, <1>5, <1>6, ChangedStack
<1>8. SoleInv'
  <2>1. ASSUME NEW u \in Thread, NEW i \in 1..Len(stack'[u]), Building(stack'[u][i])
        PROVE  /\ i \in 1..Len(stack[u]) /\ Building(stack[u][i])
               /\ stack'[u][i].key = stack[u][i].key
    <3>1. CASE u = t /\ i = n
      BY <1>2, <1>3, <3>1 DEF Top
    <3>2. CASE u = t /\ i # n
      <4>1. i \in 1..(n - 1)
        BY <1>2, <3>2
      <4> QED BY <1>2, <2>1, <3>2, <4>1
    <3>3. CASE u # t
      <4>1. stack'[u] = stack[u]
        BY <1>2, <3>3
      <4> QED BY <2>1, <4>1
    <3> QED BY <3>1, <3>2, <3>3
  <2> QED BY <2>1, SoleFrame DEF IInv
<1>9. ASSUME NEW j \in Key PROVE KeyInv(j)'
  <2>1. CASE j = k
    <3>1. entry[k].HasValue = FALSE
      BY TopFrame DEF FrameInv
    <3>2. answers[k] = {}
      BY <3>1, TopFrame DEF KeyInv
    <3> QED BY <2>1, <3>2 DEF KeyInv
  <2>2. CASE j # k
    <3>1. entry'[j] = entry[j] /\ built'[j] = built[j]
      BY <2>2 DEF ChangesOwn
    <3> QED BY <2>2, <3>1 DEF IInv, KeyInv
  <2> QED BY <2>1, <2>2
<1>10. NoSelfWait'
  <2>1. ~Waits(t)'
    BY <1>2, <1>3 DEF Waits, Top
  <2> QED BY <1>2, <2>1, OtherWaiters
<1> QED BY <1>4, <1>5, <1>7, <1>8, <1>9, <1>10 DEF IInv

\* The builder calls findOrAdd for a key it needs.
LEMMA PushInv ==
  ASSUME IInv, NEW t \in Thread, At(t, "build"), NEW m \in Nat \ {0}, NEW k \in Key,
         stack' = [stack EXCEPT ![t] = Append([@ EXCEPT ![Len(@)].need = m], Frame(k))],
         UNCHANGED <<entry, lock, waiting, aborted, built, answers>>
  PROVE  IInv'
<1> DEFINE s == stack[t]
           n == Len(s)
           f == [s[n] EXCEPT !.need = m]
           s1 == [s EXCEPT ![n] = f]
<1>1. TypeOK /\ s # <<>> /\ s[n].at = "build" /\ StackInv(t)
  BY DEF IInv, At, Top
<1>2. s \in Seq(Frames) /\ n \in Nat \ {0} /\ s[n] \in Frames
  BY <1>1 DEF TypeOK
<1>3. f \in Frames /\ f.at = "build" /\ f.key = s[n].key
  BY <1>1, <1>2 DEF Frames
<1>4. Frame(k) \in Frames /\ Frame(k).at = "getOrInsert"
  BY DEF Frames, Frame, Label
<1>5. s1 \in Seq(Frames) /\ Len(s1) = n /\ s1[n] = f /\ \A i \in 1..(n - 1) : s1[i] = s[i]
  <2> HIDE DEF f
  <2> QED BY <1>2, <1>3
<1>6. stack' = [stack EXCEPT ![t] = Append(s1, Frame(k))]
  OBVIOUS
<1> HIDE DEF s1, f
<1>7. /\ Append(s1, Frame(k)) \in Seq(Frames) /\ Len(Append(s1, Frame(k))) = n + 1
      /\ Append(s1, Frame(k))[n + 1] = Frame(k)
      /\ \A i \in 1..n : Append(s1, Frame(k))[i] = s1[i]
  BY <1>2, <1>4, <1>5
<1>8. /\ stack' \in [Thread -> Seq(Frames)] /\ stack'[t] = Append(s1, Frame(k))
      /\ \A u \in Thread \ {t} : stack'[u] = stack[u]
  BY <1>1, <1>6, <1>7 DEF TypeOK
<1>9. /\ Len(stack'[t]) = n + 1 /\ stack'[t][n + 1] = Frame(k)
      /\ \A i \in 1..n : stack'[t][i].key = s[i].key /\ stack'[t][i].at = s[i].at
  <2>1. ASSUME NEW i \in 1..n PROVE s1[i].key = s[i].key /\ s1[i].at = s[i].at
    <3>1. CASE i = n
      BY <1>1, <1>3, <1>5, <3>1
    <3>2. CASE i # n
      <4>1. i \in 1..(n - 1)
        BY <1>2, <3>2
      <4>2. s1[i] = s[i]
        BY <1>5, <4>1
      <4> QED BY <4>2
    <3> QED BY <3>1, <3>2
  <2> QED BY <1>2, <1>7, <1>8, <2>1
<1>10. TypeOK'
  BY <1>1, <1>8 DEF TypeOK
<1>11. ASSUME NEW u \in Thread, u # t PROVE StackInv(u)'
  BY <1>8, <1>11 DEF IInv, StackInv
<1>12. StackInv(t)'
  <2>1. ASSUME NEW i \in 1..(n + 1)
        PROVE  /\ FrameInv(stack'[t][i], t, entry'[stack'[t][i].key], built'[stack'[t][i].key])
               /\ i < n + 1 => stack'[t][i].at = "build"
    <3>1. CASE i = n + 1
      <4>1. \A e, b : FrameInv(Frame(k), t, e, b)
        BY <1>4 DEF FrameInv, Building
      <4> QED BY <1>2, <1>9, <3>1, <4>1
    <3>2. CASE i # n + 1
      <4>1. i \in 1..n
        BY <1>2, <3>2
      <4>2. FrameInv(s[i], t, entry[s[i].key], built[s[i].key]) /\ s[i].at = "build"
        <5>1. FrameInv(s[i], t, entry[s[i].key], built[s[i].key]) /\ (i < n => s[i].at = "build")
          BY <1>1, <4>1 DEF StackInv
        <5>2. i < n \/ i = n
          BY <1>2, <4>1
        <5> QED BY <1>1, <5>1, <5>2
      <4>3. stack'[t][i].key = s[i].key /\ stack'[t][i].at = s[i].at
        BY <1>9, <4>1
      <4> QED BY <4>2, <4>3 DEF FrameInv, Building
    <3> QED BY <3>1, <3>2
  <2> QED BY <1>9, <2>1 DEF StackInv
<1>13. SoleInv'
  <2>1. ASSUME NEW u \in Thread, NEW i \in 1..Len(stack'[u]), Building(stack'[u][i])
        PROVE  /\ i \in 1..Len(stack[u]) /\ Building(stack[u][i])
               /\ stack'[u][i].key = stack[u][i].key
    <3>1. CASE u = t
      <4>1. i # n + 1
        BY <1>4, <1>9, <2>1, <3>1 DEF Building
      <4>2. i \in 1..n
        BY <1>2, <1>9, <3>1, <4>1
      <4> QED BY <1>9, <2>1, <3>1, <4>2 DEF Building
    <3>2. CASE u # t
      <4>1. stack'[u] = stack[u]
        BY <1>8, <3>2
      <4> QED BY <2>1, <4>1
    <3> QED BY <3>1, <3>2
  <2> QED BY <2>1, SoleFrame DEF IInv
<1>14. \A j \in Key : KeyInv(j)'
  BY DEF IInv, KeyInv
<1>15. NoSelfWait'
  <2>1. ~Waits(t)'
    BY <1>4, <1>9 DEF Waits, Top
  <2> QED BY <1>8, <2>1, OtherWaiters
<1> QED BY <1>10, <1>11, <1>12, <1>13, <1>14, <1>15 DEF IInv

LEMMA BuildInv ==
  ASSUME IInv, NEW t \in Thread, Build(t)
  PROVE  IInv'
<1> DEFINE k == Top(t).key
           n == Top(t).need
<1>1. stack[t] # <<>> /\ Top(t).at = "build" /\ Building(Top(t)) /\ TypeOK /\ At(t, "build")
  BY DEF Build, At, Building, IInv
<1>2. /\ k \in Key /\ n \in Nat \ {0} /\ entry[k].exists = TRUE /\ entry[k].HasValue = FALSE
      /\ entry[k].word = t /\ built[k] = 0
  BY <1>1, TopFrame DEF FrameInv, Frames
<1>3. CASE /\ n <= Len(Needs[k])
           /\ stack' = [stack EXCEPT ![t] =
                          Append([@ EXCEPT ![Len(@)].need = n + 1], Frame(Needs[k][n]))]
           /\ UNCHANGED built
  <2>1. Needs[k] \in Seq(Key) /\ n + 1 \in Nat \ {0}
    BY <1>2
  <2>3. Needs[k][n] \in Key
    BY <1>2, <1>3, <2>1
  <2> QED BY <1>1, <1>3, <2>1, <2>3, PushInv DEF Build
<1>4. CASE n > Len(Needs[k]) /\ built' = [built EXCEPT ![k] = @ + 1] /\ Goto(t, "setValue")
  <2>1. /\ built' \in [Key -> Nat] /\ built'[k] = 1
        /\ \A j \in Key \ {k} : built'[j] = built[j]
    BY <1>1, <1>2, <1>4 DEF TypeOK
  <2>2. UNCHANGED <<entry, lock, waiting, aborted, answers>>
    BY DEF Build
  <2>3. ChangesOwn(t)
    <3>1. \A u \in Thread \ {t} : stack'[u] = stack[u]
      BY <1>1, <1>4, GotoFacts DEF Label
    <3> QED BY <1>1, <2>1, <2>2, <3>1, OwnFrame DEF ChangesOwn
  <2> QED BY <1>1, <1>2, <1>4, <2>1, <2>2, <2>3, OwnInv DEF TypeOK
<1> QED BY <1>3, <1>4 DEF Build

LEMMA SetValueInv ==
  ASSUME IInv, NEW t \in Thread, SetValue(t)
  PROVE  IInv'
<1> DEFINE k == Top(t).key
<1>1. stack[t] # <<>> /\ Top(t).at = "setValue" /\ Building(Top(t)) /\ TypeOK
  BY DEF SetValue, At, Building, IInv
<1>2. /\ k \in Key /\ entry[k].exists = TRUE /\ entry[k].HasValue = FALSE /\ built[k] = 1
      /\ entry[k] \in Entry
  BY <1>1, TopFrame DEF FrameInv
<1>3. entry' = [entry EXCEPT ![k] = [entry[k] EXCEPT !.word = Metadata(k, 1)]]
  BY <1>2 DEF SetValue
<1>4. [entry[k] EXCEPT !.word = Metadata(k, 1)] \in Entry
  BY <1>2 DEF Entry, Word, Metadata
<1>5. /\ entry' \in [Key -> Entry] /\ entry'[k].HasValue = FALSE /\ entry'[k].exists = TRUE
      /\ entry'[k].word = Metadata(k, 1)
      /\ \A j \in Key \ {k} : entry'[j] = entry[j]
  BY <1>1, <1>2, <1>3, <1>4 DEF TypeOK, Entry
<1>6. Goto(t, "setHasValue") /\ UNCHANGED <<waiting, aborted, built, answers>>
  BY DEF SetValue
<1>7. ChangesOwn(t)
  <2>1. \A u \in Thread \ {t} : stack'[u] = stack[u]
    BY <1>1, <1>6, GotoFacts DEF Label
  <2> QED BY <1>1, <1>5, <1>6, <2>1, OwnFrame DEF ChangesOwn
<1>8. lock' \in [Cache -> Thread \cup {NoThread}] /\ built' \in [Key -> Nat]
  BY <1>1, <1>6 DEF SetValue, TypeOK
<1> QED BY <1>1, <1>2, <1>5, <1>6, <1>7, <1>8, OwnInv

LEMMA CallInv ==
  ASSUME IInv, NEW t \in Thread, NEW k \in Key, Call(t, k)
  PROVE  IInv'
<1>1. TypeOK /\ stack[t] = <<>> /\ UNCHANGED <<entry, lock, waiting, aborted, built, answers>>
  BY DEF IInv, Call
<1>2. Frame(k) \in Frames /\ Frame(k).at = "getOrInsert"
  BY DEF Frames, Frame, Label
<1>3. /\ stack' \in [Thread -> Seq(Frames)] /\ stack'[t] = <<Frame(k)>>
      /\ \A u \in Thread \ {t} : stack'[u] = stack[u]
  BY <1>1, <1>2 DEF Call, TypeOK
<1>4. Len(stack'[t]) = 1 /\ stack'[t][1] = Frame(k)
  BY <1>3
<1>5. TypeOK'
  BY <1>1, <1>3 DEF TypeOK
<1>6. ASSUME NEW u \in Thread PROVE StackInv(u)'
  <2>1. CASE u = t
    <3>1. \A e, b : FrameInv(Frame(k), t, e, b)
      BY <1>2 DEF FrameInv, Building
    <3>2. ASSUME NEW i \in 1..Len(stack'[t])
          PROVE  /\ FrameInv(stack'[t][i], t, entry'[stack'[t][i].key], built'[stack'[t][i].key])
                 /\ ~(i < Len(stack'[t]))
      <4>1. i = 1
        BY <1>4, <3>2
      <4> QED BY <1>4, <3>1, <4>1
    <3> QED BY <2>1, <3>2 DEF StackInv
  <2>2. CASE u # t
    BY <1>1, <1>3, <2>2 DEF IInv, StackInv
  <2> QED BY <2>1, <2>2
<1>7. SoleInv'
  <2>1. ASSUME NEW u \in Thread, NEW i \in 1..Len(stack'[u]), Building(stack'[u][i])
        PROVE  i \in 1..Len(stack[u]) /\ stack'[u][i] = stack[u][i]
    <3>1. CASE u = t
      BY <1>2, <1>4, <2>1, <3>1 DEF Building
    <3>2. CASE u # t
      BY <1>3, <3>2
    <3> QED BY <3>1, <3>2
  <2> QED BY <2>1, SoleFrame DEF IInv
<1>8. \A j \in Key : KeyInv(j)'
  BY <1>1 DEF IInv, KeyInv
<1>9. NoSelfWait'
  <2>1. ~Waits(t)'
    BY <1>2, <1>4 DEF Waits, Top
  <2> QED BY <1>3, <2>1, OtherWaiters
<1> QED BY <1>5, <1>6, <1>7, <1>8, <1>9 DEF IInv

\* A step that changes neither the stacks nor the entries.
LEMMA SameFrames ==
  ASSUME IInv, UNCHANGED <<entry, stack, built, answers>>,
         lock' \in [Cache -> Thread \cup {NoThread}],
         waiting' \in [Cache -> SUBSET Thread], aborted' \in SUBSET Thread
  PROVE  IInv'
<1>1. TypeOK'
  BY DEF IInv, TypeOK
<1>2. \A t \in Thread : StackInv(t)'
  BY DEF IInv, StackInv
<1>3. SoleInv'
  BY SoleFrame DEF IInv
<1>4. \A k \in Key : KeyInv(k)'
  BY DEF IInv, KeyInv
<1>5. NoSelfWait'
  BY DEF IInv, NoSelfWait, Waits, Builds, Top
<1> QED BY <1>1, <1>2, <1>3, <1>4, <1>5 DEF IInv

\* The safeguard: a thread that builds the key itself is the entry's word.
LEMMA LockOrWaitInv ==
  ASSUME IInv, NEW t \in Thread, LockOrWait(t)
  PROVE  IInv'
<1> DEFINE k == Top(t).key
           c == CacheOf[k]
<1>1. stack[t] # <<>> /\ Top(t).at = "lock" /\ ~Building(Top(t)) /\ TypeOK
  BY DEF LockOrWait, At, Building, IInv
<1>2. k \in Key /\ c \in Cache /\ UNCHANGED <<entry, lock, built>>
  BY <1>1, TopFrame DEF LockOrWait
<1>3. CASE entry[k].HasValue /\ Return(t, entry[k].word) /\ UNCHANGED <<waiting, aborted>>
  BY <1>1, <1>2, <1>3, FoundInv
<1>4. CASE aborted' = aborted \cup {t} /\ UNCHANGED <<stack, waiting, answers>>
  BY <1>1, <1>2, <1>4, SameFrames DEF TypeOK
<1>5. CASE /\ ~entry[k].HasValue /\ ~isBeingInitializedByCurrentThread(t)
           /\ Goto(t, "wait") /\ waiting' = [waiting EXCEPT ![c] = @ \cup {t}]
           /\ UNCHANGED <<aborted, answers>>
  <2>1. ~Builds(t, k)
    <3> SUFFICES ASSUME NEW i \in DOMAIN stack[t], stack[t][i].key = k, Building(stack[t][i])
                 PROVE  FALSE
      BY DEF Builds, Building
    <3>1. /\ i \in 1..Len(stack[t]) /\ stack[t] \in Seq(Frames)
          /\ Len(stack[t]) \in Nat /\ StackInv(t)
      BY <1>1 DEF IInv, TypeOK
    <3>2. i # Len(stack[t])
      BY <1>1 DEF Top
    <3>3. i < Len(stack[t])
      BY <3>1, <3>2
    <3>4. stack[t][i].at = "build" /\ FrameInv(stack[t][i], t, entry[k], built[k])
      BY <3>1, <3>3 DEF StackInv
    <3>5. entry[k].word = t
      BY <3>4 DEF FrameInv
    <3> QED BY <1>5, <3>5 DEF isBeingInitializedByCurrentThread
  <2>2. waiting' \in [Cache -> SUBSET Thread]
    BY <1>1, <1>2, <1>5 DEF TypeOK
  <2> QED BY <1>1, <1>2, <1>5, <2>1, <2>2, MoveInv
<1> QED BY <1>2, <1>3, <1>4, <1>5 DEF LockOrWait

LEMMA NextInv ==
  ASSUME IInv, [Next]_vars
  PROVE  IInv'
<1>1. TypeOK
  BY DEF IInv
<1>2. CASE UNCHANGED vars
  BY <1>1, <1>2, SameFrames DEF vars, TypeOK
<1>3. ASSUME NEW t \in Thread, GetOrInsert(t) PROVE IInv'
  <2>1. stack[t] # <<>> /\ ~Building(Top(t)) /\ At(t, "getOrInsert")
    BY <1>3 DEF GetOrInsert, At, Building
  <2>2. CASE ~entry[Top(t).key].exists
    BY <1>3, <2>1, <2>2, InsertInv DEF GetOrInsert
  <2>3. CASE entry[Top(t).key].exists
    BY <1>1, <1>3, <2>1, <2>3, MoveInv DEF GetOrInsert, TypeOK
  <2> QED BY <2>2, <2>3
<1>4. ASSUME NEW t \in Thread, GetValue(t) PROVE IInv'
  <2>1. stack[t] # <<>> /\ ~Building(Top(t))
    BY <1>4 DEF GetValue, At, Building
  <2>2. CASE entry[Top(t).key].HasValue
    BY <1>4, <2>1, <2>2, FoundInv DEF GetValue
  <2>3. CASE ~entry[Top(t).key].HasValue
    BY <1>1, <1>4, <2>1, <2>3, MoveInv DEF GetValue, TypeOK
  <2> QED BY <2>2, <2>3
<1>5. ASSUME NEW t \in Thread, Notified(t) PROVE IInv'
  <2>1. stack[t] # <<>> /\ ~Building(Top(t))
    BY <1>5 DEF Notified, At, Building
  <2> QED BY <1>1, <1>5, <2>1, MoveInv DEF Notified, TypeOK
<1>6. ASSUME NEW t \in Thread, SpuriousWakeup(t) PROVE IInv'
  BY <1>1, <1>6, SameFrames DEF SpuriousWakeup, TypeOK
<1> QED
  BY <1>2, <1>3, <1>4, <1>5, <1>6, LockOrWaitInv, BuildInv, SetValueInv, SetHasValueInv, CallInv
     DEF Next, Step

LEMMA InitInv ==
  ASSUME Init
  PROVE  IInv
<1>1. TypeOK
  BY DEF Init, TypeOK, NoEntry, Entry, Word
<1>2. \A t \in Thread : Len(stack[t]) = 0
  BY DEF Init
<1>3. (\A t \in Thread : StackInv(t)) /\ SoleInv
  BY <1>2 DEF StackInv, SoleInv
<1>4. \A k \in Key : KeyInv(k)
  BY DEF Init, KeyInv, NoEntry
<1>5. NoSelfWait
  BY DEF Init, NoSelfWait, Waits
<1> QED BY <1>1, <1>3, <1>4, <1>5 DEF IInv

\* Each key has one metadata, though its builder runs without the lock and
\* may call findOrAdd again, for the same cache too.
THEOREM MetadataIsUnique == Spec => []OneMetadata
<1>1. IInv => OneMetadata
  BY DEF IInv, KeyInv, OneMetadata
<1> QED BY <1>1, InitInv, NextInv, PTL DEF Spec

\* A thread that needs what it is building does not wait for itself.
THEOREM SafeguardSeesCycle == Spec => []NoSelfWait
<1>1. IInv => NoSelfWait
  BY DEF IInv
<1> QED BY <1>1, InitInv, NextInv, PTL DEF Spec
==============================================================================
