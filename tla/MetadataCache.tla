---------------------------- MODULE MetadataCache ----------------------------
(***************************************************************************)
(* MetadataCache::findOrAdd of MetadataCache.h: the thread that inserts a  *)
(* key builds its metadata without the lock, the others wait for the value *)
(* on a condition variable.  A builder may look up other metadata, in its  *)
(* own or in another cache, so a thread has a stack of calls.              *)
(*                                                                         *)
(* Map.getOrInsert is atomic, as the module ConcurrentMap shows.  built    *)
(* and answers are auxiliary: the metadata made for a key, and what the    *)
(* calls for it returned.                                                  *)
(***************************************************************************)
EXTENDS Integers, Sequences, FiniteSets, Functions

CONSTANTS
  Thread,
  Key,       \* patterns with their generic arguments
  Cache,     \* the caches: one per pattern
  CacheOf,   \* the cache of a key
  Needs,     \* the keys that the builder of a key looks up, in order
  NoThread

ASSUME MetadataCacheAssumption ==
  /\ CacheOf \in [Key -> Cache]
  /\ Needs \in [Key -> Seq(Key)]
  /\ NoThread \notin Thread

VARIABLES
  entry,     \* Map, of all caches
  lock,      \* Concurrency->Lock: the owner
  waiting,   \* Concurrency->Queue: the threads that wait
  stack,     \* the calls of findOrAdd a thread is in, innermost last
  aborted,   \* the threads that called abort()
  built,
  answers

vars == <<entry, lock, waiting, stack, aborted, built, answers>>

\* Entry: word is the union of Value and InitializingThread.
NoEntry == [exists |-> FALSE, HasValue |-> FALSE, word |-> NoThread]
NewEntry(t) == [exists |-> TRUE, HasValue |-> FALSE, word |-> t]
Metadata(k, n) == <<k, n>>

Frame(k) == [key |-> k, at |-> "getOrInsert", need |-> 1]
Top(t) == stack[t][Len(stack[t])]
At(t, label) == stack[t] # <<>> /\ Top(t).at = label /\ aborted = {}
Goto(t, label) == stack' = [stack EXCEPT ![t][Len(stack[t])].at = label]

Init ==
  /\ entry = [k \in Key |-> NoEntry]
  /\ lock = [c \in Cache |-> NoThread]
  /\ waiting = [c \in Cache |-> {}]
  /\ stack = [t \in Thread |-> <<>>]
  /\ aborted = {}
  /\ built = [k \in Key |-> 0]
  /\ answers = [k \in Key |-> {}]

Call(t, k) ==
  /\ stack[t] = <<>> /\ aborted = {}
  /\ stack' = [stack EXCEPT ![t] = <<Frame(k)>>]
  /\ UNCHANGED <<entry, lock, waiting, aborted, built, answers>>

\* findOrAdd returns, to the program or to the builder that called it.
Return(t, value) ==
  /\ answers' = [answers EXCEPT ![Top(t).key] = @ \cup {value}]
  /\ stack' = [stack EXCEPT ![t] = SubSeq(@, 1, Len(@) - 1)]

-----------------------------------------------------------------------------
GetOrInsert(t) ==
  /\ At(t, "getOrInsert")
  /\ LET k == Top(t).key IN
     \/ /\ ~entry[k].exists
        /\ entry' = [entry EXCEPT ![k] = NewEntry(t)]
        /\ Goto(t, "build")
     \/ entry[k].exists /\ Goto(t, "getValue") /\ UNCHANGED entry
  /\ UNCHANGED <<lock, waiting, aborted, built, answers>>

MutantGetValue(t) ==  \* takes what the union holds for the value
  /\ At(t, "getValue")
  /\ Return(t, entry[Top(t).key].word)
  /\ UNCHANGED <<entry, lock, waiting, aborted, built>>

\* The fast path: getValue without the lock.
GetValue(t) ==
  /\ At(t, "getValue")
  /\ LET e == entry[Top(t).key] IN
     \/ e.HasValue /\ Return(t, e.word)
     \/ ~e.HasValue /\ Goto(t, "lock") /\ UNCHANGED answers
  /\ UNCHANGED <<entry, lock, waiting, aborted, built>>

MutantIsBeingInitialized(t) == FALSE  \* no safeguard

isBeingInitializedByCurrentThread(t) == entry[Top(t).key].word = t

MutantLockOrWait(t) ==  \* waits without looking again
  LET c == CacheOf[Top(t).key] IN
  /\ At(t, "lock") /\ lock[c] = NoThread
  /\ Goto(t, "wait") /\ waiting' = [waiting EXCEPT ![c] = @ \cup {t}]
  /\ UNCHANGED <<entry, lock, aborted, built, answers>>

\* withLockOrWait: look again with the lock held, and wait if there is still
\* no value.  Nobody writes the entry meanwhile, and waiting releases the lock.
LockOrWait(t) ==
  /\ At(t, "lock") /\ lock[CacheOf[Top(t).key]] = NoThread
  /\ LET e == entry[Top(t).key]
         c == CacheOf[Top(t).key]
     IN  \/ e.HasValue /\ Return(t, e.word) /\ UNCHANGED <<waiting, aborted>>
         \/ /\ ~e.HasValue /\ isBeingInitializedByCurrentThread(t)
            /\ aborted' = aborted \cup {t}
            /\ UNCHANGED <<stack, waiting, answers>>
         \/ /\ ~e.HasValue /\ ~isBeingInitializedByCurrentThread(t)
            /\ Goto(t, "wait") /\ waiting' = [waiting EXCEPT ![c] = @ \cup {t}]
            /\ UNCHANGED <<aborted, answers>>
  /\ UNCHANGED <<entry, lock, built>>

\* A waiter that was notified goes on to take the lock again.
Notified(t) ==
  /\ At(t, "wait") /\ t \notin waiting[CacheOf[Top(t).key]]
  /\ Goto(t, "lock")
  /\ UNCHANGED <<entry, lock, waiting, aborted, built, answers>>

\* A condition variable may wake a waiter for no reason.
SpuriousWakeup(t) ==
  /\ At(t, "wait") /\ t \in waiting[CacheOf[Top(t).key]]
  /\ waiting' = [waiting EXCEPT ![CacheOf[Top(t).key]] = @ \ {t}]
  /\ UNCHANGED <<entry, lock, stack, aborted, built, answers>>

\* builder(): looks up what it needs, one after the other, and makes the
\* metadata.
Build(t) ==
  /\ At(t, "build")
  /\ LET k == Top(t).key
         n == Top(t).need
     IN  \/ /\ n <= Len(Needs[k])
            /\ stack' = [stack EXCEPT ![t] =
                           Append([@ EXCEPT ![Len(@)].need = n + 1], Frame(Needs[k][n]))]
            /\ UNCHANGED built
         \/ /\ n > Len(Needs[k])
            /\ built' = [built EXCEPT ![k] = @ + 1]
            /\ Goto(t, "setValue")
  /\ UNCHANGED <<entry, lock, waiting, aborted, answers>>

\* withLockThenNotifyAll and setValue: the union changes before HasValue does.
SetValue(t) ==
  /\ At(t, "setValue") /\ lock[CacheOf[Top(t).key]] = NoThread
  /\ lock' = [lock EXCEPT ![CacheOf[Top(t).key]] = t]
  /\ entry' = [entry EXCEPT ![Top(t).key].word = Metadata(Top(t).key, built[Top(t).key])]
  /\ Goto(t, "setHasValue")
  /\ UNCHANGED <<waiting, aborted, built, answers>>

SetHasValue(t) ==
  LET k == Top(t).key
      c == CacheOf[k]
  IN  /\ At(t, "setHasValue")
      /\ entry' = [entry EXCEPT ![k].HasValue = TRUE]
      /\ waiting' = [waiting EXCEPT ![c] = {}]
      /\ lock' = [lock EXCEPT ![c] = NoThread]
      /\ Return(t, entry[k].word)
      /\ UNCHANGED <<aborted, built>>

Step(t) ==
  \/ GetOrInsert(t) \/ GetValue(t) \/ LockOrWait(t) \/ Notified(t)
  \/ Build(t) \/ SetValue(t) \/ SetHasValue(t)

Next == \E t \in Thread : Step(t) \/ SpuriousWakeup(t) \/ \E k \in Key : Call(t, k)

\* A thread that can go on does: the scheduler runs it, and no lock is taken
\* so often that it needs to be fair.
Fairness == \A t \in Thread : WF_vars(Step(t))

Spec == Init /\ [][Next]_vars
FairSpec == Spec /\ Fairness

-----------------------------------------------------------------------------
Builds(t, k) == \E i \in DOMAIN stack[t] : stack[t][i].key = k /\ stack[t][i].at \in {"build", "setValue", "setHasValue"}
Waits(t) == stack[t] # <<>> /\ Top(t).at = "wait"

\* The keys whose metadata needs itself, directly or not.
NeededBy(k) ==
  LET after[n \in 0..Cardinality(Key)] ==
        IF n = 0 THEN {} ELSE UNION {Range(Needs[j]) : j \in {k} \cup after[n - 1]}
  IN  after[Cardinality(Key)]
Cyclic == {k \in Key : k \in NeededBy(k)}

\* Threads that wait, or are to look again, for such metadata, which they
\* build themselves.
Circle ==
  \E S \in SUBSET Thread :
    /\ S # {}
    /\ \A t \in S : /\ At(t, "wait") \/ At(t, "lock")
                    /\ Top(t).key \in Cyclic
                    /\ \E u \in S : Builds(u, Top(t).key)

\* Each key has one metadata: its builder runs once, to the end, before any
\* call returns, and every call of every thread returns what it made.
OneMetadata ==
  \A k \in Key : /\ built[k] <= 1
                 /\ answers[k] \subseteq {Metadata(k, built[k])}
                 /\ answers[k] # {} => built[k] = 1

\* A thread that needs the metadata it is building does not wait for itself:
\* the safeguard sees the cycle.
NoSelfWait == \A t \in Thread : Waits(t) => ~Builds(t, Top(t).key)

\* Every call returns, unless metadata needs itself and the process aborts or
\* its builders wait for each other, which no safeguard sees.  So nobody misses
\* a notification, and builders of other metadata never wait in a circle.
CallsReturn == \A t \in Thread : stack[t] # <<>> ~> stack[t] = <<>> \/ aborted # {} \/ Circle
==============================================================================
