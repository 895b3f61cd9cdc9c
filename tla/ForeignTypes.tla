----------------------------- MODULE ForeignTypes -----------------------------
(***************************************************************************)
(* swift_getForeignTypeMetadata of Metadata.cpp: every image has its own   *)
(* record of a foreign type, and the runtime picks one of those with the   *)
(* same name, runs its initialization function without the lock, and       *)
(* remembers the choice in the record it was asked about.                  *)
(*                                                                         *)
(* A critical section of foreignTypes.Lock is one step; wait() releases    *)
(* the lock.  An initialization function may ask for another record, the   *)
(* superclass, so a thread has a stack of calls.                           *)
(*                                                                         *)
(* A call keeps an iterator of the map while the lock is dropped.  An      *)
(* insertion may allocate new buckets, and then every iterator is stale.   *)
(*                                                                         *)
(* Memory order: sees[t] are the records whose initialization thread t is  *)
(* sure to see.  The lock passes on what its last owners saw, a release    *)
(* store what its thread saw, and a relaxed store nothing.  initialized    *)
(* and answer are auxiliary: how often a record was initialized, and what  *)
(* the last call of a thread returned.                                     *)
(***************************************************************************)
EXTENDS Integers, Sequences, FiniteSets

CONSTANTS
  Thread,
  Record,       \* ForeignTypeMetadata, one per image and type
  Name, NameOf, \* the uniquing key of a record
  HasInit,      \* the records with the flag HasInitializationFunction
  Superclass,   \* the record that an initialization function asks for, or None
  None

Placeholder == "null"

ASSUME ForeignTypesAssumption ==
  /\ NameOf \in [Record -> Name]
  /\ HasInit \subseteq Record
  /\ Superclass \in [Record -> Record \cup {None}]
  /\ None \notin Record /\ Placeholder \notin Record \cup {None}

VARIABLES
  types,        \* Types: None if there is no entry, Placeholder if it is null
  table,        \* the DenseMap of Types: its size and which buckets it has
  cache,        \* the invasive cache of a record: None while it holds flags
  stack,        \* the calls a thread is in, innermost last
  waiting,      \* InitializationWaiters
  sees, lockSees, cacheSees,
  initialized,
  answer

vars == <<types, table, cache, stack, waiting, sees, lockSees, cacheSees, initialized, answer>>

Frame(r) == [nonUnique |-> r, unique |-> None, at |-> "fastPath",
             savedSize |-> 0, savedIterator |-> 0]
Top(t) == stack[t][Len(stack[t])]
At(t, label) == stack[t] # <<>> /\ Top(t).at = label
ReplaceTop(t, f) == stack' = [stack EXCEPT ![t][Len(stack[t])] = f]
Goto(t, label) == ReplaceTop(t, [Top(t) EXCEPT !.at = label])

Init ==
  /\ types = [n \in Name |-> None]
  /\ table = [size |-> 0, buckets |-> 0]
  /\ cache = [r \in Record |-> None]
  /\ stack = [t \in Thread |-> <<>>]
  /\ waiting = {}
  /\ sees = [t \in Thread |-> {}]
  /\ lockSees = {}
  /\ cacheSees = [r \in Record |-> {}]
  /\ initialized = [r \in Record |-> 0]
  /\ answer = [t \in Thread |-> None]

Call(t, r) ==
  /\ stack[t] = <<>>
  /\ stack' = [stack EXCEPT ![t] = <<Frame(r)>>]
  /\ answer' = [answer EXCEPT ![t] = None]
  /\ UNCHANGED <<types, table, cache, waiting, sees, lockSees, cacheSees, initialized>>

Return(t, unique) ==
  /\ stack' = [stack EXCEPT ![t] = SubSeq(@, 1, Len(@) - 1)]
  /\ answer' = [answer EXCEPT ![t] = [of |-> Top(t).nonUnique, is |-> unique]]

-----------------------------------------------------------------------------
\* getCacheValue is a consume load: it sees what the store published.
LoadCache(t, r) == sees' = [sees EXCEPT ![t] = @ \cup cacheSees[r]]

FastPath(t) ==
  /\ At(t, "fastPath")
  /\ LoadCache(t, Top(t).nonUnique)
  /\ LET cached == cache[Top(t).nonUnique] IN
     \/ cached # None /\ Return(t, cached)
     \/ cached = None /\ Goto(t, "lookup") /\ UNCHANGED answer
  /\ UNCHANGED <<types, table, cache, waiting, lockSees, cacheSees, initialized>>

\* Taking and releasing the lock.
Synchronize(t) ==
  /\ sees' = [sees EXCEPT ![t] = @ \cup lockSees]
  /\ lockSees' = lockSees \cup sees[t]

MutantValueToInsert(r) == r  \* not null while it is being initialized

ValueToInsert(r) == IF r \in HasInit THEN Placeholder ELSE r

\* An iterator, with the size of the map for which it is valid.
Save(f, map) == [f EXCEPT !.savedSize = map.size, !.savedIterator = map.buckets]

\* DenseMap::insert of a new key, which may have to allocate new buckets.
Insert ==
  \E grown \in {0, 1} : table' = [size |-> table.size + 1, buckets |-> table.buckets + grown]

\* The critical section: create an entry, or take the one there is.
Lookup(t) ==
  /\ At(t, "lookup")
  /\ Synchronize(t)
  /\ LET r == Top(t).nonUnique
         n == NameOf[r]
         GoOn(label, unique) ==
           ReplaceTop(t, [Save(Top(t), table') EXCEPT !.at = label, !.unique = unique])
     IN  \/ /\ types[n] = None
            /\ Insert
            /\ types' = [types EXCEPT ![n] = ValueToInsert(r)]
            /\ GoOn(IF r \in HasInit THEN "initialize" ELSE "checkCache", r)
            /\ UNCHANGED waiting
         \/ /\ types[n] = Placeholder
            /\ UNCHANGED <<types, table>>
            /\ GoOn("wait", None) /\ waiting' = waiting \cup {t}
         \/ /\ types[n] \notin {None, Placeholder}
            /\ UNCHANGED <<types, table, waiting>>
            /\ GoOn("checkCache", types[n])
  /\ UNCHANGED <<cache, cacheSees, initialized, answer>>

MutantCurrentEntry(f) == f  \* the iterator is trusted

\* getCurrentEntry: the saved iterator, looked up again if the size has changed.
CurrentEntry(f) == IF table.size # f.savedSize THEN Save(f, table) ELSE f

\* What is read through an iterator.  Buckets that were given back may hold
\* anything, and what is written there is lost.
Points(f) == f.savedIterator = table.buckets
Second(f) == IF Points(f) THEN {types[NameOf[f.nonUnique]]} ELSE Record \cup {Placeholder}

\* wait() returns with the lock held, and the loop looks again.
Wake(t) ==
  /\ At(t, "wait") /\ t \notin waiting
  /\ Synchronize(t)
  /\ LET f == CurrentEntry(Top(t)) IN
     \E entry \in Second(f) :
       \/ /\ entry = Placeholder
          /\ waiting' = waiting \cup {t} /\ ReplaceTop(t, f)
       \/ /\ entry # Placeholder
          /\ ReplaceTop(t, [f EXCEPT !.at = "checkCache", !.unique = entry])
          /\ UNCHANGED waiting
  /\ UNCHANGED <<types, table, cache, cacheSees, initialized, answer>>

\* A condition variable may wake a waiter for no reason.
SpuriousWakeup(t) ==
  /\ t \in waiting
  /\ waiting' = waiting \ {t}
  /\ UNCHANGED <<types, table, cache, stack, sees, lockSees, cacheSees, initialized, answer>>

\* The initialization function, with the lock dropped.
Initialize(t) ==
  /\ At(t, "initialize")
  /\ LET needed == Superclass[Top(t).nonUnique] IN
     \/ /\ needed # None
        /\ stack' = [stack EXCEPT ![t] =
                       Append([@ EXCEPT ![Len(@)].at = "initialized"], Frame(needed))]
     \/ needed = None /\ Goto(t, "initialized")
  /\ UNCHANGED <<types, table, cache, waiting, sees, lockSees, cacheSees, initialized, answer>>

EndInitialize(t) ==
  /\ At(t, "initialized")
  /\ sees' = [sees EXCEPT ![t] = @ \cup {Top(t).nonUnique}]
  /\ initialized' = [initialized EXCEPT ![Top(t).nonUnique] = @ + 1]
  /\ Goto(t, "publish")
  /\ UNCHANGED <<types, table, cache, waiting, lockSees, cacheSees, answer>>

MutantPublish(t) ==  \* no notifyAll
  /\ At(t, "publish")
  /\ Synchronize(t)
  /\ types' = [types EXCEPT ![NameOf[Top(t).nonUnique]] = Top(t).nonUnique]
  /\ Goto(t, "checkCache")
  /\ UNCHANGED <<table, cache, waiting, cacheSees, initialized, answer>>

\* Change the entry and notify the waiters.
Publish(t) ==
  /\ At(t, "publish")
  /\ Synchronize(t)
  /\ LET f == CurrentEntry(Top(t)) IN
     /\ types' = IF Points(f) THEN [types EXCEPT ![NameOf[f.nonUnique]] = f.nonUnique] ELSE types
     /\ ReplaceTop(t, [f EXCEPT !.at = "checkCache"])
  /\ waiting' = {}
  /\ UNCHANGED <<table, cache, cacheSees, initialized, answer>>

\* setCachedUniqueMetadata: nothing to do if the cache is set.
CheckCache(t) ==
  /\ At(t, "checkCache")
  /\ LoadCache(t, Top(t).nonUnique)
  /\ \/ cache[Top(t).nonUnique] # None /\ Return(t, Top(t).unique)
     \/ cache[Top(t).nonUnique] = None /\ Goto(t, "setCache") /\ UNCHANGED answer
  /\ UNCHANGED <<types, table, cache, waiting, lockSees, cacheSees, initialized>>

\* The store is relaxed if there is an initialization function and a release
\* store if there is none.
Publishes(t, r) == IF r \in HasInit THEN {} ELSE sees[t]

SetCache(t) ==
  /\ At(t, "setCache")
  /\ LET r == Top(t).nonUnique IN
     /\ cache' = [cache EXCEPT ![r] = Top(t).unique]
     /\ cacheSees' = [cacheSees EXCEPT ![r] = Publishes(t, r)]
  /\ Return(t, Top(t).unique)
  /\ UNCHANGED <<types, table, waiting, sees, lockSees, initialized>>

Step(t) ==
  \/ FastPath(t) \/ Lookup(t) \/ Wake(t) \/ Initialize(t) \/ EndInitialize(t)
  \/ Publish(t) \/ CheckCache(t) \/ SetCache(t)

Next == \E t \in Thread : Step(t) \/ SpuriousWakeup(t) \/ \E r \in Record : Call(t, r)

Spec == Init /\ [][Next]_vars
\* A thread that can go on does: the scheduler runs it.
FairSpec == Spec /\ \A t \in Thread : WF_vars(Step(t))

-----------------------------------------------------------------------------
Answered(t) == answer[t] # None

\* Of the records with one name exactly one is canonical, now and for ever:
\* every call for any of them returns it.
OneCanonical ==
  \A t \in Thread : Answered(t) => answer[t].is = types[NameOf[answer[t].of]]

\* No call returns a record before its initialization function has returned,
\* and that function runs once.
InitializedOnce ==
  /\ \A r \in Record : initialized[r] <= 1
  /\ \A t \in Thread : Answered(t) /\ answer[t].is \in HasInit => initialized[answer[t].is] = 1

\* "We need a release store to publish the result of initialization": a thread
\* that is given a record sees it initialized.  The store is relaxed when there
\* is an initialization function, so this does not hold on the fast path.
InitializationPublished ==
  \A t \in Thread : Answered(t) /\ answer[t].is \in HasInit => answer[t].is \in sees[t]

\* Every call returns: no waiter is left behind, and initialization functions
\* that ask for superclasses do not wait in a circle.
CallsReturn == \A t \in Thread : stack[t] # <<>> ~> stack[t] = <<>>
==============================================================================
