--------------------------- MODULE ConformanceCache ---------------------------
(***************************************************************************)
(* The protocol conformance cache of ProtocolConformance.cpp: lookups that *)
(* search a ConcurrentMap without a lock and scan the registered sections  *)
(* under SectionsToScanLock, while images go on registering sections.      *)
(*                                                                         *)
(* One protocol is modelled: keys hold the protocol, and records of other  *)
(* protocols are skipped.  getOrInsert and find are atomic, as the module  *)
(* ConcurrentMap shows.  The cache is written only under the lock, so a    *)
(* search made under the lock is one step.  registered is auxiliary: the   *)
(* number of sections there were when a lookup began.                      *)
(***************************************************************************)
EXTENDS Integers, Sequences, FiniteSets, FiniteSetsExt

CONSTANTS
  Thread, Type,
  Chain,       \* a type, its superclass, the superclass of that, ...
  Descriptor,  \* getNominalTypeDescriptor of a type, or Null
  Null,
  Section      \* the sections of the images: sequences of records

VARIABLES
  sections,    \* SectionsToScan
  cache,       \* Cache
  lock,        \* the owner of SectionsToScanLock, or Null
  pc,
  query,       \* the parameter of swift_conformsToProtocol
  at,          \* type, as a position in Chain[query]
  hasEntry,    \* failureEntry # nullptr
  loaded,      \* the operands of a comparison loaded so far
  scan,        \* sectionIdx and the position of the record in it
  answer,      \* the last call and its result
  registered

vars == <<sections, cache, lock, pc, query, at, hasEntry, loaded, scan, answer, registered>>

-----------------------------------------------------------------------------
\* ProtocolConformanceDescriptor: a class record names a metadata, a nominal
\* one a descriptor; table is what getWitnessTable gives, or Null.
Kind == {"WitnessTable", "WitnessTableAccessor", "ConditionalWitnessTableAccessor", "Future"}
ClassRecord(type, table) == [of |-> "class", ref |-> type, kind |-> "WitnessTable", table |-> table]
NominalRecord(desc, kind, table) == [of |-> "nominal", ref |-> desc, kind |-> kind, table |-> table]

\* The accessor of a conditional conformance is not called.
getWitnessTable(record) ==
  IF record.kind \in {"WitnessTable", "WitnessTableAccessor"} THEN record.table ELSE Null

\* isRelatedType
isRelatedType(type, record) ==
  \E i \in DOMAIN Chain[type] :
     \/ record.of = "class" /\ Chain[type][i] = record.ref
     \/ /\ record.of = "nominal"
        /\ Descriptor[Chain[type][i]] # Null /\ Descriptor[Chain[type][i]] = record.ref

\* The superclasses of a superclass are superclasses.  Metadata with the same
\* descriptor agree on the descriptors of their superclasses, and so do those
\* without one: a class without a descriptor whose superclass has one is an
\* artificial subclass, which only the Objective-C runtime makes.
ASSUME TypesAssumption ==
  /\ Null \notin Type /\ Null \notin Thread
  /\ Chain \in [Type -> Seq(Type)]
  /\ \A type \in Type :
       /\ Chain[type] # <<>> /\ Chain[type][1] = type
       /\ \A i \in DOMAIN Chain[type] :
            Chain[Chain[type][i]] = SubSeq(Chain[type], i, Len(Chain[type]))
  /\ DOMAIN Descriptor = Type /\ \A type \in Type : Descriptor[type] \notin Type
  /\ \A a, b \in Type : Descriptor[a] = Descriptor[b] =>
       \A i \in DOMAIN Chain[a] : \E j \in DOMAIN Chain[b] :
         Descriptor[Chain[b][j]] = Descriptor[Chain[a][i]]

\* A record without a table, of a kind the runtime knows.
Denies(record) ==
  getWitnessTable(record) = Null /\ ~(record.of = "nominal" /\ record.kind = "Future")

\* The compiler gives a type at most one conformance, inherited or its own: no
\* record gives a table for a type that another one denies it.
ASSUME RecordsAssumption ==
  /\ \A s \in Section : s \in Seq({s[j] : j \in DOMAIN s})
  /\ \A s \in Section : \A j \in DOMAIN s : s[j].of \in {"class", "nominal"} /\ s[j].kind \in Kind
  /\ \A r, s \in Section : \A i \in DOMAIN r, j \in DOMAIN s, type \in Type :
       isRelatedType(type, r[i]) /\ isRelatedType(type, s[j]) /\ Denies(r[i])
         => getWitnessTable(s[j]) = Null

\* ConformanceCacheEntry
NoEntry == [exists |-> FALSE, table |-> Null, generation |-> 0]
Entry(table, generation) == [exists |-> TRUE, table |-> table, generation |-> generation]
isSuccessful(key) == cache[key].table # Null
isNegative(key) == cache[key].exists /\ cache[key].table = Null

Key == Type \cup {Descriptor[type] : type \in Type} \cup {Null}
NothingLoaded == [generation |-> -1, size |-> -1]

Init ==
  /\ sections = <<>>
  /\ cache = [key \in Key |-> NoEntry]
  /\ lock = Null
  /\ pc = [t \in Thread |-> "idle"]
  /\ query = [t \in Thread |-> Null]
  /\ at = [t \in Thread |-> 1]
  /\ hasEntry = [t \in Thread |-> FALSE]
  /\ loaded = [t \in Thread |-> NothingLoaded]
  /\ scan = [t \in Thread |-> <<1, 1>>]
  /\ answer = [t \in Thread |-> Null]
  /\ registered = [t \in Thread |-> 0]

Goto(t, label) == pc' = [pc EXCEPT ![t] = label]
CurrentType(t) == Chain[query[t]][at[t]]

\* A return ends the life of the local variables.
Return(t, table) ==
  /\ Goto(t, "idle")
  /\ answer' = [answer EXCEPT ![t] = [type |-> query[t], table |-> table, seen |-> registered[t]]]
  /\ at' = [at EXCEPT ![t] = 1]
  /\ hasEntry' = [hasEntry EXCEPT ![t] = FALSE]
  /\ loaded' = [loaded EXCEPT ![t] = NothingLoaded]
  /\ scan' = [scan EXCEPT ![t] = <<1, 1>>]
  /\ registered' = [registered EXCEPT ![t] = 0]
  /\ query' = [query EXCEPT ![t] = Null]

-----------------------------------------------------------------------------
\* _registerProtocolConformances
Register(t) ==
  /\ pc[t] = "idle" /\ lock = Null
  /\ \E s \in Section :
       /\ \A i \in DOMAIN sections : sections[i] # s
       /\ sections' = Append(sections, s)
  /\ UNCHANGED <<cache, lock, pc, query, at, hasEntry, loaded, scan, answer, registered>>

Call(t, type) ==
  /\ pc[t] = "idle"
  /\ query' = [query EXCEPT ![t] = type]
  /\ registered' = [registered EXCEPT ![t] = Len(sections)]
  /\ answer' = [answer EXCEPT ![t] = Null]
  /\ Goto(t, "findType")
  /\ UNCHANGED <<sections, cache, lock, at, hasEntry, loaded, scan>>

\* searchInConformanceCache, before the lock is taken: the entry of the type.
FindType(t) ==
  /\ pc[t] = "findType"
  /\ LET key == CurrentType(t) IN
     \/ isSuccessful(key) /\ Return(t, cache[key].table)
     \/ /\ isNegative(key)
        /\ hasEntry' = [hasEntry EXCEPT ![t] = @ \/ at[t] = 1]
        /\ Goto(t, "compare")
        /\ UNCHANGED <<query, at, loaded, scan, answer, registered>>
     \/ /\ ~cache[key].exists
        /\ Goto(t, "findDescriptor")
        /\ UNCHANGED <<query, at, hasEntry, loaded, scan, answer, registered>>
  /\ UNCHANGED <<sections, cache, lock>>

\* The operands of getFailureGeneration() == SectionsToScan.size(), in any
\* order: the language does not fix one.
LoadOperand(t) ==
  /\ pc[t] = "compare"
  /\ \/ /\ loaded[t].generation = -1
        /\ loaded' = [loaded EXCEPT ![t].generation = cache[CurrentType(t)].generation]
     \/ /\ loaded[t].size = -1
        /\ loaded' = [loaded EXCEPT ![t].size = Len(sections)]
  /\ UNCHANGED <<sections, cache, lock, pc, query, at, hasEntry, scan, answer, registered>>

MutantUpToDate(t) == loaded[t].generation <= loaded[t].size  \* never out of date

UpToDate(t) == loaded[t].generation = loaded[t].size

\* An up-to-date failure is authoritative for the original type only.
Compare(t) ==
  /\ pc[t] = "compare" /\ loaded[t].generation # -1 /\ loaded[t].size # -1
  /\ \/ UpToDate(t) /\ at[t] = 1 /\ Return(t, Null)
     \/ /\ UpToDate(t) /\ at[t] # 1
        /\ Goto(t, "lock")
        /\ loaded' = [loaded EXCEPT ![t] = NothingLoaded]
        /\ UNCHANGED <<query, at, hasEntry, scan, answer, registered>>
     \/ /\ ~UpToDate(t)
        /\ Goto(t, "findDescriptor")
        /\ loaded' = [loaded EXCEPT ![t] = NothingLoaded]
        /\ UNCHANGED <<query, at, hasEntry, scan, answer, registered>>
  /\ UNCHANGED <<sections, cache, lock>>

\* The entry of the nominal type descriptor, then the superclass.
FindDescriptor(t) ==
  /\ pc[t] = "findDescriptor"
  /\ LET key == Descriptor[CurrentType(t)] IN
     \/ isSuccessful(key) /\ Return(t, cache[key].table)
     \/ /\ ~isSuccessful(key)
        /\ \/ at[t] < Len(Chain[query[t]]) /\ at' = [at EXCEPT ![t] = @ + 1] /\ Goto(t, "findType")
           \/ at[t] = Len(Chain[query[t]]) /\ Goto(t, "lock") /\ UNCHANGED at
        /\ UNCHANGED <<query, hasEntry, loaded, scan, answer, registered>>
  /\ UNCHANGED <<sections, cache, lock>>

-----------------------------------------------------------------------------
\* searchInConformanceCache under the lock, where nothing changes meanwhile:
\* the first type of the chain that decides, and how.
FailureUpToDate(key) == isNegative(key) /\ cache[key].generation = Len(sections)
DecidingTypes(type) ==
  {i \in DOMAIN Chain[type] :
     LET each == Chain[type][i] IN
     isSuccessful(each) \/ FailureUpToDate(each) \/ isSuccessful(Descriptor[each])}
SearchResult(type) ==
  IF DecidingTypes(type) = {} THEN [isAuthoritative |-> FALSE, witnessTable |-> Null]
  ELSE LET i == Min(DecidingTypes(type))
           each == Chain[type][i]
       IN  CASE isSuccessful(each) -> [isAuthoritative |-> TRUE, witnessTable |-> cache[each].table]
             [] FailureUpToDate(each) -> [isAuthoritative |-> i = 1, witnessTable |-> Null]
             [] OTHER -> [isAuthoritative |-> TRUE, witnessTable |-> cache[Descriptor[each]].table]

cacheSuccess(key, table) ==
  cache' = [cache EXCEPT ![key] = IF @.exists THEN [@ EXCEPT !.table = table] ELSE Entry(table, 0)]

cacheFailure(key) ==
  cache' = [cache EXCEPT ![key] =
              IF @.exists THEN [@ EXCEPT !.generation = Len(sections)] ELSE Entry(Null, Len(sections))]

\* What the world looks like once the lock is held.
Recheck(t) ==
  IF hasEntry[t]
  THEN [isAuthoritative |-> isSuccessful(query[t]) \/ FailureUpToDate(query[t]),
        witnessTable |-> cache[query[t]].table]
  ELSE SearchResult(query[t])

MutantStartSection(t) == IF isNegative(query[t]) THEN cache[query[t]].generation + 2 ELSE 1  \* off by one

\* Sections that a failed lookup has scanned are not scanned again.
StartSection(t) == IF isNegative(query[t]) THEN cache[query[t]].generation + 1 ELSE 1

\* The lock is taken.
Lock(t) ==
  /\ pc[t] = "lock" /\ lock = Null
  /\ LET found == Recheck(t) IN
     \/ found.isAuthoritative /\ Return(t, found.witnessTable) /\ UNCHANGED <<cache, lock>>
     \/ /\ ~found.isAuthoritative /\ StartSection(t) = Len(sections) + 1
        /\ cacheFailure(query[t]) /\ Return(t, Null) /\ UNCHANGED lock
     \/ /\ ~found.isAuthoritative /\ StartSection(t) # Len(sections) + 1
        /\ lock' = t
        /\ scan' = [scan EXCEPT ![t] = <<StartSection(t), 1>>]
        /\ Goto(t, "scan")
        /\ UNCHANGED <<cache, query, at, hasEntry, loaded, answer, registered>>
  /\ UNCHANGED sections

\* What the scan caches of one related record.  In the last case the code
\* passes the metadata of the record, which is null there.
CacheRecord(type, record) ==
  \/ /\ record.of = "class" /\ getWitnessTable(record) # Null
     /\ cacheSuccess(record.ref, getWitnessTable(record))
  \/ /\ record.of = "class" /\ getWitnessTable(record) = Null
     /\ cacheFailure(record.ref)
  \/ /\ record.of = "nominal" /\ record.kind = "WitnessTable"
     /\ cacheSuccess(Descriptor[type], record.table)
  \/ /\ record.of = "nominal" /\ record.kind \in {"WitnessTableAccessor", "ConditionalWitnessTableAccessor"}
     /\ cacheSuccess(type, getWitnessTable(record))
  \/ /\ record.of = "nominal" /\ record.kind = "Future"
     /\ cacheFailure(Null)

MutantApplies(t, record) == TRUE  \* the type is not compared

Applies(t, record) == isRelatedType(query[t], record)

\* One record.
ScanRecord(t) ==
  /\ pc[t] = "scan" /\ scan[t][1] <= Len(sections)
  /\ LET section == sections[scan[t][1]]
         position == scan[t][2]
     IN  \/ /\ position <= Len(section)
            /\ scan' = [scan EXCEPT ![t][2] = @ + 1]
            /\ \/ Applies(t, section[position]) /\ CacheRecord(query[t], section[position])
               \/ ~Applies(t, section[position]) /\ UNCHANGED cache
         \/ /\ position > Len(section)
            /\ scan' = [scan EXCEPT ![t] = <<@[1] + 1, 1>>]
            /\ UNCHANGED cache
  /\ UNCHANGED <<sections, lock, pc, query, at, hasEntry, loaded, answer, registered>>

\* The scan is complete: search once more.
FinishScan(t) ==
  /\ pc[t] = "scan" /\ scan[t][1] > Len(sections)
  /\ lock' = Null
  /\ LET found == SearchResult(query[t]) IN
     \/ found.isAuthoritative /\ Return(t, found.witnessTable) /\ UNCHANGED cache
     \/ ~found.isAuthoritative /\ cacheFailure(query[t]) /\ Return(t, Null)
  /\ UNCHANGED sections

Next ==
  \E t \in Thread :
    \/ \E type \in Type : Call(t, type)
    \/ Register(t)
    \/ FindType(t) \/ LoadOperand(t) \/ Compare(t) \/ FindDescriptor(t)
    \/ Lock(t) \/ ScanRecord(t) \/ FinishScan(t)

Spec == Init /\ [][Next]_vars

-----------------------------------------------------------------------------
Records(n) == UNION {{sections[i][j] : j \in DOMAIN sections[i]} : i \in 1..n}
Witnesses(type, n) ==
  {getWitnessTable(r) : r \in {q \in Records(n) : isRelatedType(type, q)}} \ {Null}

\* A table the lookup answers with is that of a record of the type itself, of
\* a superclass or of its generic type, registered by now.
AnswersSound ==
  \A t \in Thread : answer[t] # Null /\ answer[t].table # Null
                      => answer[t].table \in Witnesses(answer[t].type, Len(sections))

\* A lookup that answers "does not conform" has missed no conformance that
\* was registered before it began, whatever stale failures it met.
AnswersComplete ==
  \A t \in Thread : answer[t] # Null /\ answer[t].table = Null
                      => Witnesses(answer[t].type, answer[t].seen) = {}

\* A cached failure says that no section of its generation conforms: the
\* sections it lets the next scan skip hold nothing.
FailuresCover ==
  \A type \in Type : isNegative(type) /\ lock = Null
                       => Witnesses(type, cache[type].generation) = {}

\* What the code asserts and does not keep: getFailureGeneration is only called
\* on an entry that is not successful; what isSuccessful() found still holds.
GenerationOfFailure ==
  \A t \in Thread : pc[t] = "compare" /\ loaded[t].generation = -1 => ~isSuccessful(CurrentType(t))
==============================================================================
