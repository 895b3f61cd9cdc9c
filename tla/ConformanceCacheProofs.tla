------------------------ MODULE ConformanceCacheProofs ------------------------
(***************************************************************************)
(* Proofs about ConformanceCache: what a lookup answers is justified by    *)
(* the records of the registered sections.                                 *)
(*                                                                         *)
(* The failure generation of an entry never covers a section with a        *)
(* conformance, whether the entry is negative, successful or being         *)
(* changed by a scan: that is why generations may be read without the      *)
(* lock, and compared with a number of sections read before or after.      *)
(***************************************************************************)
EXTENDS ConformanceCache, TLAPS, WellFoundedInduction

Label == {"idle", "findType", "compare", "findDescriptor", "lock", "scan"}
Table == {Null} \cup UNION {{s[j].table : j \in DOMAIN s} : s \in Section}
Entries == [exists : BOOLEAN, table : Table, generation : Nat]

TypeOK ==
  /\ sections \in Seq(Section)
  /\ cache \in [Key -> Entries]
  /\ lock \in Thread \cup {Null}
  /\ pc \in [Thread -> Label]
  /\ query \in [Thread -> Type \cup {Null}]
  /\ at \in [Thread -> Nat]
  /\ hasEntry \in [Thread -> BOOLEAN]
  /\ loaded \in [Thread -> [generation : Int, size : Int]]
  /\ scan \in [Thread -> Nat \X Nat]
  /\ answer \in [Thread -> [type : Type \cup {Null}, table : Table, seen : Nat] \cup {Null}]
  /\ registered \in [Thread -> Nat]

\* No record of the first n sections conforms the type.
Barren(type, secs, n) ==
  \A i \in 1..n : \A j \in DOMAIN secs[i] :
    isRelatedType(type, secs[i][j]) => getWitnessTable(secs[i][j]) = Null

\* A record of the sections gives the table for the type.
Supported(type, table, secs) ==
  \E i \in DOMAIN secs : \E j \in DOMAIN secs[i] :
    isRelatedType(type, secs[i][j]) /\ getWitnessTable(secs[i][j]) = table

\* The keys that a search for the type visits.
Visits(type, key) ==
  \E i \in DOMAIN Chain[type] : key = Chain[type][i] \/ key = Descriptor[Chain[type][i]]

Justified(key, table, secs) ==
  table # Null => \A type \in Type : Visits(type, key) => Supported(type, table, secs)

Covers(key, n, secs) == key \in Type => n \in 0..Len(secs) /\ Barren(key, secs, n)

\* The entry of a key.
EntryInv(key, e, secs) ==
  /\ Justified(key, e.table, secs)
  /\ Covers(key, e.generation, secs)
  /\ e.table # Null => e.exists = TRUE

CacheInv == \A key \in Key : EntryInv(key, cache[key], sections)

\* The local variables of a lookup.
Active(q, a, n, secs) == q \in Type /\ a \in DOMAIN Chain[q] /\ n \in 0..Len(secs)

Loaded(type, l, n, secs) ==
  /\ l.generation = -1 \/ (l.generation \in 0..Len(secs) /\ Barren(type, secs, l.generation))
  /\ l.size = -1 \/ l.size \in n..Len(secs)

\* The scan has found the conformance of the record.
Caught(q, r, c) ==
  \/ c[q].table # Null \/ c[Descriptor[q]].table # Null
  \/ r.of = "class" /\ c[r.ref].table # Null

Before(i, j, s) == i < s[1] \/ (i = s[1] /\ j < s[2])

Scanned(q, s, secs, c) ==
  /\ s[1] \in 1..(Len(secs) + 1) /\ s[2] # 0
  /\ \A i \in DOMAIN secs : \A j \in DOMAIN secs[i] :
       /\ Before(i, j, s)
       /\ isRelatedType(q, secs[i][j]) /\ getWitnessTable(secs[i][j]) # Null
       => Caught(q, secs[i][j], c)

ThreadInv(t) ==
  /\ pc[t] = "idle" => at[t] = 1 /\ query[t] = Null
  /\ pc[t] # "idle" => Active(query[t], at[t], registered[t], sections)
  /\ pc[t] = "compare" => Loaded(CurrentType(t), loaded[t], registered[t], sections)
  /\ pc[t] # "compare" => loaded[t] = NothingLoaded
  /\ pc[t] = "scan" <=> lock = t
  /\ pc[t] = "scan" => Scanned(query[t], scan[t], sections, cache)

\* The last answer of a thread.
AnswerInv(a, secs) ==
  \/ a = Null
  \/ /\ a.type \in Type /\ a.seen \in 0..Len(secs)
     /\ a.table # Null => Supported(a.type, a.table, secs)
     /\ a.table = Null => Barren(a.type, secs, a.seen)

IInv ==
  /\ TypeOK /\ CacheInv
  /\ \A t \in Thread : ThreadInv(t)
  /\ \A t \in Thread : AnswerInv(answer[t], sections)

-----------------------------------------------------------------------------
\* The constants.
LEMMA ChainFacts ==
  ASSUME NEW type \in Type
  PROVE  /\ Chain[type] \in Seq(Type) /\ Len(Chain[type]) \in Nat
         /\ DOMAIN Chain[type] = 1..Len(Chain[type])
         /\ 1 \in DOMAIN Chain[type] /\ Chain[type][1] = type
         /\ \A i \in DOMAIN Chain[type] : Chain[type][i] \in Type
<1>1. Chain[type] \in Seq(Type) /\ Chain[type] # <<>> /\ Chain[type][1] = type
  BY TypesAssumption
<1> QED BY <1>1

\* A superclass of a superclass is a superclass, and the classes between a
\* class and its superclass have that superclass.
LEMMA SuffixUp ==
  ASSUME NEW type \in Type, NEW i \in DOMAIN Chain[type], NEW j \in DOMAIN Chain[Chain[type][i]]
  PROVE  \E k \in DOMAIN Chain[type] : Chain[type][k] = Chain[Chain[type][i]][j]
<1> DEFINE c == Chain[type]
<1>1. c \in Seq(Type) /\ Len(c) \in Nat /\ DOMAIN c = 1..Len(c) /\ i \in 1..Len(c)
  BY ChainFacts
<1>2. Chain[c[i]] = SubSeq(c, i, Len(c))
  BY TypesAssumption
<1> HIDE DEF c
<1>3. j \in 1..(Len(c) - i + 1) /\ SubSeq(c, i, Len(c))[j] = c[i + j - 1]
  BY <1>1, <1>2 DEF c
<1>4. i + j - 1 \in DOMAIN c
  BY <1>1, <1>3
<1> QED BY <1>2, <1>3, <1>4 DEF c

LEMMA SuffixDown ==
  ASSUME NEW type \in Type, NEW i \in DOMAIN Chain[type], NEW k \in DOMAIN Chain[type], i <= k
  PROVE  \E j \in DOMAIN Chain[Chain[type][i]] : Chain[Chain[type][i]][j] = Chain[type][k]
<1> DEFINE c == Chain[type]
<1>1. /\ c \in Seq(Type) /\ Len(c) \in Nat /\ DOMAIN c = 1..Len(c)
      /\ i \in 1..Len(c) /\ k \in 1..Len(c)
  BY ChainFacts
<1>2. Chain[c[i]] = SubSeq(c, i, Len(c))
  BY TypesAssumption
<1> HIDE DEF c
<1>3. /\ k - i + 1 \in 1..(Len(c) - i + 1)
      /\ DOMAIN SubSeq(c, i, Len(c)) = 1..(Len(c) - i + 1)
      /\ SubSeq(c, i, Len(c))[k - i + 1] = c[i + (k - i + 1) - 1]
  BY <1>1
<1>4. i + (k - i + 1) - 1 = k
  BY <1>1
<1> QED BY <1>2, <1>3, <1>4 DEF c

\* What conforms a superclass conforms the class.
LEMMA RelatedUp ==
  ASSUME NEW type \in Type, NEW i \in DOMAIN Chain[type], NEW r,
         isRelatedType(Chain[type][i], r)
  PROVE  isRelatedType(type, r)
<1>1. PICK j \in DOMAIN Chain[Chain[type][i]] :
         \/ r.of = "class" /\ Chain[Chain[type][i]][j] = r.ref
         \/ /\ r.of = "nominal"
            /\ Descriptor[Chain[Chain[type][i]][j]] # Null
            /\ Descriptor[Chain[Chain[type][i]][j]] = r.ref
  BY DEF isRelatedType
<1>2. PICK k \in DOMAIN Chain[type] : Chain[type][k] = Chain[Chain[type][i]][j]
  BY SuffixUp
<1> QED BY <1>1, <1>2 DEF isRelatedType

LEMMA RelatedDown ==
  ASSUME NEW type \in Type, NEW i \in DOMAIN Chain[type], NEW k \in DOMAIN Chain[type], i <= k,
         NEW r, r.of = "class", Chain[type][k] = r.ref
  PROVE  isRelatedType(Chain[type][i], r)
BY SuffixDown DEF isRelatedType

\* What conforms a nominal type by its descriptor conforms all that share the
\* descriptor.
LEMMA RelatedAcross ==
  ASSUME NEW a \in Type, NEW b \in Type, Descriptor[a] = Descriptor[b],
         NEW r, r.of = "nominal", isRelatedType(a, r)
  PROVE  isRelatedType(b, r)
<1>1. PICK i \in DOMAIN Chain[a] : Descriptor[Chain[a][i]] # Null /\ Descriptor[Chain[a][i]] = r.ref
  BY DEF isRelatedType
<1>2. PICK j \in DOMAIN Chain[b] : Descriptor[Chain[b][j]] = Descriptor[Chain[a][i]]
  BY TypesAssumption
<1> QED BY <1>1, <1>2 DEF isRelatedType

LEMMA KeyFacts ==
  /\ Null \in Key /\ Null \notin Type /\ Null \notin Thread
  /\ \A type \in Type : type \in Key /\ Descriptor[type] \in Key /\ Descriptor[type] \notin Type
BY TypesAssumption DEF Key

LEMMA NullIsTable == Null \in Table
BY DEF Table

LEMMA SectionFacts ==
  ASSUME NEW s \in Section
  PROVE  /\ Len(s) \in Nat /\ DOMAIN s = 1..Len(s)
         /\ \A j \in DOMAIN s : /\ s[j].of \in {"class", "nominal"} /\ s[j].kind \in Kind
                                /\ s[j].table \in Table /\ getWitnessTable(s[j]) \in Table
<1>1. s \in Seq({s[j] : j \in DOMAIN s})
  BY RecordsAssumption
<1>2. \A j \in DOMAIN s : s[j].of \in {"class", "nominal"} /\ s[j].kind \in Kind
  BY RecordsAssumption
<1>3. \A j \in DOMAIN s : s[j].table \in Table /\ getWitnessTable(s[j]) \in Table
  <2>1. ASSUME NEW j \in DOMAIN s PROVE s[j].table \in Table
    <3> DEFINE T == {s[i].table : i \in DOMAIN s}
    <3>1. s[j].table \in T
      OBVIOUS
    <3>2. T \in {{r[i].table : i \in DOMAIN r} : r \in Section}
      OBVIOUS
    <3> QED BY <3>1, <3>2 DEF Table
  <2> QED BY <2>1, NullIsTable DEF getWitnessTable
<1> QED BY <1>1, <1>2, <1>3

\* The least of some natural numbers.
LEMMA MinFacts ==
  ASSUME NEW S, S \subseteq Nat, S # {}
  PROVE  Min(S) \in S /\ \A n \in S : Min(S) <= n
<1> DEFINE R == OpToRel(<, Nat)
<1>1. IsWellFoundedOn(R, Nat)
  BY NatLessThanWellFounded, Zenon
<1> HIDE DEF R
<1>2. PICK m \in S : \A n \in S : ~(<<n, m>> \in R)
  BY <1>1, WFMin
<1>3. ASSUME NEW n \in S PROVE m <= n
  <2>1. SUFFICES ASSUME n < m PROVE FALSE
    OBVIOUS
  <2>2. <<n, m>> \in R
    BY <2>1 DEF R, OpToRel
  <2> QED BY <1>2, <2>2
<1> QED BY <1>3 DEF Min

-----------------------------------------------------------------------------
\* A section that is registered takes nothing away.
LEMMA AppendKeeps ==
  ASSUME NEW secs \in Seq(Section), NEW s \in Section
  PROVE  /\ Len(Append(secs, s)) = Len(secs) + 1 /\ Len(secs) \in Nat
         /\ \A type, n : n \in 0..Len(secs) /\ Barren(type, secs, n) => Barren(type, Append(secs, s), n)
         /\ \A type, table : Supported(type, table, secs) => Supported(type, table, Append(secs, s))
<1> DEFINE more == Append(secs, s)
<1>1. /\ Len(more) = Len(secs) + 1 /\ Len(secs) \in Nat
      /\ \A i \in 1..Len(secs) : more[i] = secs[i] /\ i \in DOMAIN more /\ i \in DOMAIN secs
      /\ DOMAIN secs = 1..Len(secs)
  OBVIOUS
<1> HIDE DEF more
<1>2. ASSUME NEW type, NEW n, n \in 0..Len(secs), Barren(type, secs, n) PROVE Barren(type, more, n)
  <2> SUFFICES ASSUME NEW i \in 1..n, NEW j \in DOMAIN more[i], isRelatedType(type, more[i][j])
               PROVE  getWitnessTable(more[i][j]) = Null
    BY DEF Barren
  <2>1. more[i] = secs[i]
    BY <1>1, <1>2
  <2> QED BY <1>2, <2>1 DEF Barren
<1>3. ASSUME NEW type, NEW table, Supported(type, table, secs) PROVE Supported(type, table, more)
  <2>1. PICK i \in DOMAIN secs : \E j \in DOMAIN secs[i] :
          isRelatedType(type, secs[i][j]) /\ getWitnessTable(secs[i][j]) = table
    BY <1>3 DEF Supported
  <2> QED BY <1>1, <2>1 DEF Supported
<1> QED BY <1>1, <1>2, <1>3 DEF more

LEMMA BarrenLess ==
  ASSUME NEW type, NEW secs, NEW n \in Nat, NEW m \in Nat, m <= n, Barren(type, secs, n)
  PROVE  Barren(type, secs, m)
BY DEF Barren

LEMMA BarrenNone == ASSUME NEW type, NEW secs PROVE Barren(type, secs, 0)
BY DEF Barren

\* The properties speak of sets of tables.
LEMMA BarrenWitnesses ==
  ASSUME NEW type, NEW n, Barren(type, sections, n)
  PROVE  Witnesses(type, n) = {}
<1> SUFFICES ASSUME NEW r \in Records(n), isRelatedType(type, r) PROVE getWitnessTable(r) = Null
  BY DEF Witnesses
<1>1. PICK i \in 1..n : r \in {sections[i][j] : j \in DOMAIN sections[i]}
  BY DEF Records
<1>2. PICK j \in DOMAIN sections[i] : r = sections[i][j]
  BY <1>1
<1> QED BY <1>2 DEF Barren

LEMMA SupportedWitnesses ==
  ASSUME NEW type, NEW table, table # Null, sections \in Seq(Section), Supported(type, table, sections)
  PROVE  table \in Witnesses(type, Len(sections))
<1>1. PICK i \in DOMAIN sections : \E j \in DOMAIN sections[i] :
        isRelatedType(type, sections[i][j]) /\ getWitnessTable(sections[i][j]) = table
  BY DEF Supported
<1>2. PICK j \in DOMAIN sections[i] :
        isRelatedType(type, sections[i][j]) /\ getWitnessTable(sections[i][j]) = table
  BY <1>1
<1> DEFINE R == {sections[i][k] : k \in DOMAIN sections[i]}
<1>3. i \in 1..Len(sections)
  OBVIOUS
<1>4. sections[i][j] \in R /\ R \in {{sections[k][l] : l \in DOMAIN sections[k]} : k \in 1..Len(sections)}
  BY <1>3
<1>5. sections[i][j] \in Records(Len(sections))
  BY <1>4 DEF Records
<1> QED BY <1>2, <1>5 DEF Witnesses

-----------------------------------------------------------------------------
\* The cache.
LEMMA EntryChanged ==
  ASSUME TypeOK, CacheInv, NEW key \in Key, NEW e \in Entries, EntryInv(key, e, sections),
         cache' = [cache EXCEPT ![key] = e], UNCHANGED sections
  PROVE  CacheInv' /\ cache' \in [Key -> Entries]
<1>1. cache' \in [Key -> Entries]
  BY DEF TypeOK
<1>2. ASSUME NEW k \in Key PROVE EntryInv(k, cache'[k], sections)
  <2>1. CASE k = key
    BY <2>1 DEF TypeOK
  <2>2. CASE k # key
    BY <2>2 DEF TypeOK, CacheInv
  <2> QED BY <2>1, <2>2
<1> QED BY <1>1, <1>2 DEF CacheInv

LEMMA CacheFailureKeeps ==
  ASSUME TypeOK, CacheInv, NEW key \in Key, cacheFailure(key), UNCHANGED sections,
         key \in Type => Barren(key, sections, Len(sections))
  PROVE  /\ CacheInv' /\ cache' \in [Key -> Entries]
         /\ \A k \in Key : cache[k].table # Null => cache'[k].table # Null
<1> DEFINE e == IF cache[key].exists THEN [cache[key] EXCEPT !.generation = Len(sections)]
                ELSE Entry(Null, Len(sections))
<1>1. cache' = [cache EXCEPT ![key] = e]
  BY DEF cacheFailure
<1>2. cache[key] \in Entries /\ Len(sections) \in Nat /\ Null \in Table
  BY NullIsTable DEF TypeOK
<1>3. e \in Entries
  BY <1>2 DEF Entries, Entry
<1>4. EntryInv(key, cache[key], sections)
  BY DEF CacheInv
<1>5. /\ e.generation = Len(sections)
      /\ e.table = cache[key].table
      /\ e.exists = TRUE
  BY <1>2, <1>4 DEF Entries, Entry, EntryInv
<1> HIDE DEF e
<1>6. EntryInv(key, e, sections)
  BY <1>2, <1>4, <1>5 DEF EntryInv, Covers
<1>7. CacheInv' /\ cache' \in [Key -> Entries]
  BY <1>1, <1>3, <1>6, EntryChanged
<1>8. \A k \in Key : cache'[k].table = cache[k].table
  BY <1>1, <1>5 DEF TypeOK
<1> QED BY <1>7, <1>8

LEMMA CacheSuccessKeeps ==
  ASSUME TypeOK, CacheInv, NEW key \in Key, NEW table \in Table, cacheSuccess(key, table),
         UNCHANGED sections, Justified(key, table, sections)
  PROVE  /\ CacheInv' /\ cache' \in [Key -> Entries]
         /\ cache'[key].table = table
         /\ \A k \in Key \ {key} : cache'[k] = cache[k]
<1> DEFINE e == IF cache[key].exists THEN [cache[key] EXCEPT !.table = table] ELSE Entry(table, 0)
<1>1. cache' = [cache EXCEPT ![key] = e]
  BY DEF cacheSuccess
<1>2. cache[key] \in Entries /\ Len(sections) \in Nat
  BY DEF TypeOK
<1>3. e \in Entries
  BY <1>2 DEF Entries, Entry
<1>4. EntryInv(key, cache[key], sections)
  BY DEF CacheInv
<1>5. /\ e.generation = cache[key].generation \/ e.generation = 0
      /\ e.table = table
      /\ e.exists = TRUE
  BY <1>2 DEF Entries, Entry
<1> HIDE DEF e
<1>6. Covers(key, e.generation, sections)
  BY <1>2, <1>4, <1>5, BarrenNone DEF EntryInv, Covers
<1>7. EntryInv(key, e, sections)
  BY <1>5, <1>6 DEF EntryInv
<1>8. CacheInv' /\ cache' \in [Key -> Entries]
  BY <1>1, <1>3, <1>7, EntryChanged
<1>9. cache'[key] = e /\ \A k \in Key \ {key} : cache'[k] = cache[k]
  BY <1>1 DEF TypeOK
<1> QED BY <1>5, <1>8, <1>9

-----------------------------------------------------------------------------
\* What a search under the lock says.
LEMMA SearchFacts ==
  ASSUME TypeOK, CacheInv, NEW q \in Type
  PROVE  LET found == SearchResult(q) IN
         /\ found.isAuthoritative \in BOOLEAN /\ found.witnessTable \in Table
         /\ found.isAuthoritative /\ found.witnessTable # Null =>
              Supported(q, found.witnessTable, sections)
         /\ found.isAuthoritative /\ found.witnessTable = Null => Barren(q, sections, Len(sections))
         /\ ~found.isAuthoritative =>
              \A k \in DecidingTypes(q) : \E i \in DOMAIN Chain[q] :
                i <= k /\ FailureUpToDate(Chain[q][i])
<1> DEFINE D == DecidingTypes(q)
           i == Min(D)
           each == Chain[q][i]
<1>1. CASE D = {}
  BY <1>1, NullIsTable DEF SearchResult
<1>2. CASE D # {}
  <2>1. D \subseteq DOMAIN Chain[q] /\ D \subseteq Nat
    BY ChainFacts DEF DecidingTypes
  <2>2. i \in D /\ \A n \in D : i <= n
    BY <1>2, <2>1, MinFacts
  <2>3. /\ i \in DOMAIN Chain[q] /\ each \in Type
        /\ isSuccessful(each) \/ FailureUpToDate(each) \/ isSuccessful(Descriptor[each])
    BY <2>1, <2>2, ChainFacts DEF DecidingTypes
  <2>4. each \in Key /\ Descriptor[each] \in Key /\ Visits(q, each) /\ Visits(q, Descriptor[each])
    BY <2>3, KeyFacts DEF Visits
  <2>5. /\ EntryInv(each, cache[each], sections) /\ cache[each] \in Entries
        /\ EntryInv(Descriptor[each], cache[Descriptor[each]], sections)
        /\ cache[Descriptor[each]] \in Entries
    BY <2>4 DEF CacheInv, TypeOK
  <2>6. SearchResult(q) =
          CASE isSuccessful(each) -> [isAuthoritative |-> TRUE, witnessTable |-> cache[each].table]
            [] FailureUpToDate(each) -> [isAuthoritative |-> i = 1, witnessTable |-> Null]
            [] OTHER -> [isAuthoritative |-> TRUE, witnessTable |-> cache[Descriptor[each]].table]
    BY <1>2 DEF SearchResult
  <2>7. isSuccessful(each) => ~FailureUpToDate(each)
    BY DEF isSuccessful, FailureUpToDate, isNegative
  <2> HIDE DEF D, i, each
  <2>8. CASE isSuccessful(each)
    <3>1. SearchResult(q) = [isAuthoritative |-> TRUE, witnessTable |-> cache[each].table]
      BY <2>6, <2>7, <2>8
    <3>2. cache[each].table # Null /\ cache[each].table \in Table
      BY <2>5, <2>8 DEF isSuccessful, Entries
    <3>3. Supported(q, cache[each].table, sections)
      BY <2>4, <2>5, <3>2 DEF EntryInv, Justified
    <3> QED BY <3>1, <3>2, <3>3
  <2>9. CASE FailureUpToDate(each)
    <3>1. SearchResult(q) = [isAuthoritative |-> i = 1, witnessTable |-> Null]
      BY <2>6, <2>7, <2>9
    <3>2. i = 1 => Barren(q, sections, Len(sections))
      <4>1. i = 1 => each = q
        BY ChainFacts DEF each
      <4>2. Barren(each, sections, Len(sections))
        BY <2>3, <2>5, <2>9 DEF EntryInv, Covers, FailureUpToDate
      <4> QED BY <4>1, <4>2
    <3>3. \A k \in DecidingTypes(q) : i <= k /\ FailureUpToDate(Chain[q][i])
      BY <2>2, <2>9 DEF D, each
    <3>4. /\ SearchResult(q).isAuthoritative \in BOOLEAN
          /\ SearchResult(q).isAuthoritative => i = 1
          /\ SearchResult(q).witnessTable = Null
      <4>1. CASE i = 1
        <5>1. (i = 1) = TRUE
          BY <4>1
        <5>2. SearchResult(q) = [isAuthoritative |-> TRUE, witnessTable |-> Null]
          BY <3>1, <5>1, Zenon
        <5> QED BY <4>1, <5>2
      <4>2. CASE i # 1
        <5>1. (i = 1) = FALSE
          BY <4>2
        <5>2. SearchResult(q) = [isAuthoritative |-> FALSE, witnessTable |-> Null]
          BY <3>1, <5>1, Zenon
        <5> QED BY <5>2
      <4> QED BY <4>1, <4>2
    <3> QED BY <2>3, <3>2, <3>3, <3>4, NullIsTable
  <2>10. CASE ~isSuccessful(each) /\ ~FailureUpToDate(each)
    <3>1. SearchResult(q) = [isAuthoritative |-> TRUE, witnessTable |-> cache[Descriptor[each]].table]
      BY <2>6, <2>10
    <3>2. cache[Descriptor[each]].table # Null /\ cache[Descriptor[each]].table \in Table
      BY <2>3, <2>5, <2>10 DEF isSuccessful, Entries
    <3>3. Supported(q, cache[Descriptor[each]].table, sections)
      BY <2>4, <2>5, <3>2 DEF EntryInv, Justified
    <3> QED BY <3>1, <3>2, <3>3
  <2> QED BY <2>8, <2>9, <2>10
<1> QED BY <1>1, <1>2

\* After a scan of all that its generation does not cover, a search that finds
\* nothing has missed nothing.
LEMMA ScanFindsAll ==
  ASSUME TypeOK, CacheInv, NEW q \in Type, NEW s, Scanned(q, s, sections, cache),
         s[1] > Len(sections), ~SearchResult(q).isAuthoritative
  PROVE  Barren(q, sections, Len(sections))
<1> SUFFICES ASSUME NEW i \in 1..Len(sections), NEW j \in DOMAIN sections[i],
                    isRelatedType(q, sections[i][j]), getWitnessTable(sections[i][j]) # Null
             PROVE  FALSE
  BY DEF Barren
<1> DEFINE r == sections[i][j]
<1>1. Len(sections) \in Nat /\ i \in DOMAIN sections
  BY DEF TypeOK
<1>2. Before(i, j, s)
  BY <1>1 DEF Before, Scanned
<1>3. Caught(q, r, cache)
  BY <1>1, <1>2 DEF Scanned
<1>4. ASSUME NEW k \in DecidingTypes(q),
             \A m \in DOMAIN Chain[q] : m <= k => isRelatedType(Chain[q][m], r)
      PROVE  FALSE
  <2>1. PICK m \in DOMAIN Chain[q] : m <= k /\ FailureUpToDate(Chain[q][m])
    BY SearchFacts
  <2>2. Chain[q][m] \in Type /\ Chain[q][m] \in Key
    BY ChainFacts, KeyFacts
  <2>3. Barren(Chain[q][m], sections, Len(sections))
    BY <2>1, <2>2 DEF CacheInv, EntryInv, Covers, FailureUpToDate
  <2> QED BY <1>4, <2>1, <2>3 DEF Barren
<1>5. 1 \in DOMAIN Chain[q] /\ Chain[q][1] = q /\ DOMAIN Chain[q] \subseteq Nat \ {0}
  BY ChainFacts
<1>6. CASE cache[q].table # Null \/ cache[Descriptor[q]].table # Null
  <2>1. 1 \in DecidingTypes(q)
    BY <1>5, <1>6 DEF DecidingTypes, isSuccessful
  <2>2. ASSUME NEW m \in DOMAIN Chain[q], m <= 1 PROVE isRelatedType(Chain[q][m], r)
    <3>1. m = 1
      BY <1>5, <2>2
    <3> QED BY <1>5, <3>1
  <2> QED BY <1>4, <2>1, <2>2
<1>7. CASE r.of = "class" /\ cache[r.ref].table # Null
  <2>1. PICK k \in DOMAIN Chain[q] : Chain[q][k] = r.ref
    BY <1>7 DEF isRelatedType
  <2>2. k \in DecidingTypes(q)
    BY <1>7, <2>1 DEF DecidingTypes, isSuccessful
  <2>3. \A m \in DOMAIN Chain[q] : m <= k => isRelatedType(Chain[q][m], r)
    BY <1>7, <2>1, RelatedDown
  <2> QED BY <1>4, <2>2, <2>3
<1> QED BY <1>3, <1>6, <1>7 DEF Caught

-----------------------------------------------------------------------------
\* The steps.
LocalType ==
  /\ pc \in [Thread -> Label]
  /\ query \in [Thread -> Type \cup {Null}]
  /\ at \in [Thread -> Nat]
  /\ hasEntry \in [Thread -> BOOLEAN]
  /\ loaded \in [Thread -> [generation : Int, size : Int]]
  /\ scan \in [Thread -> Nat \X Nat]
  /\ answer \in [Thread -> [type : Type \cup {Null}, table : Table, seen : Nat] \cup {Null}]
  /\ registered \in [Thread -> Nat]

\* The lookups of other threads stand still.
OthersStill(t) ==
  \A u \in Thread \ {t} :
    /\ pc'[u] = pc[u] /\ query'[u] = query[u] /\ at'[u] = at[u] /\ loaded'[u] = loaded[u]
    /\ scan'[u] = scan[u] /\ answer'[u] = answer[u] /\ registered'[u] = registered[u]

LEMMA TypeOKLocal == ASSUME TypeOK PROVE LocalType
BY DEF TypeOK, LocalType

LEMMA OthersKeep ==
  ASSUME IInv, NEW t \in Thread, OthersStill(t), UNCHANGED sections,
         UNCHANGED <<cache, lock>> \/ (lock \in {Null, t} /\ lock' \in {Null, t}),
         NEW u \in Thread, u # t
  PROVE  ThreadInv(u)' /\ AnswerInv(answer[u], sections)'
<1>1. ThreadInv(u) /\ AnswerInv(answer[u], sections) /\ u # Null
  BY KeyFacts DEF IInv
<1>2. /\ pc'[u] = pc[u] /\ query'[u] = query[u] /\ at'[u] = at[u] /\ loaded'[u] = loaded[u]
      /\ scan'[u] = scan[u] /\ answer'[u] = answer[u] /\ registered'[u] = registered[u]
      /\ sections' = sections
  BY DEF OthersStill
<1>3. CASE UNCHANGED <<cache, lock>>
  BY <1>1, <1>2, <1>3 DEF ThreadInv, CurrentType
<1>4. CASE lock \in {Null, t} /\ lock' \in {Null, t}
  <2>1. pc[u] # "scan" /\ lock' # u
    BY <1>1, <1>4 DEF ThreadInv
  <2> QED BY <1>1, <1>2, <2>1 DEF ThreadInv, CurrentType
<1> QED BY <1>3, <1>4

\* What is left to show of a step of t that changes no section.
LEMMA StepKeeps ==
  ASSUME IInv, NEW t \in Thread, OthersStill(t), UNCHANGED sections,
         UNCHANGED <<cache, lock>> \/ (lock \in {Null, t} /\ lock' \in {Null, t}),
         LocalType', cache' \in [Key -> Entries], CacheInv',
         ThreadInv(t)', AnswerInv(answer[t], sections)'
  PROVE  IInv'
<1>1. lock' \in Thread \cup {Null} /\ sections' \in Seq(Section)
  BY DEF IInv, TypeOK
<1>2. TypeOK'
  BY <1>1 DEF LocalType, TypeOK
<1>3. \A u \in Thread : ThreadInv(u)' /\ AnswerInv(answer[u], sections)'
  BY OthersKeep
<1> QED BY <1>2, <1>3 DEF IInv

LEMMA ReturnKeeps ==
  ASSUME IInv, NEW t \in Thread, NEW table \in Table, pc[t] # "idle", Return(t, table),
         UNCHANGED sections, lock' # t,
         table # Null => Supported(query[t], table, sections),
         table = Null => Barren(query[t], sections, registered[t])
  PROVE  /\ OthersStill(t) /\ LocalType'
         /\ ThreadInv(t)' /\ AnswerInv(answer[t], sections)'
<1> DEFINE a == [type |-> query[t], table |-> table, seen |-> registered[t]]
<1>1. /\ pc' = [pc EXCEPT ![t] = "idle"]
      /\ answer' = [answer EXCEPT ![t] = a]
      /\ at' = [at EXCEPT ![t] = 1]
      /\ hasEntry' = [hasEntry EXCEPT ![t] = FALSE]
      /\ loaded' = [loaded EXCEPT ![t] = NothingLoaded]
      /\ scan' = [scan EXCEPT ![t] = <<1, 1>>]
      /\ registered' = [registered EXCEPT ![t] = 0]
      /\ query' = [query EXCEPT ![t] = Null]
  BY DEF Return, Goto
<1>2. Active(query[t], at[t], registered[t], sections)
  BY DEF IInv, ThreadInv
<1>3. LocalType
  BY DEF IInv, TypeOK, LocalType
<1>4. a \in [type : Type \cup {Null}, table : Table, seen : Nat]
  BY <1>2, <1>3 DEF Active, LocalType
<1>5. a.type = query[t] /\ a.table = table /\ a.seen = registered[t]
  OBVIOUS
<1> HIDE DEF a
<1>6. OthersStill(t)
  BY <1>1, <1>3 DEF OthersStill, LocalType
<1>7. LocalType'
  <2>1. NothingLoaded \in [generation : Int, size : Int]
    BY DEF NothingLoaded
  <2>2. pc' \in [Thread -> Label] /\ query' \in [Thread -> Type \cup {Null}]
    BY <1>1, <1>3 DEF LocalType, Label
  <2>3. /\ at' \in [Thread -> Nat] /\ hasEntry' \in [Thread -> BOOLEAN]
        /\ registered' \in [Thread -> Nat]
    BY <1>1, <1>3 DEF LocalType
  <2>4. loaded' \in [Thread -> [generation : Int, size : Int]]
    BY <1>1, <1>3, <2>1 DEF LocalType
  <2>5. scan' \in [Thread -> Nat \X Nat]
    BY <1>1, <1>3 DEF LocalType
  <2>6. answer' \in [Thread -> [type : Type \cup {Null}, table : Table, seen : Nat] \cup {Null}]
    BY <1>1, <1>3, <1>4 DEF LocalType
  <2> QED BY <2>2, <2>3, <2>4, <2>5, <2>6 DEF LocalType
<1>8. /\ pc'[t] = "idle" /\ answer'[t] = a /\ at'[t] = 1 /\ loaded'[t] = NothingLoaded
      /\ query'[t] = Null
  BY <1>1, <1>3 DEF LocalType
<1>9. ThreadInv(t)'
  BY <1>8 DEF ThreadInv
<1>10. AnswerInv(answer[t], sections)'
  BY <1>2, <1>5, <1>8 DEF AnswerInv, Active
<1> QED BY <1>6, <1>7, <1>9, <1>10

LEMMA InitIInv == Init => IInv
<1> SUFFICES ASSUME Init PROVE IInv
  OBVIOUS
<1>1. NoEntry \in Entries /\ NoEntry.table = Null /\ NoEntry.generation = 0
  BY NullIsTable DEF NoEntry, Entries
<1>2. NothingLoaded \in [generation : Int, size : Int]
  BY DEF NothingLoaded
<1>3. TypeOK
  <2>1. sections \in Seq(Section) /\ cache \in [Key -> Entries] /\ lock \in Thread \cup {Null}
    BY <1>1 DEF Init
  <2>2. pc \in [Thread -> Label] /\ query \in [Thread -> Type \cup {Null}]
    BY DEF Init, Label
  <2>3. /\ at \in [Thread -> Nat] /\ hasEntry \in [Thread -> BOOLEAN] /\ registered \in [Thread -> Nat]
        /\ loaded \in [Thread -> [generation : Int, size : Int]] /\ scan \in [Thread -> Nat \X Nat]
    BY <1>2 DEF Init
  <2>4. answer \in [Thread -> [type : Type \cup {Null}, table : Table, seen : Nat] \cup {Null}]
    BY DEF Init
  <2> QED BY <2>1, <2>2, <2>3, <2>4 DEF TypeOK
<1>4. CacheInv
  BY <1>1, BarrenNone DEF Init, CacheInv, EntryInv, Justified, Covers
<1>5. \A t \in Thread : ThreadInv(t)
  BY KeyFacts DEF Init, ThreadInv
<1>6. \A t \in Thread : AnswerInv(answer[t], sections)
  BY DEF Init, AnswerInv
<1> QED BY <1>3, <1>4, <1>5, <1>6 DEF IInv

LEMMA RegisterIInv == ASSUME IInv, NEW t \in Thread, Register(t) PROVE IInv'
<1>1. PICK s \in Section : sections' = Append(sections, s)
  BY DEF Register
<1>2. /\ lock = Null
      /\ UNCHANGED <<cache, lock, pc, query, at, hasEntry, loaded, scan, answer, registered>>
  BY DEF Register
<1>3. /\ sections \in Seq(Section) /\ sections' \in Seq(Section)
      /\ Len(sections') = Len(sections) + 1 /\ Len(sections) \in Nat
  BY <1>1 DEF IInv, TypeOK
<1>4. \A type, n : n \in 0..Len(sections) /\ Barren(type, sections, n) => Barren(type, sections', n)
  BY <1>1, <1>3, AppendKeeps
<1>5. \A type, table : Supported(type, table, sections) => Supported(type, table, sections')
  BY <1>1, <1>3, AppendKeeps
<1>6. TypeOK'
  BY <1>2, <1>3 DEF IInv, TypeOK
<1>7. CacheInv'
  <2> SUFFICES ASSUME NEW key \in Key PROVE EntryInv(key, cache[key], sections')
    BY <1>2 DEF CacheInv
  <2>1. EntryInv(key, cache[key], sections)
    BY DEF IInv, CacheInv
  <2>2. Justified(key, cache[key].table, sections')
    BY <1>5, <2>1 DEF EntryInv, Justified
  <2>3. Covers(key, cache[key].generation, sections')
    BY <1>3, <1>4, <2>1 DEF EntryInv, Covers
  <2> QED BY <2>1, <2>2, <2>3 DEF EntryInv
<1>8. ASSUME NEW u \in Thread PROVE ThreadInv(u)'
  <2>1. ThreadInv(u) /\ pc[u] # "scan" /\ lock # u
    BY <1>2, KeyFacts DEF IInv, ThreadInv
  <2>2. pc[u] # "idle" => Active(query[u], at[u], registered[u], sections')
    BY <1>3, <2>1 DEF ThreadInv, Active
  <2>3. pc[u] = "compare" => Loaded(CurrentType(u), loaded[u], registered[u], sections')
    BY <1>3, <1>4, <2>1 DEF ThreadInv, Loaded
  <2> QED BY <1>2, <2>1, <2>2, <2>3 DEF ThreadInv, CurrentType
<1>9. ASSUME NEW u \in Thread PROVE AnswerInv(answer[u], sections)'
  <2>1. AnswerInv(answer[u], sections)
    BY DEF IInv
  <2> QED BY <1>2, <1>3, <1>4, <1>5, <2>1 DEF AnswerInv
<1> QED BY <1>6, <1>7, <1>8, <1>9 DEF IInv

LEMMA CallIInv == ASSUME IInv, NEW t \in Thread, NEW type \in Type, Call(t, type) PROVE IInv'
<1>1. /\ pc[t] = "idle"
      /\ query' = [query EXCEPT ![t] = type]
      /\ registered' = [registered EXCEPT ![t] = Len(sections)]
      /\ answer' = [answer EXCEPT ![t] = Null]
      /\ pc' = [pc EXCEPT ![t] = "findType"]
      /\ UNCHANGED <<sections, cache, lock, at, hasEntry, loaded, scan>>
  BY DEF Call, Goto
<1>2. LocalType /\ Len(sections) \in Nat /\ TypeOK /\ CacheInv
  <2>1. TypeOK /\ CacheInv
    BY DEF IInv
  <2>2. Len(sections) \in Nat
    BY <2>1 DEF TypeOK
  <2> QED BY <2>1, <2>2, TypeOKLocal
<1>3. LocalType'
  BY <1>1, <1>2 DEF LocalType, Label
<1>4. OthersStill(t)
  BY <1>1, <1>2 DEF OthersStill, LocalType
<1>5. /\ query'[t] = type /\ registered'[t] = Len(sections) /\ answer'[t] = Null
      /\ pc'[t] = "findType"
  BY <1>1, <1>2 DEF LocalType
<1>6. ThreadInv(t)
  BY DEF IInv
<1>7. ThreadInv(t)'
  BY <1>1, <1>2, <1>5, <1>6, ChainFacts DEF ThreadInv, Active
<1>8. AnswerInv(answer[t], sections)'
  BY <1>5 DEF AnswerInv
<1>9. cache' \in [Key -> Entries] /\ CacheInv'
  BY <1>1, <1>2 DEF CacheInv, TypeOK
<1> QED BY <1>1, <1>3, <1>4, <1>7, <1>8, <1>9, StepKeeps

\* A step inside a lookup that writes neither the cache nor the sections.
Moves(t, label) ==
  /\ pc' = [pc EXCEPT ![t] = label]
  /\ UNCHANGED <<query, scan, answer, registered, sections, cache, lock>>

LEMMA MoveIInv ==
  ASSUME IInv, NEW t \in Thread, NEW label \in Label \ {"idle", "scan"}, Moves(t, label),
         pc[t] \notin {"idle", "scan"},
         LocalType', at'[t] \in DOMAIN Chain[query[t]],
         label = "compare" => Loaded(CurrentType(t)', loaded'[t], registered[t], sections),
         label # "compare" => loaded'[t] = NothingLoaded,
         \A u \in Thread \ {t} : at'[u] = at[u] /\ loaded'[u] = loaded[u]
  PROVE  IInv'
<1>1. TypeOK /\ CacheInv /\ ThreadInv(t) /\ AnswerInv(answer[t], sections)
  BY DEF IInv
<1>2. pc'[t] = label /\ \A u \in Thread \ {t} : pc'[u] = pc[u]
  BY <1>1 DEF Moves, TypeOK
<1>3. OthersStill(t)
  BY <1>2 DEF OthersStill, Moves
<1>4. ThreadInv(t)'
  BY <1>1, <1>2 DEF ThreadInv, Moves, Active
<1>5. AnswerInv(answer[t], sections)' /\ CacheInv' /\ cache' \in [Key -> Entries]
  BY <1>1 DEF Moves, CacheInv, TypeOK
<1> QED BY <1>3, <1>4, <1>5, StepKeeps DEF Moves

\* A lookup that returns and writes neither the cache nor the sections.
LEMMA ReturnIInv ==
  ASSUME IInv, NEW t \in Thread, NEW table \in Table, pc[t] \notin {"idle", "scan"}, Return(t, table),
         UNCHANGED <<sections, cache, lock>>,
         table # Null => Supported(query[t], table, sections),
         table = Null => Barren(query[t], sections, registered[t])
  PROVE  IInv'
<1>1. lock' # t
  BY DEF IInv, ThreadInv
<1>2. cache' \in [Key -> Entries] /\ CacheInv'
  BY DEF IInv, TypeOK, CacheInv
<1> QED BY <1>1, <1>2, ReturnKeeps, StepKeeps

LEMMA CurrentTypeFacts ==
  ASSUME IInv, NEW t \in Thread, pc[t] # "idle"
  PROVE  /\ query[t] \in Type /\ at[t] \in DOMAIN Chain[query[t]] /\ registered[t] \in 0..Len(sections)
         /\ CurrentType(t) \in Type /\ CurrentType(t) \in Key /\ Descriptor[CurrentType(t)] \in Key
         /\ Visits(query[t], CurrentType(t)) /\ Visits(query[t], Descriptor[CurrentType(t)])
         /\ at[t] = 1 => CurrentType(t) = query[t]
<1>1. /\ query[t] \in Type /\ at[t] \in DOMAIN Chain[query[t]] /\ registered[t] \in 0..Len(sections)
  BY DEF IInv, ThreadInv, Active
<1>2. CurrentType(t) \in Type
  BY <1>1, ChainFacts DEF CurrentType
<1>3. at[t] = 1 => CurrentType(t) = query[t]
  BY <1>1, ChainFacts DEF CurrentType
<1>4. Visits(query[t], CurrentType(t)) /\ Visits(query[t], Descriptor[CurrentType(t)])
  BY <1>1 DEF Visits, CurrentType
<1> QED BY <1>1, <1>2, <1>3, <1>4, KeyFacts

\* A successful entry that a search visits.
LEMMA SuccessFacts ==
  ASSUME IInv, NEW q \in Type, NEW key \in Key, Visits(q, key), isSuccessful(key)
  PROVE  /\ cache[key].table \in Table /\ cache[key].table # Null
         /\ Supported(q, cache[key].table, sections)
<1>1. cache[key] \in Entries /\ EntryInv(key, cache[key], sections)
  BY DEF IInv, TypeOK, CacheInv
<1>2. cache[key].table \in Table /\ cache[key].table # Null
  BY <1>1 DEF Entries, isSuccessful
<1> QED BY <1>1, <1>2 DEF EntryInv, Justified

LEMMA FindTypeIInv == ASSUME IInv, NEW t \in Thread, FindType(t) PROVE IInv'
<1> DEFINE key == CurrentType(t)
<1>1. pc[t] = "findType" /\ UNCHANGED <<sections, cache, lock>>
  BY DEF FindType
<1>2. /\ query[t] \in Type /\ at[t] \in DOMAIN Chain[query[t]] /\ key \in Key
      /\ Visits(query[t], key) /\ LocalType /\ ThreadInv(t)
  BY <1>1, CurrentTypeFacts, TypeOKLocal DEF IInv
<1>3. loaded[t] = NothingLoaded
  BY <1>1, <1>2 DEF ThreadInv
<1>4. CASE isSuccessful(key) /\ Return(t, cache[key].table)
  BY <1>1, <1>2, <1>4, SuccessFacts, ReturnIInv
<1>5. CASE /\ isNegative(key)
           /\ hasEntry' = [hasEntry EXCEPT ![t] = @ \/ at[t] = 1]
           /\ Goto(t, "compare")
           /\ UNCHANGED <<query, at, loaded, scan, answer, registered>>
  <2>1. Moves(t, "compare")
    BY <1>1, <1>5 DEF Moves, Goto
  <2>2. LocalType'
    <3>1. pc' \in [Thread -> Label]
      BY <1>2, <1>5 DEF LocalType, Goto, Label
    <3>2. hasEntry' \in [Thread -> BOOLEAN]
      <4>1. hasEntry' = [hasEntry EXCEPT ![t] = hasEntry[t] \/ at[t] = 1]
        BY <1>5
      <4>2. (hasEntry[t] \/ at[t] = 1) \in BOOLEAN
        OBVIOUS
      <4> QED BY <4>1, <4>2, <1>2 DEF LocalType
    <3> QED BY <1>2, <1>5, <3>1, <3>2 DEF LocalType
  <2>3. Loaded(CurrentType(t)', loaded'[t], registered[t], sections)
    BY <1>3, <1>5 DEF Loaded, NothingLoaded
  <2> QED BY <1>1, <1>2, <1>5, <2>1, <2>2, <2>3, MoveIInv DEF Label
<1>6. CASE /\ ~cache[key].exists
           /\ Goto(t, "findDescriptor")
           /\ UNCHANGED <<query, at, hasEntry, loaded, scan, answer, registered>>
  <2>1. Moves(t, "findDescriptor")
    BY <1>1, <1>6 DEF Moves, Goto
  <2>2. LocalType'
    BY <1>2, <1>6 DEF LocalType, Goto, Label
  <2> QED BY <1>1, <1>2, <1>3, <1>6, <2>1, <2>2, MoveIInv DEF Label
<1> QED BY <1>4, <1>5, <1>6 DEF FindType

LEMMA LoadOperandIInv == ASSUME IInv, NEW t \in Thread, LoadOperand(t) PROVE IInv'
<1> DEFINE key == CurrentType(t)
<1>1. /\ pc[t] = "compare"
      /\ UNCHANGED <<sections, cache, lock, pc, query, at, hasEntry, scan, answer, registered>>
  BY DEF LoadOperand
<1>2. /\ query[t] \in Type /\ at[t] \in DOMAIN Chain[query[t]] /\ key \in Key /\ key \in Type
      /\ registered[t] \in 0..Len(sections)
  BY <1>1, CurrentTypeFacts
<1>3. LocalType /\ ThreadInv(t)
  BY TypeOKLocal DEF IInv
<1>4. Loaded(key, loaded[t], registered[t], sections) /\ loaded[t] \in [generation : Int, size : Int]
  BY <1>1, <1>3 DEF ThreadInv, LocalType
<1>5. Covers(key, cache[key].generation, sections) /\ Len(sections) \in Nat
  <2>1. Len(sections) \in Nat
    BY DEF IInv, TypeOK
  <2> QED BY <1>2, <2>1 DEF IInv, CacheInv, EntryInv
<1>6. \/ loaded' = [loaded EXCEPT ![t].generation = cache[key].generation]
      \/ loaded' = [loaded EXCEPT ![t].size = Len(sections)]
  BY DEF LoadOperand
<1>7. PICK l \in [generation : Int, size : Int] :
        loaded' = [loaded EXCEPT ![t] = l] /\ Loaded(key, l, registered[t], sections)
  <2>1. CASE loaded' = [loaded EXCEPT ![t].generation = cache[key].generation]
    <3> DEFINE l == [loaded[t] EXCEPT !.generation = cache[key].generation]
    <3>1. loaded' = [loaded EXCEPT ![t] = l]
      BY <1>3, <2>1 DEF LocalType
    <3>2. cache[key].generation \in 0..Len(sections) /\ Barren(key, sections, cache[key].generation)
      BY <1>2, <1>5 DEF Covers
    <3>3. l \in [generation : Int, size : Int] /\ l.generation = cache[key].generation /\ l.size = loaded[t].size
      BY <1>4, <1>5, <3>2
    <3>4. Loaded(key, l, registered[t], sections)
      BY <1>4, <3>2, <3>3 DEF Loaded
    <3> QED BY <3>1, <3>3, <3>4
  <2>2. CASE loaded' = [loaded EXCEPT ![t].size = Len(sections)]
    <3> DEFINE l == [loaded[t] EXCEPT !.size = Len(sections)]
    <3>1. loaded' = [loaded EXCEPT ![t] = l]
      BY <1>3, <2>2 DEF LocalType
    <3>2. /\ l \in [generation : Int, size : Int]
          /\ l.generation = loaded[t].generation /\ l.size = Len(sections)
      BY <1>4, <1>5
    <3>3. Loaded(key, l, registered[t], sections)
      BY <1>2, <1>4, <1>5, <3>2 DEF Loaded
    <3> QED BY <3>1, <3>2, <3>3
  <2> QED BY <1>6, <2>1, <2>2
<1>8. LocalType'
  BY <1>1, <1>3, <1>7 DEF LocalType
<1>9. Moves(t, "compare")
  BY <1>1, <1>3 DEF Moves, LocalType
<1>10. Loaded(CurrentType(t)', loaded'[t], registered[t], sections)
  BY <1>1, <1>3, <1>7 DEF CurrentType, LocalType
<1>11. \A u \in Thread \ {t} : at'[u] = at[u] /\ loaded'[u] = loaded[u]
  BY <1>1, <1>3, <1>7 DEF LocalType
<1> QED BY <1>1, <1>2, <1>8, <1>9, <1>10, <1>11, MoveIInv DEF Label

LEMMA CompareIInv == ASSUME IInv, NEW t \in Thread, Compare(t) PROVE IInv'
<1>1. /\ pc[t] = "compare" /\ loaded[t].generation # -1 /\ loaded[t].size # -1
      /\ UNCHANGED <<sections, cache, lock>>
  BY DEF Compare
<1>2. LocalType /\ ThreadInv(t)
  BY TypeOKLocal DEF IInv
<1>3. /\ query[t] \in Type /\ at[t] \in DOMAIN Chain[query[t]]
      /\ registered[t] \in 0..Len(sections)
      /\ at[t] = 1 => CurrentType(t) = query[t]
  BY <1>1, CurrentTypeFacts
<1>4. CASE UpToDate(t) /\ at[t] = 1 /\ Return(t, Null)
  <2>1. /\ loaded[t].generation \in 0..Len(sections) /\ Barren(query[t], sections, loaded[t].generation)
        /\ loaded[t].size \in registered[t]..Len(sections)
    <3>1. Loaded(query[t], loaded[t], registered[t], sections)
      BY <1>1, <1>2, <1>3, <1>4 DEF ThreadInv
    <3> QED BY <1>1, <3>1 DEF Loaded
  <2>2. Len(sections) \in Nat
    BY DEF IInv, TypeOK
  <2>3. /\ loaded[t].generation \in Nat /\ registered[t] \in Nat
        /\ registered[t] <= loaded[t].generation
    <3>1. loaded[t].generation = loaded[t].size
      BY <1>4 DEF UpToDate
    <3> QED BY <1>3, <2>1, <2>2, <3>1
  <2>4. Barren(query[t], sections, registered[t])
    BY <2>1, <2>3, BarrenLess
  <2> QED BY <1>1, <1>4, <2>4, NullIsTable, ReturnIInv
<1>5. ASSUME NEW label \in {"lock", "findDescriptor"}, Goto(t, label),
             loaded' = [loaded EXCEPT ![t] = NothingLoaded],
             UNCHANGED <<query, at, hasEntry, scan, answer, registered>>
      PROVE  IInv'
  <2>1. Moves(t, label) /\ label \in Label \ {"idle", "scan"} /\ label # "compare"
    BY <1>1, <1>5 DEF Moves, Goto, Label
  <2>2. NothingLoaded \in [generation : Int, size : Int]
    BY DEF NothingLoaded
  <2>3. LocalType'
    BY <1>2, <1>5, <2>1, <2>2 DEF LocalType, Moves
  <2>4. loaded'[t] = NothingLoaded /\ \A u \in Thread \ {t} : at'[u] = at[u] /\ loaded'[u] = loaded[u]
    BY <1>2, <1>5 DEF LocalType
  <2> QED BY <1>1, <1>3, <1>5, <2>1, <2>3, <2>4, MoveIInv
<1> QED BY <1>4, <1>5 DEF Compare

LEMMA FindDescriptorIInv == ASSUME IInv, NEW t \in Thread, FindDescriptor(t) PROVE IInv'
<1> DEFINE key == Descriptor[CurrentType(t)]
<1>1. pc[t] = "findDescriptor" /\ UNCHANGED <<sections, cache, lock>>
  BY DEF FindDescriptor
<1>2. LocalType /\ ThreadInv(t)
  BY TypeOKLocal DEF IInv
<1>3. /\ query[t] \in Type /\ at[t] \in DOMAIN Chain[query[t]] /\ key \in Key
      /\ Visits(query[t], key)
  BY <1>1, CurrentTypeFacts
<1>4. loaded[t] = NothingLoaded
  BY <1>1, <1>2 DEF ThreadInv
<1>5. CASE isSuccessful(key) /\ Return(t, cache[key].table)
  BY <1>1, <1>3, <1>5, SuccessFacts, ReturnIInv
<1>6. CASE /\ at[t] < Len(Chain[query[t]]) /\ at' = [at EXCEPT ![t] = @ + 1] /\ Goto(t, "findType")
           /\ UNCHANGED <<query, hasEntry, loaded, scan, answer, registered>>
  <2>1. Moves(t, "findType")
    BY <1>1, <1>6 DEF Moves, Goto
  <2>2. at[t] + 1 \in DOMAIN Chain[query[t]] /\ at[t] + 1 \in Nat
    <3>1. /\ Len(Chain[query[t]]) \in Nat /\ at[t] < Len(Chain[query[t]])
          /\ DOMAIN Chain[query[t]] = 1..Len(Chain[query[t]])
      BY <1>3, <1>6, ChainFacts
    <3> QED BY <1>3, <3>1
  <2>3. at' = [at EXCEPT ![t] = at[t] + 1]
    BY <1>6
  <2>4. LocalType'
    BY <1>2, <1>6, <2>1, <2>2, <2>3 DEF LocalType, Moves, Label
  <2>5. at'[t] \in DOMAIN Chain[query[t]] /\ \A u \in Thread \ {t} : at'[u] = at[u]
    BY <1>2, <2>2, <2>3 DEF LocalType
  <2> QED BY <1>1, <1>4, <1>6, <2>1, <2>4, <2>5, MoveIInv DEF Label
<1>7. CASE /\ at[t] = Len(Chain[query[t]]) /\ Goto(t, "lock") /\ UNCHANGED at
           /\ UNCHANGED <<query, hasEntry, loaded, scan, answer, registered>>
  <2>1. Moves(t, "lock")
    BY <1>1, <1>7 DEF Moves, Goto
  <2>2. LocalType'
    BY <1>2, <1>7, <2>1 DEF LocalType, Moves, Label
  <2> QED BY <1>1, <1>3, <1>4, <1>7, <2>1, <2>2, MoveIInv DEF Label
<1> QED BY <1>5, <1>6, <1>7 DEF FindDescriptor

\* What the lookup finds when it has the lock.
LEMMA RecheckFacts ==
  ASSUME IInv, NEW t \in Thread, query[t] \in Type
  PROVE  /\ Recheck(t).witnessTable \in Table
         /\ Recheck(t).isAuthoritative /\ Recheck(t).witnessTable # Null =>
              Supported(query[t], Recheck(t).witnessTable, sections)
         /\ Recheck(t).isAuthoritative /\ Recheck(t).witnessTable = Null =>
              Barren(query[t], sections, Len(sections))
<1> DEFINE q == query[t]
<1>1. TypeOK /\ CacheInv /\ q \in Key
  BY KeyFacts DEF IInv
<1>2. CASE ~hasEntry[t]
  <2>1. Recheck(t) = SearchResult(q)
    BY <1>2 DEF Recheck
  <2> QED BY <1>1, <2>1, SearchFacts
<1>3. CASE hasEntry[t]
  <2>1. Recheck(t) = [isAuthoritative |-> isSuccessful(q) \/ FailureUpToDate(q),
                      witnessTable |-> cache[q].table]
    BY <1>3 DEF Recheck
  <2>2. /\ Recheck(t).isAuthoritative => isSuccessful(q) \/ FailureUpToDate(q)
        /\ Recheck(t).witnessTable = cache[q].table
    <3> DEFINE b == isSuccessful(q) \/ FailureUpToDate(q)
    <3>1. CASE b
      <4>1. Recheck(t) = [isAuthoritative |-> TRUE, witnessTable |-> cache[q].table]
        <5>1. b = TRUE
          BY <3>1
        <5> QED BY <2>1, <5>1, Zenon
      <4> QED BY <3>1, <4>1
    <3>2. CASE ~b
      <4>1. Recheck(t) = [isAuthoritative |-> FALSE, witnessTable |-> cache[q].table]
        <5>1. b = FALSE
          BY <3>2
        <5> QED BY <2>1, <5>1, Zenon
      <4> QED BY <4>1
    <3> QED BY <3>1, <3>2
  <2>3. cache[q] \in Entries /\ EntryInv(q, cache[q], sections)
    BY <1>1 DEF TypeOK, CacheInv
  <2>4. cache[q].table \in Table
    BY <2>3 DEF Entries
  <2>5. Visits(q, q)
    BY ChainFacts DEF Visits
  <2>6. isSuccessful(q) => Supported(q, cache[q].table, sections)
    BY <1>1, <2>5, SuccessFacts
  <2>7. FailureUpToDate(q) => cache[q].table = Null /\ Barren(q, sections, Len(sections))
    BY <2>3 DEF FailureUpToDate, isNegative, EntryInv, Covers
  <2> QED BY <2>2, <2>4, <2>6, <2>7 DEF isSuccessful
<1> QED BY <1>2, <1>3

LEMMA LockIInv == ASSUME IInv, NEW t \in Thread, Lock(t) PROVE IInv'
<1> DEFINE q == query[t]
           found == Recheck(t)
<1>1. pc[t] = "lock" /\ lock = Null /\ UNCHANGED sections
  BY DEF Lock
<1>2. TypeOK /\ CacheInv /\ LocalType /\ ThreadInv(t) /\ AnswerInv(answer[t], sections)
  BY TypeOKLocal DEF IInv
<1>3. /\ q \in Type /\ q \in Key /\ registered[t] \in 0..Len(sections) /\ Len(sections) \in Nat
      /\ at[t] \in DOMAIN Chain[q] /\ t # Null
  <2>1. Len(sections) \in Nat
    BY <1>2 DEF TypeOK
  <2> QED BY <1>1, <2>1, CurrentTypeFacts, KeyFacts
<1>4. Barren(q, sections, Len(sections)) => Barren(q, sections, registered[t])
  BY <1>3, BarrenLess
<1>5. /\ StartSection(t) \in 1..(Len(sections) + 1)
      /\ Barren(q, sections, StartSection(t) - 1)
  <2>1. CASE isNegative(q)
    <3>1. cache[q].generation \in 0..Len(sections) /\ Barren(q, sections, cache[q].generation)
      BY <1>2, <1>3 DEF CacheInv, EntryInv, Covers
    <3>2. StartSection(t) = cache[q].generation + 1
      BY <2>1 DEF StartSection
    <3>3. StartSection(t) - 1 = cache[q].generation
      BY <3>1, <3>2
    <3>4. StartSection(t) \in 1..(Len(sections) + 1)
      BY <1>3, <3>1, <3>2
    <3> QED BY <3>1, <3>3, <3>4
  <2>2. CASE ~isNegative(q)
    <3>1. StartSection(t) = 1 /\ StartSection(t) - 1 = 0
      BY <2>2 DEF StartSection
    <3> QED BY <1>3, <3>1, BarrenNone
  <2> QED BY <2>1, <2>2
<1>6. CASE found.isAuthoritative /\ Return(t, found.witnessTable) /\ UNCHANGED <<cache, lock>>
  <2>1. /\ found.witnessTable \in Table
        /\ found.witnessTable # Null => Supported(q, found.witnessTable, sections)
        /\ found.witnessTable = Null => Barren(q, sections, registered[t])
    BY <1>3, <1>4, <1>6, RecheckFacts
  <2> QED BY <1>1, <1>6, <2>1, ReturnIInv
<1>7. CASE /\ StartSection(t) = Len(sections) + 1
           /\ cacheFailure(q) /\ Return(t, Null) /\ UNCHANGED lock
  <2>1. StartSection(t) - 1 = Len(sections)
    BY <1>3, <1>7
  <2>2. Barren(q, sections, Len(sections))
    BY <1>5, <2>1
  <2>3. CacheInv' /\ cache' \in [Key -> Entries]
    BY <1>1, <1>2, <1>3, <1>7, <2>2, CacheFailureKeeps
  <2>4. lock' # t /\ lock' \in {Null, t}
    BY <1>1, <1>3, <1>7
  <2>5. OthersStill(t) /\ LocalType' /\ ThreadInv(t)' /\ AnswerInv(answer[t], sections)'
    BY <1>1, <1>4, <1>7, <2>2, <2>4, NullIsTable, ReturnKeeps
  <2> QED BY <1>1, <2>3, <2>4, <2>5, StepKeeps
<1>8. CASE /\ lock' = t
           /\ scan' = [scan EXCEPT ![t] = <<StartSection(t), 1>>]
           /\ Goto(t, "scan")
           /\ UNCHANGED <<cache, query, at, hasEntry, loaded, answer, registered>>
  <2> DEFINE s == <<StartSection(t), 1>>
  <2>1. s[1] = StartSection(t) /\ s[2] = 1 /\ s \in Nat \X Nat
    BY <1>3, <1>5
  <2>2. pc' = [pc EXCEPT ![t] = "scan"] /\ scan' = [scan EXCEPT ![t] = s]
    BY <1>8 DEF Goto
  <2> HIDE DEF s
  <2>3. LocalType'
    BY <1>2, <1>8, <2>1, <2>2 DEF LocalType, Label
  <2>4. OthersStill(t)
    BY <1>2, <1>8, <2>2 DEF OthersStill, LocalType
  <2>5. pc'[t] = "scan" /\ scan'[t] = s
    BY <1>2, <2>2 DEF LocalType
  <2>6. Scanned(q, s, sections, cache)
    <3>1. ASSUME NEW i \in DOMAIN sections, NEW j \in DOMAIN sections[i], Before(i, j, s),
                 isRelatedType(q, sections[i][j]), getWitnessTable(sections[i][j]) # Null
          PROVE  FALSE
      <4>1. sections[i] \in Section /\ i \in 1..Len(sections)
        BY <1>2 DEF TypeOK
      <4>2. j \in Nat \ {0}
        BY <4>1, SectionFacts
      <4>3. i \in 1..(StartSection(t) - 1)
        BY <1>3, <1>5, <2>1, <3>1, <4>1, <4>2 DEF Before
      <4> QED BY <1>5, <3>1, <4>3 DEF Barren
    <3> QED BY <1>5, <2>1, <3>1 DEF Scanned
  <2>7. ThreadInv(t)'
    BY <1>1, <1>2, <1>8, <2>5, <2>6 DEF ThreadInv
  <2>8. AnswerInv(answer[t], sections)' /\ CacheInv' /\ cache' \in [Key -> Entries]
    BY <1>1, <1>2, <1>8 DEF CacheInv, TypeOK
  <2> QED BY <1>1, <1>8, <2>3, <2>4, <2>7, <2>8, StepKeeps
<1> QED BY <1>6, <1>7, <1>8 DEF Lock

LEMMA FinishScanIInv == ASSUME IInv, NEW t \in Thread, FinishScan(t) PROVE IInv'
<1> DEFINE q == query[t]
           found == SearchResult(q)
<1>1. pc[t] = "scan" /\ scan[t][1] > Len(sections) /\ lock' = Null /\ UNCHANGED sections
  BY DEF FinishScan
<1>2. TypeOK /\ CacheInv /\ LocalType /\ ThreadInv(t)
  BY TypeOKLocal DEF IInv
<1>3. /\ q \in Type /\ q \in Key /\ registered[t] \in 0..Len(sections) /\ Len(sections) \in Nat
      /\ t # Null /\ lock = t
  <2>1. Len(sections) \in Nat
    BY <1>2 DEF TypeOK
  <2> QED BY <1>1, <1>2, <2>1, CurrentTypeFacts, KeyFacts DEF ThreadInv
<1>4. Barren(q, sections, Len(sections)) => Barren(q, sections, registered[t])
  BY <1>3, BarrenLess
<1>5. lock \in {Null, t} /\ lock' \in {Null, t} /\ lock' # t
  BY <1>1, <1>3
<1>6. CASE found.isAuthoritative /\ Return(t, found.witnessTable) /\ UNCHANGED cache
  <2>1. /\ found.witnessTable \in Table
        /\ found.witnessTable # Null => Supported(q, found.witnessTable, sections)
        /\ found.witnessTable = Null => Barren(q, sections, registered[t])
    BY <1>2, <1>3, <1>4, <1>6, SearchFacts
  <2>2. OthersStill(t) /\ LocalType' /\ ThreadInv(t)' /\ AnswerInv(answer[t], sections)'
    BY <1>1, <1>5, <1>6, <2>1, ReturnKeeps
  <2>3. CacheInv' /\ cache' \in [Key -> Entries]
    BY <1>1, <1>2, <1>6 DEF CacheInv, TypeOK
  <2> QED BY <1>1, <1>5, <2>2, <2>3, StepKeeps
<1>7. CASE ~found.isAuthoritative /\ cacheFailure(q) /\ Return(t, Null)
  <2>1. Barren(q, sections, Len(sections))
    <3>1. Scanned(q, scan[t], sections, cache)
      BY <1>1, <1>2 DEF ThreadInv
    <3> QED BY <1>1, <1>2, <1>3, <1>7, <3>1, ScanFindsAll
  <2>2. CacheInv' /\ cache' \in [Key -> Entries]
    BY <1>1, <1>2, <1>3, <1>7, <2>1, CacheFailureKeeps
  <2>3. OthersStill(t) /\ LocalType' /\ ThreadInv(t)' /\ AnswerInv(answer[t], sections)'
    BY <1>1, <1>4, <1>5, <1>7, <2>1, NullIsTable, ReturnKeeps
  <2> QED BY <1>1, <1>5, <2>2, <2>3, StepKeeps
<1> QED BY <1>6, <1>7 DEF FinishScan

\* What is cached of a record is justified by it, catches its conformance, and
\* lets go of none that was caught before.
LEMMA CacheRecordKeeps ==
  ASSUME TypeOK, CacheInv, NEW q \in Type, NEW i \in DOMAIN sections, NEW j \in DOMAIN sections[i],
         isRelatedType(q, sections[i][j]), CacheRecord(q, sections[i][j]), UNCHANGED sections
  PROVE  /\ CacheInv' /\ cache' \in [Key -> Entries]
         /\ getWitnessTable(sections[i][j]) # Null => Caught(q, sections[i][j], cache')
         /\ \A k \in DOMAIN sections : \A l \in DOMAIN sections[k] :
              /\ isRelatedType(q, sections[k][l]) /\ getWitnessTable(sections[k][l]) # Null
              /\ Caught(q, sections[k][l], cache)
              => Caught(q, sections[k][l], cache')
<1> DEFINE r == sections[i][j]
           table == getWitnessTable(r)
<1>1. /\ sections[i] \in Section /\ r.of \in {"class", "nominal"} /\ r.kind \in Kind
      /\ r.table \in Table /\ table \in Table
      /\ Len(sections) \in Nat /\ DOMAIN sections = 1..Len(sections)
  <2>1. sections[i] \in Section /\ Len(sections) \in Nat /\ DOMAIN sections = 1..Len(sections)
    BY DEF TypeOK
  <2> QED BY <2>1, SectionFacts
<1>2. q \in Key /\ Descriptor[q] \in Key /\ Null \in Key /\ Null \notin Type /\ Descriptor[q] \notin Type
  BY KeyFacts
<1>3. r.of = "class" => r.ref \in Type /\ r.ref \in Key
  <2> SUFFICES ASSUME r.of = "class" PROVE r.ref \in Type
    BY KeyFacts
  <2>1. PICK k \in DOMAIN Chain[q] : Chain[q][k] = r.ref
    BY DEF isRelatedType
  <2> QED BY <2>1, ChainFacts
\* A conformance that was caught stays caught while the tables in the cache do.
<1>4. ASSUME \A k \in Key : cache[k].table # Null => cache'[k].table # Null,
             NEW k \in DOMAIN sections, NEW l \in DOMAIN sections[k],
             isRelatedType(q, sections[k][l]), Caught(q, sections[k][l], cache)
      PROVE  Caught(q, sections[k][l], cache')
  <2>1. CASE cache[q].table # Null \/ cache[Descriptor[q]].table # Null
    BY <1>2, <1>4, <2>1 DEF Caught
  <2>2. CASE sections[k][l].of = "class" /\ cache[sections[k][l].ref].table # Null
    <3>1. PICK n \in DOMAIN Chain[q] : Chain[q][n] = sections[k][l].ref
      BY <1>4, <2>2 DEF isRelatedType
    <3>2. sections[k][l].ref \in Key
      BY <3>1, ChainFacts, KeyFacts
    <3> QED BY <1>4, <2>2, <3>2 DEF Caught
  <2> QED BY <1>4, <2>1, <2>2 DEF Caught
\* If the record denies the conformance there was none to catch.
<1>5. ASSUME Denies(r), NEW k \in DOMAIN sections, NEW l \in DOMAIN sections[k],
             isRelatedType(q, sections[k][l])
      PROVE  getWitnessTable(sections[k][l]) = Null
  <2>1. sections[k] \in Section
    BY DEF TypeOK
  <2> QED BY <1>1, <1>5, <2>1, RecordsAssumption
\* A success that is cached for a key of the type.
<1>6. ASSUME NEW key \in Key, NEW table2 \in Table, cacheSuccess(key, table2), table2 = table,
             table # Null \/ Denies(r),
             table # Null => /\ key \in {q, Descriptor[q]} \/ (r.of = "class" /\ key = r.ref)
                             /\ \A type \in Type : Visits(type, key) => isRelatedType(type, r)
      PROVE  /\ CacheInv' /\ cache' \in [Key -> Entries]
             /\ table # Null => Caught(q, r, cache')
             /\ \A k \in DOMAIN sections : \A l \in DOMAIN sections[k] :
                  /\ isRelatedType(q, sections[k][l]) /\ getWitnessTable(sections[k][l]) # Null
                  /\ Caught(q, sections[k][l], cache)
                  => Caught(q, sections[k][l], cache')
  <2>1. Justified(key, table2, sections)
    BY <1>1, <1>6 DEF Justified, Supported
  <2>2. /\ CacheInv' /\ cache' \in [Key -> Entries] /\ cache'[key].table = table
        /\ \A k \in Key \ {key} : cache'[k] = cache[k]
    BY <1>6, <2>1, CacheSuccessKeeps
  <2>3. table # Null => Caught(q, r, cache')
    BY <1>6, <2>2 DEF Caught
  <2>4. CASE table # Null
    <3>1. \A k \in Key : cache[k].table # Null => cache'[k].table # Null
      BY <2>2, <2>4
    <3> QED BY <1>4, <2>2, <2>3, <3>1
  <2>5. CASE Denies(r)
    BY <1>5, <2>2, <2>3, <2>5
  <2> QED BY <1>6, <2>4, <2>5
\* A failure that is cached.
<1>7. ASSUME NEW key \in Key, cacheFailure(key), table = Null,
             key \in Type => Barren(key, sections, Len(sections))
      PROVE  /\ CacheInv' /\ cache' \in [Key -> Entries]
             /\ table # Null => Caught(q, r, cache')
             /\ \A k \in DOMAIN sections : \A l \in DOMAIN sections[k] :
                  /\ isRelatedType(q, sections[k][l]) /\ getWitnessTable(sections[k][l]) # Null
                  /\ Caught(q, sections[k][l], cache)
                  => Caught(q, sections[k][l], cache')
  <2>1. /\ CacheInv' /\ cache' \in [Key -> Entries]
        /\ \A k \in Key : cache[k].table # Null => cache'[k].table # Null
    BY <1>7, CacheFailureKeeps
  <2> QED BY <1>4, <1>7, <2>1
<1>8. CASE r.of = "class" /\ table # Null /\ cacheSuccess(r.ref, table)
  <2>1. ASSUME NEW type \in Type, Visits(type, r.ref) PROVE isRelatedType(type, r)
    <3>1. PICK k \in DOMAIN Chain[type] : r.ref = Chain[type][k] \/ r.ref = Descriptor[Chain[type][k]]
      BY <2>1 DEF Visits
    <3>2. Chain[type][k] \in Type
      BY ChainFacts
    <3>3. r.ref = Chain[type][k]
      BY <1>3, <1>8, <3>1, <3>2, KeyFacts
    <3> QED BY <1>8, <3>3 DEF isRelatedType
  <2> QED BY <1>1, <1>3, <1>6, <1>8, <2>1
<1>9. CASE r.of = "class" /\ table = Null /\ cacheFailure(r.ref)
  <2>1. Denies(r)
    BY <1>9 DEF Denies
  <2>2. Barren(r.ref, sections, Len(sections))
    <3> SUFFICES ASSUME NEW k \in 1..Len(sections), NEW l \in DOMAIN sections[k],
                        isRelatedType(r.ref, sections[k][l])
                 PROVE  getWitnessTable(sections[k][l]) = Null
      BY DEF Barren
    <3>1. PICK n \in DOMAIN Chain[q] : Chain[q][n] = r.ref
      BY <1>9 DEF isRelatedType
    <3>2. isRelatedType(q, sections[k][l])
      BY <3>1, RelatedUp
    <3> QED BY <1>1, <1>5, <2>1, <3>2
  <2> QED BY <1>3, <1>7, <1>9, <2>2
<1>10. CASE r.of = "nominal" /\ r.kind = "WitnessTable" /\ cacheSuccess(Descriptor[q], r.table)
  <2>1. table = r.table
    BY <1>10 DEF getWitnessTable
  <2>2. table # Null \/ Denies(r)
    BY <1>10 DEF Denies
  <2>3. ASSUME NEW type \in Type, Visits(type, Descriptor[q]) PROVE isRelatedType(type, r)
    <3>1. PICK k \in DOMAIN Chain[type] :
            Descriptor[q] = Chain[type][k] \/ Descriptor[q] = Descriptor[Chain[type][k]]
      BY <2>3 DEF Visits
    <3>2. Chain[type][k] \in Type
      BY ChainFacts
    <3>3. Descriptor[q] = Descriptor[Chain[type][k]]
      BY <1>2, <3>1, <3>2
    <3>4. isRelatedType(Chain[type][k], r)
      BY <1>10, <3>2, <3>3, RelatedAcross
    <3> QED BY <3>4, RelatedUp
  <2> QED BY <1>1, <1>2, <1>6, <1>10, <2>1, <2>2, <2>3
<1>11. CASE /\ r.of = "nominal" /\ r.kind \in {"WitnessTableAccessor", "ConditionalWitnessTableAccessor"}
            /\ cacheSuccess(q, table)
  <2>1. table # Null \/ Denies(r)
    BY <1>11 DEF Denies
  <2>2. ASSUME NEW type \in Type, Visits(type, q) PROVE isRelatedType(type, r)
    <3>1. PICK k \in DOMAIN Chain[type] : q = Chain[type][k] \/ q = Descriptor[Chain[type][k]]
      BY <2>2 DEF Visits
    <3>2. Chain[type][k] \in Type
      BY ChainFacts
    <3>3. q = Chain[type][k]
      BY <3>1, <3>2, KeyFacts
    <3> QED BY <3>3, RelatedUp
  <2> QED BY <1>1, <1>2, <1>6, <1>11, <2>1, <2>2
<1>12. CASE r.of = "nominal" /\ r.kind = "Future" /\ cacheFailure(Null)
  <2>1. table = Null
    BY <1>12 DEF getWitnessTable
  <2> QED BY <1>2, <1>7, <1>12, <2>1
<1> QED BY <1>8, <1>9, <1>10, <1>11, <1>12 DEF CacheRecord

LEMMA ScanRecordIInv == ASSUME IInv, NEW t \in Thread, ScanRecord(t) PROVE IInv'
<1> DEFINE q == query[t]
           i == scan[t][1]
           p == scan[t][2]
<1>1. /\ pc[t] = "scan" /\ i <= Len(sections)
      /\ UNCHANGED <<sections, lock, pc, query, at, hasEntry, loaded, answer, registered>>
  BY DEF ScanRecord
<1>2. TypeOK /\ CacheInv /\ LocalType /\ ThreadInv(t) /\ AnswerInv(answer[t], sections)
  BY TypeOKLocal DEF IInv
<1>3. q \in Type /\ lock = t
  BY <1>1, <1>2, CurrentTypeFacts DEF ThreadInv
<1>4. Scanned(q, scan[t], sections, cache) /\ scan[t] \in Nat \X Nat
  BY <1>1, <1>2 DEF ThreadInv, LocalType
<1>5. /\ i \in Nat /\ p \in Nat /\ scan[t] = <<i, p>> /\ Len(sections) \in Nat
      /\ i \in 1..Len(sections) /\ i \in DOMAIN sections /\ sections[i] \in Section
  <2>1. i \in Nat /\ p \in Nat /\ scan[t] = <<i, p>>
    BY <1>4
  <2>2. i \in 1..(Len(sections) + 1)
    BY <1>4 DEF Scanned
  <2>3. Len(sections) \in Nat /\ DOMAIN sections = 1..Len(sections) /\ sections \in Seq(Section)
    BY <1>2 DEF TypeOK
  <2>4. i \in 1..Len(sections)
    BY <1>1, <2>2, <2>3
  <2> QED BY <2>1, <2>3, <2>4
<1>6. Len(sections[i]) \in Nat /\ DOMAIN sections[i] = 1..Len(sections[i])
  BY <1>5, SectionFacts
<1>7. ASSUME NEW s \in Nat \X Nat, scan' = [scan EXCEPT ![t] = s],
             CacheInv', cache' \in [Key -> Entries], Scanned(q, s, sections, cache')
      PROVE  IInv'
  <2>1. scan'[t] = s /\ \A u \in Thread \ {t} : scan'[u] = scan[u]
    BY <1>2, <1>7 DEF LocalType
  <2>2. LocalType'
    BY <1>1, <1>2, <1>7 DEF LocalType
  <2>3. OthersStill(t)
    BY <1>1, <2>1 DEF OthersStill
  <2>4. ThreadInv(t)'
    BY <1>1, <1>2, <1>7, <2>1 DEF ThreadInv
  <2>5. AnswerInv(answer[t], sections)'
    BY <1>1, <1>2
  <2> QED BY <1>1, <1>3, <1>7, <2>2, <2>3, <2>4, <2>5, StepKeeps
<1> HIDE DEF q, i, p
<1>8. CASE /\ p <= Len(sections[i]) /\ scan' = [scan EXCEPT ![t][2] = @ + 1]
           /\ \/ Applies(t, sections[i][p]) /\ CacheRecord(q, sections[i][p])
              \/ ~Applies(t, sections[i][p]) /\ UNCHANGED cache
  <2> DEFINE s == <<i, p + 1>>
  <2>1. p \in DOMAIN sections[i]
    <3>1. p # 0
      BY <1>4 DEF Scanned, p
    <3> QED BY <1>5, <1>6, <1>8, <3>1
  <2>2. s \in Nat \X Nat /\ s[1] = i /\ s[2] = p + 1
    BY <1>5
  <2>3. scan' = [scan EXCEPT ![t] = s]
    <3>1. [scan[t] EXCEPT ![2] = scan[t][2] + 1] = <<i, p + 1>>
      BY <1>5
    <3> QED BY <1>2, <1>8, <3>1 DEF LocalType
  <2> HIDE DEF s
  <2>4. ASSUME NEW k \in DOMAIN sections, NEW l \in DOMAIN sections[k], Before(k, l, s)
        PROVE  Before(k, l, scan[t]) \/ (k = i /\ l = p)
    <3>1. k \in Nat /\ l \in Nat
      <4>1. sections[k] \in Section /\ DOMAIN sections = 1..Len(sections)
        BY <1>2 DEF TypeOK
      <4> QED BY <1>5, <4>1, SectionFacts
    <3> QED BY <1>5, <2>2, <2>4, <3>1 DEF Before
  <2>5. s[1] \in 1..(Len(sections) + 1) /\ s[2] # 0
    BY <1>5, <2>2
  <2>6. CASE Applies(t, sections[i][p]) /\ CacheRecord(q, sections[i][p])
    <3>1. isRelatedType(q, sections[i][p])
      BY <2>6 DEF Applies, q
    <3>2. /\ CacheInv' /\ cache' \in [Key -> Entries]
          /\ getWitnessTable(sections[i][p]) # Null => Caught(q, sections[i][p], cache')
          /\ \A k \in DOMAIN sections : \A l \in DOMAIN sections[k] :
              /\ isRelatedType(q, sections[k][l]) /\ getWitnessTable(sections[k][l]) # Null
              /\ Caught(q, sections[k][l], cache)
              => Caught(q, sections[k][l], cache')
      BY <1>1, <1>2, <1>3, <1>5, <2>1, <2>6, <3>1, CacheRecordKeeps
    <3>3. ASSUME NEW k \in DOMAIN sections, NEW l \in DOMAIN sections[k], Before(k, l, s),
                 isRelatedType(q, sections[k][l]), getWitnessTable(sections[k][l]) # Null
          PROVE  Caught(q, sections[k][l], cache')
      <4>1. CASE k = i /\ l = p
        BY <3>2, <3>3, <4>1
      <4>2. CASE Before(k, l, scan[t])
        <5>1. Caught(q, sections[k][l], cache)
          BY <1>4, <3>3, <4>2 DEF Scanned
        <5> QED BY <3>2, <3>3, <5>1
      <4> QED BY <2>4, <3>3, <4>1, <4>2
    <3>4. Scanned(q, s, sections, cache')
      BY <2>5, <3>3 DEF Scanned
    <3> QED BY <1>7, <2>2, <2>3, <3>2, <3>4
  <2>7. CASE ~Applies(t, sections[i][p]) /\ UNCHANGED cache
    <3>1. ~isRelatedType(q, sections[i][p])
      BY <2>7 DEF Applies, q
    <3>2. ASSUME NEW k \in DOMAIN sections, NEW l \in DOMAIN sections[k], Before(k, l, s),
                 isRelatedType(q, sections[k][l]), getWitnessTable(sections[k][l]) # Null
          PROVE  Caught(q, sections[k][l], cache)
      <4>1. Before(k, l, scan[t])
        BY <2>4, <3>1, <3>2
      <4> QED BY <1>4, <3>2, <4>1 DEF Scanned
    <3>3. Scanned(q, s, sections, cache')
      BY <2>5, <2>7, <3>2 DEF Scanned
    <3>4. CacheInv' /\ cache' \in [Key -> Entries]
      BY <1>1, <1>2, <2>7 DEF CacheInv, TypeOK
    <3> QED BY <1>7, <2>2, <2>3, <3>3, <3>4
  <2> QED BY <1>8, <2>6, <2>7
<1>9. CASE p > Len(sections[i]) /\ scan' = [scan EXCEPT ![t] = <<@[1] + 1, 1>>] /\ UNCHANGED cache
  <2> DEFINE s == <<i + 1, 1>>
  <2>1. s \in Nat \X Nat /\ s[1] = i + 1 /\ s[2] = 1 /\ scan' = [scan EXCEPT ![t] = s]
    BY <1>2, <1>5, <1>9 DEF i, LocalType
  <2> HIDE DEF s
  <2>2. ASSUME NEW k \in DOMAIN sections, NEW l \in DOMAIN sections[k], Before(k, l, s)
        PROVE  Before(k, l, scan[t])
    <3>1. k \in Nat /\ l \in Nat \ {0} /\ (k = i => l <= Len(sections[i]))
      <4>1. sections[k] \in Section /\ DOMAIN sections = 1..Len(sections)
        BY <1>2 DEF TypeOK
      <4> QED BY <1>5, <1>6, <4>1, SectionFacts
    <3> QED BY <1>5, <1>6, <1>9, <2>1, <2>2, <3>1 DEF Before
  <2>3. s[1] \in 1..(Len(sections) + 1) /\ s[2] # 0
    BY <1>5, <2>1
  <2>4. Scanned(q, s, sections, cache')
    BY <1>4, <1>9, <2>2, <2>3 DEF Scanned
  <2>5. CacheInv' /\ cache' \in [Key -> Entries]
    BY <1>1, <1>2, <1>9 DEF CacheInv, TypeOK
  <2> QED BY <1>7, <2>1, <2>4, <2>5
<1> QED BY <1>8, <1>9 DEF ScanRecord, q, i, p

LEMMA NextIInv == IInv /\ [Next]_vars => IInv'
<1> SUFFICES ASSUME IInv, [Next]_vars PROVE IInv'
  OBVIOUS
<1>1. ASSUME NEW t \in Thread,
             \/ \E type \in Type : Call(t, type)
             \/ Register(t) \/ FindType(t) \/ LoadOperand(t) \/ Compare(t) \/ FindDescriptor(t)
             \/ Lock(t) \/ ScanRecord(t) \/ FinishScan(t)
      PROVE  IInv'
  BY <1>1, CallIInv, RegisterIInv, FindTypeIInv, LoadOperandIInv, CompareIInv, FindDescriptorIInv,
     LockIInv, ScanRecordIInv, FinishScanIInv
<1>2. CASE UNCHANGED vars
  BY <1>2 DEF vars, IInv, TypeOK, CacheInv, ThreadInv, CurrentType
<1> QED BY <1>1, <1>2 DEF Next

\* The inductive invariant: whatever a thread has read of the cache, locked or
\* not, no generation covers a section with a conformance.
THEOREM Invariance == Spec => []IInv
BY InitIInv, NextIInv, PTL DEF Spec

\* swift_conformsToProtocol answers with the witness table of a registered
\* record that applies to the type, whichever entry of the cache it took it
\* from and whoever put it there.
THEOREM AnswersAreSound == Spec => []AnswersSound
<1>1. IInv => AnswersSound
  <2> SUFFICES ASSUME IInv, NEW t \in Thread, answer[t] # Null, answer[t].table # Null
               PROVE  answer[t].table \in Witnesses(answer[t].type, Len(sections))
    BY DEF AnswersSound
  <2>1. Supported(answer[t].type, answer[t].table, sections) /\ sections \in Seq(Section)
    BY DEF IInv, AnswerInv, TypeOK
  <2> QED BY <2>1, SupportedWitnesses
<1> QED BY <1>1, Invariance, PTL

\* A null answer of swift_conformsToProtocol overlooks no conformance that was
\* registered before the call, although it may rest on a generation and on a
\* number of sections that were read without SectionsToScanLock.
THEOREM AnswersAreComplete == Spec => []AnswersComplete
<1>1. IInv => AnswersComplete
  <2> SUFFICES ASSUME IInv, NEW t \in Thread, answer[t] # Null, answer[t].table = Null
               PROVE  Witnesses(answer[t].type, answer[t].seen) = {}
    BY DEF AnswersComplete
  <2>1. Barren(answer[t].type, sections, answer[t].seen)
    BY DEF IInv, AnswerInv
  <2> QED BY <2>1, BarrenWitnesses
<1> QED BY <1>1, Invariance, PTL

\* The sections that a cached failure lets the next scan skip hold nothing for
\* its type.
THEOREM FailuresAreCovered == Spec => []FailuresCover
<1>1. IInv => FailuresCover
  <2> SUFFICES ASSUME IInv, NEW type \in Type
               PROVE  Witnesses(type, cache[type].generation) = {}
    BY DEF FailuresCover
  <2>1. Barren(type, sections, cache[type].generation)
    BY KeyFacts DEF IInv, CacheInv, EntryInv, Covers
  <2> QED BY <2>1, BarrenWitnesses
<1> QED BY <1>1, Invariance, PTL
==============================================================================
