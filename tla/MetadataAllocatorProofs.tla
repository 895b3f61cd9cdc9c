----------------------- MODULE MetadataAllocatorProofs -----------------------
(***************************************************************************)
(* Proofs about MetadataAllocator: no memory is handed out twice, and no   *)
(* page or large block is lost.                                            *)
(*                                                                         *)
(* A thread decides on a state of the pool that may be stale, and the      *)
(* compare-exchange makes the decision count only if the pool is equal to  *)
(* that state again, by however many steps of other threads.  So nothing   *)
(* is said of the pool while a thread is between its load and its          *)
(* compare-exchange: the invariant relates what the thread decided to the  *)
(* state it read, and everything else to the pool as it is.                *)
(***************************************************************************)
EXTENDS MetadataAllocator, TLAPS

\* A thread that has taken a block back from the program and not returned.
Freeing(t) == pc[t] \in {"deallocate", "giveBack"}

\* A block of the pool lies in it, one that is too large for it is malloc's.
LiveInv ==
  \A b \in live :
    /\ b.size > 0
    /\ b.size <= MaxPoolAllocationSize => Words(b) \subseteq inPool
    /\ b.size > MaxPoolAllocationSize => b \in mallocked

MallocInv ==
  /\ \A b \in mallocked : b.size > 0 /\ Words(b) \subseteq Address /\ Words(b) \cap inPool = {}
  /\ \A b, c \in mallocked : b # c => Disjoint(b, c)

\* The blocks on their way back are in nobody else's hands.
FreeingInv ==
  /\ \A t \in Thread : Freeing(t) =>
       /\ freeing[t].size > 0 /\ Words(freeing[t]) \subseteq inPool
       /\ \A b \in live : Disjoint(b, freeing[t])
  /\ \A t, u \in Thread : t # u /\ Freeing(t) /\ Freeing(u) => Disjoint(freeing[t], freeing[u])

\* What a thread has decided on the state it read.
ThreadInv(t) ==
  /\ pc[t] \in {"try", "cas"} => size[t] > 0 /\ size[t] <= MaxPoolAllocationSize
  /\ pc[t] = "cas" /\ page[t] = NoPage => Fits(t)
  /\ pc[t] = "giveBack" => freeing[t].at + freeing[t].size = curState[t].begin
  /\ page[t] # NoPage =>
       pc[t] = "cas" /\ Block(page[t], PageSize) \in mallocked /\ Block(page[t], PageSize) \notin live

PagesInv == \A t, u \in Thread : t # u /\ page[t] # NoPage => page[t] # page[u]

\* Holds initially and is kept by every step.
IInv ==
  /\ TypeOK
  /\ inPool \subseteq Address
  /\ LiveInv
  /\ MallocInv
  /\ FreeingInv
  /\ PagesInv
  /\ \A t \in Thread : ThreadInv(t)
  /\ NoOverlap
  /\ FreeIsFree
  /\ NoLostPage

-----------------------------------------------------------------------------
LEMMA PoolSizes ==
  MaxPoolAllocationSize \in Nat /\ MaxPoolAllocationSize < PageSize /\ PageSize \in Nat
BY MetadataAllocatorAssumption DEF MaxPoolAllocationSize

\* Two intervals that are not empty have no word in common, or one ends
\* before the other begins.
LEMMA DisjointWords ==
  ASSUME NEW b \in [at : Int, size : Nat], NEW c \in [at : Int, size : Nat],
         b.size > 0, c.size > 0
  PROVE  Words(b) \cap Words(c) = {} <=> Disjoint(b, c)
<1>1. CASE Disjoint(b, c)
  BY <1>1 DEF Disjoint, Words
<1>2. CASE ~Disjoint(b, c)
  <2>1. CASE b.at <= c.at
    <3>1. c.at \in Words(b) /\ c.at \in Words(c)
      BY <1>2, <2>1 DEF Disjoint, Words
    <3> QED BY <1>2, <3>1
  <2>2. CASE ~(b.at <= c.at)
    <3>1. b.at \in Words(b) /\ b.at \in Words(c)
      BY <1>2, <2>2 DEF Disjoint, Words
    <3> QED BY <1>2, <3>1
  <2> QED BY <2>1, <2>2
<1> QED BY <1>1, <1>2

LEMMA DisjointSymmetric ==
  ASSUME NEW b, NEW c, Disjoint(b, c)
  PROVE  Disjoint(c, b)
BY DEF Disjoint

\* A block malloc gives differs from the ones it has given.
LEMMA FreshIsNew ==
  ASSUME IInv, NEW a \in Address, NEW n \in Nat, n > 0, Fresh(Block(a, n))
  PROVE  /\ Block(a, n) \in Blocks
         /\ Block(a, n) \notin mallocked
         /\ \A b \in live : Disjoint(b, Block(a, n))
         /\ Block(a, n) \notin live
<1> DEFINE c == Block(a, n)
<1>1. c \in Blocks /\ c.size > 0 /\ c.at = a /\ c.size = n
  BY DEF Block, Blocks
<1>2. a \in Int
  BY DEF Address
<1>3. ~Disjoint(c, c)
  BY <1>1, <1>2 DEF Disjoint
<1>4. c \notin mallocked
  BY <1>3 DEF Fresh
<1>5. ASSUME NEW b \in live PROVE Disjoint(b, c)
  <2>1. b \in Blocks /\ b.size > 0
    BY DEF IInv, TypeOK, LiveInv
  <2>2. CASE b.size > MaxPoolAllocationSize
    BY <2>2, DisjointSymmetric DEF IInv, LiveInv, Fresh
  <2>3. CASE ~(b.size > MaxPoolAllocationSize)
    <3>1. Words(b) \subseteq inPool
      BY <2>1, <2>3, PoolSizes DEF IInv, LiveInv, Blocks
    <3>2. Words(b) \cap Words(c) = {}
      BY <3>1 DEF Fresh
    <3> QED BY <1>1, <2>1, <3>2, DisjointWords DEF Blocks, Address
  <2> QED BY <2>2, <2>3
<1> QED BY <1>1, <1>3, <1>4, <1>5

-----------------------------------------------------------------------------
LEMMA InitInv ==
  ASSUME Init
  PROVE  IInv
<1> USE MetadataAllocatorAssumption, PoolSizes DEF Init
<1>1. TypeOK
  BY DEF TypeOK, PoolRange, Range, Label, Address, NoPage, Blocks, Block
<1>2. inPool \subseteq Address
  BY DEF Address
<1>3. LiveInv /\ MallocInv /\ NoOverlap
  BY DEF LiveInv, MallocInv, NoOverlap
<1>4. FreeingInv /\ PagesInv /\ \A t \in Thread : ThreadInv(t)
  BY DEF FreeingInv, Freeing, PagesInv, ThreadInv
<1>5. FreeIsFree
  BY DEF FreeIsFree, FreeWords, Range
<1>6. NoLostPage
  BY DEF NoLostPage
<1> QED BY <1>1, <1>2, <1>3, <1>4, <1>5, <1>6 DEF IInv

\* Memory stays as it is, and so does every block in somebody's hands.
LEMMA MemoryFrame ==
  ASSUME IInv, UNCHANGED <<pool, inPool, live, mallocked>>
  PROVE  /\ LiveInv' /\ MallocInv' /\ NoOverlap'
         /\ (inPool \subseteq Address)'
         /\ FreeWords' = FreeWords
         /\ \A b : Words(b)' = Words(b)
BY DEF IInv, LiveInv, MallocInv, NoOverlap, FreeWords, Words, Disjoint

LEMMA AllocateLargeInv ==
  ASSUME IInv, NEW t \in Thread, NEW n \in Size, AllocateLarge(t, n)
  PROVE  IInv'
<1>1. PICK a \in Address :
         /\ Fresh(Block(a, n))
         /\ mallocked' = mallocked \cup {Block(a, n)}
         /\ live' = live \cup {Block(a, n)}
  BY DEF AllocateLarge
<1> DEFINE c == Block(a, n)
<1>2. n \in Nat /\ n > 0 /\ n > MaxPoolAllocationSize
  BY MetadataAllocatorAssumption DEF AllocateLarge
<1>3. c \in Blocks /\ c \notin mallocked /\ c \notin live /\ \A b \in live : Disjoint(b, c)
  BY <1>1, <1>2, FreshIsNew
<1>4. c.at = a /\ c.size = n /\ Words(c) \cap inPool = {} /\ Words(c) \subseteq Address
  BY <1>1 DEF Block, Fresh
<1>5. \A b \in mallocked : Disjoint(c, b) /\ Disjoint(b, c)
  BY <1>1, DisjointSymmetric DEF Fresh
<1>6. UNCHANGED <<pool, pc, size, curState, page, freeing, inPool>>
  BY DEF AllocateLarge
<1>6a. mallocked' = mallocked \cup {c} /\ live' = live \cup {c}
  BY <1>1
<1> HIDE DEF c
<1>7. TypeOK'
  BY <1>6a, <1>3, <1>6 DEF IInv, TypeOK
<1>8. LiveInv'
  BY PoolSizes, <1>6a, <1>2, <1>4, <1>6 DEF IInv, LiveInv
<1>9. MallocInv'
  BY <1>6a, <1>2, <1>4, <1>5, <1>6 DEF IInv, MallocInv
<1>10. NoOverlap'
  BY <1>6a, <1>3, DisjointSymmetric DEF IInv, NoOverlap
<1>11. FreeingInv'
  <2>1. ASSUME NEW u \in Thread, Freeing(u) PROVE Disjoint(c, freeing[u])
    <3>1. freeing[u] \in Blocks /\ freeing[u].size > 0 /\ Words(freeing[u]) \subseteq inPool
      BY <2>1 DEF IInv, TypeOK, FreeingInv
    <3>2. Words(c) \cap Words(freeing[u]) = {}
      BY <1>4, <3>1
    <3> QED BY <1>2, <1>3, <1>4, <3>1, <3>2, DisjointWords DEF Blocks, Address
  <2> QED BY <1>6a, <1>6, <2>1 DEF IInv, FreeingInv, Freeing
<1>12. FreeIsFree'
  <2>1. FreeWords \subseteq inPool
    BY DEF IInv, FreeIsFree
  <2>2. Words(c) \cap FreeWords = {}
    BY <1>4, <2>1
  <2> QED BY <1>6a, <1>6, <2>1, <2>2 DEF IInv, FreeIsFree, FreeWords
<1>13. PagesInv'
  BY <1>6 DEF IInv, PagesInv
<1>14. \A u \in Thread : ThreadInv(u)'
  BY <1>6a, <1>3, <1>6 DEF IInv, ThreadInv, Fits
<1>15. NoLostPage'
  BY <1>6a, <1>2, <1>4, <1>6 DEF IInv, NoLostPage
<1> QED BY <1>6, <1>7, <1>8, <1>9, <1>10, <1>11, <1>12, <1>13, <1>14, <1>15 DEF IInv

LEMMA AllocateInv ==
  ASSUME IInv, NEW t \in Thread, NEW n \in Size, Allocate(t, n)
  PROVE  IInv'
<1>1. UNCHANGED <<pool, page, freeing, inPool, live, mallocked>>
  BY DEF Allocate
<1>2. n \in Nat /\ n > 0 /\ n <= MaxPoolAllocationSize
  BY MetadataAllocatorAssumption DEF Allocate
<1>3. TypeOK'
  BY <1>2 DEF Allocate, Goto, IInv, TypeOK, Label
<1>4. /\ pc[t] = "idle" /\ pc'[t] = "try" /\ size'[t] = n
      /\ \A u \in Thread \ {t} : pc'[u] = pc[u] /\ size'[u] = size[u] /\ curState'[u] = curState[u]
  BY DEF Allocate, Goto, IInv, TypeOK
<1>5. \A u \in Thread : Freeing(u)' <=> Freeing(u)
  BY <1>4 DEF Freeing
<1>6. FreeingInv'
  BY <1>1, <1>5, MemoryFrame DEF IInv, FreeingInv
<1>7. FreeIsFree'
  BY <1>1, <1>5, MemoryFrame DEF IInv, FreeIsFree, Freeing
<1>8. PagesInv' /\ NoLostPage'
  BY <1>1 DEF IInv, PagesInv, NoLostPage
<1>9. ASSUME NEW u \in Thread PROVE ThreadInv(u)'
  BY <1>1, <1>2, <1>4 DEF IInv, ThreadInv, Fits
<1> QED BY <1>1, <1>3, <1>6, <1>7, <1>8, <1>9, MemoryFrame DEF IInv

LEMMA TryPageInv ==
  ASSUME IInv, NEW t \in Thread, TryPage(t)
  PROVE  IInv'
<1>1. UNCHANGED <<pool, size, curState, freeing, inPool, live>>
  BY DEF TryPage
<1>2. /\ pc[t] = "try" /\ pc'[t] = "cas" /\ page[t] = NoPage
      /\ \A u \in Thread \ {t} : pc'[u] = pc[u]
  BY DEF TryPage, Goto, IInv, TypeOK, ThreadInv
<1>3. \A u \in Thread : Freeing(u)' <=> Freeing(u)
  BY <1>2 DEF Freeing
<1>4. FreeingInv'
  BY <1>1, <1>3 DEF IInv, FreeingInv
<1>5. FreeIsFree'
  BY <1>1, <1>3 DEF IInv, FreeIsFree, Freeing, FreeWords
<1>6. NoOverlap'
  BY <1>1 DEF IInv, NoOverlap
<1>7. CASE Fits(t) /\ UNCHANGED <<page, mallocked>>
  <2>1. TypeOK'
    BY <1>1, <1>7 DEF TryPage, Goto, IInv, TypeOK, Label
  <2>2. LiveInv' /\ MallocInv' /\ PagesInv' /\ NoLostPage'
    BY <1>1, <1>7 DEF IInv, LiveInv, MallocInv, PagesInv, NoLostPage
  <2>3. ASSUME NEW u \in Thread PROVE ThreadInv(u)'
    BY <1>1, <1>2, <1>7 DEF IInv, ThreadInv, Fits
  <2> QED BY <1>1, <1>4, <1>5, <1>6, <2>1, <2>2, <2>3 DEF IInv
<1>8. ASSUME NEW a \in Address, Fresh(Block(a, PageSize)),
             mallocked' = mallocked \cup {Block(a, PageSize)}, page' = [page EXCEPT ![t] = a]
      PROVE  IInv'
  <2> DEFINE c == Block(a, PageSize)
  <2>1. c \in Blocks /\ c \notin mallocked /\ c \notin live /\ PageSize > 0
    BY <1>8, FreshIsNew, PoolSizes
  <2>2. /\ c.at = a /\ c.size = PageSize
        /\ Words(c) \cap inPool = {} /\ Words(c) \subseteq Address
    BY <1>8 DEF Block, Fresh
  <2>3. \A b \in mallocked : Disjoint(c, b) /\ Disjoint(b, c)
    BY <1>8, DisjointSymmetric DEF Fresh
  <2>4. a # NoPage /\ page'[t] = a /\ \A u \in Thread \ {t} : page'[u] = page[u]
    BY <1>8 DEF IInv, TypeOK, Address, NoPage
  <2>5. mallocked' = mallocked \cup {c}
    BY <1>8
  <2>6. \A u \in Thread \ {t} : page[u] # NoPage => page[u] # a
    BY <2>1 DEF IInv, ThreadInv
  <2>7. PagesInv'
    BY <1>2, <2>4, <2>6 DEF IInv, PagesInv
  <2>8. ASSUME NEW u \in Thread PROVE ThreadInv(u)'
    <3>1. CASE u = t
      BY <1>1, <1>2, <2>1, <2>4, <2>5, <3>1 DEF IInv, ThreadInv
    <3>2. CASE u # t
      BY <1>1, <1>2, <2>4, <2>5, <3>2 DEF IInv, ThreadInv, Fits
    <3> QED BY <3>1, <3>2
  <2>9. NoLostPage'
    <3>1. {Block(page[u], PageSize) : u \in {w \in Thread : page[w] # NoPage}}'
            = {Block(page[u], PageSize) : u \in {w \in Thread : page[w] # NoPage}} \cup {c}
      BY <1>2, <2>4
    <3>2. {b \in live : b.size > MaxPoolAllocationSize}' = {b \in live : b.size > MaxPoolAllocationSize}
      BY <1>1
    <3> QED BY <2>5, <3>1, <3>2 DEF IInv, NoLostPage
  <2> HIDE DEF c
  <2>10. TypeOK'
    BY <1>1, <1>8, <2>1, <2>5 DEF TryPage, Goto, IInv, TypeOK, Label
  <2>11. LiveInv'
    BY <1>1, <2>5 DEF IInv, LiveInv
  <2>12. MallocInv'
    BY <1>1, <2>1, <2>2, <2>3, <2>5 DEF IInv, MallocInv
  <2> QED BY <1>1, <1>4, <1>5, <1>6, <2>7, <2>8, <2>9, <2>10, <2>11, <2>12 DEF IInv
<1> QED BY <1>7, <1>8 DEF TryPage

\* The local variables of a thread that returns.
LEMMA ReturnFacts ==
  ASSUME TypeOK, NEW t \in Thread, Return(t)
  PROVE  /\ pc'[t] = "idle" /\ page'[t] = NoPage
         /\ \A u \in Thread \ {t} : /\ pc'[u] = pc[u] /\ size'[u] = size[u] /\ page'[u] = page[u]
                                    /\ curState'[u] = curState[u] /\ freeing'[u] = freeing[u]
         /\ pc' \in [Thread -> Label]
         /\ size' \in [Thread -> Nat]
         /\ curState' \in [Thread -> PoolRange]
         /\ page' \in [Thread -> Address \cup {NoPage}]
         /\ freeing' \in [Thread -> Blocks]
BY MetadataAllocatorAssumption
   DEF Return, Goto, TypeOK, Label, PoolRange, Range, Address, Blocks, Block

LEMMA SwapFailsInv ==
  ASSUME IInv, NEW t \in Thread, pc[t] = "cas", SwapFails(t)
  PROVE  IInv'
<1> DEFINE c == Block(page[t], PageSize)
<1>1. /\ UNCHANGED <<pool, size, freeing, inPool, live>>
      /\ mallocked' = mallocked \ {c}
  BY DEF SwapFails
<1>2. /\ pc'[t] = "try" /\ page'[t] = NoPage
      /\ \A u \in Thread \ {t} :
           pc'[u] = pc[u] /\ page'[u] = page[u] /\ curState'[u] = curState[u]
  BY DEF SwapFails, Goto, IInv, TypeOK
<1>3. \A u \in Thread : Freeing(u)' <=> Freeing(u)
  BY <1>2 DEF Freeing
<1>4. TypeOK'
  BY <1>1 DEF SwapFails, Goto, IInv, TypeOK, Label
<1>5. FreeingInv' /\ NoOverlap' /\ MallocInv'
  BY <1>1, <1>3 DEF IInv, FreeingInv, NoOverlap, MallocInv
<1>6. FreeIsFree'
  BY <1>1, <1>3 DEF IInv, FreeIsFree, Freeing, FreeWords
<1>7. c \notin live
  <2>1. CASE page[t] = NoPage
    BY <2>1 DEF IInv, TypeOK, Blocks, Address, NoPage, Block
  <2>2. CASE page[t] # NoPage
    BY <2>2 DEF IInv, ThreadInv
  <2> QED BY <2>1, <2>2
<1>8. LiveInv'
  BY <1>1, <1>7 DEF IInv, LiveInv
<1>9. PagesInv'
  BY <1>2 DEF IInv, PagesInv
<1>10. \A u \in Thread \ {t} : page[u] # NoPage => Block(page[u], PageSize) # c
  BY DEF IInv, PagesInv, Block
<1>11. ASSUME NEW u \in Thread PROVE ThreadInv(u)'
  BY <1>1, <1>2, <1>10 DEF IInv, ThreadInv, Fits
<1>12. NoLostPage'
  <2>1. {Block(page[u], PageSize) : u \in {w \in Thread : page[w] # NoPage}}'
            = {Block(page[u], PageSize) : u \in {w \in Thread : page[w] # NoPage}} \ {c}
    BY <1>2, <1>10
  <2>2. {b \in live : b.size > MaxPoolAllocationSize}' = {b \in live : b.size > MaxPoolAllocationSize} \ {c}
    BY <1>1, <1>7
  <2> HIDE DEF c
  <2> QED BY <1>1, <2>1, <2>2 DEF IInv, NoLostPage
<1> QED BY <1>1, <1>4, <1>5, <1>6, <1>8, <1>9, <1>11, <1>12 DEF IInv

\* What a compare-exchange that succeeds hands out: memory of the pool that
\* was free, or the first words of a page that no one else has.
SwapFacts(t) ==
  LET c == Block(Allocation(t), size[t]) IN
  /\ c \in Blocks /\ c.size > 0 /\ c.size <= MaxPoolAllocationSize
  /\ pool' \in PoolRange
  /\ inPool \subseteq inPool' /\ inPool' \subseteq Address
  /\ Words(c) \subseteq inPool'
  /\ FreeWords' \subseteq inPool'
  /\ Words(c) \cap FreeWords' = {}
  /\ \A b \in Blocks : b.size > 0 /\ Words(b) \subseteq inPool /\ Words(b) \cap FreeWords = {} =>
       Disjoint(b, c) /\ Words(b) \cap FreeWords' = {}
  /\ \A b \in mallocked \ {Block(page[t], PageSize)} :
       Disjoint(b, c) /\ Words(b) \cap FreeWords' = {} /\ Words(b) \cap inPool' = {}

LEMMA SwapFromPool ==
  ASSUME IInv, NEW t \in Thread, pc[t] = "cas", Swap(t), page[t] = NoPage
  PROVE  SwapFacts(t)
<1> DEFINE n == size[t]
           c == Block(Allocation(t), n)
<1>1. n \in Nat /\ n > 0 /\ n <= MaxPoolAllocationSize /\ pool = curState[t] /\ n <= pool.remaining
  BY DEF IInv, TypeOK, ThreadInv, Fits, Swap
<1>2. c.at = pool.begin /\ c.size = n /\ pool.begin \in Int /\ pool.remaining \in Nat
  BY <1>1 DEF Allocation, Block, IInv, TypeOK, PoolRange
<1>3. pool' = Range(pool.begin + n, pool.remaining - n) /\ inPool' = inPool
  BY <1>1 DEF Swap, NewState
<1>4. pool'.begin = pool.begin + n /\ pool'.remaining = pool.remaining - n /\ pool' \in PoolRange
  BY <1>1, <1>2, <1>3 DEF Range, PoolRange
<1>5. FreeWords = Words(c) \cup FreeWords' /\ Words(c) \cap FreeWords' = {}
  BY <1>1, <1>2, <1>4 DEF FreeWords, Words
<1>6. FreeWords \subseteq inPool /\ inPool \subseteq Address
  BY DEF IInv, FreeIsFree
<1>7. c \in Blocks
  <2>1. pool.begin \in Words(c)
    BY <1>1, <1>2 DEF Words
  <2>2. pool.begin \in Address
    BY <1>5, <1>6, <2>1
  <2> QED BY <1>1, <1>2, <2>2 DEF Blocks, Block
<1> HIDE DEF c
<1>8. ASSUME NEW b \in Blocks, b.size > 0, Words(b) \cap FreeWords = {}
      PROVE  Disjoint(b, c) /\ Words(b) \cap FreeWords' = {}
  BY <1>1, <1>2, <1>5, <1>7, <1>8, DisjointWords DEF Blocks, Address
<1>9. \A b \in mallocked : b \in Blocks /\ b.size > 0 /\ Words(b) \cap inPool = {}
  BY DEF IInv, TypeOK, MallocInv
<1>10. \A b \in mallocked : Words(b) \cap FreeWords = {}
  BY <1>6, <1>9
<1> QED BY <1>1, <1>2, <1>3, <1>4, <1>5, <1>6, <1>7, <1>8, <1>9, <1>10 DEF SwapFacts, c

LEMMA SwapFromPage ==
  ASSUME IInv, NEW t \in Thread, pc[t] = "cas", Swap(t), page[t] # NoPage
  PROVE  SwapFacts(t)
<1> DEFINE n == size[t]
           c == Block(Allocation(t), n)
           q == Block(page[t], PageSize)
<1>1. n \in Nat /\ n > 0 /\ n <= MaxPoolAllocationSize /\ n < PageSize /\ PageSize \in Nat
  BY PoolSizes DEF IInv, TypeOK, ThreadInv
<1>2. page[t] \in Address /\ page[t] \in Int /\ q \in mallocked /\ q \in Blocks
  BY DEF IInv, TypeOK, ThreadInv, Address
<1>3. c.at = page[t] /\ c.size = n /\ q.at = page[t] /\ q.size = PageSize
  BY DEF Allocation, Block
<1>4. c \in Blocks
  BY <1>1, <1>2 DEF Blocks, Block, Allocation
<1>5. pool' = Range(page[t] + n, PageSize - n) /\ inPool' = inPool \cup Words(q)
  BY DEF Swap, NewState
<1>6. pool'.begin = page[t] + n /\ pool'.remaining = PageSize - n /\ pool' \in PoolRange
  BY <1>1, <1>2, <1>5 DEF Range, PoolRange
<1>7. Words(q) = Words(c) \cup FreeWords' /\ Words(c) \cap FreeWords' = {}
  BY <1>1, <1>2, <1>3, <1>6 DEF FreeWords, Words
<1>8. inPool \subseteq Address /\ Words(q) \cap inPool = {} /\ Words(q) \subseteq Address
  BY <1>2 DEF IInv, MallocInv
<1> HIDE DEF c, q
<1>9. ASSUME NEW b \in Blocks, b.size > 0, Words(b) \cap Words(q) = {}
      PROVE  Disjoint(b, c) /\ Words(b) \cap FreeWords' = {}
  BY <1>1, <1>3, <1>4, <1>7, <1>9, DisjointWords DEF Blocks, Address
<1>10. ASSUME NEW b \in mallocked \ {q}
       PROVE  b \in Blocks /\ b.size > 0 /\ Words(b) \cap inPool = {} /\ Words(b) \cap Words(q) = {}
  <2>1. b \in Blocks /\ b.size > 0 /\ Words(b) \cap inPool = {} /\ Disjoint(b, q)
    BY <1>2, <1>10 DEF IInv, TypeOK, MallocInv
  <2> QED BY <1>1, <1>2, <1>3, <2>1, DisjointWords DEF Blocks, Address
<1>11. \A b \in Blocks : Words(b) \subseteq inPool => Words(b) \cap Words(q) = {}
  BY <1>8
<1> QED
  BY <1>1, <1>3, <1>4, <1>5, <1>6, <1>7, <1>8, <1>9, <1>10, <1>11 DEF SwapFacts, c, q

LEMMA SwapInv ==
  ASSUME IInv, NEW t \in Thread, pc[t] = "cas", Swap(t)
  PROVE  IInv'
<1> DEFINE c == Block(Allocation(t), size[t])
           q == Block(page[t], PageSize)
<1>1. SwapFacts(t)
  BY SwapFromPool, SwapFromPage
<1>2. live' = live \cup {c} /\ mallocked' = mallocked \ {q} /\ Return(t)
  BY DEF Swap
<1>3. /\ c \in Blocks /\ c.size > 0 /\ c.size <= MaxPoolAllocationSize
      /\ pool' \in PoolRange
      /\ inPool \subseteq inPool' /\ inPool' \subseteq Address
      /\ Words(c) \subseteq inPool'
      /\ FreeWords' \subseteq inPool'
      /\ Words(c) \cap FreeWords' = {}
  BY <1>1 DEF SwapFacts
<1>4. \A b \in Blocks : b.size > 0 /\ Words(b) \subseteq inPool /\ Words(b) \cap FreeWords = {} =>
        Disjoint(b, c) /\ Words(b) \cap FreeWords' = {}
  BY <1>1 DEF SwapFacts
<1>5. \A b \in mallocked \ {q} :
        Disjoint(b, c) /\ Words(b) \cap FreeWords' = {} /\ Words(b) \cap inPool' = {}
  BY <1>1 DEF SwapFacts
<1>6. q \notin live
  <2>1. CASE page[t] = NoPage
    BY <2>1 DEF IInv, TypeOK, Blocks, Address, NoPage, Block
  <2>2. CASE page[t] # NoPage
    BY <2>2 DEF IInv, ThreadInv
  <2> QED BY <2>1, <2>2
<1>7. \A u \in Thread \ {t} : page[u] # NoPage => Block(page[u], PageSize) # q
  BY DEF IInv, PagesInv, Block
<1>8. \A u \in Thread : Block(page[u], PageSize) # c
  BY <1>3, PoolSizes DEF Block
<1> HIDE DEF c, q
<1>9. ASSUME NEW b \in live PROVE Disjoint(b, c) /\ Words(b) \cap FreeWords' = {}
  <2>1. b \in Blocks /\ b.size > 0 /\ Words(b) \cap FreeWords = {}
    BY DEF IInv, TypeOK, LiveInv, FreeIsFree
  <2>2. CASE b.size <= MaxPoolAllocationSize
    BY <1>4, <2>1, <2>2 DEF IInv, LiveInv
  <2>3. CASE ~(b.size <= MaxPoolAllocationSize)
    <3>1. b \in mallocked \ {q}
      BY <1>6, <2>1, <2>3, PoolSizes DEF IInv, LiveInv, Blocks
    <3> QED BY <1>5, <3>1
  <2> QED BY <2>2, <2>3
<1>10. ASSUME NEW u \in Thread, Freeing(u)
       PROVE  Disjoint(freeing[u], c) /\ Words(freeing[u]) \cap FreeWords' = {}
  <2>1. /\ freeing[u] \in Blocks /\ freeing[u].size > 0 /\ Words(freeing[u]) \subseteq inPool
        /\ Words(freeing[u]) \cap FreeWords = {}
    BY <1>10 DEF IInv, TypeOK, FreeingInv, FreeIsFree, Freeing
  <2> QED BY <1>4, <2>1
<1>11. /\ pc'[t] = "idle" /\ page'[t] = NoPage
       /\ \A u \in Thread \ {t} : /\ pc'[u] = pc[u] /\ size'[u] = size[u] /\ page'[u] = page[u]
                                  /\ curState'[u] = curState[u] /\ freeing'[u] = freeing[u]
  BY <1>2, ReturnFacts DEF IInv
<1>12. \A u \in Thread : Freeing(u)' <=> u # t /\ Freeing(u)
  BY <1>11 DEF Freeing
<1>13. TypeOK'
  <2>1. inPool' \in SUBSET Int
    BY <1>3 DEF Address
  <2> QED BY <1>2, <1>3, <2>1, ReturnFacts DEF IInv, TypeOK
<1>14. LiveInv'
  BY <1>2, <1>3, <1>6, PoolSizes DEF IInv, LiveInv, Blocks
<1>15. MallocInv'
  BY <1>2, <1>5 DEF IInv, MallocInv
<1>16. NoOverlap'
  BY <1>2, <1>9, DisjointSymmetric DEF IInv, NoOverlap
<1>17. FreeingInv'
  BY <1>2, <1>3, <1>10, <1>11, <1>12, DisjointSymmetric DEF IInv, FreeingInv
<1>18. FreeIsFree'
  <2>1. \A u \in Thread : Freeing(u)' => Words(freeing'[u]) \cap FreeWords' = {}
    BY <1>10, <1>11, <1>12
  <2> QED BY <1>2, <1>3, <1>9, <2>1 DEF FreeIsFree, Freeing
<1>19. PagesInv'
  BY <1>11 DEF IInv, PagesInv
<1>20. ASSUME NEW u \in Thread PROVE ThreadInv(u)'
  BY <1>2, <1>7, <1>8, <1>11 DEF IInv, ThreadInv, Fits
<1>21. NoLostPage'
  <2>1. {Block(page[u], PageSize) : u \in {w \in Thread : page[w] # NoPage}}'
            = {Block(page[u], PageSize) : u \in {w \in Thread : page[w] # NoPage}} \ {q}
    BY <1>7, <1>11 DEF q
  <2>2. {b \in live : b.size > MaxPoolAllocationSize}' = {b \in live : b.size > MaxPoolAllocationSize} \ {q}
    BY <1>2, <1>3, <1>6, PoolSizes DEF Blocks
  <2> QED BY <1>2, <2>1, <2>2 DEF IInv, NoLostPage
<1> QED BY <1>3, <1>13, <1>14, <1>15, <1>16, <1>17, <1>18, <1>19, <1>20, <1>21 DEF IInv

LEMMA DeallocateInv ==
  ASSUME IInv, NEW t \in Thread, Deallocate(t)
  PROVE  IInv'
<1>1. UNCHANGED <<pool, size, curState, page, inPool>> /\ pc[t] = "idle"
  BY DEF Deallocate
<1>2. PICK b \in live :
        /\ live' = live \ {b}
        /\ \/ /\ b.size > MaxPoolAllocationSize
              /\ mallocked' = mallocked \ {b}
              /\ UNCHANGED <<pc, freeing>>
           \/ /\ b.size <= MaxPoolAllocationSize
              /\ freeing' = [freeing EXCEPT ![t] = b]
              /\ Goto(t, "deallocate")
              /\ UNCHANGED mallocked
  BY DEF Deallocate
<1>3. b \in Blocks /\ b.size > 0 /\ b.size \in Nat
  BY DEF IInv, TypeOK, LiveInv, Blocks
<1>4. \A u \in Thread : page[u] # NoPage => Block(page[u], PageSize) # b
  BY DEF IInv, ThreadInv
<1>5. NoOverlap'
  BY <1>2 DEF IInv, NoOverlap
<1>6. PagesInv'
  BY <1>1 DEF IInv, PagesInv
<1>7. CASE b.size > MaxPoolAllocationSize /\ mallocked' = mallocked \ {b} /\ UNCHANGED <<pc, freeing>>
  <2>1. TypeOK'
    BY <1>1, <1>2, <1>7 DEF IInv, TypeOK
  <2>2. LiveInv' /\ MallocInv'
    BY <1>1, <1>2, <1>7 DEF IInv, LiveInv, MallocInv
  <2>3. FreeingInv'
    BY <1>1, <1>2, <1>7 DEF IInv, FreeingInv, Freeing
  <2>4. FreeIsFree'
    BY <1>1, <1>2, <1>7 DEF IInv, FreeIsFree, FreeWords
  <2>5. ASSUME NEW u \in Thread PROVE ThreadInv(u)'
    BY <1>1, <1>2, <1>4, <1>7 DEF IInv, ThreadInv, Fits
  <2>6. NoLostPage'
    BY <1>1, <1>2, <1>4, <1>7 DEF IInv, NoLostPage
  <2> QED BY <1>1, <1>5, <1>6, <2>1, <2>2, <2>3, <2>4, <2>5, <2>6 DEF IInv
<1>8. CASE /\ b.size <= MaxPoolAllocationSize
           /\ freeing' = [freeing EXCEPT ![t] = b]
           /\ Goto(t, "deallocate")
           /\ UNCHANGED mallocked
  <2>1. /\ freeing'[t] = b /\ pc'[t] = "deallocate"
        /\ \A u \in Thread \ {t} : freeing'[u] = freeing[u] /\ pc'[u] = pc[u]
    BY <1>8 DEF Goto, IInv, TypeOK
  <2>2. \A u \in Thread : Freeing(u)' <=> u = t \/ Freeing(u)
    BY <2>1 DEF Freeing
  <2>3. TypeOK'
    BY <1>1, <1>2, <1>3, <1>8 DEF Goto, IInv, TypeOK, Label
  <2>4. LiveInv' /\ MallocInv'
    BY <1>1, <1>2, <1>8 DEF IInv, LiveInv, MallocInv
  <2>5. /\ Words(b) \subseteq inPool /\ Words(b) \cap FreeWords = {}
        /\ \A c \in live \ {b} : Disjoint(b, c) /\ Disjoint(c, b)
    BY <1>8 DEF IInv, LiveInv, FreeIsFree, NoOverlap
  <2>6. FreeingInv'
    <3>1. ASSUME NEW u \in Thread, Freeing(u)'
          PROVE  /\ freeing'[u].size > 0 /\ Words(freeing'[u]) \subseteq inPool'
                 /\ \A c \in live' : Disjoint(c, freeing'[u])
      BY <1>1, <1>2, <1>3, <2>1, <2>2, <2>5, <3>1 DEF IInv, FreeingInv
    <3>2. ASSUME NEW u \in Thread, NEW w \in Thread, u # w, Freeing(u)', Freeing(w)'
          PROVE  Disjoint(freeing'[u], freeing'[w])
      BY <2>1, <2>2, <3>2, DisjointSymmetric DEF IInv, FreeingInv
    <3> QED BY <3>1, <3>2 DEF FreeingInv
  <2>7. FreeIsFree'
    <3>1. FreeWords' = FreeWords
      BY <1>1 DEF FreeWords
    <3>2. \A u \in Thread : Freeing(u)' => Words(freeing'[u]) \cap FreeWords' = {}
      BY <2>1, <2>2, <2>5, <3>1 DEF IInv, FreeIsFree, Freeing
    <3> QED BY <1>1, <1>2, <3>1, <3>2 DEF IInv, FreeIsFree, Freeing
  <2>8. ASSUME NEW u \in Thread PROVE ThreadInv(u)'
    <3>1. CASE u = t
      BY <1>1, <2>1, <3>1 DEF IInv, ThreadInv
    <3>2. CASE u # t
      BY <1>1, <1>2, <1>8, <2>1, <3>2 DEF IInv, ThreadInv, Fits
    <3> QED BY <3>1, <3>2
  <2>9. NoLostPage'
    <3>1. {c \in live : c.size > MaxPoolAllocationSize}' = {c \in live : c.size > MaxPoolAllocationSize}
      BY <1>2, <1>3, <1>8, PoolSizes
    <3> QED BY <1>1, <1>8, <3>1 DEF IInv, NoLostPage
  <2> QED BY <1>1, <1>5, <1>6, <2>3, <2>4, <2>6, <2>7, <2>8, <2>9 DEF IInv
<1> QED BY <1>2, <1>7, <1>8

\* A thread returns, and the blocks that others hold are as free as they were.
LEMMA ReturnInv ==
  ASSUME IInv, NEW t \in Thread, Return(t), page[t] = NoPage, pool' \in PoolRange,
         UNCHANGED <<inPool, live, mallocked>>,
         FreeWords' \subseteq inPool,
         \A b \in live : Words(b) \cap FreeWords' = {},
         \A u \in Thread \ {t} : Freeing(u) => Words(freeing[u]) \cap FreeWords' = {}
  PROVE  IInv'
<1>1. /\ pc'[t] = "idle" /\ page'[t] = NoPage
      /\ \A u \in Thread \ {t} : /\ pc'[u] = pc[u] /\ size'[u] = size[u] /\ page'[u] = page[u]
                                 /\ curState'[u] = curState[u] /\ freeing'[u] = freeing[u]
  BY ReturnFacts DEF IInv
<1>2. \A u \in Thread : Freeing(u)' <=> u # t /\ Freeing(u)
  BY <1>1 DEF Freeing
<1>3. TypeOK'
  BY ReturnFacts DEF IInv, TypeOK
<1>4. LiveInv' /\ MallocInv' /\ NoOverlap'
  BY DEF IInv, LiveInv, MallocInv, NoOverlap
<1>5. FreeingInv'
  BY <1>1, <1>2 DEF IInv, FreeingInv
<1>6. FreeIsFree'
  <2>1. \A u \in Thread : Freeing(u)' => Words(freeing'[u]) \cap FreeWords' = {}
    BY <1>1, <1>2
  <2> QED BY <2>1 DEF FreeIsFree, Freeing
<1>7. page' = page
  BY <1>1 DEF Return, IInv, TypeOK
<1>8. PagesInv' /\ NoLostPage'
  BY <1>7 DEF IInv, PagesInv, NoLostPage
<1>9. ASSUME NEW u \in Thread PROVE ThreadInv(u)'
  BY <1>1 DEF IInv, ThreadInv, Fits
<1> QED BY <1>3, <1>4, <1>5, <1>6, <1>8, <1>9 DEF IInv

LEMMA LoadPoolInv ==
  ASSUME IInv, NEW t \in Thread, LoadPool(t)
  PROVE  IInv'
<1>1. UNCHANGED <<pool, inPool, live, mallocked>> /\ pc[t] = "deallocate" /\ page[t] = NoPage
  BY DEF LoadPool, IInv, ThreadInv
<1>2. CASE IsLast(t) /\ curState' = [curState EXCEPT ![t] = pool] /\ Goto(t, "giveBack")
           /\ UNCHANGED <<size, page, freeing>>
  <2>1. /\ curState'[t] = pool /\ pc'[t] = "giveBack"
        /\ \A u \in Thread \ {t} : curState'[u] = curState[u] /\ pc'[u] = pc[u]
    BY <1>2 DEF Goto, IInv, TypeOK
  <2>2. \A u \in Thread : Freeing(u)' <=> Freeing(u)
    BY <1>1, <2>1 DEF Freeing
  <2>3. TypeOK'
    BY <1>1, <1>2 DEF Goto, IInv, TypeOK, Label
  <2>4. FreeingInv'
    BY <1>1, <1>2, <2>2, MemoryFrame DEF IInv, FreeingInv
  <2>5. FreeIsFree'
    BY <1>1, <1>2, <2>2, MemoryFrame DEF IInv, FreeIsFree, Freeing
  <2>6. PagesInv' /\ NoLostPage'
    BY <1>1, <1>2 DEF IInv, PagesInv, NoLostPage
  <2>7. ASSUME NEW u \in Thread PROVE ThreadInv(u)'
    BY <1>1, <1>2, <2>1 DEF IInv, ThreadInv, Fits, IsLast
  <2> QED BY <1>1, <2>3, <2>4, <2>5, <2>6, <2>7, MemoryFrame DEF IInv
<1>3. CASE ~IsLast(t) /\ Return(t)
  BY <1>1, <1>3, ReturnInv, MemoryFrame DEF IInv, TypeOK, FreeIsFree, Freeing
<1> QED BY <1>2, <1>3 DEF LoadPool

LEMMA GiveBackInv ==
  ASSUME IInv, NEW t \in Thread, GiveBack(t)
  PROVE  IInv'
<1> DEFINE b == freeing[t]
<1>1. /\ pc[t] = "giveBack" /\ page[t] = NoPage /\ Return(t)
      /\ UNCHANGED <<inPool, live, mallocked>>
  BY DEF GiveBack, IInv, ThreadInv
<1>2. CASE pool = curState[t]
  <2>1. pool' = Range(b.at, pool.remaining + b.size) /\ b.at + b.size = pool.begin
    BY <1>1, <1>2 DEF GiveBack, IInv, ThreadInv
  <2>2. b \in Blocks /\ b.size > 0 /\ pool \in PoolRange
    BY <1>1 DEF IInv, TypeOK, FreeingInv, Freeing
  <2>3. pool' \in PoolRange /\ FreeWords' = Words(b) \cup FreeWords
    BY <2>1, <2>2 DEF PoolRange, Range, FreeWords, Words, Blocks, Address
  <2>4. FreeWords' \subseteq inPool
    BY <1>1, <2>3 DEF IInv, FreeIsFree, FreeingInv, Freeing
  <2>5. ASSUME NEW c \in live PROVE Words(c) \cap FreeWords' = {}
    <3>1. c \in Blocks /\ c.size > 0 /\ Disjoint(c, b) /\ Words(c) \cap FreeWords = {}
      BY <1>1 DEF IInv, TypeOK, LiveInv, FreeIsFree, FreeingInv, Freeing
    <3>2. Words(c) \cap Words(b) = {}
      BY <2>2, <3>1, DisjointWords DEF Blocks, Address
    <3> QED BY <2>3, <3>1, <3>2
  <2>6. ASSUME NEW u \in Thread \ {t}, Freeing(u) PROVE Words(freeing[u]) \cap FreeWords' = {}
    <3>1. /\ freeing[u] \in Blocks /\ freeing[u].size > 0 /\ Disjoint(freeing[u], b)
          /\ Words(freeing[u]) \cap FreeWords = {}
      BY <1>1, <2>6 DEF IInv, TypeOK, FreeIsFree, FreeingInv, Freeing
    <3>2. Words(freeing[u]) \cap Words(b) = {}
      BY <2>2, <3>1, DisjointWords DEF Blocks, Address
    <3> QED BY <2>3, <3>1, <3>2
  <2> QED BY <1>1, <2>3, <2>4, <2>5, <2>6, ReturnInv
<1>3. CASE pool # curState[t]
  <2>1. pool' = pool
    BY <1>3 DEF GiveBack
  <2> QED BY <1>1, <2>1, ReturnInv, MemoryFrame DEF IInv, TypeOK, FreeIsFree, Freeing
<1> QED BY <1>2, <1>3

LEMMA NextInv ==
  ASSUME IInv, [Next]_vars
  PROVE  IInv'
<1>1. CASE UNCHANGED vars
  <2>1. \A t \in Thread : ThreadInv(t)'
    BY <1>1 DEF IInv, vars, ThreadInv, Fits
  <2> QED BY <1>1, <2>1
        DEF IInv, vars, TypeOK, LiveInv, MallocInv, FreeingInv, Freeing, PagesInv, NoOverlap,
            FreeIsFree, FreeWords, NoLostPage
<1>2. CASE Next
  BY <1>2, AllocateLargeInv, AllocateInv, TryPageInv, SwapInv, SwapFailsInv, DeallocateInv,
     LoadPoolInv, GiveBackInv DEF Next, CompareExchangePool
<1> QED BY <1>1, <1>2

\* No two allocations that the program holds share memory, whatever threads
\* allocate, give back and retry at the same time.
THEOREM AllocationsApart == Spec => []NoOverlap
<1>1. IInv => NoOverlap
  BY DEF IInv
<1> QED BY <1>1, InitInv, NextInv, PTL DEF Spec

\* What the pool hands out next belongs to it and to nobody else, though a
\* compare-exchange may succeed on a state of the pool that came back.
THEOREM PoolIsFree == Spec => []FreeIsFree
<1>1. IInv => FreeIsFree
  BY DEF IInv
<1> QED BY <1>1, InitInv, NextInv, PTL DEF Spec

\* Every page that lost the race to become the pool is deleted, and every
\* large block is freed.
THEOREM PagesKept == Spec => []NoLostPage
<1>1. IInv => NoLostPage
  BY DEF IInv
<1> QED BY <1>1, InitInv, NextInv, PTL DEF Spec
==============================================================================
