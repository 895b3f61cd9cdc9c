-------------------------- MODULE MetadataAllocator --------------------------
(***************************************************************************)
(* MetadataAllocator of Metadata.cpp: a pool that all threads bump with a  *)
(* compare-exchange on one word pair, that opens a new page when an        *)
(* allocation does not fit, and that takes back only what was allocated    *)
(* last.                                                                   *)
(*                                                                         *)
(* Sizes and addresses count words of the pool's alignment.  inPool,       *)
(* live and mallocked are auxiliary: the addresses the pool has ever       *)
(* owned, the allocations the program holds, and the blocks obtained from  *)
(* malloc or new that are not part of the pool.                            *)
(***************************************************************************)
EXTENDS Integers, FiniteSets

CONSTANTS
  Thread,
  Size,         \* sizes of allocations
  PageSize,     \* PoolRange::PageSize
  InitialSize,  \* sizeof(InitialAllocationPool)
  MaxAddress    \* a bound: malloc gives no address beyond it

MaxPoolAllocationSize == PageSize \div 2

ASSUME MetadataAllocatorAssumption ==
  /\ PageSize \in Nat \ {0} /\ InitialSize \in Nat /\ MaxAddress \in Nat
  /\ Size \subseteq Nat \ {0}
  /\ InitialSize <= MaxAddress + 1

VARIABLES
  pool,         \* AllocationPool
  pc,
  size,         \* the parameter of Allocate
  curState,     \* curState
  page,         \* the page allocated in this round, or NoPage
  freeing,      \* the parameters of Deallocate
  inPool,
  live,
  mallocked

vars == <<pool, pc, size, curState, page, freeing, inPool, live, mallocked>>

Address == 0..MaxAddress
NoPage == -1
Block(a, n) == [at |-> a, size |-> n]
Blocks == [at : Address, size : Nat]
Words(b) == b.at..(b.at + b.size - 1)
Disjoint(b, c) == b.at + b.size <= c.at \/ c.at + c.size <= b.at

\* PoolRange
Range(begin, remaining) == [begin |-> begin, remaining |-> remaining]
FreeWords == pool.begin..(pool.begin + pool.remaining - 1)

Init ==
  /\ pool = Range(0, InitialSize)
  /\ pc = [t \in Thread |-> "idle"]
  /\ size = [t \in Thread |-> 0]
  /\ curState = [t \in Thread |-> Range(0, 0)]
  /\ page = [t \in Thread |-> NoPage]
  /\ freeing = [t \in Thread |-> Block(0, 0)]
  /\ inPool = 0..(InitialSize - 1)
  /\ live = {}
  /\ mallocked = {}

\* malloc and new[] give memory that nothing else has.
Fresh(b) ==
  /\ Words(b) \subseteq Address
  /\ Words(b) \cap inPool = {}
  /\ \A c \in mallocked : Disjoint(b, c)

Goto(t, label) == pc' = [pc EXCEPT ![t] = label]

\* A return ends the life of the local variables.
Return(t) ==
  /\ Goto(t, "idle")
  /\ size' = [size EXCEPT ![t] = 0]
  /\ curState' = [curState EXCEPT ![t] = Range(0, 0)]
  /\ page' = [page EXCEPT ![t] = NoPage]
  /\ freeing' = [freeing EXCEPT ![t] = Block(0, 0)]

-----------------------------------------------------------------------------
\* Allocate: a size that is too large for the pool goes to malloc.
AllocateLarge(t, n) ==
  /\ pc[t] = "idle" /\ n > MaxPoolAllocationSize
  /\ \E a \in Address :
       /\ Fresh(Block(a, n))
       /\ mallocked' = mallocked \cup {Block(a, n)}
       /\ live' = live \cup {Block(a, n)}
  /\ UNCHANGED <<pool, pc, size, curState, page, freeing, inPool>>

Allocate(t, n) ==
  /\ pc[t] = "idle" /\ n <= MaxPoolAllocationSize
  /\ size' = [size EXCEPT ![t] = n]
  /\ curState' = [curState EXCEPT ![t] = pool]
  /\ Goto(t, "try")
  /\ UNCHANGED <<pool, page, freeing, inPool, live, mallocked>>

Fits(t) == size[t] <= curState[t].remaining

\* The top of the loop.
TryPage(t) ==
  /\ pc[t] = "try"
  /\ \/ Fits(t) /\ UNCHANGED <<page, mallocked>>
     \/ /\ ~Fits(t)
        /\ \E a \in Address :
             /\ Fresh(Block(a, PageSize))
             /\ mallocked' = mallocked \cup {Block(a, PageSize)}
             /\ page' = [page EXCEPT ![t] = a]
  /\ Goto(t, "cas")
  /\ UNCHANGED <<pool, size, curState, freeing, inPool, live>>

Allocation(t) == IF page[t] = NoPage THEN curState[t].begin ELSE page[t]

NewState(t) ==
  IF page[t] = NoPage
  THEN Range(curState[t].begin + size[t], curState[t].remaining - size[t])
  ELSE Range(page[t] + size[t], PageSize - size[t])

MutantSwap(t) ==  \* a plain store
  /\ pool' = NewState(t)
  /\ live' = live \cup {Block(Allocation(t), size[t])}
  /\ inPool' = IF page[t] = NoPage THEN inPool ELSE inPool \cup Words(Block(page[t], PageSize))
  /\ mallocked' = mallocked \ {Block(page[t], PageSize)}
  /\ Return(t)

\* The compare-exchange succeeds: a new page becomes the pool, and what was
\* left of the old one is abandoned.
Swap(t) ==
  /\ pool = curState[t]
  /\ pool' = NewState(t)
  /\ live' = live \cup {Block(Allocation(t), size[t])}
  /\ inPool' = IF page[t] = NoPage THEN inPool ELSE inPool \cup Words(Block(page[t], PageSize))
  /\ mallocked' = mallocked \ {Block(page[t], PageSize)}
  /\ Return(t)

MutantSwapFails(t) ==  \* the page is not deleted
  /\ curState' = [curState EXCEPT ![t] = pool]
  /\ page' = [page EXCEPT ![t] = NoPage]
  /\ Goto(t, "try")
  /\ UNCHANGED <<pool, size, freeing, inPool, live, mallocked>>

\* It fails, as it may even if nothing changed: delete the page, try again.
SwapFails(t) ==
  /\ curState' = [curState EXCEPT ![t] = pool]
  /\ mallocked' = mallocked \ {Block(page[t], PageSize)}
  /\ page' = [page EXCEPT ![t] = NoPage]
  /\ Goto(t, "try")
  /\ UNCHANGED <<pool, size, freeing, inPool, live>>

CompareExchangePool(t) == pc[t] = "cas" /\ (Swap(t) \/ SwapFails(t))

\* Deallocate, with the size that was allocated: the caller gives it up.
Deallocate(t) ==
  /\ pc[t] = "idle"
  /\ \E b \in live :
       /\ live' = live \ {b}
       /\ \/ /\ b.size > MaxPoolAllocationSize
             /\ mallocked' = mallocked \ {b}
             /\ UNCHANGED <<pc, freeing>>
          \/ /\ b.size <= MaxPoolAllocationSize
             /\ freeing' = [freeing EXCEPT ![t] = b]
             /\ Goto(t, "deallocate")
             /\ UNCHANGED mallocked
  /\ UNCHANGED <<pool, size, curState, page, inPool>>

IsLast(t) == freeing[t].at + freeing[t].size = pool.begin

LoadPool(t) ==
  /\ pc[t] = "deallocate"
  /\ \/ /\ IsLast(t)
        /\ curState' = [curState EXCEPT ![t] = pool]
        /\ Goto(t, "giveBack")
        /\ UNCHANGED <<size, page, freeing>>
     \/ ~IsLast(t) /\ Return(t)
  /\ UNCHANGED <<pool, inPool, live, mallocked>>

MutantGiveBack(t) ==  \* does not check that the pool is unchanged
  /\ pc[t] = "giveBack"
  /\ pool' = Range(freeing[t].at, curState[t].remaining + freeing[t].size)
  /\ Return(t)
  /\ UNCHANGED <<inPool, live, mallocked>>

\* One compare-exchange; if it fails the allocation is leaked.
GiveBack(t) ==
  /\ pc[t] = "giveBack"
  /\ pool' = IF pool = curState[t]
             THEN Range(freeing[t].at, curState[t].remaining + freeing[t].size)
             ELSE pool
  /\ Return(t)
  /\ UNCHANGED <<inPool, live, mallocked>>

Next ==
  \E t \in Thread :
    \/ \E n \in Size : Allocate(t, n) \/ AllocateLarge(t, n)
    \/ TryPage(t) \/ CompareExchangePool(t)
    \/ Deallocate(t) \/ LoadPool(t) \/ GiveBack(t)

Spec == Init /\ [][Next]_vars

-----------------------------------------------------------------------------
Label == {"idle", "try", "cas", "deallocate", "giveBack"}
PoolRange == [begin : Int, remaining : Nat]

TypeOK ==
  /\ pool \in PoolRange
  /\ pc \in [Thread -> Label]
  /\ size \in [Thread -> Nat]
  /\ curState \in [Thread -> PoolRange]
  /\ page \in [Thread -> Address \cup {NoPage}]
  /\ freeing \in [Thread -> Blocks]
  /\ inPool \in SUBSET Int
  /\ live \in SUBSET Blocks
  /\ mallocked \in SUBSET Blocks

\* No two allocations that the program holds share memory, whatever threads
\* allocate, give back and retry at the same time.
NoOverlap == \A b, c \in live : b # c => Disjoint(b, c)

\* What the pool will hand out next belongs to it and to nobody else: not to
\* an allocation in use, nor to one on its way back.
FreeIsFree ==
  /\ FreeWords \subseteq inPool
  /\ \A b \in live : Words(b) \cap FreeWords = {}
  /\ \A t \in Thread : pc[t] \in {"deallocate", "giveBack"} => Words(freeing[t]) \cap FreeWords = {}

\* Every page a thread allocates and does not install is deleted, and every
\* large block is freed: malloc's blocks are those in use.
NoLostPage ==
  mallocked = {b \in live : b.size > MaxPoolAllocationSize}
              \cup {Block(page[t], PageSize) : t \in {u \in Thread : page[u] # NoPage}}
==============================================================================
