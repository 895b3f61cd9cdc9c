# A verification model of the Swift runtime and driver in swift-kstdlib

The repository is a fork of the Swift compiler and standard library that also
builds the library for kernels and bare metal (`KERNELLIB`). Most of it is
sequential translation. What a test hardly reaches is the runtime under every
Swift program (lock-free reference counts packed into one word, weak references
through a side table, caches filled by several threads, the tracking of
exclusive access) and the part of the driver that decides, over many builds and
faults, what to compile again. This project models those parts in TLA+, checks
them with TLC and proves properties of them with TLAPS.

## Inventory

| Component | State | Operations | What makes it correct | Modules |
| --- | --- | --- | --- | --- |
| Reference counting (`SwiftShims/RefCount.h`, `runtime/HeapObject.cpp`, `runtime/RefCount.cpp`, `runtime/WeakReference.h`) | one word in the object header, one side table entry with strong, unowned and weak counts | retain, release, pin, unowned and weak operations, uniqueness queries, deallocation; most have a non-atomic twin | counts equal the references that exist; no use after free; no leak; one deinit | RefCount, ObjectLifecycle, RefCountLifecycle, RefCountInvariant, RefCountProofs |
| Packed words (`RefCountBitsT` in `RefCount.h`) | bit fields | whole-word addition with overflow into a flag, field-wise move to a side table | arithmetic on one field never changes another; overflow, underflow and side table are always told apart | RefCountBits |
| Dynamic exclusivity (`runtime/Exclusivity.cpp`) | per thread a list through scratch buffers; a shared report counter; a flag set by debuggers | begin and end of an access | every conflict is caught, nothing else is, the list is exact | Exclusivity, ExclusivityProofs |
| Concurrent map (`Runtime/Concurrent.h`) | a lock-free binary tree, the node found last | find, getOrInsert, destruction | one node per key, nothing lost, each call atomic | ConcurrentMap, AtomicMap, ConcurrentMapProofs |
| Metadata allocator (`Metadata.cpp`) | a pool bumped by compare-exchange | Allocate, Deallocate | blocks never overlap, no page is lost | MetadataAllocator, MetadataAllocatorProofs |
| Metadata caches (`MetadataCache.h`) | entries under construction, a lock with waiters | findOrAdd | one metadata per key, built before it is used, no lost wake-up, no wait for oneself | MetadataCache, MetadataCacheProofs |
| Foreign type metadata (`Metadata.cpp`, `Metadata.h`) | a map of names, a cache word in every record | swift_getForeignTypeMetadata | one canonical record per name, initialised before it is used | ForeignTypes, ForeignTypesProofs |
| Protocol conformance cache (`ProtocolConformance.cpp`) | positive and negative entries with a generation, a list of sections | lookup, registration of an image | no wrong answer, and a negative answer is never stale | ConformanceCache, ConformanceCacheProofs |
| Driver: incremental builds (`lib/Driver/Compilation.cpp`, `Driver.cpp`, `DependencyGraph.cpp`) | dependency graph, jobs, the compilation record on disk | schedule, mark, reload, record | a file that must be rebuilt is rebuilt, through failures and kills | IncrementalBuild |
| Driver: task queue (`lib/Basic/Unix/TaskQueue.inc`) | children, their pipes, poll events | execute | all output is delivered, every task is reported, execute returns | TaskQueue, TaskQueueProofs |
| Mutexes, `swift_once`, heap | operating system objects | lock, wait, once, allocate | external to the repository | part of the caches |
| Standard library algorithms (`stdlib/public/core`) | hashed storage, array buffers, strings | probing, copy-on-write, sort, decoding | agree with a reference definition | none yet |
| Compiler (`lib/*`), SDK overlays, Objective-C interoperation | | | translation, I/O, external runtimes | none |

How the parts meet: compiled code calls the entry points of `HeapObject.cpp`;
those call `RefCounts<InlineRefCountBits>` on the header word, which forwards
to `HeapObjectSideTableEntry` and from there to
`RefCounts<SideTableRefCountBits>` when the word holds a side table pointer.
Weak variables point to the entry and never to the object. The last strong
release calls `deinit` in the releasing thread, which ends in
`swift_deallocObject`. Copy-on-write in the standard library rests on
`isUniquelyReferenced`. Exclusivity tracking shares nothing with the counts.

The metadata and conformance caches both keep their entries in a
`ConcurrentMap`. Their modules take a call of it as one step, which is what
`ImplementsMap` shows (and `Refinement` proves) of the tree. The nodes of the
maps come from the metadata allocator, of which the map needs that live blocks
do not overlap. A builder of metadata calls back into the caches, so a thread
has a stack of calls there.

The driver's `Compilation` runs its jobs in a `TaskQueue` and gets the ends of
jobs as callbacks. IncrementalBuild has the order in which the queue begins,
polls and reports jobs, without pipes; TaskQueue has the pipes, without what the
jobs mean.

The hard behaviours are listed with their lines under `hazards` in
`PROJECT.json`.

## Modules

**RefCount** models the counts of one object as its threads see them. A load
and the compare-exchange after it are separate steps, so a thread always acts
on a word that may be old. The template `RefCounts<T>` becomes one set of steps
on the location `loc[t]`, which is the header (`Inline`) or an entry.

| Variable | Code |
| --- | --- |
| `mem[l]` | the `atomic<RefCountBits>` at a location, with its fields unpacked |
| `alloc[l]` | whether the object or entry is allocated |
| `pc[t]`, `op[t]`, `loc[t]`, `old[t]` | stage and name of the operation a thread is in, its `this` and its `oldbits` |
| `src[t]`, `dst[t]` | variables whose references the operation consumes or fills; their number is its `n` |
| `wref[v]` | the pointer in a `WeakReference` |
| `deinitBy` | the thread that runs `deinit` |
| `abort` | which `swift_abort...` was called |
| `ref[v]`, `owner[v]` | what the program holds and in which thread; the runtime never reads them |

Every entry point is an action (`swift_retain_n`, `swift_weakTakeStrong`, ...).
Its guard says what a program must hold to make the call. The steps inside the
runtime are `Load`, then one of `ForwardToSideTable` (word with a side table),
`Refuse` (deiniting or already pinned), `Query`, `Overflow`, `Retry` (failed
compare-exchange), or a commit such as `DecrementStrong`. A successful unowned
or weak decrement goes on to `swift_slowDealloc` or `DeleteEntry`.
`Preflight` and `Install` are the two halves of `allocateSideTable`;
`CheckDeiniting` is the first, separate access of `incrementWeak`. Non-atomic
operations use the stages `nload` and `store` instead of `load` and `cas`.
Memory that was freed may be read; the read yields the last value or that of a
new owner (`Readable`).

Two constants state what the program promises. `NonAtomicRule` says when the
`swift_nonatomic_` functions are called: `exclusive` is a program with one
thread at a time on the object (`-assume-single-threaded`), `soleStrong` is
what the comment of `doDecrementNonAtomic` asks of its caller. With
`TakeWhileHeld`, a caller of `swift_weakTakeStrong` also holds the object
strongly. The code states no such precondition (`WeakReference.h:168-176`); why
it is needed is the first item of "Where the code differs".

**ObjectLifecycle** is the abstract specification: the states LIVE, DEINITING,
DEINITED, FREED and DEAD over sets of references, without counts, words,
entries or races. **RefCountLifecycle** maps RefCount to it
(`LifecycleState`, `WeakHolders`) and states `ImplementsLifecycle`.
**RefCountInvariant** has the inductive invariant `IInv` of RefCount, which the
proofs below explain.

**RefCountBits** models the packing: the word is a number of `3 + unowned +
strong` bits, and every operation is the arithmetic of `RefCountBitsT` on that
number, modulo its width. It runs beside `want`, the same state unpacked in the
form RefCount uses, so it justifies RefCount's record of counts. One thread is
enough, because a compare-exchange applies one such function to one word.

**Exclusivity** models `swift_beginAccess` and `swift_endAccess`: the list of
each thread threaded through the buffers, the report counter, the debugger's
flag and accesses a debugger abandons. `Walk(t)` is what a loop over the list of
a thread sees. `open` and `silent` are what the program has underway, in the
lists and outside them.
The steps of two threads share only the counter, which is atomic in the code,
so a call is one step.

**ConcurrentMap** models the tree. Every load, store and compare-exchange of
`Root`, `Left`, `Right` and `LastSearch` is a step.

| Variable | Code |
| --- | --- |
| `ptr[e]` | the edges: `Root`, and `Left` and `Right` of each node |
| `nodeKey[n]`, `alloc` | the key in a node's payload; which addresses hold a node |
| `lastSearch` | `LastSearch`, the node found last by any thread |
| `op`, `pc`, `key`, `edge`, `node`, `newNode` | the function a thread is in, its place there, its parameter and local variables |
| `result` | the pair the last call returned |
| `span[e]` | auxiliary: the keys a search for which passes the edge |

A node is its address, so the address of a node that lost a race can be handed
out again. The destructor runs with no call underway, and a new map may take
the place. **AtomicMap** is the abstract specification: a call takes effect at
one instant, on a function from keys to entries.

**MetadataAllocator** models `Allocate` and `Deallocate` on the pair of begin
and remaining that all threads exchange. The compare-exchange succeeds on an
equal pair even if the pool was given back and bumped again in between. `malloc`
gives any block that is free, also one that was freed before.

**MetadataCache** models `findOrAdd`. `entry[k]` has the union of `Value` and
`InitializingThread` as one word, written before `HasValue`. `lock` and
`waiting` are the mutex and the condition variable of the cache; a waiter may
wake up for no reason. `Needs[k]` are the keys that the builder of `k` looks up,
in its own or in another cache, also in a cycle.

**ForeignTypes** models `swift_getForeignTypeMetadata`. A critical section is a
step. The order of memory matters here, because the invasive cache of a record
is read without the lock: `sees[t]` are the records whose initialization thread
`t` is sure to see, `lockSees` and `cacheSees[r]` what the lock and a stored
cache word pass on. A relaxed store passes on nothing. The lock is dropped
around the initialization and the waits, while `savedIterator` points into the
`DenseMap`: `table` has the map's size and the array of buckets in use, an
insertion changes the size and may move to another array, and each call keeps
the size and the array it last saw. `getCurrentEntry` (`CurrentEntry`) looks up
again if the size has changed. An iterator into an array that is gone reads
anything, and what is written through it is lost.

**ConformanceCache** models `swift_conformsToProtocol` for one protocol (keys
hold the protocol, records of other protocols are skipped) and
`_registerProtocolConformances`. The search without the lock is a step per entry
and per operand of `getFailureGeneration() == SectionsToScan.size()`, whose
order the language leaves open. Under the lock a search is one step, because the
cache is written only there, and the scan is a step per record.

**IncrementalBuild** models the builds of one module, one after another.

| Variable | Code |
| --- | --- |
| `src`, `inputs` | the source files: modification time, what the interface hash covers, the names used |
| `deps`, `obj`, `exe`, `record` | what is on disk: `.swiftdeps` files, object files (with what their compilation read), the linked output, the compilation record |
| `b` | `PerformJobsState` and the `TaskQueue`: conditions and times read at the start, the graph, scheduled, finished and deferred jobs, what blocks the link job, the queue, the executing jobs |
| `last` | auxiliary: how the last build ended, and which faults there were |

The pure part is the dependency graph (`Loaded`, `Marked`, `Visited`), where a
name is traversed once per build, and edges are only ever added. A file provides
one name. A compile job reads all sources when it begins, and writes its
dependencies before its object file. The faults are compile errors, other exit
codes, crashes, dependency files that are not written, jobs that cannot be
spawned, a killed driver (also between the renaming of the old record and the
writing of the new one), and edits while a build runs.

**TaskQueue** models `execute` with the children it spawns. A child writes
chunks to its two pipes, blocks on a full one, may close a pipe before it ends,
and exits or is ended by a signal at any point of its script; the parent begins
tasks, polls the output pipes, goes through the events of all of them in order,
reads an output pipe to its end and then the error pipe, waits for the child and
calls back. `written` counts what each child has written.

The **MC** modules add symmetry sets, small layouts, types, sections, scripts
and dependencies for TLC. The **Proofs** modules (of RefCount, ConcurrentMap,
Exclusivity, MetadataAllocator, MetadataCache, ForeignTypes, ConformanceCache and
TaskQueue) hold the inductive invariants, lemmas and theorems.

Operators named `Mutant...` are deliberately wrong versions of the definition
that follows them. They are used only to confirm that each property can fail.

## Runs

| Run | Configuration | What holds | States |
| --- | --- | --- | --- |
| `refcount` | 2 threads, 3 variables, 2 entries, all counts reach their limits, non-atomic calls when exclusive | `TypeOK`, `CountsExact`, `MemorySafe`, `AssertionsHold`, `NoLeak`, `UniqueIsSole`, `ImplementsLifecycle` | 255,866 |
| `refcount_live` | 2 threads, 2 variables, no symmetry, fair | `EventuallyFreed`, `LockFree` | 89,615 |
| `refcount_bits` | inline word 3+3 bits, entry 4+4 bits, three entry addresses | `WordsExact`, `OutcomesExact`, `UniqueExact` | 20,169 |
| `exclusivity` | 2 threads, 2 variables, 4 buffers, report limit 2 | `ListExact`, `LawOfExclusivity`, `EndFindsAccess`, `NoFalseReport` | 27,638 |
| `map` | 2 threads, 3 keys, 4 node addresses, destruction | `IInv`, `NoLeak`, `NoDangling`, `ImplementsMap`, `SearchDescends` | 24,443 |
| `allocator` | 2 threads, sizes 1 to 3, pages of 4, addresses 0 to 8 | `NoOverlap`, `FreeIsFree`, `NoLostPage` | 3.1 million |
| `conformance` | 2 threads, 4 types (generic, class, superclass, without descriptor), 2 sections registered in any order | `AnswersSound`, `AnswersComplete`, `FailuresCover` | 3,361,133 |
| `metadata_cache` | 3 threads, 4 keys in 2 caches with a chain and a cycle of needs, fair | `OneMetadata`, `NoSelfWait`, `CallsReturn` | 77,736 |
| `foreign` | 2 threads, 4 records of 3 names, an initialiser that asks for a superclass, fair | `OneCanonical`, `InitializedOnce`, `CallsReturn` | 136,315 |
| `incremental` | 3 files in a chain, one optional, 2 parallel jobs, 2 edits, compile errors | `GoldenRule`, `Linked` | 444,331 |
| `incremental_faults` | 2 files, 1 job at a time, 1 edit, every fault, fair | `EditedRebuilt`, `BuildEnds` | 477,668 |
| `task_queue` | 4 tasks, 3 at a time, pipes of 2 chunks, failures, signals at any time, pipes closed early, spawn errors, fair | `OutputComplete`, `AllReported`, `ExecuteReturns` | 308,687 |

Why the bounds are enough to be interesting. In `refcount`, two threads give
every pair of racing operations, and each can be stopped between its load and
its compare-exchange while the other runs whole operations. Three variables
allow a strong, an unowned and a weak reference together, batches of two, and
moves between variables. At most one new entry per thread is ever allocated, so
two entries never run out. The limits are so low (strong 1 and 2, unowned 2 and
3, weak 3) that overflow aborts and the move to a side table by unowned overflow
happen. In `refcount_bits` every count reaches its limit in both layouts, and the
addresses include one whose upper bits are zero, which only the mark bit saves
from being taken for a count. Four buffers make accesses in the middle of a list
end first, also while another access is outside the lists.

Three keys make a tree of depth three, in which a thread loses a race more than
once on its way down; four addresses are one more than can be linked, so a node
that is given back is reused. In `allocator` the addresses suffice for a page
and large blocks beside the initial pool, so that both threads can open a page
and one loses. In `conformance` a stale failure, a scan that skips sections and a
registration between search and lock all occur, with both orders of the
sections. In `metadata_cache` the two builders of a cycle can be one thread or
two, while the third thread waits for either. In `incremental` two edits make a
build after a failed build after an edit; one of them can be the addition or
removal of a file. In `task_queue` one child writes more than a pipe holds and
has to be read while it runs.

Deadlock is checked except in four runs. `refcount_bits`: after the object and
its entry are gone no operation is possible. `allocator`: the bound `MaxAddress`
leaves no room for another page. `metadata_cache`: builders whose metadata needs
itself may wait for each other for ever, which `CallsReturn` confines to exactly
that case. `task_queue`: the queue is executed once. `refcount` and the others
check it; a program that is over stutters (`Terminated`).

Fairness. `FairSpec` of RefCount has weak fairness of each thread's steps inside
the runtime (the scheduler runs every thread) and of `swift_deallocObject` (a
`deinit` that has dropped its references to self returns). Nothing makes the
program call anything, so `EventuallyFreed` assumes that all variables become
unused. A thread may lose its compare-exchange for ever, so single operations
need not end; `LockFree` says that some operation always does. In MetadataCache
and ForeignTypes each thread inside a call has weak fairness, which does not
make a spurious wake-up happen and does not hand a waiter the notification it
missed. A mutex that is taken again and again could starve a thread in theory;
each key is set once, so weak fairness is enough. In IncrementalBuild the driver
goes on and jobs end; in TaskQueue the parent and every child go on when they are
not blocked, but no signal and no early closing of a pipe has to come. ConcurrentMap needs no fairness: `SearchDescends` gives a bound on
the steps of a call as an action property.

## Proofs

`RefCountProofs` holds for any sets of threads, variables and entries and any
limits that satisfy `SetsAssumption` and `LimitsAssumption`. It proves
`TypeCorrect == Spec => []TypeOK` for every program. `TypeOK` alone is not
inductive. `StoreWeak(t, loc[t])` puts the location of the thread into a weak
variable, and that is an entry only because a thread that increments a weak count
is never at the header word. The inductive invariant is therefore
`TypeOK /\ WeakOpsAtEntry`. The least obvious conjunct of `TypeOK` is that a
strong count is a natural number: a decrement either finds enough or becomes a
deinit (`Underflows`).

Its other theorems assume `TakeWhileHeld` and `NonAtomicRule # "soleStrong"`
(together `Disciplined`). These are assumptions about the callers that the
properties need: without either one TLC shows the property violated (items 1 and
3 of "Where the code differs"). Nothing in the repository promises the first.
`swift_weakTakeStrong` is what `load_weak [take]` becomes (`IRGenSIL.cpp:3691`),
and no rule of that instruction says that the object is held elsewhere. The
second is what `-assume-single-threaded` gives: the pass
`AssumeSingleThreaded.cpp:39-50` makes every reference counting instruction
non-atomic in a program that says it has one thread. Both admit programs: the
`refcount` run is one with non-atomic calls, `refcount_live` one without.

- `CountsAreExact`: `CountsExact`, the counts in the word are the references that
  exist.
- `MemoryIsSafe`: `MemorySafe`, no access to freed memory and no second free.
- `NonAtomicStoresAreSafe`: a store that compares nothing loses no update.
- `AssertionsNeverFail`: `AssertionsHold`, the assertions that its definition
  lists, on words that hold counts. Words with a side table pointer are outside
  it; two assertions fail on them (item 4 below).
- `NothingLeaks`: `NoLeak`.
- `ObjectsLiveAsPromised`: `ImplementsLifecycle`, every action is a step of
  ObjectLifecycle or a stutter.
- `UniquenessIsRight`: the action property `UniqueIsSole`.

They rest on `IInv`. A word says nothing about who may use it, so
`CountsExact` is far from inductive: a release that is about to succeed keeps
the counts exact only if its thread really holds what it releases, and memory
stays allocated only for threads that hold something. The parts of `IInv`:

| Part | Says | Needed because |
| --- | --- | --- |
| `Slots` | the variables of an operation are its thread's, and a weak variable points to the installed entry | other threads cannot take them away between load and compare-exchange |
| `Fits(t)` | what kinds of variables each operation consumes and fills | a commit changes the counts by their number |
| `Placed(t)` | which stages an operation can be in, at which location, and that a side table pointer that was read is the installed one | a thread in an old word must end up at the right entry; an entry being installed is private |
| `Relies(t)` | what the caller holds until the operation is over | it keeps the memory alive while the thread is stopped |
| `Alone(t)` | a thread with a non-atomic load behind it is the only one that knows the object, and the word is unchanged | the store compares nothing |
| `StrongExact`, `UnownedExact`, `WeakExact`, `PinExact` | the counts and the pin flag | |
| `Deinit` | one thread deinitialises, and after deinit began only it has strong references | the unowned count it stands for is given back once |
| `FreeObject`, `FreeEntry` | one thread frees the object, one deletes the entry, with a count of zero | no second free |
| `ObjectAllocated`, `EntryAllocated`, `Entries` | allocated exactly as long as something holds it; other live entries are private to a thread that may install them | memory safety in one direction, no leak in the other |

Only a step of a thread can disturb what it relies on itself (`OthersKept`
collects why not others), so each action has to restore `Local` of its own
thread and the parts about the words. `ActorIsPresent` says that while one thread
is exclusive no other takes a step. The lemmas that end in `Kept` go
through the actions; counting is by lemmas on cardinalities (`Gained`, `Lost`,
`CarrierCount`, `MoveCount`).

The refinement uses the same invariant. Its least obvious steps are the
retain, which must meet a live object or come from its deinit (`RetainLifecycle`,
from `Deinit` and `Relies`); `Install`, which gives the object its side table and
moves the counts unchanged (`GainLifecycle`); the unowned release that frees, where
the state goes from DEINITED to FREED or, if another thread has meanwhile given
back the last weak count, straight to DEAD; and the copying of weak references,
which needs a live object unless there is a weak holder (`WeakHeld`).
`UniquenessIsRight` needs that a thread which has no reference of its own cannot
make a strong one by what it is still doing in the runtime (`EmptyHanded`).

`ConcurrentMapProofs` proves, for any sets of threads and nodes and any set of
integer keys (`ConcurrentMapAssumption`):

- `TreeInvariant`: `IInv` holds always. A thread that stands at an edge has
  compared its key with every node above, at different times, while other
  threads extended the tree. That its edge is still the place for its key cannot
  be said with the tree alone without an induction over paths. The auxiliary
  `span` says it locally: an edge knows the keys that belong below it, a new
  node splits the span of its edge (`SpanInv`), a thread's key is in the span of
  its edge (`ThreadsInv`), and the spans of different null edges are disjoint.
  `LinksInv` says that a node hangs from one edge.
- `Safe`: `NoDangling`, from the same invariant.
- `NothingLeaks`: `NoLeak`. That the destructor reaches every node follows from
  `Reached`: an allocated node that no thread carries hangs from an edge of a
  node that is itself linked.
- `SearchGoesDown`: the action property `SearchDescends`. Spans are nested
  (`Nested`), and a node that another thread has linked takes its own key out of
  the span of the edges below it.
- `Refinement`: `ImplementsMap`. The least obvious steps are a find that reads a
  null edge, where `SpanInv` shows that no node has the key, and the
  compare-exchange, which takes effect before `LastSearch` is stored.

`ExclusivityProofs` proves all four properties of the run: `ListIsExact`,
`LawIsKept`, `EndIsFound` and the action property `ReportsAreTrue`. The law needs
the list: a conflict is found only if the walk from `Head` passes every access.
`LinksInv` says of each pointer where it leads, `BuffersInv` that a buffer serves
one access, so that the pointer of one list is never overwritten through another.
`WalkFacts` then says what the loop, a recursive function over positions, sees:
its equation has a solution because `LinksInv` gives one, and has no other by a
least position at which two would differ. That the loop ends is a counting
argument (`AccessesFit`: a thread has no more accesses than there are buffers).

`MetadataAllocatorProofs` proves `AllocationsApart`, `PoolIsFree` and
`PagesKept`. The compare-exchange of `Allocate` compares the pool with a state
that may be stale and may have come back; what a thread has decided on that
state is sound whenever the pool equals it again (`ThreadInv`), because it
depends on the pair alone. A block on its way back is in
nobody's hands, and lies outside the free words.

`MetadataCacheProofs` proves `MetadataIsUnique` and `SafeguardSeesCycle`. A key
has at most one frame past its insertion, in one thread, and the word that
`Value` and `InitializingThread` share names that thread until `HasValue` is
set; only the innermost frame of a thread is anywhere else than in its builder.

`ForeignTypesProofs` proves `CanonicalIsUnique` and `InitializationRunsOnce`. A
null entry of `Types` has one owner, the frame that runs the initialization; an
entry that is not null is a record of that name, initialized if it has to be,
and the cache of a record holds nothing else. Both rest on `SavedInv`: an
iterator whose saved size is still the size of the map points into the buckets
in use, because entries are never removed and every insertion changes the size.

`ConformanceCacheProofs` proves `AnswersAreSound`, `AnswersAreComplete` and
`FailuresAreCovered`. A thread reads entries and the number of sections at
different times without the lock, while an entry changes from failure to success
and generations grow. The invariant is therefore about every entry, also a
successful one and one that a scan is about to change: no failure generation
covers a section with a conformance for its type. During the scan, what was
scanned holds nothing or was caught. `TypesAssumption` says what the chain of
superclasses is, and that types with the same descriptor, or without one, agree
on the descriptors of their superclasses; it leaves out the artificial
subclasses of item 8 below, for which `AnswersSound` does not hold.
`RecordsAssumption` says that a type has one conformance: no record denies what
another one grants, as a class that is null because it is weakly linked would.

`TaskQueueProofs` proves `OutputIsComplete` and `NoTaskLeftOut`, for any scripts,
pipe sizes and degrees of parallelism: what a task has written is what was read
and what is in its pipes (`PipesInv`), and what was spawned is what was reported
and what is polled (`TasksInv`). A report is sent after both pipes were drained.

Every inductive invariant was checked with TLC in the configuration of its run
before it was proved.

Only model-checked: all of RefCountBits (powers of two at variable widths, which
the provers have no arithmetic for) and IncrementalBuild (the marking of the
graph is a fold, so induction over data). Liveness under fairness and ENABLED
are out of the prover's reach: `EventuallyFreed`, `LockFree`, `CallsReturn`,
`BuildEnds` and `ExecuteReturns` stay with TLC.

## Where the code differs

Statements of the repository that the code does not keep. Each one is a
definition of a module, or a change of a configuration, with which TLC shows the
behaviour; the runs above are about what the code does keep.

1. `nativeTakeStrongFromBits` (`WeakReference.h:171`) gives back its weak count
   and then retains through the same entry, which it may just have deleted. It
   is correct only while something else keeps the entry: with
   `TakeWhileHeld = FALSE`, `MemorySafe` fails in `refcount`. The unit tests
   `LongRefcounting.cpp:894` and `1040` make such a call, on the last weak
   reference of an object that is already freed.
2. `RefCount.h:67-70` says the weak count of the unowned references is given back
   after the object is freed; the code gives it back before (`RefCount.h:1390`).
   `EntryOutlivesObject` fails in `refcount`. `MemorySafe` shows that this is
   harmless.
3. The non-atomic decrement (`RefCount.h:1472-1478`) says it uses the slow path
   when it cannot guarantee atomicity, but the slow path also stores without
   compare-exchange, and an unowned release in another thread can be lost:
   `NonAtomicStoreIsSafe` fails in `refcount` with `NonAtomicRule =
   "soleStrong"`. With one thread at a time it is safe.
4. `tryIncrementAndPin` (`RefCount.h:819`) calls `setIsPinned` on a word that may
   hold a side table pointer, against the assertion at line 496:
   `SetIsPinnedMeetsCounts` fails in `refcount_bits`. In the same way
   `isUniquelyReferencedOrPinned` (`RefCount.h:960`) asks `getIsDeiniting` before
   it looks for a side table, against the assertion at line 460:
   `GetIsDeinitingMeetsCounts` fails. Without assertions the results are right
   (`OutcomesExact`, `UniqueExact`).
5. `swift_verifyEndOfLifetime` (`HeapObject.cpp:155`) expects a count of 0 from a
   function that never returns 0 (`RefCount.h:935`): `EndOfLifetimeAccepted`
   fails in `refcount_bits` with `InitialUnowned = 2`, a stack object.
6. After 100 reports a conflict that should be fatal is no longer checked for
   (`Exclusivity.cpp:85`): `ConflictIsFatal` fails in `exclusivity`.
7. `getFailureGeneration` asserts that its entry is a failure; the entry can
   become a success after `isSuccessful` was asked (`ProtocolConformance.cpp:369`):
   `GenerationOfFailure` fails in `conformance`. The value is compared and not
   trusted, so `AnswersComplete` holds.
8. A conformance of a descriptor that is found through a type without a
   descriptor is cached under the null descriptor (`ProtocolConformance.cpp:569`).
   If there is such a type with a superclass that has one, as the artificial
   subclasses of the Objective-C runtime are, other types without a descriptor
   are then said to conform: `AnswersSound` fails in `conformance` with a type
   whose chain is itself and `base` and whose descriptor is `Null`.
9. `setCachedUniqueMetadata` (`Metadata.h:1806`) says a release store publishes
   the initialization; when the record has an initialization function the store
   is relaxed. `InitializationPublished` fails in `foreign`, on the fast path of
   a second thread.
10. The golden rule of `docs/DependencyAnalysis.rst` (lines 16-17 and 113-115)
    does not survive every fault. Without `~last.disturbed`, `GoldenRule` fails
    after an error while another job runs (`Compilation.cpp:403`: what
    the failed job marks is traversed and then dropped, so that the other job,
    which ends with a new interface, does not visit its own dependents again,
    and they are recorded as up to date), after a crash (`Compilation.cpp:337`), after the driver is killed
    between the jobs and the record (`Compilation.cpp:849`: new dependency
    files, old record), after a job that could not be spawned, and after an edit
    during a build (`Compilation.cpp:728`, with `MaxEdits = 2`). Under these
    faults `EditedRebuilt` holds in `incremental_faults`, that is with two files,
    one job at a time and one edit: there, only dependents are missed, never a
    file that was edited itself. An error while another job runs and a second
    edit are outside that run.
11. A job that cannot be spawned ends `execute` with an error that nobody looks
    at (`Compilation.cpp:594`), and the build ends with success and unfinished
    jobs, against the assertion at lines 620-621. `EditedRebuilt` and `Linked`
    except that build by `~last.dropped`.
12. `TaskQueue.h:36-37` says that after `StopExecution` no new tasks begin. The
    answer of a later callback overwrites the flag (`TaskQueue.inc:405`), and
    tasks begin again: `StopMeansStop` fails in `task_queue`.
13. The error pipe of a task is read only after its output pipe has come to its
    end (`TaskQueue.inc:262`), and only the output pipe is polled (343). A child
    that writes more errors than the pipe holds blocks for ever, and so does
    `execute`: `ExecuteReturns` without `ErrorsFit` fails with `PipeSize = 1`.

## Not modelled

Memory orders, except in ForeignTypes: TLC's interleavings are sequentially
consistent, while the code uses consume, release and relaxed accesses. Several
objects at once: the counts of two objects never interact in the runtime.
Objective-C weak references and objects. `HeapObject.cpp`'s boxes, metadata and
leak tracking. Static objects (`swift_initStaticObject`), whose only extra is a
`swift_once`. 64-bit widths: the packing is checked at small widths only. On a
32-bit target `AddressAssumption` excludes side table entries in the last bytes
of the address space, where a large `n` of `swift_retain_n` would carry out of
`UseSlowRC`. It also excludes entries whose stored pointer is odd, which
`isUniquelyReferencedOrPinned` would take for a pinned object; allocators align
entries to twice the granularity the shift needs, so there are none.

`ConcurrentList`, which only a unit test uses, and `Lazy`, whose only step is a
`swift_once`. What the builders of metadata put into it, and the caches of
simple kinds, which are a `ConcurrentMap` alone. Artificial subclasses in the
conformance cache, see item 8 above.

In the driver: external (cross-module) dependencies, several kinds of names,
members, batch output and command lines; empty or truncated dependency files,
which the loader rejects or reads as having no uses; the task queues without
parallelism; failures of `poll` and `waitpid` themselves; descendants of a child
that keep its pipes open after it has ended.

Standard library algorithms: hashed storage, sorting, array buffers and the
decoders are sequential, and what they compute is a matter of data. The
compiler itself (parsing, type checking, SIL, IR generation) is sequential
translation over large data types, which TLC cannot enumerate and for which a
model would be no shorter than the code. Objective-C interoperation forwards to
a runtime that is not part of the repository.

## Plan

Done: the runtime's counts, words, exclusivity, map, allocator and caches; the
driver's incremental builds and task queue; the refinements of ObjectLifecycle
and AtomicMap; the proofs of all safety properties of the counts, the map, the
exclusivity checks, the allocator, the caches and the task queue, and of both
refinements. Left: hashed storage with linear probing and deletion that fills
holes, against a set, as the first of the standard library's algorithms.
