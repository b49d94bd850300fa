# librcd in TLA+

librcd is a C runtime: light weight fibers scheduled on a few kernel threads,
segmented stacks, region heaps, exceptions, and a calling convention between
fibers (inter fiber calls, IFC) on which everything else is built.  This
directory holds a model of its concurrent core, the TLC configurations that
check it, and TLAPS proofs about it.  Paths below are those of the repository:
`lwthreads.c` is `src/lwthreads.c`, and so on; line numbers are in
`PROJECT.json` ("map").

## 1. The system: inventory

| Component | State it keeps | Operations | Hard behaviour | What makes it correct | Module |
|---|---|---|---|---|---|
| Fiber scheduler (`lwthreads.c`) | run queue `exec_blocked_fibers` and its futex; per fiber a control word: `deferred`, `done`, `canceled`, `join_race`, `unintr`, under a spinlock | enqueue, dequeue, defer, yield, wake (done / join race), cancel, mitosis, finalise, teardown | a fiber decides to sleep on one thread while others complete, cancel or race it; executors sleep on a futex | no lost and no double wake-up, a fiber in one place, no idle executor next to queued work | `FiberCtrl`, `FiberSched`, `FiberWake` |
| Debug choke (`lwthreads.c`) | `debug_choke_enabled`, `_count`, `_futex` | `lwt_debug_choke_fibers`, choke section of dequeue | flag, counter and futex word are separate atomics | one executor is spared, all are released | `DebugChoke` |
| Spinlocks (`include/atomic.h`) | one word | read / write lock and unlock | load and compare-and-swap are separate | exclusion, exact word | `RWSpinlock`, `RWLock` |
| IFC: accept and join (`lwthreads.c`) | function queues with reference counts, waiting clients, server and client structs, event stacks | accept, join (free, shared, missing), leave, cancel, teardown | client and server of each call run on different threads; every wait can be interrupted; a fiber can be client and server, nested | server state used under readers/writer discipline; nobody forgotten by a server that is canceled or dies; cancellations kept | `IFC`, `IFCUse` |
| I/O blocking (`lwthreads.c`, `rio.c`) | fd tracking: waiting fiber and "ready" marks per direction | `lwt_io_block`, the monitor thread, release on close | edge triggered events arrive before, while or after the fiber registers | readiness not lost, tracking names only blocking fibers | `IOBlock` |
| Run-once (`lwthreads.c`) | the once word: init, done or an event fiber id | `lwt_once` | the initialiser throws, waiters are canceled | initialised once, every call ends | `LwtOnce`, `Once` |
| Acid memory (`acid.c`) | private map, dirty pages, pages of the snapshot with their copies and locks; `ctrl`: the order to the sync thread and three wait fibers; journal file, data file | open and replay, write fault, fsync, fsync_journal, fsync_async, snapshot, the sync thread's commit, expand, close | power failures and kills at any step, stores during a commit, callers that come while one is under way | the next open finds a whole snapshot, a sync that returned is durable, every sync returns | `Acid`, `AcidStore`, `DiskFile` |
| Exceptions, unwinding (`lwthreads.c`) | event stack of a fiber; the exception's own heap | throw, throw again, forward, catch, the unwinding of each kind of block | destructors and releases run while the exception unwinds | partly: one owner of the exception's heap; what happens to IFC frames | `FiberHeap`, `IFC` |
| Fiber heaps (`vm.c`, `lwthreads.c`) | heaps with their allocations, parent and in-use bit; `current_heap`; handles of alternative heaps | alloc, free, import, escape, consume; `sub_heap`, `switch_heap`, `sub_heap_txn`; release | destructors allocate in the heap that is being released, and release others | one owner per heap, nothing is left when the fiber ends | `FiberHeap` |
| VM allocator, janitor (`vm.c`) | free list per power of two, index lists, dirty queues, `janitor_wait_state` | reserve, unreserve, realloc, the janitor's loop, `vm_wait_for_janitor` | dirty chunks are reused while the janitor cleans them; the wait state has three writers and a reader outside the lock; a reallocation unmaps before it maps | every line in one place, nobody's chunk given twice, the janitor is not left asleep | `VM`, `VMAlloc`, `VMProofs` |
| IFC library (`ifc.c`) | servers' local state | event fiber, fiber map, pipes, semaphore, alarms | monitors that outlive what they watch, keys that are used again | partly: the fiber map under a condition variable | `PthreadCond` |
| POSIX threads (`pthread.c`) | `locked_fiber`, `lock_count`; `cond_event_map` | mutex and condition calls; rwlock, threads, keys | signals that meet waiters which register, time out or are canceled | the mutex is held where the caller thinks so, a sleeper can be signaled, waits return | `PthreadCond`, `PthreadCondProofs` |
| rio, json, rest, fstring, stdio, avl, rb, hmap, list, sort | data | sequential operations | - | reference behaviour | rio partly (`IOBlock`) |
| musl, PolarSSL, compiler-rt, asmlib, utf8 tables | - | - | third party or generated | - | not modelled |

How they interact.  Executors (kernel threads) dequeue fibers and switch to
their stacks; a fiber returns to its executor to sleep, yield or end.  Every
blocking operation is the same pattern: register somewhere that you wait
(IFC waiting queue, fd tracking, once word), then *defer*; whoever completes
it finds the registration, sets `done` in the control word and, if the fiber is
deferred, queues it.  Cancellation and join race are the two interrupts: they
set a flag in the control word and wake the fiber if it is not masked
(`unintr`).  IFC, I/O and once are clients of the scheduler; `ifc.c`,
`pthread.c` and `acid.c` are clients of IFC (a caller of
`acid_fsync` joins a parked fiber that the sync thread cancels).  Locks nest: the IFC lock
(`shared_fiber_mem.rwlock`) before a fiber's control lock before the run
queue's lock.

`PROJECT.json` lists the hazards of this code (`hazards`), each at its line
and with the properties that would catch it.

## 2. Plan

1. Spinlock, scheduler, and the wake-up promise (done, proved).
2. IFC, the largest and most intricate part (done, proved).
3. I/O blocking, once, debug choke (done, proved).
4. Acid: stores, journal, crash and recovery, and the abstract store `AcidStore`
   (done, proved).  A store opened shorter and grown again is left out (section 4).
5. Virtual memory: `VM` (free lists, reallocation, janitor) and its promise `VMAlloc` (done, its safety proved).
6. Heaps and the unwinding of blocks: `FiberHeap` (done, proved).
7. On top of IFC: the mutex and the condition variable with the fiber map,
   `PthreadCond` (done, its safety proved).  Left: `IPipe`, `Semaphore`, `PthreadRWLock`, and the life of a POSIX thread
   (attach, join, detach, exit).
8. The typed handlers and stacklets of the event stack.

`avl.c` and `rb.c` are a third party's and are not planned.

Every safety property that a run checks is proved.  Proofs still worth doing come with what is left of 7 and 8.

## 3. Modules and how they correspond to the code

A module has one action per critical section or per shared access: what the
code does under one lock is one action, and two actions follow one another
where the code releases a lock in between.  `at` (or `pc`) of a fiber or thread
says between which two of them it is.

* **RWSpinlock** - the word of `rwspinlock_t`, and for each thread the value it
  loaded.  Load and compare-and-swap are separate actions; a compare-and-swap
  that fails goes back to the load.  `RWLock` is the abstract lock (sets of readers
  and writers); `RWSpinlock` implements it with `Reading` and `Writing` computed from
  where the threads are.
* **FiberCtrl** - the control word as a record and the operators on it: `Cancel`,
  `WakeDone`, `WakeJoinRace`, `CancellationPoint`, `Bounces`.  Used by `FiberSched`, `IFC` and
  `IOBlock`, so that all of them mean the same by "interrupted".
  `hidden_cancel` is set in accept, while a canceled server waits for its clients to leave:
  the cancellation is put aside and a further one ignored.
* **FiberSched** - `queue` and its futex (`stale`: the executors that read the word before
  the last change), `ctrl`, the place of each executor and of each fiber.  Fibers nondeterministically wait, yield,
  spawn, mask themselves, cancel or race others and end; whoever may complete a
  wait is a fiber or the outside.  `FiberWake` is the promise to those who wait:
  a parked fiber has no reason to run, and every reason given to it is seen.
* **IFC** - `refs` and `queues` (function queues with the free-ish and shared-ish
  server lists and the reference count), `waiting` (clients in order),
  `server`, `joins` (each fiber's stack of joins; `MaxDepth` bounds it),
  `fiber_map`.  Actions follow `__lwt_ifc_accept` from the reference taking over the
  attach loop, the defer, the cancel loop, the restore and the cleanup; and
  `__lwt_fiber_stack_push_ifc_call_join` from the search for a shared or free server
  over the wait, the step out and the throw, to the leave.  Who may accept
  which functions, join whom, be canceled, mask itself or end is a record,
  `program`, that a behaviour picks from the constant `Programs` and keeps: a
  program is a topology.  `IFCUse` is the abstract use of a server's state:
  offered, shared by readers or locked by one, taken back when empty.
* **IOBlock** - `bfd` (tracking: fiber and mark per direction), `at`, the events
  harvested by the monitor and not yet delivered, and, as the environment, the
  readiness edges of a descriptor.  Its `program` says who uses which direction,
  whether two fibers may compete for one (`contend`), and which descriptors epoll
  refuses (`full`).
* **LwtOnce** - the once word, the event fiber ids, and each caller's place;
  `Once` is the abstract contract.
* **DebugChoke** - the three choke variables and the part of dequeue that reads
  them, with the run queue reduced to its length and futex.
* **DiskFile** - the kernel's files as `acid.c` uses them (external): the image that
  is in the cache, and all the images the disk may hold.  A write that was not synced has come to the
  disk, has not, or is torn, each block for itself; changes of a file's size come in order,
  and a block that was cut off is not used again before that is durable (a journaling file system;
  with a weaker one a page of an old journal could pass for one of the new).  Two files keep no
  order between one another.
* **Acid** - `data` and `journal`; `private`, `writable`, `dirty` for the map and the dirty
  index; `npages`, `cow`, `jbuffered`, `plock`, `vec` for the snapshot that is being
  written; `op`, `op_futex`, `in_sync` and the wait fibers for `ctrl`.  `main` and `sync` say
  where `acid_open` or `acid_close` and the sync thread are; `SyncStep` is `acid_sync_thread` and
  `acid_sync_commit` from lock to lock, system call to system call and page to page.
  A wait fiber is the set of the callers that hold its id: those of `ctrl` (`waits`), and those
  the sync thread took over with the snapshot (`taken`).  Store values are numbers, so
  that a page shows which stores it has; the hash of a page is its contents.  The journal's size
  counts the pages after the index.
  `AcidStore` is what `include/acid.h` promises: memory of which one snapshot after another
  becomes durable in one step, and a crash goes back to the last, or to the one that was
  becoming so.
* **VM** - `free` (`free_vm_list`), `indexes` and `indexPages` (`free_map_ranges`, and the pages
  that were made indexes), `new`, `old` and `sizes` (the dirty queues, and the lists per
  size), `waitState`, `end` (`pool_mmap_end_2e`).  `mapped` is the kernel's, `owned` the callers' chunks.
  Memory is counted in lines, and a chunk of class c is `2^(c-1)` lines (`VMChunk`).  The section under the list lock and the index
  sections nested in it are one action; so are the two of a push that takes the list lock itself.
  The three system calls of a reallocation are three actions, as others may map memory between them.
  `VMAlloc` is `include/vm.h` for the callers: a chunk is given to one of them at a time.
* **FiberHeap** - `live`, `parent`, `in_use` and `allocs` for the `vm_heap_t` structs; `kind`, `heap` and `handle` for each
  allocation; `current`, `events` and `thrown` for the fiber.  A fiber is sequential, so an action is a call; a release is a loop that runs
  destructors, which may begin other releases, so it is left in steps and `frames` is the stack of
  the releases under way.  An object has a destructor, which allocates in the current heap; a handle's destructor
  releases its heap; a throw unwinds block by block.  A block may switch to any heap that a handle of
  the fiber has, also to one the fiber is inside of, as the code has no test; a sub heap in a heap that is in use then ends the
  fiber (`"in use"`, the core error of vm.c:1039).  An `emitosis` block makes a heap and switches to it, and `throw_em` makes
  that heap the exception's while the fiber is still in it (`ThrowEm`).  What the model asks of the program is in `Handles` and `Movable`: a handle
  is freed, moved, consumed or thrown as an exception only while its heap, and what ends with that, is not the heap of a block the program is
  inside of, but for `throw_em`.  `away` holds the global heap and the heaps of the fibers
  that were started: this fiber does not touch what is in them any more.
* **PthreadCond** - `locked_fiber` and `lock_count`; `map`, `key`, `home` and `monitor` for the fiber map of
  the condition (an entry is an event fiber; a broadcast replaces the map, `maps` counts them); `event` for the event fibers.  Each
  accepted call is one action, for its server runs nothing else meanwhile; `pthread_cond_timedwait` is a
  sequence of them, with the path of its handler.
* **MCIFC**, **MCIOBlock**, **MCAcid** give TLC its programs.  **MCAcid** also assumes of them what the theorems of
  `AcidProofs` ask for.
* **FiberSchedProofs**, **PthreadCondProofs**, **IOBlockProofs**, **IFCProofs**, **AcidProofs**, **VMProofs**, **FiberHeapProofs** hold the
  proofs, and **AtomicWordProofs** those of the spinlock, the once word and the choke, whose names are chosen so that one
  module can extend the three.

## 4. Runs, bounds and what they show

| Run | Instance | Shows |
|---|---|---|
| `RWSpinlock` | 3 threads, fair | progress of the lock as a whole, refinement of `RWLock` (hence exclusion) |
| `FiberSched` | 2 fibers, 2 executors, fair | no missed sleeper, no double run, waits end for a cause, no idle executor with work queued, queued fibers run, refinement of `FiberWake` |
| `IFC` | 4 programs of 3 or 4 fibers: `OneServer` (a locked and shared calls on two functions), `Chain` (c joins s, s inside a join of t), `Nest` (two nested joins of one client, with two servers or one), `Side` (a server side accept, client and server at once) | the safety of accept and join, cancellations kept, refinement of `IFCUse` |
| `IFC_live` | 3 programs, fair, handlers unwind: `Turns`, `Park` (with a fiber that joins itself), `ChainCanceled` | the starve counter gives the locked caller its turn, a canceled server gets out, teardown releases everybody who waits |
| `IOBlock` | 3 programs of 2 fibers, fair: `Socket`, `Contended` (both on one direction), `Pipes` (two descriptors, one not pollable) | a ready descriptor's waiter has an event coming and is woken, tracking names blocking fibers only |
| `LwtOnce` | 3 callers, 3 event fibers, fair | once, with throws and cancellations, refinement of `Once` |
| `DebugChoke` | 3 executors and a caller | one spared; a choked executor whose futex word has changed has its wake-up ahead (one that sleeps on the present word is not spoken of, see `ChokedIsReleased` below) |
| `Acid` | 4 programs of 2 callers and 2 pages, fair: `Busy`, `Async` (canceled waits, close and open again), `Failing` (power failure, expand), `Killed` (kill, open with another length) | crash safety, durability of a sync that returned, the assertion on the journal, every sync returns, refinement of `AcidStore` |
| `VM` | 2 threads and the janitor, 12 lines, a page of 2 lines with 2 indexes, classes 2 and 3 asked for, 5 calls, fair; the system leaves holes alone | every line of the pool in one place, lists that agree, "waiting" means clean, dirty memory is reclaimed or reused, `vm_wait_for_janitor` returns, refinement of `VMAlloc` |
| `FiberHeap` | one fiber, its heap, the global heap and 2 more, 3 allocations, blocks 4 deep | one owner per heap, everything the fiber has not given away is freed at the end; a release meets no heap in use, a sub heap only one that was switched to a second time |
| `PthreadCond` | 2 threads, 2 waits, 2 signals or broadcasts, a recursive count of 2, time-outs, one thread canceled, fair | mutex held where it should be, sleepers can be signaled, waits return, entries leave the map |

The bounds.  Two executors are enough for every race between a thread that puts
a fiber to sleep and one that wakes it; the proofs of section 6 are for any number.  Three
clients make a queue in which one steps out of the middle; chains and nests of
depth two, `MaxDepth`, are "a server whose own wait is interrupted".  `MaxQueue` is one fiber in
the queue of the choke model, more only make its executors busier.  Two pages
let a crash come between them, and let one be stored to while the other
is written; `stores` (1 or 2 per program) are a store before and one after a snapshot;
`crashes` is 1, and besides every reachable state is judged by what any crash would leave (`Outcomes`).
Futex words are change flags, so the 2^32 wrap is not modelled.

In `VM` 12 lines hold the first mapping and the doubled one, so chunks are split, pages become
indexes and memory runs out (`down`); 5 calls are two chunks that are
freed while a third is asked for and a thread waits for the janitor.  `MaxShrink` is 1: the lines that a shrink
leaves behind are counted (`lost`), and by more classes the rest may be misaligned as well (a finding).  In `FiberHeap` four blocks are `switch_heap`, a sub heap in
it, a switch back and another sub heap, or a throw out of an `emitosis` with a sub heap inside; the 2 heaps are any two of a nested
one, that of an exception, of an emitosis or of a fiber in mitosis, and an alternative one; 3 allocations are
a handle, an object and what its destructor makes.  What needs more heaps at once is left to the proofs.  In `PthreadCond` two
waits are two entries whose keys can be the same, in one map or in two.

The model states several facts in one property where they are facets of one hazard: `BooksAgree` (types, who is attached, live references)
and `NobodyForgotten` of `IFC`, `ServersRelease` (a canceled server leaves, a dead one releases), `PoolConsistent` of `VM`
(`Accounted` and `ListsAgree`).  Each part has its own name in the module, and a mutant that breaks it.

Deadlock is checked in every passing run but those of IFC, I/O and `PthreadCond`, where the fibers may all end
or have nothing to do.

Every property was also run against a plausible mistake in the code it is about.  Those are the operators
whose comment begins with "Slip": a dropped test, a missing wake, a swapped order.  Each stands before the
operator it varies, and "mutants" in `PROJECT.json` pairs it with the property
that it breaks under the bounds of the property's own run.

One run expects a violation, and documents what the code does against its own header:

| Run | Property | What happens |
|---|---|---|
| `VM_hole` | `MemoryIsAvailable` | 2 threads, 28 lines, 4 calls, `HolesTaken`: `vm_mmap_realloc` unmaps its new chunk, another thread's `mmap` is placed there, `mremap` replaces it, and two callers hold the same lines |

The other findings in `PROJECT.json` are reproduced with a property that stays in the module
and another choice of constants:

| Module | Property | Constants | What happens |
|---|---|---|---|
| `MCIFC` | `RestoreKeepsRace` | `Programs <- RestorePrograms` | the restore after the cancel loop of accept overwrites a newer join race |
| `MCIOBlock` | `FailedAddUnregisters` | `Programs <- FullPrograms` | `epoll_ctl` fails, the fiber stays registered |
| `DebugChoke` | `ChokedIsReleased` | 2 executors, `FairChokeSpec` | the choke futex is bumped before the flag is stored; an executor may stay choked |
| `MCAcid` | `ReplayIsSafe` | `Programs <- BothPrograms` | killed before the journal's fsync, and a power failure during the replay from the page cache: torn data, no journal |
| `FiberHeap` | `EndsInOrder` | `EscapesOuter = TRUE` | the parent of a heap in use is read with its in-use bit |
| `PthreadCond` | `LeftIsUnregistered` | as in the run | a wait that timed out leaves its entry to the monitor; a signal may take it |
| `PthreadCond` | `NothingUndefined` | as in the run | canceled while it registers, the handler reads variables that were not written |

Seen on the way and not kept as runs: a fiber in an uninterruptible block is deferred and canceled at once,
against the comment at `lwthreads.c:291`; a client that is raced and then canceled throws the cancellation
first and keeps a join race that a later cancellation point throws; with the choke on, the executor woken for a queued fiber is choked
and the spared one sleeps on; a store opened shorter and expanded again may find pages of the
journal that `acid_open` truncated but did not sync, if the files keep no order; `acid_fsync_async` returns the fiber of the full sync where
`include/acid.h:69` says "when commit is complete"; shrinking leaves lines behind (`lost` in `VM`), and
`import_complex` calls escape (both in the findings).

## 5. Fairness

* Executors and the monitor are kernel threads in endless loops: weak fairness
  on their steps.  A fiber that is on an executor and in a runtime function
  proceeds: weak fairness on those steps, never on a fiber's own decisions (to join,
  to accept, to end).
* `IFC` has strong fairness of `Leave`: client code returns from a call.  `UnwindingSpec` adds what
  the comment at `lwt_test_live_join_race` asks of code that catches a join race: not to block in
  the raced call again.
* `LwtOnce`: callers and event fibers run; a waiter goes on once its event fiber has
  ended.  The initialiser returns or throws.
* `Acid`: the sync thread is a thread of its own, and a call or an expansion that began goes on. Callers are not made to call,
  nor the program to store.  System calls return.
* `VM`: a thread that is in a call goes on, and so does the janitor, which is a thread of its own; its nap
  is a `sigtimedwait` with a time limit.  Nobody has to call the allocator.
* `PthreadCond`: a call that began proceeds (weak).  Whoever waits for the mutex gets it in the end if it is free again and again (strong),
  because a server takes its waiting clients in the order they came; for this a program unlocks what it has locked (strong on
  the last unlock).  Event fibers and monitors that were canceled end, and a monitor whose
  fiber has ended removes its entry (weak).  A time limit may never come; only the alarm of a timed lock does.
* `FiberHeap` has only safety, and states no fairness.
* Spinlock: a thread that is in a call takes its next step.  One writer can starve,
  and no property says otherwise.

## 6. What is proved

For any sets of fibers, executors, threads and callers:

* **Scheduler** (`FiberSchedProofs`): `TypeOK`, `DeferredHasNoReason`, `DeferredHasWaker`,
  `WokenForCause`, `OnePlace`, and the refinement of `FiberWake`.  The
  invariant is `IInv`: no fiber is twice in the queue (`QueueOnce`), a fiber
  is on at most one executor (`OneExecutor`), newborns have no executor and an
  untouched control word (`NewbornInv`), what each executor's place says
  of its fiber (`ExecutorInv`), where a fiber is for each of its points
  (`PlaceInv`), and what sleeping and waiting mean for the control word
  (`WakeInv`).  `OnePlace` alone is not inductive: that the queue gets
  a fiber only once needs that a deferred fiber is in no other place, which needs
  `ExecutorInv`.  The refinement adds `IndexInv`: who can still be found by its id.
  `WorkConserving` is inductive together with `StaleWaits` (only an executor about to call
  FUTEX_WAIT has a value that can be out of date): an enqueue adds one to the queue and, if anybody
  sleeps, one to those on their way.  Executors is assumed finite, so that there is a number of them.
* **Spinlock** (`AtomicWordProofs`): `WordCountsHolders`, `MutualExclusion` (a consequence), `ImplementsRWLock`.
  Invariant: types, the word counts the holders, and there is one writer; the cardinality
  lemmas on adding and removing a reader are the arithmetic.  Threads is assumed finite.
* **Condition variable** (`PthreadCondProofs`): `MutexHeld` and `SleeperIsIndexed`.  `MutexInv` adds to `MutexHeld` that a thread in a wait
  which has the mutex holds it once (`WaitHoldsOnce`; else the unlock of a wait would not give it up) and that only a thread in a timed
  lock has a sub fiber (`SubWhileTimed`).  `WaitInv` says that no two threads wait with the same event fiber
  (`WaitsAreOwn`) and that an entry is in the map before its thread gives the mutex up (`Indexed`): `SleeperIsIndexed` is not inductive
  alone, since a removal by a key that is used again must be seen to hit only the entry of the fiber it is for.
* **Once** (`AtomicWordProofs`): `OnceTypeOK`, `AssertsHold`, `EventFibersOwned`, `ImplementsOnce`.
  Invariant: `OnceTypeOK`, one caller is chosen (`OneChosen`), the owner of a published event fiber knows it
  (`OwnersKnowFid`), and the assertions.

* **Debug choke** (`AtomicWordProofs`): `OneIsSpared` and `ChokedIsWoken`, for any finite set of executors.  The second (`StaleSleeperIsWoken`)
  is of an executor that sleeps with a futex word which has changed since, and of no other.
  `OneIsSpared` needs that an executor which is about to add itself read a count that left room for one to
  be spared (`SeenLeavesRoom`): the compare-and-swap fails if the count has moved since.
* **I/O blocking** (`IOBlockProofs`): `RegisteredFiberBlocks` and `ReadinessNotLost`, for any fibers, descriptors, events and
  programs.  `BlockInv` adds what each fiber inside `lwt_io_block` wants (`Wants`).  `PathInv` follows an event to the fiber: who
  was not told is registered, a descriptor that is being closed is unused, a tracked one is in the
  epoll or about to be.  `NewsInv` is the core: what became available since the system call that would have
  blocked is pending in the epoll or left a mark (`NewsArrives`), given that no two fibers want the same
  (`OneWants`); with contention the code promises less.  A descriptor for which `EPOLL_CTL_ADD` was refused is
  excepted, as in the property (`Overlooked`): nothing is ever told of it.  `None` is assumed to be no pair of a
  descriptor and an event.
* **Accept and join** (`IFCProofs`): all the safety of the component, `BooksAgree`, `NobodyForgotten`,
  `CanceledServerCloses`, the action property `CancellationKept` and the refinement `ImplementsIFCUse`, for any finite set of
  fibers, any functions, any programs and any depth of joins.  The invariant, `IFCInv`, is stated per fiber, per server
  and per queue: `Books` (types; who stands where in its stack of joins and in whose `running` list it is,
  `Standing` and `Joined`; the reference counts, `Counted`; what queues and references point to, `Refers` and
  `Allocated`; that a server is its own or server side, `OwnOrServerSide`), what a server that runs, waits
  alone or restores has (`Serving`, `Alone`, `Restoring`), what a waiting client has (`Waiting`), which servers
  a queue leads to (`Finds`), and `NoMissedServer`.  None of the properties is inductive alone: that a client does not miss
  a server needs the lists of the queues to name each server that listens, which needs the reference counts.
  Each step is described once by what it does to each variable, so that the parts can be shown one by one.
* **Acid** (`AcidProofs`): `JournalVerifies`, `SyncedIsDurable`, `CrashSafe` and the refinement `ImplementsAcidStore`, for any finite
  number of pages and of callers, any number of stores and crashes, and any programs.
  There are two invariants.  `SessionInv` is of memory and of what the files hold in the cache, and has no hypothesis.
  It says what is mapped (`Lengths`); that a page which is not dirty is the snapshot's, and that one without a private
  copy comes from the data file (`MemoryInv`); what the data file is between two commits
  (`IdleInv`), while the snapshot is journaled (`JournalingInv`: the fault handler has kept what may change and is not in the
  journal yet) and while it is copied (`CopyingInv`); how far the journal is (`ProgressInv`) and
  that the page being hashed is locked and clean (`LockInv`); that a caller's wait fiber is where
  the sync thread will take it from, and what it asked for is by then in the snapshot or durable (`MemberInv`, `AskedInv`); and that
  `acid_close` leaves nothing dirty (`CloseInv`).  From it follow `JournalVerifies` and `SyncedIsDurable`; neither is
  inductive alone, because the journal is written page by page while the callers store.
  `DiskInv` is of every image that the disk may hold of the two files.  In a session each image of the data file
  is what is durable but for pages that the journal lists (`DataInv`), and each image of the journal is
  useful (faithful to what is durable, or to the whole snapshot) or void: a page that its index lists is not in it, and
  was overwritten everywhere, so that no later write can complete it (`JournalInv`, `Void`).  This is why an old index over new
  pages does not verify; it needs that stores make new contents (`FreshInv`).  Between sessions,
  what `acid_open` makes of the files is the durable snapshot or the one after it, and stays the same
  whatever is lost while it does so (`OpenInv`).  `SizesInv`: the data file has the pages that a journal lists.
  `DiskInv` has two hypotheses on the programs.  `Grows`: an open does not make the store shorter; a shorter one
  throws pages away by design, and pages that a journal lists too.  `OneFailure`: the processes are killed or the power
  fails, each as often as one likes, but not both in one history; the code needs this, as `ReplayIsSafe` shows (section 4).
  TLC evaluates both on the programs of the run (`MCAcid`).
  The refinement maps memory to what is mapped, or to what is durable while nothing is, and `snapshot` and `durable` to those
  of `Acid`: `Store` is `Store`, `TakeSnapshot` is `TakeSnapshot`,
  the sync of the journal is `Commit`, the end of `acid_close` and a crash are `Crash`, mapping is `Recover`, and every other step stutters.
* **Virtual memory** (`VMProofs`): `PoolConsistent`, `WaitingIsClean`, `MemoryIsAvailable` and the refinement
  `ImplementsVMAlloc`, for any threads, classes, lines and number of calls, under one hypothesis, `~HolesTaken`: the system maps
  nothing in the hole of a reallocation.  The code needs it, as the run `VM_hole` shows for `MemoryIsAvailable`.
  The invariant, `Inv`, says of the parts of the memory (`Part`: a chunk and the place it is in) that they are apart and, with the lost
  lines, are the pool (`Books`); what is in a thread's hand for each of its places (`ProcsOK`); which two chunks a
  reallocation has (`MovingOK`), for its lines are in no list while they are unmapped; that the two dirty queues and the lists
  per size have the same chunks once (`DirtyOK`); that the old queue is empty when the janitor ages the new one (`AgedOK`);
  and that each large free chunk has its index and the index pages make up for it (`PoolOK`).  `PoolConsistent` has no
  hands and no holes to say it of, so it is not inductive.  A step is one transaction on the books (`Account`):
  some parts are exchanged for others of the same lines.  The splitting of a chunk, `a .. a + 2^(large-1) - 1`
  into halves (`Rung`), and the pushing of a sequence of chunks are shown by induction, done as the least
  counterexample with the well-foundedness of the naturals (`LeastOf`).  `WaitingIsClean` is
  inductive relative to `Inv`: that the janitor marks itself as waiting with both queues empty needs `AgedOK`.

* **Fiber heaps** (`FiberHeapProofs`): `HeapsOwnedOnce`, `EndsInOrder`, and that a heap in use is never met by a release, and by a
  sub heap only when the program has switched to that heap from inside of one nested in it (`InUseIsReentered`), for any number of heaps and allocations and blocks of any depth.  `EndsInOrder` has one hypothesis,
  `~EscapesOuter`: the program escapes no allocation of a heap that another is nested in.  The code needs it (the finding on
  `vm_heap_escape`, section 4); the other two hold without it.  The invariant, `FiberInv`, says of every state of a running fiber that
  each heap has one owner, and each kind of owner just the heaps that its part of the state names (`Owned`); that an allocation is in
  the list of its heap or in the batch of the release that frees it, once (`Listed`); that the heaps in use are those with a sub
  heap and those in release (`Base`); which heap each block on the event stack has and which it goes back to (`Blocks`), where one heap may be that of several blocks;
  and who ends with whom: a pair of heaps in `Edges` for each handle, from the heap the handle is in to its heap.
  No heap ends with itself (`Founded`).  The heap that is made for a block (a sub heap, an emitosis or a mitosis) lies in a set of heaps closed under `Edges` that
  has no heap of a block outside of it (`SubsApart`); those in release, in one that has no heap of any block (`FramesApart`).  The exception's heap may be that of blocks
  which are being unwound, so its set has none of the heaps outside of a try block (`HeapApart`, `Outside`): where it is caught
  a handle in the heap of such a block takes it over, and it does not end with itself.
  Neither property is inductive alone: that a release which a destructor begins does not
  meet a heap that is still used is a fact about paths of handles through several heaps, which imports and throws rearrange.  With closed
  sets a step is shown by naming the set after it; what the program may call is decided along paths in the model (`Found`), so
  `Found` is shown to give the least closed set, with an induction on the length of a path as in `VMProofs`.
  Moving a handle keeps `Founded` because its heap is not one the program is inside of (`Handles`, which the
  theorems therefore assume of the program).

All of them rest on the named assumptions on the constants alone (`SchedAssumption`, `ChokeAssumption`, `IOAssumption`,
`IFCAssumption`, `AcidAssumption`, `VMAssumption`, ...), which TLC evaluates on the runs, but for the two hypotheses of `Acid`,
that of `VM` and that of `FiberHeap`.  `VMAssumption` has it that the address space is smaller than a chunk of the class after the largest.

Only model-checked: all liveness, `SomeCallCompletes`, `EnqueuedRuns`, `CallsEnd`, `NotStarved`, `ServersRelease`,
`WaiterWoken`, `FsyncReturns`, `DirtyIsReclaimed`, `EntryLeaves` and `WaitReturns` (of `VM` and of `PthreadCond`): fairness and
ENABLED are out of the proof system's reach.

## 7. Not modelled, and why

What is left of the plan (section 2) is for later: the other servers of `ifc.c`, the rwlock and the life of a thread in
`pthread.c`, stacklets.  Third-party and
generated code is out of scope.  In what is modelled, left out on purpose: stacks, and heaps
in every module but `FiberHeap` (allocation never fails), the contents of messages, exception texts, the guard
fibers and watchdogs used for debugging, processor memory order (atomics and locks are
sequentially consistent), and futex word wrap-around.  In `Acid` a system call that fails once the
store is open ends the process, as the code has it, except ENOMEM of `mprotect`, which is retried; the hash does not
collide; the lock on the files keeps a second process out.  In `VM`: the janitor's assertion that a chunk begins at a page (vm.c:437; the finding on
vm.c:768 is a chunk that does not) and the death of the process when `madvise` fails (440-442), the counter `vm_total_allocated_bytes`, the guard pages and backtraces of the debug builds,
and the free lists of the heap structs.  In `FiberHeap`: `server_heap_flip`, destructors that throw
or open blocks, and typed handlers (a try block catches everything); `throw_em_fwd`, which imports the heap of the emitosis into
that of another exception and which nothing in the repository uses; a `throw_em` that a try block inside of its emitosis catches; and
an exception thrown again from inside of its own heap, or a handle freed, moved or consumed from inside of its heap.  In `PthreadCond`: a recursive mutex is held once when a wait begins, as POSIX asks;
mutexes whose server has been destroyed; and a normal mutex locked twice by its owner, which waits for ever as POSIX has it.
