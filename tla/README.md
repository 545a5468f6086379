# YY-Thunks: specifications, model checking and proofs

YY-Thunks lets programs that are linked against a recent Windows SDK start on old systems, back to
Windows XP. For every API a target system may lack it supplies a *thunk*: a function of the same
name that looks the API up at run time, calls it if the system has it, and otherwise emulates it.
Most thunks are short wrappers. A few are not: the lookup and its caches are shared by all threads
of the process, and the emulations of one-time initialisation, slim reader/writer locks, condition
variables, waits on addresses, barriers, thread pools and fiber-local storage are lock-free
concurrent programs; one keeps a table in memory that processes share. Those are what this project specifies.

Source paths are relative to the repository; `synch.hpp`, `threadpool.hpp` and so on stand for
`src/Thunks/api-ms-win-core-synch.hpp` etc. "The word" is the shared machine word an algorithm works
on.

Contents: [parts of the system](#parts-of-the-system), [modules](#modules),
[runs](#runs), [bounds](#bounds), [fairness](#fairness), [proofs](#proofs),
[where code and comments disagree](#where-code-and-comments-disagree),
[what is not modelled](#what-is-not-modelled), [plan](#plan).

## Parts of the system

| part | state it keeps | operations | what is hard about it | what makes it correct |
|---|---|---|---|---|
| **Thunk core** `YY_Thunks.h`, `YY_Thunks.cpp` | a status, a cookie, one encoded pointer per API, one handle per DLL | `_YY_initialize_winapi_thunks`, `try_get_function`, `try_get_module`, `__YY_uninitialize_winapi_thunks` | first calls race with initialisation, with each other and with preloading; two threads load one DLL; the image is unloaded or the process exits | every call gets the system's function where there is one; one reference per loaded DLL, none afterwards; no cached pointer into an unloaded DLL |
| **Shared data** `YY_Thunks.cpp` | a mapping shared by the images of one process, a pointer to a view in each | `GetYY_ThunksSharedData`, `FreeYY_ThunksSharedData`, `GetGlobalKeyedEventHandle` | images and threads create or open it together; images are unloaded | one mapping; one view per image; nothing in it lost |
| **InitOnce** `synch.hpp` | one word: state, stack of waiters or context | `InitOnceBeginInitialize`, `InitOnceComplete`, `InitOnceExecuteOnce` | waiters' blocks live on their stacks; failed attempts are retried; asynchronous initialisers compete | one initialiser; one context for ever; each waiter woken once |
| **SRWLock** `synch.hpp` | one word and a list of stack blocks | acquire, try, release in both modes | the list is walked, shortened and woken while threads queue; barging | mutual exclusion; readers counted; nobody forgotten |
| **Condition variables** `synch.hpp` | one word: newest block, a lock bit, a count of wake-ups left to the lock's owner | sleep, wake one, wake all | a wait times out while wakers cut the list; wake-ups are handed over in the word | every wake-up carried out; no dead block on a list |
| **WaitOnAddress** `synch.hpp` | 128 hash buckets, a word and a list each | wait, wake one, wake all | the same, and several addresses share a list | a wake-up reaches somebody who was there; no dead block |
| **Keyed events** `synch.hpp` | a handle | wait, release | below Windows Vista a second wait may end without its release | a release meets the wait it is meant for |
| **Barrier** `synch.hpp` | two counts, two events whose handles carry a marker bit | initialise, enter, delete | plain accesses that a processor may reorder; two rounds at a time; deletion while threads leave | rounds kept apart; nobody sleeps through; deletion waits |
| **Thread pool** `threadpool.hpp` | pool: one 64-bit word, a task queue, a reference count; work object: packed counts, an event, a reference count | submit, run, wait, cancel, close | runners come and go while tasks are posted; close and drain beside callbacks | no task left behind; no use after free; waits outlast callbacks |
| **Task queue** `src/Shared/InterlockedQueue.h` | a list of ring buffers | `Push`, `Pop` | one pusher and one popper without a lock between them | a FIFO queue; no use of a deleted block |
| **Timers and waits** `threadpool.hpp` | a registration with the system, a lock, an event, a reference count | set, clear, wait, close | a callback runs while its registration is replaced | freed after the last callback; waits outlast callbacks; every call ends |
| **I/O objects** `threadpool.hpp` | as work objects | start, complete, cancel, wait, close | a cancelled operation may still complete | as work objects |
| **FLS** `fibers.hpp` | per index a flag word with a lock bit and a list of the threads' nodes; per thread a counted block | alloc, free, set, get, thread exit | an index freed while threads set values and exit | each value's callback called once; blocks freed with their last node |
| **Pipe peers** `namedpipe.hpp` | two pools of slots with a generation, in memory shared by processes | register, query: find, claim, replace | a process may die half-way; slots are replaced under readers | never another instance's id |
| **TLS repair** `DllMainCRTStartup.hpp` | a list of blocks, a status word | attach, detach, unload | other threads run meanwhile | each block freed once |
| **ThreadRunner** `ThreadRunner.h` | a window's thread, two lists of tasks, a reference count that is also a lock | add, remove, pass a message on | the last task goes while a new one comes; tasks are removed and freed under the loop that calls them | a window for every task; no task freed while wanted |
| **HookThunk** `src/Shared/HookThunk.h` | per image a stack of free blocks; per buffer a count | alloc, free, free all | a stack without a lock (ABA); blocks of one buffer end up in several images | a block in one place; a buffer freed with its last block |
| **Everything else** | nothing between calls | conversions and calls of older functions | data, not control | — |

How they interact. Every thunk begins in the thunk core: `try_get_X` reads the API's slot and may
initialise, load and cache on the way. Only if it finds nothing does the emulation run, so the
emulations rely on the core for nothing but the absence of the API, and for the system's keyed
events, on which InitOnce, SRWLock, condition variables and WaitOnAddress block. `InitOnceExecuteOnce`
calls the raw pair of InitOnce. A work object posts itself to a pool; the pool's two spin locks
serialise the pushers and the poppers of the task queue, and a runner (`ExecuteTaskRunner`, run by
`QueueUserWorkItem`) pops tasks and calls back into the work object. References tie the two: each
queue entry holds one to its work object and one to the pool.

The hazards of this code, each at its line and with the properties that would catch it, are listed
in `PROJECT.json`.

## Modules

One module per component. A step is one access to shared memory that other threads can tell apart:
one interlocked operation, one plain read or write of a shared word, or one call of the system. A
retry loop around a compare-exchange is one step if a failed round changes nothing, and several
where the thread goes on with what it has seen.

| module | models | abstract specification | proofs |
|---|---|---|---|
| `ThunkCache` | `YY_Thunks.h:308-747`, `YY_Thunks.cpp:1474-1622` | — (its promise is `GoodAnswers`) | `ThunkCacheProofs` |
| `InitOnce` | `synch.hpp:660-853, 1348-1498` | `Once` | `OnceLockBarrierProofs` |
| `SRWLock` | `synch.hpp:240-366, 1669-2156` | `RWLock` | `OnceLockBarrierProofs` |
| `Barrier` | `synch.hpp:2536-2731` | `Rendezvous` | `OnceLockBarrierProofs` |
| `WaitOnAddress` | `synch.hpp:858-1303, 2757-2861` | — (its promise is `WakeReaches`) | `SleepersProofs`, `NobodyLeftProofs` |
| `ConditionVariable` | `synch.hpp:434-653, 2198-2268, 2431-2512` | — (its promise is `WakesKeptButForgotten`) | `SleepersProofs`, `NobodyLeftProofs` |
| `ThreadpoolWork` | `threadpool.hpp:201-291, 351-395, 505-512, 620-745, 867-1006, 1191-1234, 2117-2203` | — | `ThreadpoolProofs` |
| `ThreadpoolTimer` | `threadpool.hpp:1040-1080, 1298-1468, 1775-1968` | — | `SideBySideFairProofs` |
| `ThreadPool` | `threadpool.hpp:304-552, 845-849` | — | `ThreadpoolProofs` |
| `InterlockedQueue` | `InterlockedQueue.h` | `Fifo` | `SideBySideProofs` |
| `PipePeers` | `namedpipe.hpp:29-55, 175-552` | — (its promises are `IdsOfItsInstance`, `AnswersRight`) | `SideBySideProofs` |
| `Fls` | `fibers.hpp:11-128, 166-381` | — | `SideBySideProofs` |
| `SharedData` | `YY_Thunks.cpp:1624-1692`, `YY_Thunks.h:664-672`, `synch.hpp:193-234` | — | `SideBySideFairProofs` |
| `HookThunk` | `src/Shared/HookThunk.h` | — | `HookThunkProofs` |
| `ThreadRunner` | `ThreadRunner.h` | — | `SideBySideFairProofs` |
| `MCSideBySide` | the instances of `InterlockedQueue`, `PipePeers` and `Fls` | | |
| `MCSideBySideFair` | the instances of `SharedData`, `ThreadRunner` and `ThreadpoolTimer` | | |
| `MCSleepers` | the instances of `WaitOnAddress` and `ConditionVariable` | | |
| `MCOnceAndLock` | the instances of `InitOnce` and `SRWLock` for the properties of both with fairness | | |
| `MCBarrier` | the instance of `Barrier`, beside those of `MCOnceAndLock` | | |
| `MC`*X* | the instances of *X* for the other runs and for the configurations beside them | | |

**ThunkCache.** A cached pointer is encoded with a cookie; a word of the cache is a record of the
value (`null`, `found`, `absent`) and the cookie it was encoded with, and decoding it under another
cookie gives `wild`. `SetSlot` is one iteration of the loop over the slots, in any order, which
allows more than the array's order does. `TestSlot`, `ReadSlot`, `ReadModule`, `Load`,
`CacheModule`/`CacheInvalid`, `FreeDuplicate`, `FindProc` and `Store` are the accesses of
`try_get_function` and `try_get_module` in program order. What the system is like is chosen once in
`Init`: which DLLs there are, what they export, and whether preloading is on. `Stop` is the loader's
decision to unload the image, with nobody inside, or the end of the process, at any time for the
other threads; after that only the thread that unloads goes on. `raced` remembers that a thread ran
into another's initialisation: what the code does then is described under
[where code and comments disagree](#where-code-and-comments-disagree), and `GoodAnswers` speaks of all other behaviours.

**InitOnce.** The word is a state and a pointer; a wait block is on its thread's stack, so the
thread's name is its address. The two orders of a keyed event, release first or wait first, are both
there: the releaser waits for the waiter. A call whose arguments are refused is a step that only
answers. The exception that `InitOnceExecuteOnce` raises ends the thread.

**SRWLock.** The word is a record of its four flag bits, the number of readers and the newest block.
Walks over the list take one turn per step. Writes to a block nobody else can reach go with the step
that follows. What the properties say of lists (`Oldest`, `OnWord`, `Follow`) are least sets closed under links.

**Barrier.** The marker and the sign of `lRemainderThreads` are plain memory. `inOrder`, chosen in
`Init` and never changed, says whether the processor keeps a store and a later load of another
address in order; if not, `LookEarly` and `CheckEarly` let the load go first, which is what a store
buffer does on x86.

**WaitOnAddress, ConditionVariable.** Both keep a list of stack blocks behind one word, as SRWLock does,
and both let a wait end by itself: `TimeOut` may happen at any moment in the kernel, so that it races
with every step of every waker. Only the owner of the list's lock, which is a bit of the word, writes
links, so a walk (`Mark`, `Linked`, `Unlink`) goes with the step that follows it. What is on a list,
or in a waker's hands, is the least set closed under the links (`Follow`, `Behind`), as for SRWLock, and each block that a
waker takes off the list is a step of its own. The walk of a thread that wakes sleepers at an address is cut where it meets a
block of that address (`Met`): it goes on to the end of the list, or it takes the block in its hand (`Scanned`, `HoldOlder`, `HoldNewest`). What a thread finds
locked it leaves to the owner: a count of wake-ups in the low bits of a condition variable, the request
to look again in a bucket's word. The ghosts `owed` and `unreached` remember what is promised: how
many of the sleepers wake-ups have been called for, and which waiters were there when a wake-up began.
The memory a waiter watches is the ghost `changed` of `WaitOnAddress`: whether it changed after the
waiter read it; the comparison is made after the block is on the list, which is what makes that
sufficient. A release and a wait on a keyed event are one step of the releaser, possible once the
waiter is in the kernel (`Asleep`). A thread that wakes everybody at an address may have to begin its walk
again whenever others lock the bucket, and a wake-up may be spent on a waiter that was timing out
anyway; neither is a fault.

*The second wait below Windows Vista.* A thread that timed out and whose block a waker has taken waits once more, for the
release (`kernelAgain`; `synch.hpp:1133` and, for condition variables, 2269). There
`SecondWaitWorkaroundNtWaitForKeyedEvent` (154-168) polls until the waker has marked the block (189) and then waits
for 5 ms only, so that the thread may return while its waker stands between the mark and the release (190). That is `Miss`: the
thread goes its way, the release stays in the kernel (`missed`), and its waker with it, for a release
has no timeout. `Meet` is such a release meeting the thread's next wait, if the new block is at the old
place of the stack; the model lets that happen at any wait and does not require it. That wait ends with
its block still on the list. What the list is worth then depends on what becomes of the stack frame, so `misled` ends the
behaviour: `NoDeadBlock` fails there, and nothing is modelled after it. `BelowVista` says for `WaitOnAddress` whether the second
wait has this end; condition variables are emulated below Vista only. A wait with the list locked (`kernelLocked`, 1067) is a plain
one without a timeout, and the release of `RtlpWakeByAddress` (1276) sets no mark, so that the second wait it ends cannot end before it;
a missed release of another waker may meet either.

**ThreadpoolTimer.** One object, a timer or a wait (`kind`), and the registrations it makes with the
system in its life, each with the thread that calls back for it. `Take` is the interlocked exchange of
the handle, which all functions that get rid of a registration share; `Delete` and `Outlast` are
the system's delete functions, which end the callbacks to come and, if told to, wait for the one under
way. `reentrant` says whether the program's callbacks call functions of their own object.

**PipePeers.** Instances are numbered as the kernel counts them. A slot's index and generation are one
64-bit word, exchanged together; its two ids are words of their own. `generation` is the header's
counter that dates each access; the arithmetic on it is unsigned and wraps at `GenerationBits`.
`Die` ends a process between any two steps; the table stays. `late` remembers the ids that were stored
in a slot after it had been replaced.

**Fls.** One index; a thread's node stands for its block. `Root` is both the head of the list and the
library that allocates and frees the index. `broken` marks the moment from which two threads may be
at the list at once, because `FlsFree` waits for the lock by resetting it, or because an exiting
thread had chosen an index that has since been freed and allocated anew.

**MCSideBySide, MCSideBySideFair, MCSleepers, MCOnceAndLock** put two or three components that share nothing in
one instance; the initial state says which of them runs (`part`), so that each is explored alone. A property
of one of them holds trivially while another runs. Fairness is asked of every component, and asks nothing of those that do
not run, for none of their threads is ever in a call. **MCBarrier** extends `MCOnceAndLock` by a part of its own, with a
specification in which only the barrier runs: the three together take TLC too long.

**ThreadpoolWork, ThreadPool, InterlockedQueue** split the thread pool at its interfaces. To the
work object the queue is a number of entries; to the pool a work object is a task; to the queue both
ends are one thread each, since the pool's word holds a push lock and a pop lock.
`ThreadpoolWork` is also the I/O object, which shares the counters and the event: its entries are operations in
flight, a completion is `Pop`, `StartFails` is `CancelThreadpoolIo`, and a wait that cancels subtracts the
references afterwards (`Subtract`).
`mayCancel`, `isDefault` and `mayFail` are again chosen in `Init` and never change: whether this
program ever cancels pending callbacks, whether the pool is the process-wide one, and whether
`QueueUserWorkItem` may fail.

In `InterlockedQueue` each access of `Push` and `Pop` to what the two share is a step, in program order.
An entry is its number, and a block remembers how many were pushed into the blocks before it (`before`, a
ghost), so that what is in the queue can be said without a recursion over the blocks: the numbers after
`First`, where `Pop` stands, up to `Last`, what has been counted (`Contents`).

`Pop` tests its block for entries (`InterlockedQueue.h:41`) and only then whether there is a next one (line 49). If `Push` fills
the block in between and links the next, `Pop` deletes a full block for an empty one. The abstract queue says so: `Fifo` is a
queue whose taker, having found nothing (`found`), may throw away a block full of entries, all of them put in since (`Lose`), and
nothing else. `found` is mapped to `FoundNothing`: `Pop` is between the two tests, and there has been nothing to take since, or
what there is came into the block it stands at. A `Pop` that passed over an entry at any other moment, or over fewer or more than a
block, would move `First` in a way that is no step of `Fifo`.

**SharedData.** An image may be unloaded with nobody in it and loaded again; each of the three system calls
may fail. A mapping lives as long as it has a handle or a view, its name as long as it has a handle, so that
`Create` finds the mapping that is there or makes a new one. The handle of a mapping's first user is never
closed; the data in the mapping is represented by the keyed event, which is opened once for all images and never
closed either, since the mapping outlives them. An image that works on its own data closes its event.

**HookThunk.** The link of a free block is in the place of the code, so that a link read too late may be code
(`Code`). A block goes to the list of the image whose `Free` is called, which need not be the one it
came from when thunks of one image work on an object made by another. `broken` marks the
moment at which the stack is deceived.

**ThreadRunner.** A client is a thread of the program, a window a thread of the runner. `Merge` says what the
loops at lines 96-107 do to the lists, not what they are meant to. `over` marks the points where the code has
used memory that is gone or believes in a window that is not there, and the end of the process.

The operators marked "Mutant" in the modules are never used by a specification. Each is a plausible
mistake in the definition after it, and for each property of a run there is one that TLC
refutes it with when it takes the definition's place.

## Runs

| run | instance | shows |
|---|---|---|
| `thunks` | 2 threads, 3 functions, a DLL to be loaded and one that always is | answers are right while nobody runs into an initialisation (`GoodAnswers`); references equal cached handles plus those in transit (`RefsBalanced`); a cached pointer's DLL stays loaded until the image is unloaded (`PointersAlive`) |
| `once_and_lock` | 3 threads; InitOnce with a good and a refused context, or SRWLock | InitOnce: each waiter on exactly one path (`WaitersReachableOnce`), the abstract once-object (`ImplementsOnce`), waiters are woken (`WaitersWoken`); SRWLock: a plain reader/writer lock (`ImplementsRWLock`), who queued gets it once callers stop coming (`QueueDrains`) |
| `srw_safety` | 4 threads | a writer is alone, and readers are counted wherever the count is (`OwnersRight`), no walk into a dead block (`NoDeadBlock`), a free lock with waiters has somebody to bring them on (`NoLostWakeup`) |
| `barrier` | 3 threads, unbounded rounds, both orders, with and without `NO_DELETE` | `LeaversWaitedFor`, the abstract rendezvous (`ImplementsRendezvous`); with accesses in order every round ends (`RoundEnds`) |
| `work` | 2 clients, 2 workers, 3 submissions; a work object and an I/O object | the reference count is exact (`RefsCounted`); if nobody cancels, the event is set when idle (`SignalledWhenIdle`) and waits end (`WaitsEnd`) |
| `pool` | 1 client, 3 system threads, at most 2 runners, 4 posts; private pool and default pool | the pool lives while it is used and its runners are counted (`PoolKept`), every task leaves the queue (`QueueEmpties`) |
| `sleepers` | 3 threads; 2 addresses in one bucket, or a condition variable | no dead block is reached (`NoBlockDead`), nobody sleeps on once everybody rests (`NobodyLeft`), a wake-up that returns has reached somebody who was there (`WakeReaches`), wake-ups left to the owner of a condition variable's list are carried out and its list is sound (`BlocksAndWakesKept`). The system is one below Windows Vista. Behaviours end when a missed release meets another wait, the moment at which blocks die; `NobodyLeft` speaks of states in which no release has been missed and, for the condition variable, no retry has written over the count |
| `condvar_forgotten` | 3 threads | *violation*: `NobodyStuck` |
| `side_by_side` | 2 processes, 3 instances, a slot per pool; blocks of 3, 11 entries; 2 threads and a library | pipe peers: `IdsOfItsInstance`, `AnswersRight`; task queue: null only when empty (`NullOnlyWhenEmpty`), a FIFO queue that loses whole blocks in one window and nothing else (`ImplementsFifo`); FLS: `BlocksCounted`, `CalledBackOnce` |
| `side_by_side_fair` | 2 images, 2 threads, 2 mappings; 2 clients, 2 windows, 2 tasks; 2 clients, 2 registrations, a timer and a wait | shared data: one mapping (`OneMapping`), no handle, view or event more or less than those kept and those in transit (`NothingLeaked`), what is in the mapping stays (`KeptForLife`); ThreadRunner: who has a task has a window (`Served`), tasks are freed once and late enough (`TasksAlive`), an unused window goes (`WindowGoes`); timers: waits outlast callbacks (`WaitOutlasts`), every call ends (`CallsEnd`); both: references are exact (`RefsCounted`) |
| `hook_thunk` | 2 images, 2 threads, 2 buffers of 2 blocks | until an ABA: a block is in one place (`OnePlace`), a buffer's count is exact and nothing is done with a buffer that is gone (`BuffersKept`) |
| `runner_lost` | 2 clients, 2 windows, 2 tasks | *violation*: `AllMerged` |

In a *violation* run the property is a statement of a comment or a test of the repository, and
TLC's counterexample is a behaviour of the code that contradicts it.

Type invariants and a few other properties (`OneInitialiser`, `NeverDisowned`, `OneContext` and `CallsAnswered` of InitOnce,
of which the first three are proved, `RoundsKeptApart` of the barrier, proved as well, `WaitersOnOneList` of SRWLock, proved too,
`ClosedIsFreed` of the pool, `BlocksLive` of the queue) are defined in the
modules and hold in the same instances; add them to the configuration to see it. The configurations
without a run show the other disagreements of code and comments, each with its command below.

`CHECK_DEADLOCK FALSE` stands where the system really stops: an image that has been unloaded, a
deleted barrier, an initialiser that raised, the last of a bounded number of submissions or
registrations, a process that died or ended, the moment a ghost like `broken`,
`over` or `misled` ends a behaviour. `srw_safety` checks for deadlock; in `sleepers` `NobodyLeft` says what a state of rest must be like.

### Bounds

* `Thread`. Two threads race for a slot, a module or a word; for InitOnce and Barrier a third makes
  the list longer than the two ends, or lets one thread be a round ahead of another. SRWLock needs four for
  safety: two readers, the writer that queues behind them and takes over their count, and one more
  waiter, so that the oldest, the newest and a middle block differ.
  For the waits on addresses and condition variables three are a waiter, another one beside it on the list, and a
  waker; the second of them can time out, be missed by its waker and wait again.
* `BelowVista = TRUE`: with `FALSE`, `Miss` cannot happen and `WaitOnAddress` has fewer behaviours; the proofs are for both.
* `Api`, `Module`. Two functions share a DLL, so one can find the handle that the other is about to
  cache; the third is of a pinned DLL, whose references nobody counts.
* `WakeMask = 7` is the code's own.
* `Registration`. Two: the one that is replaced and the one that replaces it.
* `Process`, `MaxInstance = 3`, `SlotsPerBucket = 1` (12 in the code), `MaxGeneration = 5`. Two processes, of
  which one may not use the global pool; one slot, so that every new instance replaces another's, twice.
  Three privileged processes with two instances were explored as well (4.3 million states).
* `GenerationBits = 4` (32): wide enough for `MaxGeneration`; what the wrap does is in `Difference`.
* `MaxPost` bounds submissions to a pool, four, or to a work object, three, both more than run at a
  time. Reference counts and counts of tasks follow from it; none of them is bounded otherwise.
* `MaxPush = 11` and `kMaxBlockSize = 3` (1024 in the code): four blocks, so that a block in the middle
  is linked, filled, drained and deleted while both ends are elsewhere. The indices are `size_t` and
  grow for ever; they are used modulo 1024, which divides the range, so that their overflow is harmless
  and left out.
  `Pop` may stand between its two tests for as long as it likes: 11 entries are enough for three blocks to fill meanwhile, and
  with `Lose` taken out of `Fifo` TLC finds a behaviour that loses a block.
* `Image`, `Mapping`, `Window`, `Task`: two each, the one that goes and the one that comes. A third mapping would be used only
  if `OneMapping` failed. `SharedData` alone was explored with three threads (352,000 states), `ThreadRunner` with three
  tasks (308,000), without an error.
* `Buffer = 2`, `Blocks = 2` (1024 in the code): a first block and another, whose counts differ in kind. With three blocks
  the state space is too large for a run.
* Loops of the code that only wait (spins) are a step that becomes possible when the wait is over.

### Fairness

Only the runs with liveness properties assume any. `WF(Inside(t))`: the scheduler runs every thread
that can take a step inside a call; beginning a call is never fair. On top of that

* InitOnce: a thread that was told to initialise completes, with success or not. Waiters depend on it
  by design, so that a caller that abandons an initialisation is `Abandoned`, an alternative outcome.
  `CallsAnswered` adds that initialisers stop failing, for each failure makes all waiters compete anew.
* SRWLock: whoever owns the lock releases it. `QueueDrains` adds that new callers stop coming:
  the lock is unfair and a stream of callers may barge in for ever.
* ThreadpoolWork: callbacks return, and workers fetch entries (`WF(Pop)`).
* ThreadpoolTimer: callbacks return, and a timer comes due (`WF(Fire)`, for timers only: the object of a
  wait may never be signalled, and who waits for such a callback may wait for ever, which `CallsEnd`
  allows).
* ThreadPool: strong fairness for `CountTask` and `Pop`, the two steps that take a spin lock. A
  thread that spins can be overtaken only by the bounded number of other threads' operations, and a
  strongly fair lock is what an interlocked test-and-set gives in practice on a fair scheduler; with
  weak fairness alone TLC could let one thread miss every window.
* Barrier: nothing more. `RoundEnds` holds for `inOrder` only; what happens otherwise is in
  `MCBarrierReordered.cfg`.
* ThreadRunner: the window's thread takes its messages and goes through its loop (`WF(Run)`); that a message comes at
  all is not assumed.
* SharedData, HookThunk: none; their properties are safety properties.
* WaitOnAddress, ConditionVariable: none is assumed. `NobodyLeft` says what holds when no thread can take
  a step of its own, and `WakeReaches` is an action property.

## Proofs

TLC checks small instances, TLAPS proves for every value of the constants: any (finite) set of
threads, any functions and DLLs, any contexts; any processes, slots, instances and number of accesses.
The theorems rest on the named assumptions of the modules (`ContextAssumption`, `NullIsNoThread`, `CacheAssumption`, `BarrierAssumption`,
`BoundsAssumption`, `WidthAssumption`, `NullIsNoProcess`, `PoolAssumption`, `NamesAssumption`, `BufferAssumption`,
`NullAssumption`, `ThreadsAssumption`, `RootAssumption`, `WorkAssumption`, `QueueAssumption`), which say no
more than that names are distinct, threads are finitely many, each function has a DLL, a bucket has slots, a generation does
not wrap, and a buffer has more than one block. TLC evaluates them in every run.

### ThunkCache

| theorem | states |
|---|---|
| `Invariance` | `Spec => []IInv` |
| `TypeCorrect` | types; a DLL is never given back more often than it was loaded |
| `AnswersRight` | `GoodAnswers` |
| `ReferencesBalanced` | `RefsBalanced` |
| `CachedPointersAlive` | `PointersAlive` |

None of the four properties is inductive: that an answer is right says nothing of the slot it will be
read from next. `IInv` adds what a thread knows of its own lookup (`LocalInv`), that what is cached of
a DLL is true of the system (`ModulesInv`), and that a slot with a pointer, or a thread that is about
to store one, has its DLL's handle in the module cache (`CachedInv`); with `RefsBalanced` this gives
`PointersAlive`. `AnswersInv` ties the status, the cookie and the slots together while nobody has run
into an initialisation: status `None` means cookie and slots are raw and every thread is before its first test of
the status (`StatusInv`); a slot is raw, or encoded under the cookie and right (`SlotsInv`); one
thread at most initialises, a thread past its test of a slot finds it encoded, and a thread about to
store holds the right word (`ThreadInv`).

Each part has a step lemma with one case per action. References are the only counted quantity: for
each action either the set of threads that hold a handle in transit is unchanged (`RefsUnmoved`), or
one thread joins or leaves it (`OneMore`, `OneLess`, from the library's theorems on cardinality).
That reference counts are naturals is not assumed in the step but follows from the balance
(`RefsTyped`). `NextIInv` puts the parts together; once `raced` is true it stays true (`RacedStays`)
and `AnswersInv` has nothing left to show.

### InitOnce

`MCOnceAndLock` extends `SRWLock` and has `InitOnce` as its instance `Once`, and `MCBarrier` extends that by the instance
`Barrier`; `OnceLockBarrierProofs` has the proofs of all three. The theorems here are about `Once!Spec` and `Spec`,
and `BothRun` says that the specification the run checks implies both.

| theorem | states |
|---|---|
| `OnceInvariance`, `OnceTypeCorrect` | `Once!Spec => []Once!IInv`, types |
| `SingleInitialiser`, `OwnershipKept`, `ContextAgreed`, `NoWaiterLost` | `OneInitialiser`, `NeverDisowned`, `OneContext`, `WaitersReachableOnce` |
| `DecidedOnce` | once done, the word never changes |
| `OnceImplementation` | `Once!Spec => ImplementsOnce`: initial states map to initial states, each step to a step of `Once` or a stutter |

`IInv` adds to the four properties what a thread's place says of its flags and of the word it saw
(`LocalInv`), that the states *async* and *done* are never left between a look and the act that
follows it (`SeenInv`), and that a thread waking others after a success finds its context in the word
(`StoredInv`). Uniqueness of the path to a waiter (`WaitersReachableOnce`) is inductive with these:
every step that moves a pointer, pushing, publishing, following a link, moves exactly one.

### SRWLock

| theorem | states |
|---|---|
| `LockInvariance` | `Spec => []IInv` |
| `OwnersKnown` | `OwnersRight` |
| `BlocksAlive` | `NoDeadBlock` |
| `WakeupsKept` | `NoLostWakeup` |
| `EveryWaiterListed` | `WaitersOnOneList` |
| `LockImplementation` | `Spec => ImplementsRWLock`: each step is an acquisition or a release of `RWLock`, or a stutter |

For any finite number of threads in any mix of modes. The properties depend on each other through the list: that the owners are
known needs the oldest block, which holds the readers' count; that it is found, that no walk has come into a dead block;
and that, that links are those of the order in which threads queued. So `IInv` says of the list that there *is* a numbering
of the blocks (`ListInv`): the block of number `i` is `q[i]`; those on the word's list have the numbers
`lo` to `hi`, the newest is the one the word names; there is a number `m` whose block knows the oldest, so that walks stop
there (`Ends`): newer blocks link back to the one before, older ones, where a walk has been, forward to the one after (`Linked`).
Each thread that walks, counts or wakes stands at a number of its own (`Cursors`): a walk between `m` and `hi`, a reader that looks
for the count on the list, and what a waker has taken off lies below `lo` and apart from what another one has (`Apart`).
The steps then are arithmetic on numbers: `Push` is `hi + 1`, `WakeOne` is `lo + 1`, `Cache` moves `m`, and a
step that writes a link is harmless since nobody's number is on the wrong side of it. No ghost variable is needed, as the
numbering after a step is given by that before it. `Oldest` and the other sets are found from the numbering by well-foundedness.

The rest (`Core`) says what a thread may conclude from the word it saw last (`LocalInv`), which bits of a word go together
(`Sound`), and that the *waking* bit has one owner, and no readers are counted in a block while that one wakes
(`WalkerInv`); with these `NoLostWakeup` is inductive. There is a lemma per action and part: `...Owners` for who owns the lock,
`...Types`, `...Local`, `...Walker`, `...Lost` and `...Listed`. The owners are counted by the cardinality of sets, which is why
threads are finitely many (`ThreadsAssumption`).

### PipePeers

| theorem | states |
|---|---|
| `Invariance`, `AnswersInvariance` | `Spec => []IInv`, `Spec => []AInv` |
| `IdsKept` | `IdsOfItsInstance` |
| `RightPeer` | `AnswersRight` |

`IdsOfItsInstance` is broken between the steps of a replacement unless more is known. `IInv` adds that a process in a call registers an end of its own (`LocalInv`); that two processes in
one pool never have the same date (`DatesDiffer`, for only `Resolve` gives dates, each greater than all
before); that a slot never used has no ids (`SlotInv`, which is what lets `Claim` keep them); and that
a process which replaces a slot and finds it still without index and under its own date has cleared the ids
it has come past (`ReplaceInv`). Only dates make the last part inductive: whoever else replaces the slot meanwhile
leaves another date in it, and the compare-exchange of `Publish` fails.

`AnswersRight` needs that the check after the read is enough, that is, that no slot stands for an instance, then
for another, and then for the first again. `AInv` says why: only the call that
creates an instance takes a slot for it (`CallInv`), there is one such call (`CreatesDiffer`), and until it has stored
the index in a pool no slot there has it and nobody has found it there (`Unpublished`). With that, an
id that has been read is the peer's if the slot still has the index (`ReadRight`).

Both have a lemma per action for the process that takes the step (`...Own`, `...GoesOn`) and one for what the step means
for the others (`OthersLocal`, `DatesStayDifferent`, `OneSlotWritten`, `OthersReadRight`); the frames of
a call are handled once, by a lemma per operator that replaces one (`WorkFrame`, `NotFoundFrame`, `ExchangeFrame`...).

### Fls

The run puts `Fls` beside `PipePeers` in `MCSideBySide`; the theorems are about that specification and those properties, and
stand in one module with those of `PipePeers`.

| theorem | states |
|---|---|
| `StorageInvariance` | `SideSpec => []StorageSafe`: `StorageInv` or `broken`, while the storage part runs |
| `BlocksCountedAlways` | `BlocksCounted` |
| `CalledBackOnceAlways` | `CalledBackOnce` |

For any number of threads, and however often the index is freed and allocated again. That no value is left behind when the
index is free needs that `FlsFree`, which follows links, comes past every node that is on the list, that is, has a
predecessor. So the list must be whole: doubly linked from its first node, where `Root` or `FlsFree` is (`ListInv`,
`EndsInv`), and without a node that cannot be reached from there. Reaching is said without induction: any set that has the first
node and is closed under links (`ClosedFrom`) has all nodes on the list (`ReachInv`). `SetLink`, `ExitUnlink` and `FreeCall`
keep that because each of them, run backwards, makes a closed set from a closed set. It also excludes a node that
follows itself, without which `ExitUnlink` would not keep the links. Who may change the list is `LockInv`: threads in
the lock one at a time, and none once `FlsFree` has seen the lock free; that a thread which exits finds its
node on the list as long as the index is in use is `ThreadInv`, and the references follow (`CountInv`). For every action an
operator says what it does node by node (`SetLinkDoes`...); one lemma shows that the action does it, and the others
rest on the operator alone, so that records with exceptions occur in the first only.

### InterlockedQueue

Also in `MCSideBySide`, and in the same module of proofs.

| theorem | states |
|---|---|
| `QueueInvariance` | `SideSpec => []QueueInv` |
| `NullOnlyWhenEmptyAlways` | `NullOnlyWhenEmpty` |
| `BlocksLiveAlways` | `BlocksLive`: neither thread uses a block that `Pop` has deleted |
| `QueueImplementsFifo` | `SideSpec => ImplementsFifo`: each step is a `Put`, `Take`, `FindNothing`, `LookAgain` or `Lose`, or a stutter |

For blocks of any size and any number of entries. `QueueInv` says where both ends stand at each place of the two threads
(`QueueEndsInv`), that the blocks are linked in order, none holds more than its ring and each begins where the one before it ended
(`ChainInv`), that every entry has a block from `Pop`'s on (`CoveredInv`) and stands at its number modulo the size of the block
(`ValuesInv`); that `Write` does not hit an entry in use is `PlacesDiffer`, two numbers less than a block apart have
different places. However many entries come while `Pop` stands between its two tests, none is excluded. The heart is `PopInv`: once there is a next
block, what is unread in a block that `Pop` has found empty is nothing or the whole block, for `Push` links another only when it has
found this one full, and `Pop` found it empty when it had read all there was. So the block that
`TestNext` leaves behind holds nothing, which is `LookAgain`, or `kMaxBlockSize` entries that came after the first test, which is `Lose`
(`BlockLess` has what this does to the sequence); and `NullInv` can say that an entry which was there when the call began is
still ahead of it, since whatever is lost came later. For each action that writes to a block an operator says what it does field by field (`LinkDoes`, `CountDoes`...), and
a lemma shows the invariant from it; `QueueStep` adds what the step does to `First`, `Last` and `taken`, and
`ContentsBetween` turns that into `Append`, `Head` and `Tail` of the abstract queue (`OneMore`, `OneLess`).

### ThreadPool

`MCThreadPool` has `ThreadPool` as its instance `Pool`; the theorems are about `PoolSpec`, which is `Pool!Spec`, and stand in one
module with those of `ThreadpoolWork`.

| theorem | states |
|---|---|
| `PoolInvariance` | `PoolSpec => []PoolInv` |
| `PoolSafe` | `PoolKept`: `AliveWhileUsed`, `RunnersCounted` and `NoTaskStranded` |

`RunnersCounted` is nearly inductive by itself. That no task is left behind is not: a runner leaves because
`uWakeupCount` is 0, so what must be known is that this count covers every task in the queue
(`WakeupsCounted`: the queue's tasks, those about to enter it and those just taken out) and that a counted
task has a counted runner (`WakeupsServed`, which the two compare-exchanges at `threadpool.hpp:381` and `533` keep).
`AliveWhileUsed` follows from a balance of the references (`RefsBalanced`): one for each task in the queue or in
somebody's hands, each callback, each thread that is about to give one up, the open handle and the runners together. The
runners' is taken late, after the poster that counted the first of them has released the push lock (line 402);
the balance would not hold without `OneFirst`, that only one poster at a time is in this gap, and the pool lives through
it because the poster is a callback or a client of an open pool (`LocalInv`), which has a reference of its own. Where
`QueueUserWorkItem` may fail none of these counts is right, but there the pool is the default one, which is never
freed (`FixedInv`). `TypeOK` bounds the counters by the constants of the instance and is left to TLC.

### ThreadpoolWork

| theorem | states |
|---|---|
| `WorkInvariance` | `Spec => []IInv` |
| `RefsCountedAlways` | `RefsCounted` |
| `SignalledWhenIdleInv` | `SignalledWhenIdle` |

For any number of clients, workers and submissions, for work and for I/O objects. A thread has a reference where it is
about to make or to drop an entry, and another one while it is in a callback (`Weight`); that each step takes from the
object what it gives to the thread, the queue or the waiting canceller is `Balances`, with one lemma per action. What a
cancelling wait has still to subtract is counted as a set of numbers (`Cancelled`), since a sum over threads would need
induction. `LocalInv` says that nobody else has anything to subtract and that only the program's own cancelling empties
the pending count early. For the event the two counts must be exact: `working` is the number of running callbacks
(`WorkingCounted`), and while nobody cancels `pending` is that of the entries and of the threads about to make one or just
having taken one (`PendingCounted`). So a thread that is about to reset the event knows of a pending callback, its
own, and a count that has come down to zero belongs to a thread that goes on to `Set`. Without the condition the second count
fails, and so does the property ([7](#where-code-and-comments-disagree) is about another consequence of the separate steps).

### ThreadRunner and ThreadpoolTimer

Both run side by side in `MCSideBySideFair`, and are proved there, so that the theorems are about the very formulas TLC checks.

| theorem | states |
|---|---|
| `Invariance` | `SideSpec => []SideInv`: `RunnerInv` or `over` while one runs, `TimerInv` while the other does |
| `ReferencesExact` | `RefsCounted`, of both |
| `ServedAlways` | `Served` |
| `TasksAliveAlways` | `TasksAlive` |
| `TimerAlive` | `AliveWhileFiring` for timers, closed or not |
| `CallbacksOutlasted` | `WaitOutlasts` |

*ThreadRunner*, for any number of clients, tasks and windows, until the process exits or memory that is gone is used
(`over`). The count being the lock, three facts hold each other up: the count is exact (`TasksCounted`); the lock has one
owner, a client that starts a window or a window that ends (`OwnerInv`); and there is one window at a time, which has
the runner's data exactly while the count includes it (`WindowInv`). So who finds the count at 1 finds a window and no
tasks (`CountTells`), and may close it; who finds it at 0 finds no window and may start one; and without a window, or under the
lock, there are no tasks and the lists are empty (`IdleInv`). That no task is freed too early needs in addition that a task that is
being added is one client's, and on no list (`TasksInv`), and that the two lists have no task in common (`ListsInv`); the lists are
sequences, about which a few lemmas say what a step does to the set of their elements (`ListCons`, `ListTail`, `ListLast`, `ListsJoined`).

*ThreadpoolTimer*, for any number of threads and registrations: that the count is exact (`TimerRefs`) needs two facts: whoever
is about to release has something to release (`TimerLocal`), and a set finds nothing registered when it registers
(`TimerLocked`), for only it creates, under the lock, and cancelling and closing only take away. From the count to memory
leads `TimerLive`: a registration that is armed is the current one or about to be deleted, and one whose callback runs is
the current one or waited for, except that closing a wait does not wait. `WaitOutlasts` needs to know what the event says:
without periods, and unless it has been set across registrations (`crossed`), it is set under a registration only when
that has called back (`TimerEvent`), since a set resets it under the lock before it registers, each registration calls
back once, and one that was taken is deleted and outlasted before the event is set for it (`TimerSpent`). Nobody waits for
an object that is closed (`TimerCalls`), so nothing but the current registration is left when everybody else is idle.

### SharedData

| theorem | states |
|---|---|
| `DataInvariance`, `TypeCorrect` | `Spec => []IInv`, types, and that no count falls below zero |
| `LeakFree` | `NothingLeaked` |
| `MappingShared` | `OneMapping` |
| `DataKept` | `KeptForLife` |

Two images have the same mapping because a mapping with its bit set keeps its first user's handle, which keeps
the name, and one mapping at most has the name (`NamedInv`). So the invariant must say of whom the bit is
set: of every mapping that an image uses or that has an event (`FlagInv`) and of whatever a thread brings
along past `SetFlag` (`LocalInv`). `NothingLeaked` is inductive with these; handles, views and events are counted by
the cardinality of the sets of threads and images that have one, as in `ThunkCacheProofs`. The system
may make any number of mappings; that finitely many have an event is carried along (`EventfulFinite`).

### Barrier

| theorem | states |
|---|---|
| `BarrierInvariance` | `Barrier!Spec => []BarrierIInv` |
| `DeletionWaits` | `LeaversWaitedFor` |
| `RoundsApart` | `RoundsKeptApart` |
| `BarrierImplementation` | `Barrier!Spec => ImplementsRendezvous`, as for InitOnce |

All hold for both orders of accesses. The counts are tied to the threads (`CountsInv`): `count` is `N` less those in
the round that fills, `total` is `N` less those still leaving the one before. So whoever has brought `count` to 0 has
everybody beside it in the same round and nobody leaving (`LastAlone`), which is why it may reset `lTotalThreads`, prepare the other
event and flip the sign. An event that is set has its handle marked, and the event of the round that fills is not set
(`EventsInv`): without the first part, `Prepare` could skip the `ResetEvent` the next round needs. The mapping takes who is
where from `pc` and `group` (`Place`, `TheLeader`). That sleepers are woken holds only for accesses in order and is
liveness; it stays with TLC (`RoundEnds`).

### ConditionVariable

| theorem | states |
|---|---|
| `Invariance` | `Spec => [](misled \/ IInv)` |
| `SleepersSafe` | `BlocksAndWakesKept`: `NoDeadBlock` and `WakesKeptButForgotten` |

For any finite number of threads and any width of the count. As for SRWLock, that nobody touches a dead block cannot be
told from the sets: a step that unlinks a block must know which one leads to it. So `IInv` says that there is a
numbering (`Held`): the list is a set `L` whose blocks have numbers `pos`, descending along `back` from the newest, and
without gaps in the links (`Ordered`); one block `m` of it knows the oldest, and those from `m` on link forward as well
(`Listed`). What each thread has taken is such a chain in a numbering `r` of its own (`Takes`), apart from the list
and from what others have (`Apart`). The sets of the model are found from the numbering (`FollowOrdered`), and so are the walks
(`WalkedIs`, `OldestIs`, `LinkedIs`): a step on the chain is a lemma about a numbered set, pushed at one end
(`OrderedPush`), taken from the other (`OrderedRest`), cut in the middle (`OrderedWithout`) or joined (`OrderedJoin`).
That whoever is on a chain is still inside is `AllOn`; the other direction, that whoever sleeps in a way that only a waker can end
is on one, is not needed here, but for [`NobodyLeft`](#nobody-is-left).

A release that misses its thread leaves the list as it is: the block was off the list and in nobody else's catch, so the thread may go
and come again while its waker stays in the kernel (`Miss`), and all of the above holds on. Only the step in which that release meets
the next wait breaks it (`Meet`), and `misled` says when; `ConditionVariableMissed.cfg` has the trace.

No wake-up is left behind because at every step those owed are at most those written over, those counted in the word
and those of the owner's own call, less what it has taken already (`Counts`). A count at its limit stands for all
sleepers there are, so that then there is nothing to compare. `owed` would exceed this in one place, `RemoveNewest`, which puts the old count into
the word; the difference is what `forgotten` takes, and the theorem says that this is the only place.

### WaitOnAddress

| theorem | states |
|---|---|
| `WaitsInvariance` | `SleepersSpec => []Sound`: `WaitInv`, unless `BelowVista` and `misled`; and no release is missed unless `BelowVista` |
| `WaitsSafe` | `NoBlockDead`: from Windows Vista on in every behaviour, below it until a missed release meets another wait |

For any finite number of threads and addresses, with waits that end by themselves at any moment. `NoBlockDead` says of the sets
that can be reached that nobody in them has returned; why that stays so is in `WaitInv`, which has three parts. `Fits` says for
each thread what goes with where it is: what its call is, that its hand is empty or not, which of the flags of its own
block it may find. `LocksInv` says that the bit in the word has one owner, which is in the part of the code that holds it.
`WaitHeld` numbers the blocks, as for condition variables: the list is a set `L` whose numbers `pos` descend along `back`, the
block `m` knows the oldest (`waitNext`), and `waitNotify` leads from each older block forward to `m` (`Queue`, `Queued`); each waker has
taken a chain `T[t]` (`Carries`), apart from the list, from the others' and from the block each has in its hand (`Disjoint`). `Placed`
says where the threads are whose blocks these are: on the list it is somebody who waits or
is about to look whether it must unlink itself (`OnQueue`); taken, somebody who is still to be given its flag (`ToSet`) or to be
released from the kernel (`ToRelease`). `Fit` says what the owner of the list goes by between two steps: where it is in its
walk is on the list, no newer than `m`, or the list is empty.

A step then does one of a few things to the list: it adds a block at the newer end (`QueuePush`), marks what is not marked yet
(`QueueMark`), takes a timed-out block out (`QueueCut`), takes one of an address out, from below the newest (`QueueDrawn`) or at
the end itself (`QueuePop`); or everybody goes at once (`HoldsWhole`).
There is a lemma for each, about numbered sets and not about threads. What the rest of the invariant must survive is
sorted the same way: no chain changes (`HoldsQuiet`), the list does but nobody's catch (`HoldsList`),
blocks go from the list or the hand to a catch or are let go (`HoldsMoves`), and a thread that waits is released (`HoldsFrees`). The hard steps are those in which a
thread that timed out finds its block already taken: it goes back to the kernel and waits for the release, so that the
waker's later access meets a thread that is still there (`synch.hpp:971-1070`).

### Nobody is left

`NobodyLeftProofs`, about both modules and what `MCSleepers` says of them:

| theorem | states |
|---|---|
| `WaitsLeft`, `SleepersLeft` | `SleepersSpec => []((BelowVista /\ misled) \/ WaitLeft)`, `SleepersSpec => [](misled \/ (IInv /\ SleepLeft))` |
| `WaitsNobodyStuck` | `Waits!NobodyStuck` |
| `NobodyLeftAlways` | `NobodyLeft`, of both |
| `WakesPass` | `SleepersSpec => []((BelowVista /\ misled) \/ ReachInv)` |
| `WakesReachAlways` | `WakeReaches`, of WaitOnAddress |

When no thread can take a step of its own, nobody sleeps on but those whose own timeout will end it and, on the list, those nobody has tried to wake.
A waker whose release was missed below Windows Vista is stuck until its thread waits again at the same place, perhaps for ever
(`synch.hpp:165-168`), so the statement is about states in which no release has been missed.
The invariants above say that who can be reached can be woken; what is added here is that who waits to be woken can be reached.

*WaitOnAddress* (`WaitLeft`). `Covers` has the two halves: whoever waits to be woken is on the list or with a waker, and if a
block on the list belongs to somebody whose own timeout will not wake it, because that has come already, the word asks for
everybody to be woken (`synch.hpp:1065-1068`) and its owner must do so before it unlocks. A thread in the kernel has reset its spin bit, and
a waker that finds it reset releases the thread (`MoreAt`). So if nobody can go on, there is no owner, hence no request, and no waker with a
catch: each would wait for a thread to come that is there. Where a block is after each action (`PlacesInv`) is taken from `WaitInv` once, so that
the steps are about sets and not about numbers.

*ConditionVariable* (`SleepLeft`). This is harder, since a request to wake may be written over. On the same numbering as `IInv`: whoever is inside is on
the list or in a waker's catch (`Found`); whoever has gone into the kernel has reset its spin bit (`ToldSo`); a count that
means all is not for nobody while the newest block is taken off (`Asked`). A thread that timed out, found the list locked and asked for
everybody waits without a timeout. If the count no longer says all, its request has been written over, and it has been promised a
wake-up all the same (`Promised`): some wake-up is still owed, and either more are owed than the owner of the list has still to carry out, or those owed
reach down the list as far as this thread's block (`Older`). So when the list is unlocked either all were woken or a wake-up has been forgotten, which is
what the property excepts. The last way to be stuck is a circle: a thread that timed out may itself be waking others, waiting for one of them
to come to the kernel, while its own block is in another waker's catch. `Ranked` gives wakers numbers so that the waker of a waker has the
lower one. A thread gets the highest number when, with its own block in another's catch, it sets out to wake others, for it has caught none
yet; what it takes afterwards it takes off the list, where nobody is in that position. At rest, each waker would wait for one with a
higher number, so there is none (`NoneReleases`).

*Wake-ups of an address* (`ReachInv`). `WakeReaches` compares those who waited at an address when a wake-up began with those whom it has reached
when it returns. In between, whoever is still to be reached waits at that address and has not been woken (`Seeks`), and the
walk has not passed it (`Passed`): a waker goes from the oldest block to newer ones, and a block on the list that it has still to reach is ahead of where
it is (`pItem`); once it is through, no such block is on the list. What it takes in hand on the way was waiting for it (`Wanted`). That the walk begins before
everybody is `BeginsAtAll`; that it takes the first of those who wait at its address, and has the others still ahead, `FirstBefore` and `AheadOlder`.
Blocks may be added while it walks, but they are of threads that came after the call began. The newest block can only be taken off together with
the word: nobody is left then (`NoneNewer`), or the word has changed and the walk begins anew. So when the call returns, whoever it was
for is in a waker's catch, as `Covers` says of all who wait and are not on the list; or the call found the list locked and has asked the owner to wake everybody (`LeavesDue`).

### HookThunk

| theorem | states |
|---|---|
| `Invariance` | `Spec => []IInv` |
| `OnePlaceAlways` | `OnePlace` |
| `BuffersKeptAlways` | `BuffersKept` |

For any number of images, threads and buffers, and buffers of any size, up to the first ABA. A list is what is reached
from its head, the least set with the head that is closed under links (`Chain`, `Listed`); what a step
does to it follows from a few lemmas (`ChainUnfold`: the head and the rest; `ChainSame`: links of other blocks may change;
`ProperJoin`: a block comes before a list; `ProperRest`: the rest of a new buffer does, by a minimal counterexample). `IInv`
adds to the two properties that lists end and do not come back to a block (`ListsProper`), without which `Pop` might leave a
block on the list it takes it from, and the counts of the blocks that are not a buffer's first (`BlocksCounted`): only because the
last reference to such a block is given up in `FreeAll` alone is a block's reference to its buffer released once. What
`pLink` is worth is no part of it: that is what `Pop` gets wrong, and `broken` says when.

### What is only model-checked

Every invariant, action property and refinement of the passing runs is proved. Left to TLC are the
liveness properties (`WaitersWoken`, `QueueDrains`, `RoundEnds`, `WaitsEnd`, `QueueEmpties`, `CallsEnd`, `WindowGoes`): temporal
reasoning under fairness, and ENABLED, are beyond the prover. The library's induction theorems cannot be used with the
installed provers, and what a recursive function computes is
out of reach. Where a set is described as the least one closed under links, as in HookThunk, SRWLock, WaitOnAddress and ConditionVariable, that is enough, and
a least number (`LeastNumber` of `HookThunkProofs`, from the well-foundedness of `<`) stands in for induction.

## Where code and comments disagree

Each with the command that shows it. The first two are runs; the others are configurations beside them.

1. `tlc -config ConditionVariableForgotten.cfg ConditionVariable.tla`: a thread whose wait on a condition variable has timed out
   unlinks its block, if it is the newest, in a loop (`synch.hpp:615-638`). Line 619 builds the new word
   from the low bits of `New`, the value it tried last, not of the word just read: after a failed round the
   count of wake-ups that a waker has added meanwhile is written over. Those wake-ups are lost. Another
   thread that timed out and, finding the list locked, has asked its owner to wake all (line 574) then
   waits for ever, and so do sleepers without a timeout. `Readme.md:29` promises the behaviour of the API.
2. `tlc -config MCThreadRunnerLost.cfg MCThreadRunner.tla`: tasks that are added between two messages are to be merged into
   the window thread's list (`ThreadRunner.h:94, 98, 342`). The loop that turns the pending list round
   (lines 100-104) rewrites each link with itself, and line 107 takes over the oldest task only; the others are on no list
   any more, are never called and never freed.
3. `tlc -config ConditionVariableMissed.cfg ConditionVariable.tla`: a thread whose wait has timed out and whose block a waker has taken
   waits again, and below Windows Vista that wait ends 5 ms after the waker's mark (`synch.hpp:167`), with or without the
   release. Line 165 says that 5 ms should be enough for the waker to call `Release`; line 166 concedes that this is experience and
   may not avoid the dead wait. If the waker is later, its release waits for an address of a stack that has moved on. When the thread sleeps
   again with its block there, the release ends that sleep, and the block stays on the list of a call that has returned. The same
   holds of `WaitOnAddress` (line 1133).
4. `tlc -config MCThreadRunnerSpins.cfg MCThreadRunner.tla`: the loops over the tasks (lines 72 and 110, "walk over the new
   callbacks", line 109) never advance `_pCallbackPrev`. The first task is called again and again until somebody
   removes it, and the window's thread takes no other message meanwhile.
5. `tlc -config MCThunkCacheRace.cfg MCThunkCache.tla`: a caller that finds another thread initialising (`YY_Thunks.h:723-734`) loops while
   the status is **not** `Wait`, so it leaves at once, reads a slot that is still 0 under a cookie that
   may already be set, and calls a wild pointer. Line 733 says that initialisation is complete by then.
   If the initialisation ends just before the loop begins, the caller spins for ever.
6. `tlc -config MCBarrierReordered.cfg MCBarrier.tla`: `EnterSynchronizationBarrier` needs a store and a later load kept in order on
   both sides (`synch.hpp:2623-2625`, `2679-2682`); with plain accesses on x86 they are not, and a
   waiter can sleep through the end of its round.
7. `tlc -config MCBarrierDelete.cfg MCBarrier.tla`: `DeleteSynchronizationBarrier` says it waits until every caller of Enter is through
   (`synch.hpp:2716`), but the last thread of a round is not counted and may still be about to use the
   events.
8. `tlc -config MCThreadpoolWorkEarly.cfg MCThreadpoolWork.tla`: counting and signalling of a work object are separate steps, so a late `SetEvent`
   may follow the next submission's `ResetEvent`; a wait then returns with a callback pending, while a
   test (`api-ms-win-core-threadpool.UnitTest.cpp:1953`) asserts that it ran.
9. `tlc -config MCPipePeersOldest.cfg PipePeers.tla`: a full bucket of pipe peers is said to give up its oldest slot
   (`namedpipe.hpp:224, 287, 319`), but the difference of two `ULONG`s at line 289 is never negative, so it
   always gives up the first.

Met on the way and recorded with the hazards: cancelling pending callbacks sets no event, so a waiter
that was blocked may stay blocked (the comment on `SignalledWhenIdleAlways`; `work` states the
property for programs that never cancel); a full block mistaken for an empty one (`Lose` of `Fifo`); a failed
`QueueUserWorkItem` that leaves the pool with one runner less for good; a DLL that fails to load for
one thread and loads for another, of which the second takes the mark for its own handle. Further:

* I/O: `CancelThreadpoolIo` drops a reference that a cancelling wait has already dropped for the same operation
  (`threadpool.hpp:2143`; ghost `overdrawn`). After a cancelling wait, late completions of the cancelled
  operations are counted as those of later ones, and an object closed meanwhile is gone when they arrive.
* Timers and waits: `CloseThreadpoolWait` does not wait for a running callback and may free the object
  under it (line 1787; `AliveWhileFiring` fails for closed waits). A callback that sets, clears or closes its own
  object waits for itself (1350, 1311; `reentrant`). The `SetEvent` of a set that failed comes after the lock is
  released and may signal another thread's registration (1372; `crossed`). The event of a periodic timer stays set
  from its first callback on, so a wait does not outlast the later ones (`periodic`).
* Pipe peers: an id stored in a slot that has been replaced since it was found stands under the wrong
  instance (lines 538 and 552; `late`).
* HookThunk: `tlc -config MCHookThunkAba.cfg MCHookThunk.tla` shows the ABA: a thread reads a block's link (`HookThunk.h:37`), the block and its
  successor are taken and the block is given back, and the compare-exchange of line 39 puts a block that is in use at the head.
* ThreadRunner: after a round that called a task, pending tasks are put behind that task, which has been freed (line 107);
  a thread that starts later than 15 seconds uses a stack frame that is gone (line 247); a failure to register the
  window class is taken for a success (lines 203 and 257). All are `over`.
* Shared data: `FreeYY_ThunksSharedData` frees the successor of each directory and reads it afterwards, and never the
  first (`YY_Thunks.cpp:1709-1715`).
* FLS: `FlsFree` resets the lock bit under a thread that holds it (line 354); an exiting thread may take
  a node off a list it is no longer on (line 75); both are `broken`.

## What is not modelled

* Of the modelled parts: custom loaders and the builds whose `LoadLibraryExW` is itself a thunk;
  loads that fail at one time and work at another; `SetThreadpoolThreadMaximum` after the first task;
  `TrySubmitThreadpoolCallback`, cleanup groups and the callback-instance helpers; failed allocation in
  the task queue; `RtlpQueueWaitBlockToSRWLock`, which nothing reaches; the lock that a condition variable's
  sleeper gives up and takes again; what follows a missed release that has met another wait (`misled`), among the waits it may
  meet those of an SRWLock or InitOnce at that place of the stack; several threads of one
  process at the pipe peers; FLS indices beyond one and their bit map; the DLL directories in the shared data; the
  power requests that use the ThreadRunner.
* Processor reordering beyond the barrier: the other algorithms use interlocked operations, which
  x86 does not reorder, or rely on program order of plain accesses that x86 keeps (stores among
  themselves, loads among themselves). On ARM64 the plain ones would need to be looked at again.
* Parts of the plan below.
* The conversions: cryptography, networking, files, locale tables, windows and graphics, the
  developer tools. They keep no state between calls, what matters in them is data, and a model of
  them would restate them.

## Plan

In order; 1 to 10 are done, as far as they say nothing else.

1. `InitOnce`, `Once`: checked and proved.
2. `ThunkCache`: checked and proved.
3. `SRWLock`, `RWLock`: checked and proved, but for `QueueDrains`.
4. `Barrier`, `Rendezvous`: checked and proved, but for `RoundEnds`, which needs the accesses in order.
5. `ThreadPool`, `ThreadpoolWork`, `InterlockedQueue`, `Fifo`: checked and proved.
6. `WaitOnAddress`, `ConditionVariable`: checked and proved. Open: an abstract specification, a set of waiters per
   address, which the timed-out waiter that consumes a wake-up makes more than a set.
7. I/O in `ThreadpoolWork`, `ThreadpoolTimer`: checked and proved.
8. `PipePeers`, `Fls`: checked and proved.
9. `SharedData`: checked and proved. Open: its composition with `ThunkCache`.
10. `ThreadRunner`, `HookThunk`: checked and proved. Open: the power requests, `TlsRepair`,
    cleanup groups.
11. Pure algorithms (path combination and canonicalisation, ordinal search) as operators checked
    against a definition.
