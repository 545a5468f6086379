------------------------------ MODULE SRWLock ------------------------------
(***************************************************************************)
(* The slim reader/writer lock that YY-Thunks supplies to Windows XP: the  *)
(* nine functions of src/Thunks/api-ms-win-core-synch.hpp from             *)
(* RtlpWakeSRWLock to ReleaseSRWLockShared.                                *)
(*                                                                         *)
(* The lock is one word: four bits and, above them, the number of readers  *)
(* or, once threads wait, the newest wait block.  A wait block lives on    *)
(* the stack of its thread, so the thread's name stands for its address.   *)
(* Blocks are linked from new to old by "back"; whoever holds the Waking   *)
(* bit walks that list, adds the links "next" from old to new and caches   *)
(* the oldest block in "notify" of the block where the next walk may stop. *)
(*                                                                         *)
(* A step is one interlocked operation on the word, on a block's flag or   *)
(* on a share count, or one turn of a walk.  Writes to a block that nobody *)
(* else can reach at that moment go with the step that follows them.       *)
(***************************************************************************)
EXTENDS Naturals, FiniteSets

CONSTANTS Thread, Null

ASSUME NullIsNoThread == Null \notin Thread

ASSUME ThreadsAssumption == IsFiniteSet(Thread)

VARIABLES
  word,    \* the SRWLOCK
  pc,      \* where each thread is
  old,     \* the word as a thread last saw it: SRWLockOld, OldSRWLock, Status
  back, notify, next,   \* the links of the wait blocks
  share,   \* shareCount: readers still inside when the oldest block was queued
  excl,    \* flag bit 0: the block waits for exclusive ownership
  spin,    \* flag bit 1: its thread is not yet in the kernel
  p,       \* cursor of a walk, then of the wake-up loop
  then     \* where the thread goes after a walk: "park" or "idle"

vars == <<word, pc, old, back, notify, next, share, excl, spin, p, then>>
lists == <<back, notify, next, share, excl, spin>>

Block == Thread \cup {Null}

\* Locked, Waiting, waKing, Multiple-shared; the readers; the newest block.
Word(l, w, k, m, n, b) ==
  [locked |-> l, waiting |-> w, waking |-> k, multi |-> m, readers |-> n, block |-> b]

Free == Word(FALSE, FALSE, FALSE, FALSE, 0, Null)
OneReader == Word(TRUE, FALSE, FALSE, FALSE, 1, Null)

Init ==
  /\ word = Free
  /\ pc = [t \in Thread |-> "idle"]
  /\ old = [t \in Thread |-> Free]
  /\ back = [t \in Thread |-> Null]
  /\ notify = [t \in Thread |-> Null]
  /\ next = [t \in Thread |-> Null]
  /\ share = [t \in Thread |-> 0]
  /\ excl = [t \in Thread |-> FALSE]
  /\ spin = [t \in Thread |-> FALSE]
  /\ p = [t \in Thread |-> Null]
  /\ then = [t \in Thread |-> "idle"]

Goto(t, where) == pc' = [pc EXCEPT ![t] = where]

\* Return to the caller: the locals are dead.
Leave(t, where) ==
  /\ Goto(t, where)
  /\ old' = [old EXCEPT ![t] = Free]

\* InterlockedCompareExchange of the word against what t last saw.
Unchanged(t) == word = old[t]

\* AcquireSRWLockShared must wait: held exclusively, or others wait already.
MustQueue(w) == w.locked /\ (w.waiting \/ w.readers = 0)

\* A shared acquisition of w.  With waiters queued no count is kept: the bit
\* Locked stands for the one reader that slipped in.
Share(w) == [w EXCEPT !.locked = TRUE, !.readers = IF w.waiting THEN 0 ELSE @ + 1]

-----------------------------------------------------------------------------
(* AcquireSRWLockExclusive and TryAcquireSRWLockExclusive.                 *)

TestAndSet(t, fail) ==
  /\ pc[t] = "idle"
  /\ word' = [word EXCEPT !.locked = TRUE]
  /\ Goto(t, IF word.locked THEN fail ELSE "heldX")
  /\ UNCHANGED <<old, lists, p, then>>

AcquireExclusive(t) == TestAndSet(t, "xread")
TryAcquireExclusive(t) == TestAndSet(t, "idle")

ReadExclusive(t) ==
  /\ pc[t] = "xread"
  /\ old' = [old EXCEPT ![t] = word]
  /\ Goto(t, IF word.locked THEN "xpush" ELSE "xcas")
  /\ UNCHANGED <<word, lists, p, then>>

\* Mutant: a store in place of the compare-exchange.
LockExclusiveStore(t) ==
  /\ pc[t] = "xcas"
  /\ word' = [word EXCEPT !.locked = TRUE]
  /\ Leave(t, "heldX")
  /\ UNCHANGED <<lists, p, then>>

LockExclusive(t) ==
  /\ pc[t] = "xcas"
  /\ IF Unchanged(t)
       THEN /\ word' = [word EXCEPT !.locked = TRUE]
            /\ Leave(t, "heldX")
       ELSE /\ Goto(t, "xread")
            /\ UNCHANGED <<word, old>>
  /\ UNCHANGED <<lists, p, then>>

-----------------------------------------------------------------------------
(* AcquireSRWLockShared and TryAcquireSRWLockShared.                       *)

\* What the loop does about the word it has just seen: go for it, queue, or,
\* in TryAcquireSRWLockShared, give up.
Consider(t, try) ==
  /\ old' = [old EXCEPT ![t] = IF try /\ MustQueue(word) THEN Free ELSE word]
  /\ Goto(t, IF MustQueue(word) THEN (IF try THEN "idle" ELSE "spush")
                                ELSE (IF try THEN "tcas" ELSE "scas"))

\* The first CAS expects a lock nobody uses.
FirstShared(t, try) ==
  /\ pc[t] = "idle"
  /\ IF word = Free THEN word' = OneReader /\ Goto(t, "heldS") /\ UNCHANGED old
                    ELSE Consider(t, try) /\ UNCHANGED word
  /\ UNCHANGED <<lists, p, then>>

AcquireShared(t) == FirstShared(t, FALSE)
TryAcquireShared(t) == FirstShared(t, TRUE)

ReadShared(t) ==
  /\ pc[t] \in {"sread", "tread"}
  /\ Consider(t, pc[t] = "tread")
  /\ UNCHANGED <<word, lists, p, then>>

LockShared(t) ==
  /\ pc[t] \in {"scas", "tcas"}
  /\ IF Unchanged(t)
       THEN /\ word' = Share(word)
            /\ Leave(t, "heldS")
       ELSE /\ Goto(t, IF pc[t] = "scas" THEN "sread" ELSE "tread")
            /\ UNCHANGED <<word, old>>
  /\ UNCHANGED <<lists, p, then>>

-----------------------------------------------------------------------------
(* Waiting: fill the stack block, publish it, walk the list if nobody does,*)
(* spin, and block in NtWaitForKeyedEvent.                                 *)

\* The word that makes t the newest waiter on top of w.
Queue(w, t) ==
  [w EXCEPT !.waiting = TRUE, !.waking = w.waiting, !.block = t, !.readers = 0,
            !.multi = IF w.waiting THEN @ ELSE w.readers > 1]

Push(t) ==
  /\ pc[t] \in {"xpush", "spush"}
  /\ IF Unchanged(t)
       THEN LET w == old[t] IN
            /\ word' = Queue(w, t)
            /\ next' = [next EXCEPT ![t] = Null]
            /\ spin' = [spin EXCEPT ![t] = TRUE]
            /\ excl' = [excl EXCEPT ![t] = pc[t] = "xpush"]
            /\ back' = [back EXCEPT ![t] = w.block]
            /\ notify' = [notify EXCEPT ![t] = IF w.waiting THEN Null ELSE t]
            /\ share' = [share EXCEPT ![t] = w.readers]
            /\ IF w.waiting /\ ~w.waking
                 THEN /\ Goto(t, "optimize")
                      /\ old' = [old EXCEPT ![t] = word']
                      /\ p' = [p EXCEPT ![t] = t]
                      /\ then' = [then EXCEPT ![t] = "park"]
                 ELSE /\ Leave(t, "park")
                      /\ UNCHANGED <<p, then>>
       ELSE /\ Goto(t, IF pc[t] = "xpush" THEN "xread" ELSE "sread")
            /\ UNCHANGED <<word, old, lists, p, then>>

\* After the wait the acquire loop starts over.
Again(t) == IF excl[t] THEN "xread" ELSE "sread"

\* Mutant: goes to the kernel whatever the waker did to the flag.
ParkAlways(t) ==
  /\ pc[t] = "park"
  /\ spin' = [spin EXCEPT ![t] = FALSE]
  /\ Goto(t, "blocked")
  /\ UNCHANGED <<word, old, back, notify, next, share, excl, p, then>>

\* After the spin: the flag decides who comes first, the waiter or its waker.
Park(t) ==
  /\ pc[t] = "park"
  /\ spin' = [spin EXCEPT ![t] = FALSE]
  /\ Goto(t, IF spin[t] THEN "blocked" ELSE Again(t))
  /\ excl' = [excl EXCEPT ![t] = spin[t] /\ @]
  /\ UNCHANGED <<word, old, back, notify, next, share, p, then>>

-----------------------------------------------------------------------------
(* Walking the list, by the thread that set the Waking bit.                *)

\* One turn of the loop "back->next = pBlock; pBlock = back".
Walk(t) ==
  /\ pc[t] \in {"optimize", "wake"}
  /\ pc[t] = "wake" => ~old[t].locked
  /\ notify[p[t]] = Null
  /\ next' = [next EXCEPT ![back[p[t]]] = p[t]]
  /\ p' = [p EXCEPT ![t] = back[p[t]]]
  /\ UNCHANGED <<word, pc, old, back, notify, share, excl, spin, then>>

\* The walk ended: the newest block caches what it found.
Cache(w, t) == notify' = [notify EXCEPT ![w.block] = notify[p[t]]]

\* Another CAS round on the word as it is now; a list to optimise whose lock
\* was released meanwhile is one to wake.
Retry(t) ==
  /\ Goto(t, IF word.locked THEN pc[t] ELSE "wake")
  /\ old' = [old EXCEPT ![t] = word]
  /\ p' = [p EXCEPT ![t] = word.block]

EndWalk(t) == /\ p' = [p EXCEPT ![t] = Null]
              /\ then' = [then EXCEPT ![t] = "idle"]

\* Mutant: gives the Waking bit back without looking whether the lock was freed.
OptimizeDoneBlind(t) ==
  /\ pc[t] = "optimize"
  /\ notify[p[t]] # Null
  /\ Cache(old[t], t)
  /\ word' = [word EXCEPT !.waking = FALSE]
  /\ EndWalk(t)
  /\ Leave(t, then[t])
  /\ UNCHANGED <<back, next, share, excl, spin>>

\* RtlpOptimizeSRWLockList gives the Waking bit back while the lock is held.
OptimizeDone(t) ==
  /\ pc[t] = "optimize"
  /\ notify[p[t]] # Null
  /\ Cache(old[t], t)
  /\ IF Unchanged(t)
       THEN /\ word' = [word EXCEPT !.waking = FALSE]
            /\ EndWalk(t)
            /\ Leave(t, then[t])
       ELSE /\ Retry(t)
            /\ UNCHANGED <<word, then>>
  /\ UNCHANGED <<back, next, share, excl, spin>>

\* RtlpWakeSRWLock: somebody locked again; the wake-up is left to its release.
WakeLocked(t) ==
  /\ pc[t] = "wake"
  /\ old[t].locked
  /\ IF Unchanged(t)
       THEN /\ word' = [word EXCEPT !.waking = FALSE]
            /\ EndWalk(t)
            /\ Leave(t, then[t])
       ELSE /\ Retry(t)
            /\ UNCHANGED <<word, then>>
  /\ UNCHANGED lists

\* Mutant: leaves the oldest block on the list.
WakeOneKeep(t) ==
  /\ pc[t] = "wake"
  /\ ~old[t].locked
  /\ notify[p[t]] # Null
  /\ LET first == notify[p[t]] IN
       /\ next[first] # Null /\ excl[first]
       /\ Cache(old[t], t)
       /\ next' = [next EXCEPT ![first] = Null]
       /\ p' = [p EXCEPT ![t] = first]
  /\ word' = [word EXCEPT !.waking = FALSE]
  /\ Leave(t, "release")
  /\ UNCHANGED <<back, share, excl, spin, then>>

\* The oldest waiter is exclusive and not alone: unlink it and wake only it.
WakeOne(t) ==
  /\ pc[t] = "wake"
  /\ ~old[t].locked
  /\ notify[p[t]] # Null
  /\ LET first == notify[p[t]] IN
       /\ next[first] # Null /\ excl[first]
       /\ notify' = [notify EXCEPT ![old[t].block] = next[first]]
       /\ next' = [next EXCEPT ![first] = Null]
       /\ p' = [p EXCEPT ![t] = first]
  /\ word' = [word EXCEPT !.waking = FALSE]
  /\ Leave(t, "release")
  /\ UNCHANGED <<back, share, excl, spin, then>>

\* Mutant: empties the word without comparing it.
WakeAllStore(t) ==
  /\ pc[t] = "wake"
  /\ ~old[t].locked
  /\ notify[p[t]] # Null
  /\ LET first == notify[p[t]] IN
       /\ ~(next[first] # Null /\ excl[first])
       /\ Cache(old[t], t)
       /\ p' = [p EXCEPT ![t] = first]
  /\ word' = Free
  /\ Leave(t, "release")
  /\ UNCHANGED <<back, next, share, excl, spin, then>>

\* Otherwise empty the whole word and wake everybody from the oldest on.
WakeAll(t) ==
  /\ pc[t] = "wake"
  /\ ~old[t].locked
  /\ notify[p[t]] # Null
  /\ LET first == notify[p[t]] IN
       /\ ~(next[first] # Null /\ excl[first])
       /\ Cache(old[t], t)
       /\ IF Unchanged(t)
            THEN /\ word' = Free
                 /\ p' = [p EXCEPT ![t] = first]
                 /\ Leave(t, "release")
            ELSE /\ Retry(t)
                 /\ UNCHANGED word
  /\ UNCHANGED <<back, next, share, excl, spin, then>>

\* One turn of the wake-up loop: the link is read first; a waiter that is not
\* yet in the kernel is told by its flag, the others by NtReleaseKeyedEvent,
\* which waits for them to get there.  The links of a woken block are erased:
\* it may leave the stack at any time.
Release(t) ==
  /\ pc[t] = "release"
  /\ LET b == p[t]
         wakes == IF spin[b] THEN pc ELSE [pc EXCEPT ![b] = Again(b)]
     IN  /\ spin[b] \/ pc[b] = "blocked"
         /\ spin' = [spin EXCEPT ![b] = FALSE]
         /\ excl' = [excl EXCEPT ![b] = spin[b] /\ @]
         /\ next' = [next EXCEPT ![b] = Null]
         /\ back' = [back EXCEPT ![b] = Null]
         /\ notify' = [notify EXCEPT ![b] = Null]
         /\ share' = [share EXCEPT ![b] = 0]
         /\ IF next[b] = Null
              THEN /\ EndWalk(t)
                   /\ pc' = [wakes EXCEPT ![t] = then[t]]
              ELSE /\ p' = [p EXCEPT ![t] = next[b]]
                   /\ pc' = wakes
                   /\ UNCHANGED then
  /\ UNCHANGED <<word, old>>

-----------------------------------------------------------------------------
(* ReleaseSRWLockExclusive.                                                *)

\* Start to walk on behalf of a release, having set the Waking bit in w.
BeginWake(t, w) ==
  /\ old' = [old EXCEPT ![t] = w]
  /\ p' = [p EXCEPT ![t] = w.block]
  /\ then' = [then EXCEPT ![t] = "idle"]
  /\ Goto(t, "wake")

ReleaseExclusive(t) ==
  /\ pc[t] = "heldX"
  /\ word' = [word EXCEPT !.locked = FALSE]
  /\ IF word.waiting /\ ~word.waking
       THEN /\ old' = [old EXCEPT ![t] = word']
            /\ Goto(t, "xwake")
       ELSE Leave(t, "idle")
  /\ UNCHANGED <<lists, p, then>>

ClaimWake(t) ==
  /\ pc[t] = "xwake"
  /\ IF Unchanged(t)
       THEN /\ word' = [word EXCEPT !.waking = TRUE]
            /\ BeginWake(t, word')
       ELSE /\ Leave(t, "idle")
            /\ UNCHANGED <<word, p, then>>
  /\ UNCHANGED lists

(* ReleaseSRWLockShared.                                                   *)

\* What the loop does about the word it has just seen: with nobody waiting the
\* word counts the readers; else the oldest block does if there were several.
ConsiderRelease(t) ==
  /\ old' = [old EXCEPT ![t] = word]
  /\ Goto(t, IF ~word.waiting THEN "srel" ELSE IF word.multi THEN "swalk" ELSE "slast")
  /\ p' = [p EXCEPT ![t] = IF word.waiting /\ word.multi THEN word.block ELSE Null]

ReleaseShared(t) ==
  /\ pc[t] = "heldS"
  /\ IF word = OneReader
       THEN word' = Free /\ Leave(t, "idle") /\ UNCHANGED p
       ELSE ConsiderRelease(t) /\ UNCHANGED word
  /\ UNCHANGED <<lists, then>>

UncountReader(t) ==
  /\ pc[t] = "srel"
  /\ IF Unchanged(t)
       THEN /\ word' = IF word.readers <= 1 THEN Free ELSE [word EXCEPT !.readers = @ - 1]
            /\ Leave(t, "idle")
            /\ UNCHANGED p
       ELSE ConsiderRelease(t) /\ UNCHANGED word
  /\ UNCHANGED <<lists, then>>

WalkCount(t) ==
  /\ pc[t] = "swalk"
  /\ notify[p[t]] = Null
  /\ p' = [p EXCEPT ![t] = back[p[t]]]
  /\ UNCHANGED <<word, pc, old, lists, then>>

Uncount(t) ==
  /\ pc[t] = "swalk"
  /\ notify[p[t]] # Null
  /\ share' = [share EXCEPT ![notify[p[t]]] = @ - 1]
  /\ p' = [p EXCEPT ![t] = Null]
  /\ IF share'[notify[p[t]]] > 0
       THEN Leave(t, "idle")
       ELSE Goto(t, "slast") /\ UNCHANGED old
  /\ UNCHANGED <<word, back, notify, next, excl, spin, then>>

\* The last reader unlocks, and wakes unless the walker of the list will.
LastReader(t) ==
  /\ pc[t] = "slast"
  /\ IF Unchanged(t)
       THEN /\ word' = [word EXCEPT !.multi = FALSE, !.locked = FALSE, !.waking = TRUE]
            /\ IF old[t].waking
                 THEN Leave(t, "idle") /\ UNCHANGED <<p, then>>
                 ELSE BeginWake(t, word')
       ELSE /\ old' = [old EXCEPT ![t] = word]
            /\ UNCHANGED <<word, pc, p, then>>
  /\ UNCHANGED lists

-----------------------------------------------------------------------------
Call(t) == \/ AcquireExclusive(t) \/ TryAcquireExclusive(t)
           \/ AcquireShared(t) \/ TryAcquireShared(t)

Unlock(t) == ReleaseExclusive(t) \/ ReleaseShared(t)

Inside(t) ==
  \/ ReadExclusive(t) \/ LockExclusive(t)
  \/ ReadShared(t) \/ LockShared(t)
  \/ Push(t) \/ Park(t)
  \/ Walk(t) \/ OptimizeDone(t)
  \/ WakeLocked(t) \/ WakeOne(t) \/ WakeAll(t) \/ Release(t)
  \/ ClaimWake(t)
  \/ UncountReader(t) \/ WalkCount(t) \/ Uncount(t) \/ LastReader(t)

Next == \E t \in Thread : Call(t) \/ Unlock(t) \/ Inside(t)

Spec == Init /\ [][Next]_vars

-----------------------------------------------------------------------------
(* Properties.                                                             *)

PCs == {"idle", "heldX", "heldS", "xread", "xcas", "sread", "scas", "tread", "tcas",
        "xpush", "spush", "park", "blocked", "optimize", "wake", "release", "xwake",
        "srel", "swalk", "slast"}

Words == [locked : BOOLEAN, waiting : BOOLEAN, waking : BOOLEAN, multi : BOOLEAN,
          readers : Nat, block : Block]

TypeOK ==
  /\ word \in Words
  /\ pc \in [Thread -> PCs]
  /\ old \in [Thread -> Words]
  /\ back \in [Thread -> Block]
  /\ notify \in [Thread -> Block]
  /\ next \in [Thread -> Block]
  /\ share \in [Thread -> Nat]
  /\ excl \in [Thread -> BOOLEAN]
  /\ spin \in [Thread -> BOOLEAN]
  /\ p \in [Thread -> Block]
  /\ then \in [Thread -> {"idle", "park"}]

Writers == {t \in Thread : pc[t] = "heldX"}
\* A reader counts until the step that takes it out of the word or the share count.
Readers == {t \in Thread : pc[t] \in {"heldS", "srel", "swalk"}}
\* The last reader, between the share count and the word.
Last == {t \in Thread : pc[t] = "slast"}

\* One writer, or readers, and the word says locked exactly while somebody is
\* inside: a barging writer never joins a reader that no count records.
MutualExclusion ==
  /\ \A t \in Writers : Writers = {t} /\ Readers \cup Last = {}
  /\ word.locked <=> Writers \cup Readers \cup Last # {}

\* What lies on the way from block b along the links.
Follow(link, b) ==
  {x \in Thread : \A S \in SUBSET Thread :
     b \in S /\ (\A y \in S : link[y] # Null => link[y] \in S) => x \in S}

\* The way of a walk: it ends at the first block that names the oldest one.
Visited(b) == Follow([x \in Thread |-> IF notify[x] = Null THEN back[x] ELSE Null], b)

Oldest(b) == notify[CHOOSE x \in Visited(b) : notify[x] # Null]

\* Where the readers are counted: in the word; once a writer queued behind
\* several of them, in the block that was oldest then; else there is just one.
ReadersCounted ==
  word.locked /\ Writers = {} =>
    IF ~word.waiting THEN word.readers = Cardinality(Readers) /\ Last = {}
    ELSE IF word.multi
      THEN share[Oldest(word.block)] = Cardinality(Readers) /\ Cardinality(Last) <= 1
           /\ (Last # {} => Readers = {})
      ELSE Cardinality(Readers \cup Last) = 1

\* The word and the list say at any moment who is inside, and a writer is inside alone
\* (synch.hpp:1687-1711, 1980-1995, 2106-2117).
OwnersRight == MutualExclusion /\ ReadersCounted

\* A block that some waker must still deal with.
Queued(b) == b \in Thread /\ (spin[b] \/ pc[b] = "blocked")

\* Whatever pointer a thread is about to follow, a walk's cursor, the newest
\* block of the word it holds on to or the oldest block it finds there, leads
\* to a block whose thread still waits: no stack frame is read after its call.
NoDeadBlock ==
  \A t \in Thread :
    /\ pc[t] \in {"optimize", "wake"} => Queued(p[t]) /\ Queued(old[t].block)
    /\ pc[t] = "swalk" => Queued(p[t])
    /\ pc[t] \in {"optimize", "wake", "swalk"} =>
         IF notify[p[t]] = Null THEN Queued(back[p[t]]) ELSE Queued(notify[p[t]])
    /\ pc[t] = "release" => Queued(p[t])

\* The blocks on the list of the word.
OnWord == IF ~word.waiting THEN {}
          ELSE Visited(word.block) \cup Follow(next, Oldest(word.block))

\* Every thread that waits is on the word's list or in the hands of exactly one
\* waker, and nothing else is: no waiter is forgotten and none is woken twice.
WaitersOnOneList ==
  LET waiting == {b \in Thread : Queued(b)}
      taken == [t \in {u \in Thread : pc[u] = "release"} |-> Follow(next, p[t])]
      wakers == DOMAIN taken
  IN  /\ waiting = OnWord \cup UNION {taken[t] : t \in wakers}
      /\ \A t \in wakers : taken[t] \cap OnWord = {}
      /\ \A t, u \in wakers : t # u => taken[t] \cap taken[u] = {}

\* A thread that will lock next, or wake one that will.
Moving(t) ==
  \/ pc[t] \in {"xread", "xcas", "xpush", "sread", "scas", "spush"}
  \/ (pc[t] = "park" \/ then[t] = "park") /\ ~spin[t]
  \/ pc[t] = "release"
  \/ pc[t] = "xwake" /\ Unchanged(t)

\* A free lock with waiters always has somebody to bring them on: the walker
\* of the list, or a thread that competes for the lock and wakes the others
\* when it releases it.  Otherwise all waiters would sleep for ever.
NoLostWakeup ==
  word.waiting /\ ~word.locked => word.waking \/ \E t \in Thread : Moving(t)

-----------------------------------------------------------------------------
Abstract == INSTANCE RWLock WITH
  writers <- Writers,
  readers <- {t \in Thread : pc[t] = "heldS"}

\* The owners, between the return of an acquire and the call of a release, are
\* those of a plain reader/writer lock.
ImplementsRWLock == Abstract!Spec

\* The scheduler is fair and whoever owns the lock releases it.
Fairness == \A t \in Thread : WF_vars(Inside(t)) /\ WF_vars(Unlock(t))

FairSpec == Spec /\ Fairness

Acquiring(t) == pc[t] \in {"xread", "xcas", "xpush", "sread", "scas", "spush", "park", "blocked"}
                \/ then[t] = "park"

\* The lock is not fair: a stream of new callers may barge in for ever.  But
\* when the stream ends, everybody who queued gets the lock.
QueueDrains ==
  (<>[][\A t \in Thread : ~Call(t)]_vars)
    => \A t \in Thread : Acquiring(t) ~> pc[t] \in {"heldX", "heldS"}
=============================================================================
