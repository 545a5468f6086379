-------------------------- MODULE ConditionVariable --------------------------
(***************************************************************************)
(* Condition variables as YY-Thunks supplies them below Windows Vista:     *)
(* SleepConditionVariableCS and SRW, WakeConditionVariable and             *)
(* WakeAllConditionVariable on one variable.                               *)
(*                                                                         *)
(* The variable is one word: the newest wait block, a bit that locks the   *)
(* list, and a count of the wake-ups that came while it was locked and     *)
(* that the owner of the lock must see to; the largest count means all.    *)
(* Blocks live on their threads' stacks, so the thread's name stands for   *)
(* the block's address.  "back" leads from new to old, "next" from old to  *)
(* new, and "notify" of the newest block that has one leads to the oldest. *)
(*                                                                         *)
(* A step is one access to the word or to a block's flag, or a rendezvous  *)
(* on a keyed event.  A loop that only repeats a failed compare-exchange   *)
(* is the step in which it succeeds.  Links are written by the owner of    *)
(* the lock alone, so those writes go with the step that follows, and      *)
(* each block that a waker takes off the list is a step of its own.  The   *)
(* caller's critical section or SRW lock is left out: in shared mode       *)
(* nothing keeps the sleepers apart, and the word is what they share.      *)
(*                                                                         *)
(* Keyed events keep nothing: a release waits for a wait and a wait for a  *)
(* release, whoever comes first.  But a second wait, for a waker that has  *)
(* the block, ends 5 ms after the waker has marked the block; if the       *)
(* release is not there by then, it stays in the kernel for a thread that  *)
(* has left, and may meet the next wait of that thread.  What comes after  *)
(* that is not modelled: a block whose thread has gone may be on the list. *)
(***************************************************************************)
EXTENDS Integers, FiniteSets

CONSTANTS Thread, Null, WakeMask  \* WakeMask: the largest count, 7 in the code

ASSUME NullIsNoThread == Null \notin Thread
\* A process has finitely many threads.
ASSUME ThreadsAssumption == IsFiniteSet(Thread)
ASSUME WakeMaskPositive == WakeMask \in Nat \ {0, 1}

VARIABLES
  word,      \* the condition variable
  back, notify, next,  \* YY_CV_WAIT_BLOCK of each thread that sleeps: its links
  spinning,  \* and bit 1 of its flag
  pc,
  call,      \* what a thread is in
  then,      \* where it goes on when RtlpWakeConditionVariable returns
  Current,   \* the word as the owner of the list's lock last saw it, while it matters
  pWake,     \* the blocks a thread has taken off the list, linked by "back"
  owed,      \* how many of those on the list wake-ups have been called for
  forgotten, \* how many of these have been written over
  missed,    \* the thread whose block t releases, if that thread has left without it
  misled     \* a missed release has met a wait it was not meant for

links == <<back, notify, next>>
ghosts == <<owed, forgotten>>
vars == <<word, links, spinning, pc, call, then, Current, pWake, ghosts>>
late == <<missed, misled>>

Word(b, l, c) == [block |-> b, locked |-> l, count |-> c]
Empty == Word(Null, FALSE, 0)

Init ==
  /\ word = Empty
  /\ back = [t \in Thread |-> Null] /\ notify = back /\ next = back
  /\ spinning = [t \in Thread |-> TRUE]
  /\ pc = [t \in Thread |-> "idle"]
  /\ call = [t \in Thread |-> "none"]
  /\ then = [t \in Thread |-> "idle"]
  /\ Current = Empty
  /\ pWake = [t \in Thread |-> Null]
  /\ owed = 0 /\ forgotten = 0
  /\ missed = [t \in Thread |-> Null] /\ misled = FALSE

Goto(t, where) == pc' = [pc EXCEPT ![t] = where]

\* In NtWaitForKeyedEvent: at first, and after a timeout for the waker who has the block.
Asleep == {"kernel", "kernelAgain"}

\* The blocks on the way from b along the links: no set can do without such a block
\* unless it lacks b, or a link leads out of it.
Follow(link, b) ==
  {x \in Thread : \A S \in SUBSET (Thread \ {x}) :
     (b # Null /\ b \notin S) \/ \E y \in S : link[y] # Null /\ link[y] \notin S}

Behind(b) == Follow(back, b)
List == Behind(word.block)
Least(m, n) == IF m < n THEN m ELSE n

\* So many of n on the list are owed a wake-up, however many have been called for.
Owe(m, n) ==
  /\ owed' = IF m < 0 THEN 0 ELSE Least(m, n)
  /\ forgotten' = Least(forgotten, owed')

\* The locals of a thread that returns are dead, its block with them.
Return(t) ==
  /\ pc' = [pc EXCEPT ![t] = "idle"]
  /\ call' = [call EXCEPT ![t] = "none"]
  /\ then' = [then EXCEPT ![t] = "idle"]
  /\ back' = [back EXCEPT ![t] = Null]
  /\ notify' = [notify EXCEPT ![t] = Null]
  /\ next' = [next EXCEPT ![t] = Null]
  /\ spinning' = [spinning EXCEPT ![t] = TRUE]

Stay == UNCHANGED <<links, spinning, call, then>>

-----------------------------------------------------------------------------
(* Walks of the owner of the lock.                                         *)

\* The walk from the newest block h ends at the first that knows the oldest.
Walked(h) == Follow([x \in Thread |-> IF notify[x] = Null THEN back[x] ELSE Null], h)
Oldest(h) == notify[CHOOSE x \in Walked(h) : notify[x] # Null]

\* It links each block to the one before.
Linked(h) ==
  [b \in Thread |-> IF b \in Walked(h) \ {h} THEN CHOOSE x \in Walked(h) : back[x] = b ELSE next[b]]

\* RtlpWakeSingle walks from the newest block h to the end, links each block to
\* the one before, takes t out, and tells h which is the oldest.
Unlink(h, t) ==
  LET left == Behind(h) \ {t}
      behind == [b \in Thread |-> IF b \in left /\ back[b] = t THEN back[t] ELSE back[b]]
  IN /\ back' = behind
     /\ next' = [b \in Thread |->
          IF b = h THEN Null ELSE IF b \in left THEN CHOOSE x \in left : behind[x] = b ELSE next[b]]
     /\ notify' = [notify EXCEPT ![h] = CHOOSE x \in left : behind[x] = Null]

-----------------------------------------------------------------------------
(* SleepConditionVariableCS and SleepConditionVariableSRW.                 *)

\* The thread that finds the list unlocked and not empty locks it to tidy it.
Sleep(t) ==
  /\ pc[t] = "idle"
  /\ LET first == word.block = Null
         w == Word(t, word.locked \/ ~first, word.count)
         tidy == w.locked # word.locked
     IN /\ word' = w
        /\ back' = [back EXCEPT ![t] = word.block]
        /\ notify' = [notify EXCEPT ![t] = IF first THEN t ELSE Null]
        /\ Goto(t, IF tidy THEN "optimize" ELSE "spin")
        /\ Current' = IF tidy THEN w ELSE Current
  /\ call' = [call EXCEPT ![t] = "sleep"]
  /\ then' = [then EXCEPT ![t] = "spin"]
  /\ UNCHANGED <<next, spinning, pWake, ghosts>>

\* RtlpOptimizeConditionVariableWaitList; wake-ups that came meanwhile are seen to.
Optimize(t) ==
  /\ pc[t] = "optimize"
  /\ next' = Linked(Current.block)
  /\ notify' = [notify EXCEPT ![Current.block] = Oldest(Current.block)]
  /\ IF word = Current
       THEN word' = Word(word.block, FALSE, 0) /\ Current' = Empty /\ Goto(t, "spin")
       ELSE /\ Current' = word
            /\ Goto(t, IF word.count # 0 THEN "waking" ELSE "optimize")
            /\ UNCHANGED word
  /\ UNCHANGED <<back, spinning, call, then, pWake, ghosts>>

\* The end of the spin: the block was woken, or its thread goes into the kernel
\* (InterlockedBitTestAndReset of bit 1).
Spin(t) ==
  /\ pc[t] = "spin"
  /\ IF spinning[t]
       THEN Goto(t, "kernel") /\ spinning' = [spinning EXCEPT ![t] = FALSE] /\ UNCHANGED <<links, call, then>>
       ELSE Return(t)
  /\ UNCHANGED <<word, Current, pWake, ghosts>>

\* NtWaitForKeyedEvent times out.
TimeOut(t) ==
  /\ pc[t] = "kernel"
  /\ Goto(t, "single")
  /\ UNCHANGED <<word, links, spinning, call, then, Current, pWake, ghosts>>

-----------------------------------------------------------------------------
(* RtlpWakeSingle, by a thread whose wait has timed out.                   *)

\* From here on the caller waits for its waker, or has left the list.
LeaveAfterWaking(t, removed) ==
  /\ Goto(t, "waking")
  /\ then' = [then EXCEPT ![t] = IF removed THEN "idle" ELSE "kernelAgain"]

\* Lock the list and look for the block.  If somebody else has it locked he is
\* asked to wake everybody; if the list is empty or will be woken, so will the block.
WakeSingle(t) ==
  /\ pc[t] = "single"
  /\ LET w == [word EXCEPT !.locked = TRUE] IN
       IF word = Empty \/ word.count = WakeMask
         THEN Goto(t, "kernelAgain") /\ UNCHANGED <<word, links, then, Current, ghosts>>
       ELSE IF word.locked
         THEN /\ word' = [word EXCEPT !.count = WakeMask]
              /\ Owe(Cardinality(List), Cardinality(List))
              /\ Goto(t, "kernelAgain")
              /\ UNCHANGED <<links, then, Current>>
         ELSE /\ word' = w
              /\ Current' = w
              /\ IF word.block = t
                   THEN Goto(t, "removeNewest") /\ UNCHANGED <<links, then, ghosts>>
                   ELSE /\ Unlink(word.block, t)
                        /\ LeaveAfterWaking(t, t \in List)
                        /\ Owe(owed, Cardinality(List \ {t}))
  /\ UNCHANGED <<spinning, call, pWake>>

\* The block is the newest: the word leads to the one before instead.  The low bits
\* of the new word are those of the first attempt, so wake-ups that were counted
\* since and made it fail are written over by the next.
RemoveNewest(t) ==
  /\ pc[t] = "removeNewest"
  /\ LET rest == back[t]
         w == Word(rest, TRUE, 0)
         others == Cardinality(List \ {t})
     IN
       IF word # Current
         THEN /\ Current' = word
              /\ IF word.block = t
                   THEN UNCHANGED <<pc, links, then, ghosts>>
                   ELSE Unlink(word.block, t) /\ LeaveAfterWaking(t, TRUE) /\ Owe(owed, others)
              /\ UNCHANGED <<word, spinning, call>>
       ELSE IF rest = Null
         THEN word' = Empty /\ Current' = Empty /\ Return(t) /\ Owe(owed, 0)
         ELSE /\ word' = w /\ Current' = w
              /\ Unlink(rest, t)
              /\ LeaveAfterWaking(t, TRUE)
              /\ owed' = Least(owed, others)
              /\ forgotten' = IF word.count = WakeMask THEN owed' ELSE Least(forgotten + word.count, owed')
              /\ UNCHANGED <<spinning, call>>
  /\ UNCHANGED pWake

-----------------------------------------------------------------------------
(* RtlpWakeConditionVariable.                                              *)

\* The blocks t has taken are linked by "back"; b comes to their end.
Appended(link, t, b) ==
  IF pWake[t] = Null THEN link
  ELSE [link EXCEPT ![CHOOSE x \in Behind(pWake[t]) : back[x] = Null] = b]
Take(t, b) == pWake' = [pWake EXCEPT ![t] = IF @ = Null THEN b ELSE @]

Waking(t) == pc[t] = "waking" /\ Current.count # WakeMask
MaxWakeCount(t) == Current.count + (IF call[t] = "wake" THEN 1 ELSE 0)
Count(t) == Cardinality(Behind(pWake[t]))

\* Everybody is to be woken: take the whole list with the word, newest first.
TakeAll(t) ==
  /\ pc[t] = "waking" /\ Current.count = WakeMask
  /\ word' = Empty /\ Current' = Empty
  /\ back' = Appended(back, t, word.block) /\ Take(t, word.block)
  /\ Owe(0, 0)
  /\ Goto(t, "release")
  /\ UNCHANGED <<notify, next, spinning, call, then>>

\* Take the oldest block, unless it is also the newest.
TakeOldest(t) ==
  /\ Waking(t) /\ Count(t) < MaxWakeCount(t)
  /\ LET h == Current.block
         b == Oldest(h)
         rest == Linked(h)[b]
     IN
       /\ rest # Null
       /\ next' = Linked(h)
       /\ notify' = [notify EXCEPT ![h] = rest]
       /\ back' = Appended([back EXCEPT ![b] = Null, ![rest] = Null], t, b) /\ Take(t, b)
  /\ Owe(owed - 1, Cardinality(List) - 1)
  /\ UNCHANGED <<word, spinning, pc, call, then, Current>>

\* The only block left goes with the compare-exchange that empties the word, if
\* the word has not changed.
TakeLast(t) ==
  /\ Waking(t) /\ Count(t) < MaxWakeCount(t)
  /\ LET b == Oldest(Current.block) IN
       /\ Linked(Current.block)[b] = Null
       /\ next' = Linked(Current.block)
       /\ IF word = Current
            THEN /\ word' = Empty /\ Current' = Empty
                 /\ back' = Appended([back EXCEPT ![b] = Null], t, b) /\ Take(t, b)
                 /\ Owe(owed - 1, Cardinality(List) - 1)
                 /\ Goto(t, "release")
            ELSE Current' = word /\ UNCHANGED <<word, back, pWake, ghosts, pc>>
  /\ UNCHANGED <<notify, spinning, call, then>>

\* Enough have been taken: unlock the list, or see to the wake-ups that came meanwhile.
Unlock(t) ==
  /\ Waking(t) /\ Count(t) >= MaxWakeCount(t)
  /\ next' = Linked(Current.block)
  /\ IF word = Current
       THEN word' = Word(word.block, FALSE, 0) /\ Current' = Empty /\ Goto(t, "release")
       ELSE Current' = word /\ UNCHANGED <<word, pc>>
  /\ UNCHANGED <<back, notify, spinning, call, then, pWake, ghosts>>

\* Wake the threads whose blocks were taken: one that spins sees its flag, one that
\* sleeps meets NtReleaseKeyedEvent.  The link is read before.
Release(t) ==
  /\ pc[t] = "release" /\ pWake[t] # Null
  /\ LET b == pWake[t] IN
       /\ pWake' = [pWake EXCEPT ![t] = back[b]]
       /\ IF spinning[b]
            THEN spinning' = [spinning EXCEPT ![b] = FALSE] /\ UNCHANGED <<pc, links, call, then>>
            ELSE pc[b] \in Asleep /\ Return(b)
  /\ UNCHANGED <<word, Current, ghosts>>

Released(t) ==
  /\ pc[t] = "release" /\ pWake[t] = Null
  /\ IF then[t] = "idle" THEN Return(t) ELSE Goto(t, then[t]) /\ Stay
  /\ UNCHANGED <<word, Current, pWake, ghosts>>

-----------------------------------------------------------------------------
(* SecondWaitWorkaroundNtWaitForKeyedEvent.                                *)

\* t has marked the block and gets no further for 5 ms: its thread returns, and the
\* release that follows waits for it.
Miss(t) ==
  /\ Release(t) /\ ~spinning[pWake[t]] /\ pc[pWake[t]] = "kernelAgain"
  /\ missed' = [missed EXCEPT ![t] = pWake[t]]
  /\ UNCHANGED misled

\* The thread sleeps again with its block in the same place of its stack: this
\* wait, which its waker knows nothing of, ends with the release.
Meet(t) ==
  /\ missed[t] # Null /\ pc[missed[t]] \in Asleep
  /\ Return(missed[t])
  /\ missed' = [missed EXCEPT ![t] = Null]
  /\ misled' = TRUE
  /\ UNCHANGED <<word, Current, pWake, ghosts>>

-----------------------------------------------------------------------------
(* WakeConditionVariable and WakeAllConditionVariable.                     *)

\* Mutant: leaves a locked list to its owner without a word.
WakeConditionVariableSilent(t) ==
  /\ pc[t] = "idle" /\ word.block # Null /\ word.count # WakeMask
  /\ Owe(owed + 1, Cardinality(List))
  /\ IF word.locked
       THEN UNCHANGED <<word, pc, call, Current>>
       ELSE /\ word' = [word EXCEPT !.locked = TRUE]
            /\ Current' = [word EXCEPT !.locked = TRUE]
            /\ call' = [call EXCEPT ![t] = "wake"]
            /\ Goto(t, "waking")
  /\ UNCHANGED <<links, spinning, then, pWake>>

WakeConditionVariable(t) ==
  /\ pc[t] = "idle" /\ word.block # Null /\ word.count # WakeMask
  /\ Owe(owed + 1, Cardinality(List))
  /\ IF word.locked
       THEN word' = [word EXCEPT !.count = @ + 1] /\ UNCHANGED <<pc, call, Current>>
       ELSE /\ word' = [word EXCEPT !.locked = TRUE]
            /\ Current' = [word EXCEPT !.locked = TRUE]
            /\ call' = [call EXCEPT ![t] = "wake"]
            /\ Goto(t, "waking")
  /\ UNCHANGED <<links, spinning, then, pWake>>

WakeAllConditionVariable(t) ==
  /\ pc[t] = "idle" /\ word.block # Null /\ word.count # WakeMask
  /\ IF word.locked
       THEN /\ word' = [word EXCEPT !.count = WakeMask]
            /\ Owe(Cardinality(List), Cardinality(List))
            /\ UNCHANGED <<pc, call, pWake>>
       ELSE /\ word' = Empty
            /\ Owe(0, 0)
            /\ call' = [call EXCEPT ![t] = "wakeAll"]
            /\ pWake' = [pWake EXCEPT ![t] = word.block]
            /\ Goto(t, "release")
  /\ UNCHANGED <<links, spinning, then, Current>>

-----------------------------------------------------------------------------
Inside(t) ==
  \/ Optimize(t) \/ Spin(t)
  \/ WakeSingle(t) \/ RemoveNewest(t)
  \/ TakeAll(t) \/ TakeOldest(t) \/ TakeLast(t) \/ Unlock(t) \/ Release(t) \/ Released(t)

Acts(t) ==
  \/ Sleep(t) \/ WakeConditionVariable(t) \/ WakeAllConditionVariable(t)
  \/ TimeOut(t) \/ Inside(t)

Next == ~misled /\ \E t \in Thread :
  \/ missed[t] = Null /\ (Miss(t) \/ (Acts(t) /\ UNCHANGED late))
  \/ Meet(t)

Spec == Init /\ [][Next]_<<vars, late>>

-----------------------------------------------------------------------------
(* Properties.                                                             *)

Taken(t) == Behind(pWake[t])

\* A block on the list, or taken and not yet set, belongs to a thread that is still
\* inside SleepConditionVariable: its stack frame is there, whatever timed out.  No
\* two wakers have the same block, and none that is on the list.
NoDeadBlock ==
  /\ \A b \in List : call[b] = "sleep"
  /\ \A t \in Thread : \A b \in Taken(t) :
       call[b] = "sleep" /\ b \notin List /\ \A u \in Thread \ {t} : b \notin Taken(u)

\* Whoever unlocks the list leaves no wake-up behind that was called for while it
\* was locked: as many of those on the list have been woken, if there were so many.
\* WakeConditionVariable and RtlpWakeSingle hand theirs to the owner and rely on it.
\* The exception are the wake-ups RemoveNewest writes over.
WakesKeptButForgotten == ~word.locked => owed <= forgotten

\* The list is sound whenever it is unlocked or walked, and what others left to the owner
\* of its lock is done (synch.hpp:434-532, 566-653, 2431-2512).
\* A release that was missed and meets another wait takes a thread off whose block
\* nobody has unlinked (lines 165-168, 189-190).
BlocksAndWakesKept == misled \/ (NoDeadBlock /\ WakesKeptButForgotten)

\* When no thread can take a step of its own, nobody waits but those on the list, in
\* the kernel with their timeouts running, and the list is not locked: a wait that
\* has timed out ends, and no waker is left behind, unless its release was missed.
Missed == misled \/ \E t \in Thread : missed[t] # Null

Rests(t) ==
  \/ pc[t] \in {"idle"} \cup Asleep
  \/ pc[t] = "release" /\ pWake[t] # Null /\ ~spinning[pWake[t]] /\ pc[pWake[t]] \notin Asleep

NobodyStuck ==
  (~Missed /\ \A t \in Thread : Rests(t))
    => /\ \A t \in Thread : pc[t] = "idle" \/ (pc[t] = "kernel" /\ t \in List)
       /\ ~word.locked

\* The same, as long as no wake-up has been written over.
NobodyStuckUnlessForgotten == forgotten = 0 => NobodyStuck
=============================================================================
