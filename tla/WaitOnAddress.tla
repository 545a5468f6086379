--------------------------- MODULE WaitOnAddress ---------------------------
(***************************************************************************)
(* WaitOnAddress, WakeByAddressSingle and WakeByAddressAll as YY-Thunks    *)
(* supplies them below Windows 8: one bucket of WaitOnAddressHashTable and *)
(* the addresses that hash to it.                                          *)
(*                                                                         *)
(* The bucket is one word: the newest wait block, a bit that locks the     *)
(* list and a bit that asks the owner of that lock to wake everybody.      *)
(* Blocks live on their threads' stacks, so the thread's name stands for   *)
(* the block's address.  "back" leads from new to old; the owner of the    *)
(* lock adds "notify" from old to new, and "next" of the newest block      *)
(* leads it to the oldest.                                                 *)
(*                                                                         *)
(* A step is one access to the word or to a block's flag, or a rendezvous  *)
(* on a keyed event.  Links are written by the owner of the lock alone, or *)
(* by a thread whose block is not on the list yet, so those writes go with *)
(* the step before or after them.                                          *)
(*                                                                         *)
(* Below Windows Vista a second wait, for a waker that has the block, ends *)
(* 5 ms after RtlpWaitOnAddressWakeEntireList has marked the block.  Its   *)
(* release may come later: it stays in the kernel for a thread that has    *)
(* left, and may meet the next wait of that thread, whose block is on the  *)
(* list.  What comes after that is not modelled.  RtlpWakeByAddress marks  *)
(* nothing, and the wait with the list locked has no such end.             *)
(***************************************************************************)
EXTENDS Integers, FiniteSets

CONSTANTS
  Thread, Address, Null,  \* Null is no thread
  BelowVista              \* OSMajorVersion < 6

VARIABLES
  word,        \* the bucket
  back, notify, next, flag,  \* YY_ADDRESS_WAIT_BLOCK of each thread that waits
  pc,
  call,        \* what a thread has been called with
  Current,     \* the word as the owner of the list's lock last saw it, while it matters
  pBlock,      \* the newest block when the owner last marked the list
  pItem,       \* where a thread goes on with its walk
  inHand,      \* the block a thread has taken and is about to set or release
  LastWake,    \* those it will release, linked by "back"
  changed,     \* the value at the address has changed since the caller of WaitOnAddress read it
  unreached,   \* who waited when a wake-up began and has not been woken since, nor given up
  missed,      \* the thread whose block t releases, if that thread has left without it
  misled       \* a missed release has met a wait it was not meant for

links == <<back, notify, next>>
block == <<links, flag>>
vars == <<word, block, pc, call, Current, pBlock, pItem, inHand, LastWake, changed, unreached>>
late == <<missed, misled>>
walk == <<pItem, inHand, LastWake>>
owner == <<Current, pBlock>>
ghosts == <<changed, unreached>>

Word(b, l, w) == [block |-> b, locked |-> l, wakeAll |-> w]
Empty == Word(Null, FALSE, FALSE)

\* Values of a block's flag: 1, 0, 2 and 4.
Spinning == 1
Kernel == 0
Woken == 2
TimedOut == 4

NoCall == [kind |-> "none"]

Init ==
  /\ word = Empty
  /\ back = [t \in Thread |-> Null] /\ notify = back /\ next = back
  /\ flag = [t \in Thread |-> Spinning]
  /\ pc = [t \in Thread |-> "idle"]
  /\ call = [t \in Thread |-> NoCall]
  /\ Current = Empty /\ pBlock = Null
  /\ pItem = [t \in Thread |-> Null]
  /\ inHand = [t \in Thread |-> Null]
  /\ LastWake = [t \in Thread |-> Null]
  /\ changed = [t \in Thread |-> FALSE]
  /\ unreached = [t \in Thread |-> {}]
  /\ missed = [t \in Thread |-> Null] /\ misled = FALSE

\* In NtWaitForKeyedEvent: at first; after a timeout for the waker who has the block;
\* the same with the list locked.
Asleep == {"kernel", "kernelAgain", "kernelLocked"}

Goto(t, where) == pc' = [pc EXCEPT ![t] = where]

\* Somebody waits at address a.
WaitsAt(w, a) == call[w].kind = "wait" /\ call[w].address = a

\* The blocks on the way from b along the links: no set can do without such a block
\* unless it lacks b, or a link leads out of it.
Follow(link, b) ==
  {x \in Thread : \A S \in SUBSET (Thread \ {x}) :
     (b # Null /\ b \notin S) \/ \E y \in S : link[y] # Null /\ link[y] \notin S}

Behind(b) == Follow(back, b)
Ahead(b) == Follow(notify, b)
List == Behind(word.block)

\* w is awake, for a reason of its own or, Woken, because it was woken: then no
\* thread that came to wake one waiter of its address has missed anybody.
Stirs(w, woken) ==
  unreached' = [t \in Thread |->
    IF call[t].kind = "wake" /\ ~call[t].all
         /\ (w \in unreached[t] \/ (woken /\ WaitsAt(w, call[t].address)))
      THEN {} ELSE unreached[t] \ {w}]

\* A block that is none any more.
Reset(t) ==
  /\ back' = [back EXCEPT ![t] = Null]
  /\ notify' = [notify EXCEPT ![t] = Null]
  /\ next' = [next EXCEPT ![t] = Null]
  /\ flag' = [flag EXCEPT ![t] = Spinning]

\* The locals of a thread that returns are dead, its block with them.
Return(t) ==
  /\ Goto(t, "idle")
  /\ Reset(t)
  /\ call' = [call EXCEPT ![t] = NoCall]
  /\ changed' = [changed EXCEPT ![t] = FALSE]
  /\ unreached' = [unreached EXCEPT ![t] = {}]

-----------------------------------------------------------------------------
(* Walks of the owner of the lock.                                         *)

\* The walk from the newest block h back ends at the first that knows the oldest.
Walked(h) == Follow([x \in Thread |-> IF next[x] = Null THEN back[x] ELSE Null], h)
Oldest(h) == next[CHOOSE x \in Walked(h) : next[x] # Null]

\* It links each block to the one before.
Linked(h) ==
  [b \in Thread |-> IF b \in Walked(h) \ {h} THEN CHOOSE x \in Walked(h) : back[x] = b ELSE notify[b]]

\* h then knows the oldest as well.
Mark(h) ==
  /\ notify' = Linked(h)
  /\ next' = [next EXCEPT ![h] = Oldest(h)]

\* RtlpWaitOnAddressRemoveWaitBlock goes from the newest block h to the oldest, linking
\* each to the one before, and takes t out if it meets it further down.
Unlink(h, t, pNotify) ==
  LET left == Behind(h) \ {t}
      behind == [b \in Thread |-> IF b \in left /\ back[b] = t THEN back[t] ELSE back[b]]
      oldest == CHOOSE x \in left : behind[x] = Null
  IN /\ back' = behind
     /\ notify' = [b \in Thread |->
          IF b = h THEN pNotify ELSE IF b \in left THEN CHOOSE x \in left : behind[x] = b ELSE notify[b]]
     /\ next' = [b \in Thread |->
          IF b = h \/ (b = oldest /\ t \in Behind(h) /\ back[t] = Null) THEN oldest ELSE next[b]]

-----------------------------------------------------------------------------
(* WaitOnAddress.                                                          *)

\* The caller has just read the value it passes in CompareAddress.
BeginWait(t) ==
  /\ pc[t] = "idle"
  /\ \E a \in Address :
       call' = [call EXCEPT ![t] = [kind |-> "wait", address |-> a, timed |-> TRUE, compared |-> FALSE]]
  /\ Goto(t, "add")
  /\ UNCHANGED <<word, block, owner, walk, ghosts>>

Add(t) ==
  /\ pc[t] = "add"
  /\ LET first == word.block = Null IN
       /\ word' = Word(t, word.locked \/ ~first, word.wakeAll)
       /\ back' = [back EXCEPT ![t] = word.block]
       /\ next' = [next EXCEPT ![t] = IF first THEN t ELSE Null]
       /\ Goto(t, IF first \/ word.locked THEN "compare" ELSE "look")
  /\ UNCHANGED <<notify, flag, call, owner, walk, ghosts>>

\* RtlpOptimizeWaitOnAddressWaitList, by the thread that has just locked the list.
Look(t) ==
  /\ pc[t] = "look"
  /\ Current' = word
  /\ Goto(t, "optimize")
  /\ UNCHANGED <<word, block, call, pBlock, walk, ghosts>>

\* Unlock the list, and take the whole of it if that has been asked for.
Unlock(t, w, then) ==
  IF w.wakeAll
    THEN /\ word' = Empty
         /\ pItem' = [pItem EXCEPT ![t] = w.block]
         /\ Goto(t, "wakeList")
         /\ UNCHANGED <<call, ghosts>>
    ELSE /\ word' = [w EXCEPT !.locked = FALSE]
         /\ then
         /\ UNCHANGED pItem

Optimize(t) ==
  /\ pc[t] = "optimize"
  /\ Mark(Current.block)
  /\ IF word = Current
       THEN /\ Unlock(t, word, Goto(t, "compare") /\ UNCHANGED <<call, ghosts>>)
            /\ Current' = Empty
       ELSE /\ Current' = word
            /\ UNCHANGED <<word, pc, call, pItem, ghosts>>
  /\ UNCHANGED <<back, flag, pBlock, inHand, LastWake>>

\* The comparison comes after the block is on the list.
Compare(t) ==
  /\ pc[t] = "compare"
  /\ call' = [call EXCEPT ![t].compared = TRUE]
  /\ IF changed[t] THEN Goto(t, "remove") /\ Stirs(t, FALSE)
                   ELSE Goto(t, "spin") /\ UNCHANGED unreached
  /\ UNCHANGED <<word, block, owner, walk, changed>>

\* Mutant: a store in place of the test and reset.
SpinStore(t) ==
  /\ pc[t] = "spin"
  /\ flag' = [flag EXCEPT ![t] = Kernel]
  /\ Goto(t, "kernel")
  /\ UNCHANGED <<word, links, call, owner, walk, ghosts>>

\* The end of the spin: the block was woken, or its thread goes into the kernel
\* (_interlockedbittestandreset of bit 0).
Spin(t) ==
  /\ pc[t] = "spin"
  /\ IF flag[t] = Spinning
       THEN /\ flag' = [flag EXCEPT ![t] = Kernel]
            /\ Goto(t, "kernel")
            /\ UNCHANGED <<links, call, ghosts>>
       ELSE Return(t)
  /\ UNCHANGED <<word, owner, walk>>

\* Mutant: leaves at once although a waker has the block.
TimeOutLeaves(t) ==
  /\ pc[t] = "kernel" /\ call[t].timed
  /\ IF flag[t] = Woken
       THEN Return(t)
       ELSE /\ flag' = [flag EXCEPT ![t] = TimedOut]
            /\ Goto(t, "remove")
            /\ Stirs(t, FALSE)
            /\ UNCHANGED <<links, call, changed>>
  /\ UNCHANGED <<word, owner, walk>>

\* NtWaitForKeyedEvent times out: if a waker has the block, its release is still
\* to come and is waited for.
TimeOut(t) ==
  /\ pc[t] = "kernel" /\ call[t].timed
  /\ flag' = [flag EXCEPT ![t] = TimedOut]
  /\ Goto(t, IF flag[t] = Woken THEN "kernelAgain" ELSE "remove")
  /\ Stirs(t, FALSE)
  /\ UNCHANGED <<word, links, call, owner, walk, changed>>

-----------------------------------------------------------------------------
(* RtlpWaitOnAddressRemoveWaitBlock.                                       *)

\* Lock the list and look for the block; if it is locked, ask its owner to wake
\* everybody, and wait for that; if it is empty, a waker has the block.
RemoveWaitBlock(t) ==
  /\ pc[t] = "remove"
  /\ IF word.block = Null \/ word.locked
       THEN /\ word' = [word EXCEPT !.wakeAll = word.locked]
            /\ Goto(t, "rejoin")
            /\ UNCHANGED <<block, Current>>
       ELSE /\ word' = [word EXCEPT !.locked = TRUE]
            /\ IF word.block = t
               THEN /\ Goto(t, "removeFirst")
                    /\ Current' = [word EXCEPT !.locked = TRUE]
                    /\ UNCHANGED block
               ELSE /\ Unlink(word.block, t, notify[word.block])
                    /\ UNCHANGED <<flag, Current>>
                    /\ Goto(t, IF t \in List THEN "unlock" ELSE "notFound")
  /\ UNCHANGED <<call, pBlock, walk, ghosts>>

\* The block is the newest: the word leads to the one before instead, unless it
\* has changed, perhaps because there is a newer one now.
RemoveNewest(t) ==
  /\ pc[t] = "removeFirst"
  /\ LET rest == back[t] IN
       IF word # Current
         THEN /\ IF word.block = t
                   THEN Current' = word /\ UNCHANGED <<pc, links>>
                   ELSE Current' = Empty /\ Unlink(word.block, t, notify[word.block]) /\ Goto(t, "unlock")
              /\ UNCHANGED <<word, flag, call, ghosts>>
         ELSE /\ Current' = Empty
              /\ IF rest = Null
                   THEN /\ word' = Empty
                        /\ Return(t)
                   ELSE /\ word' = [word EXCEPT !.block = rest]
                        /\ Unlink(rest, t, Null)
                        /\ Goto(t, "unlock")
                        /\ UNCHANGED <<flag, call, ghosts>>
  /\ UNCHANGED <<pBlock, walk>>

\* Not on the list: a waker has it, and has set its flag or will release it.  The
\* list stays locked meanwhile.
NotFound(t) ==
  /\ pc[t] = "notFound"
  /\ flag' = [flag EXCEPT ![t] = Kernel]
  /\ Goto(t, IF flag[t] = Woken THEN "unlock" ELSE "kernelLocked")
  /\ UNCHANGED <<word, links, call, owner, walk, ghosts>>

\* Wait for the waker after all, without a timeout.
Rejoin(t) ==
  /\ pc[t] = "rejoin"
  /\ IF flag[t] = Woken
       THEN Return(t)
       ELSE /\ flag' = [flag EXCEPT ![t] = Spinning]
            /\ Goto(t, "spin")
            /\ call' = [call EXCEPT ![t].timed = FALSE]
            /\ UNCHANGED <<links, ghosts>>
  /\ UNCHANGED <<word, owner, walk>>

UnlockList(t) ==
  /\ pc[t] = "unlock"
  /\ Unlock(t, word, Return(t))
  /\ word.wakeAll => UNCHANGED block
  /\ Current' = Empty /\ pBlock' = Null
  /\ UNCHANGED <<inHand, LastWake>>

-----------------------------------------------------------------------------
(* RtlpWaitOnAddressWakeEntireList.                                        *)

WakeNext(t) ==
  /\ pc[t] = "wakeList"
  /\ LET b == pItem[t] IN
       IF b = Null
         THEN /\ IF call[t].kind = "wait" /\ ~call[t].compared
                   THEN Goto(t, "compare") /\ UNCHANGED <<block, call, ghosts>>
                   ELSE Return(t)
              /\ UNCHANGED <<pItem, inHand>>
         ELSE /\ pItem' = [pItem EXCEPT ![t] = back[b]]
              /\ flag' = [flag EXCEPT ![b] = Woken]
              /\ Stirs(b, TRUE)
              /\ UNCHANGED <<links, call, changed>>
              /\ IF flag[b] = Kernel
                   THEN inHand' = [inHand EXCEPT ![t] = b] /\ Goto(t, "release")
                   ELSE UNCHANGED <<inHand, pc>>
  /\ UNCHANGED <<word, owner, LastWake>>

\* NtReleaseKeyedEvent(b) and NtWaitForKeyedEvent meet; t goes on to "then".
Release(t, b, then) ==
  /\ pc[b] \in Asleep
  /\ LET unlock == pc[b] = "kernelLocked" IN
       /\ pc' = [pc EXCEPT ![t] = then, ![b] = IF unlock THEN "unlock" ELSE "idle"]
       /\ call' = [call EXCEPT ![b] = IF unlock THEN @ ELSE NoCall]
       /\ changed' = [changed EXCEPT ![b] = unlock /\ @]
       /\ IF unlock THEN UNCHANGED block ELSE Reset(b)

ReleaseNext(t) ==
  /\ pc[t] = "release"
  /\ Release(t, inHand[t], "wakeList")
  /\ inHand' = [inHand EXCEPT ![t] = Null]
  /\ UNCHANGED <<word, owner, pItem, LastWake, unreached>>

-----------------------------------------------------------------------------
(* SecondWaitWorkaroundNtWaitForKeyedEvent.                                *)

\* t has marked the block and gets no further for 5 ms: its thread returns, and the
\* release that follows waits for it.
Miss(t) ==
  /\ BelowVista
  /\ ReleaseNext(t) /\ pc[inHand[t]] = "kernelAgain"
  /\ missed' = [missed EXCEPT ![t] = inHand[t]]
  /\ UNCHANGED misled

\* The thread waits again with its block in the same place of its stack: this wait,
\* which its waker knows nothing of, ends with the release.
Meet(t) ==
  /\ missed[t] # Null
  /\ Release(t, missed[t], pc[t])
  /\ missed' = [missed EXCEPT ![t] = Null]
  /\ misled' = TRUE
  /\ UNCHANGED <<word, owner, walk, unreached>>

-----------------------------------------------------------------------------
(* WakeByAddressSingle and WakeByAddressAll: RtlpWakeByAddress.            *)

\* The caller has just changed the value at the address.
BeginWake(t) ==
  /\ pc[t] = "idle"
  /\ \E a \in Address, all \in BOOLEAN :
       /\ call' = [call EXCEPT ![t] = [kind |-> "wake", address |-> a, all |-> all, bNoRemove |-> FALSE]]
       /\ changed' = [w \in Thread |-> changed[w] \/ (WaitsAt(w, a) /\ ~call[w].compared)]
       /\ unreached' = [unreached EXCEPT ![t] =
            {w \in Thread : WaitsAt(w, a) /\ pc[w] \in {"spin", "kernel"} /\ flag[w] # Woken}]
  /\ Goto(t, "wake")
  /\ UNCHANGED <<word, block, owner, walk>>

\* Begin the walk from the oldest block, with the list marked from the newest.
BeginScan(t, w) ==
  /\ Current' = w
  /\ pBlock' = w.block
  /\ Mark(w.block)
  /\ pItem' = [pItem EXCEPT ![t] = Oldest(w.block)]
  /\ UNCHANGED <<back, flag>>
  /\ Goto(t, "scan")

\* Mutant: leaves a locked list to its owner without a word.
WakeSilent(t) ==
  /\ pc[t] = "wake"
  /\ IF word.block = Null \/ word.locked
       THEN /\ Return(t)
            /\ UNCHANGED <<word, owner, pItem>>
       ELSE /\ word' = [word EXCEPT !.locked = TRUE]
            /\ BeginScan(t, [word EXCEPT !.locked = TRUE])
            /\ UNCHANGED <<call, ghosts>>
  /\ UNCHANGED <<inHand, LastWake>>

\* If the list is locked, its owner is asked to wake everybody.
Wake(t) ==
  /\ pc[t] = "wake"
  /\ IF word.block = Null \/ word.locked
       THEN /\ word' = [word EXCEPT !.wakeAll = word.locked]
            /\ Return(t)
            /\ UNCHANGED <<owner, pItem>>
       ELSE /\ word' = [word EXCEPT !.locked = TRUE]
            /\ BeginScan(t, [word EXCEPT !.locked = TRUE])
            /\ UNCHANGED <<call, ghosts>>
  /\ UNCHANGED <<inHand, LastWake>>

\* The blocks that wait for this address, of those from pItem on; and the first of them.
Met(t) == {c \in Ahead(pItem[t]) : WaitsAt(c, call[t].address)}
First(t) == CHOOSE c \in Met(t) : Met(t) \subseteq Ahead(c)

Hold(t) ==
  /\ inHand' = [inHand EXCEPT ![t] = First(t)]
  /\ pItem' = [pItem EXCEPT ![t] = notify[First(t)]]
  /\ Goto(t, "take")
  /\ UNCHANGED <<flag, LastWake, ghosts>>

\* There are none, or no more.
Scanned(t) ==
  /\ pc[t] = "scan" /\ Met(t) = {}
  /\ Goto(t, "releaseAll")
  /\ UNCHANGED <<word, block, call, owner, walk, ghosts>>

\* One further down than the newest is unlinked at once.
HoldOlder(t) ==
  /\ pc[t] = "scan" /\ Met(t) # {} /\ First(t) # pBlock
  /\ LET older == back[First(t)]
         newer == notify[First(t)]
     IN /\ back' = [back EXCEPT ![newer] = older]
        /\ notify' = [c \in Thread |-> IF c = older THEN newer ELSE notify[c]]
        /\ next' = [c \in Thread |-> IF older = Null /\ c \in {pBlock, newer} THEN newer ELSE next[c]]
  /\ Hold(t)
  /\ UNCHANGED <<word, call, owner>>

\* The newest is unlinked by a compare-exchange of the word; if that fails, the walk
\* begins anew.
HoldNewest(t) ==
  /\ pc[t] = "scan" /\ Met(t) # {} /\ First(t) = pBlock
  /\ LET older == back[pBlock] IN
       IF word = Current
         THEN /\ Hold(t)
              /\ word' = IF older = Null THEN Empty ELSE [word EXCEPT !.block = older]
              /\ notify' = [c \in Thread |-> IF c = older THEN Null ELSE notify[c]]
              /\ next' = [c \in Thread |-> IF c = older THEN next[pBlock] ELSE next[c]]
              /\ call' = [call EXCEPT ![t].bNoRemove = (older = Null)]
              /\ Current' = Empty /\ pBlock' = Null
              /\ UNCHANGED back
         ELSE BeginScan(t, word) /\ UNCHANGED <<word, call, inHand, LastWake, ghosts>>

\* Set the flag of the block in hand.  One that is in the kernel will be released
\* later; one that has been woken already does not count.
Take(t) ==
  /\ pc[t] = "take"
  /\ LET b == inHand[t]
         counts == flag[b] # Woken
         asleep == flag[b] = Kernel
     IN
       /\ flag' = [flag EXCEPT ![b] = Woken]
       /\ back' = [back EXCEPT ![b] = IF asleep THEN LastWake[t] ELSE @]
       /\ LastWake' = [LastWake EXCEPT ![t] = IF asleep THEN b ELSE @]
       /\ inHand' = [inHand EXCEPT ![t] = Null]
       /\ Goto(t, IF counts /\ ~call[t].all THEN "releaseAll" ELSE "scan")
       /\ Stirs(b, TRUE)
  /\ UNCHANGED <<word, notify, next, call, owner, pItem, changed>>

\* Release the blocks taken, reading each link before its thread may go; then
\* unlock, unless the last block on the list was taken and the word is empty.
ReleaseAll(t) ==
  /\ pc[t] = "releaseAll"
  /\ LET b == LastWake[t] IN
       IF b # Null
         THEN /\ Release(t, b, "releaseAll")
              /\ LastWake' = [LastWake EXCEPT ![t] = back[b]]
              /\ UNCHANGED <<pItem, unreached>>
         ELSE /\ IF call[t].bNoRemove THEN Return(t)
                                    ELSE Goto(t, "unlock") /\ UNCHANGED <<block, call, ghosts>>
              /\ pItem' = [pItem EXCEPT ![t] = Null]
              /\ UNCHANGED LastWake
  /\ UNCHANGED <<word, owner, inHand>>

-----------------------------------------------------------------------------
Inside(t) ==
  \/ Add(t) \/ Look(t) \/ Optimize(t) \/ Compare(t) \/ Spin(t)
  \/ RemoveWaitBlock(t) \/ RemoveNewest(t) \/ NotFound(t) \/ Rejoin(t) \/ UnlockList(t)
  \/ WakeNext(t) \/ ReleaseNext(t)
  \/ Wake(t) \/ Scanned(t) \/ HoldOlder(t) \/ HoldNewest(t) \/ Take(t) \/ ReleaseAll(t)

Acts(t) == BeginWait(t) \/ BeginWake(t) \/ TimeOut(t) \/ Inside(t)

Next == ~misled /\ \E t \in Thread :
  \/ missed[t] = Null /\ (Miss(t) \/ (Acts(t) /\ UNCHANGED late))
  \/ Meet(t)

Spec == Init /\ [][Next]_<<vars, late>>

-----------------------------------------------------------------------------
(* Properties.                                                             *)

\* A block on the list, or taken and not yet set, belongs to a thread that is
\* still inside WaitOnAddress: its stack frame is there, whatever timed out, as
\* long as no missed release has met another wait.
Taken(t) == Behind(LastWake[t]) \cup ({inHand[t]} \ {Null})
            \cup (IF pc[t] = "wakeList" \/ pc[t] = "release" THEN Behind(pItem[t]) ELSE {})

NoDeadBlock ==
  /\ \A b \in List : call[b].kind = "wait"
  /\ \A t \in Thread : \A b \in Taken(t) : call[b].kind = "wait"
  /\ \A t \in Thread : pc[t] = "scan" => Ahead(pItem[t]) \subseteq List

\* Who is about to be woken: a waker has the block, or the list is going to be woken.
Due(w) ==
  \/ flag[w] = Woken
  \/ word.wakeAll /\ w \in List
  \/ \E t \in Thread : w \in Taken(t)

\* No lost wake-up.  Of those who slept or were about to when the wake-up began,
\* WakeByAddressAll leaves nobody behind, though some will be woken by others.
\* WakeByAddressSingle leaves them all behind only if another waiter of the address
\* was woken meanwhile, or one of them gave up.
WakeReaches ==
  [][\A t \in Thread :
       (call[t].kind = "wake" /\ pc'[t] = "idle") =>
         IF call[t].all THEN \A w \in unreached[t] : Due(w)'
                        ELSE unreached[t] = {} \/ \E w \in unreached[t] : Due(w)']_vars

\* When no thread can take a step of its own, nobody waits for a value that has
\* changed, or to be woken, and no waker is stuck, unless its release was missed:
\* nobody compares too early, no lock is left behind.
Missed == misled \/ \E t \in Thread : missed[t] # Null

Rests(t) ==
  \/ pc[t] \in {"idle"} \cup Asleep
  \/ pc[t] = "release" /\ pc[inHand[t]] \notin Asleep
  \/ pc[t] = "releaseAll" /\ LastWake[t] # Null /\ pc[LastWake[t]] \notin Asleep

NobodyStuck ==
  (~Missed /\ \A t \in Thread : Rests(t))
    => \A t \in Thread : pc[t] = "idle" \/ (pc[t] = "kernel" /\ ~changed[t] /\ ~Due(t))
=============================================================================
