-------------------------- MODULE NobodyLeftProofs --------------------------
(***************************************************************************)
(* Proofs that nobody is left behind, for any number of threads: when no   *)
(* thread can take a step of its own, no sleeper waits for a waker that    *)
(* has forgotten it, and no waker for a sleeper that has left, unless that *)
(* sleeper's last wait, of 5 ms, was too short for the waker's release.    *)
(*                                                                         *)
(* SleepersProofs shows that whatever is on a list, or taken off it by a   *)
(* waker, belongs to a thread that waits to be woken.  Here is the other   *)
(* half: every thread that waits to be woken is on the list or with a      *)
(* waker, and one on the list that relies on somebody else has been        *)
(* promised a wake-up.                                                     *)
(*                                                                         *)
(* Between the two: a wake-up of an address reaches everybody who waited   *)
(* there when it began and still does.                                     *)
(***************************************************************************)
EXTENDS SleepersProofs

-----------------------------------------------------------------------------
(* WaitOnAddress: every block that has not been woken is somewhere.        *)

\* What t has taken off the list and has not woken yet.
Catch(t) == Waits!Behind(HeadOf(t)) \cup Hand(t)
Caught(b) == \E t \in Thread : b \in Catch(t)

\* b's own timeout will not wake it.
Left(b) ==
  /\ flag[b] # Waits!Woken
  /\ \/ waitPc[b] \in {"rejoin", "notFound", "kernelLocked"}
     \/ waitPc[b] \in {"spin", "kernel"} /\ ~waitCall[b].timed

\* Whoever waits to be woken is on the list or with a waker; if only others will wake
\* those on the list, they have been asked to.
Covers ==
  /\ \A b \in Thread : Listed(b) => b \in Waits!List \/ Caught(b)
  /\ \A b \in Waits!List : Left(b) => bucket.wakeAll

\* A thread in the kernel is there with its bit reset, and none with a timeout goes
\* there when the value has changed.  The first wait has a timeout, and compares once.
MoreAt(t) ==
  /\ waitCall[t].kind = "wait" /\ ~waitCall[t].compared => waitCall[t].timed
  /\ waitPc[t] = "compare" => ~waitCall[t].compared
  /\ waitPc[t] \in {"kernel", "kernelLocked"} => flag[t] \in {Waits!Kernel, Waits!Woken}
  /\ waitPc[t] \in {"spin", "kernel"} /\ waitCall[t].timed => ~changed[t]

WaitLeft ==
  /\ Covers
  /\ \A t \in Thread : MoreAt(t)
  /\ changed \in [Thread -> BOOLEAN]
  /\ bucket.wakeAll => bucket.locked

\* Where a block is.
PlacesInv ==
  /\ OfWaiters /\ WaitLinks
  /\ \A b \in Waits!List : b \in Thread /\ OnQueue(b) /\ ~Caught(b)
  /\ \A t \in Thread : Catch(t) \subseteq Thread /\ \A b \in Catch(t) : Listed(b)
  /\ \A t \in Thread : \A b \in Waits!Behind(HeadOf(t)) : IF Drains(t) THEN ToSet(b) ELSE ToRelease(b)
  /\ \A t \in Thread : \A b \in Hand(t) : IF Drains(t) THEN ToRelease(b) ELSE ToSet(b)
  /\ \A t, u \in Thread : t # u => Catch(t) \cap Catch(u) = {}
  /\ \A t \in Thread : Waits!Behind(HeadOf(t)) \cap Hand(t) = {}
  /\ bucket.block = Null <=> Waits!List = {}
  /\ \A t \in Thread : HeadOf(t) \in Block /\ (HeadOf(t) = Null <=> Waits!Behind(HeadOf(t)) = {})

LEMMA Whereabouts == WaitInv => PlacesInv
  <1> SUFFICES ASSUME WaitInv
               PROVE  PlacesInv
    OBVIOUS
  <1>1. PICK L \in SUBSET Thread, T \in [Thread -> SUBSET Thread], pos \in [Thread -> Nat], r \in [Thread -> Nat],
             m \in Block : WaitHolds(L, T, pos, r, m)
    BY DEF WaitInv, WaitHeld
  <1>2. OfWaiters /\ WaitLinks /\ Queued(L, pos, m) /\ Carries(T, r) /\ Disjoint(L, T) /\ Placed(L, T)
    BY <1>1 DEF WaitInv, WaitHolds
  <1>3. Waits!List = L /\ (bucket.block = Null <=> L = {})
    BY <1>2, QueueIs
  <1>4. ASSUME NEW t \in Thread
        PROVE  /\ Waits!Behind(HeadOf(t)) = T[t] /\ Catch(t) = T[t] \cup Hand(t) /\ Catch(t) \subseteq Thread
               /\ HeadOf(t) \in Block /\ (HeadOf(t) = Null <=> T[t] = {})
    <2>1. Waits!Behind(HeadOf(t)) = T[t] /\ T[t] \subseteq Thread /\ (HeadOf(t) = Null <=> T[t] = {})
      BY <1>2, CarriedIs
    <2>2. Hand(t) \subseteq Thread /\ HeadOf(t) \in Block
      BY <1>2 DEF OfWaiters, BucketType, Block, Hand, HeadOf
    <2> QED BY <2>1, <2>2 DEF Catch
  <1>5. ASSUME NEW t \in Thread
        PROVE  /\ \A b \in T[t] : IF Drains(t) THEN ToSet(b) ELSE ToRelease(b)
               /\ \A b \in Hand(t) : IF Drains(t) THEN ToRelease(b) ELSE ToSet(b)
    BY <1>2 DEF Placed, Hand
  <1>6. \A t \in Thread : \A b \in Catch(t) : Listed(b)
    BY <1>4, <1>5 DEF Listed
  <1>7. \A t \in Thread : L \cap Catch(t) = {} /\ T[t] \cap Hand(t) = {}
    BY <1>2, <1>4 DEF Disjoint, Hand
  <1>8. \A t, u \in Thread : t # u => Catch(t) \cap Catch(u) = {}
    BY <1>2, <1>4 DEF Disjoint, Hand
  <1>9. \A b \in L : OnQueue(b) /\ ~Caught(b)
    BY <1>2, <1>7 DEF Placed, Caught
  <1> QED BY <1>2, <1>3, <1>4, <1>5, <1>6, <1>7, <1>8, <1>9 DEF PlacesInv

LEMMA WhereaboutsNext == WaitInv' => PlacesInv'
  BY Whereabouts, PTL

\* A step that wakes those in X, or puts them on the list, and loses no one else.
LEMMA CoversStep ==
  ASSUME WaitInv, WaitInv', Covers, NEW X,
         \A b \in Waits!List : b \in X \/ b \in Waits!List' \/ Caught(b)',
         \A t \in Thread : \A b \in Catch(t) : b \in X \/ Caught(b)',
         \A b \in Thread : b \notin X => (Listed(b)' => Listed(b)) /\ (Left(b)' => Left(b) \/ bucket'.wakeAll \/ b \notin Waits!List'),
         \A b \in X : Listed(b)' => b \in Waits!List' /\ ~Left(b)',
         bucket.wakeAll => bucket'.wakeAll \/ Waits!List' = {}
  PROVE  Covers'
  <1>1. ASSUME NEW b \in Thread, Listed(b)'
        PROVE  b \in Waits!List' \/ Caught(b)'
    <2>1. CASE b \in X
      BY <1>1, <2>1
    <2>2. CASE b \notin X
      <3>1. b \in Waits!List \/ \E t \in Thread : b \in Catch(t)
        BY <1>1, <2>2 DEF Covers, Caught
      <3> QED BY <2>2, <3>1
    <2> QED BY <2>1, <2>2
  <1>2. ASSUME NEW b \in Waits!List', Left(b)'
        PROVE  bucket'.wakeAll
    <2>1. b \in Thread /\ OnQueue(b)' /\ ~Caught(b)'
      BY <1>2, WhereaboutsNext DEF PlacesInv
    <2>2. CASE b \in X
      BY <1>2, <2>1, <2>2 DEF Listed
    <2>3. CASE b \notin X
      <3>1. SUFFICES ASSUME ~bucket'.wakeAll
                     PROVE  FALSE
        OBVIOUS
      <3>2. Left(b) /\ Listed(b)
        BY <1>2, <2>1, <2>3, <3>1 DEF Listed
      <3>3. b \in Waits!List
        BY <2>1, <2>3, <3>2 DEF Covers, Caught
      <3> QED BY <1>2, <3>1, <3>2, <3>3 DEF Covers
    <2> QED BY <2>2, <2>3
  <1> QED BY <1>1, <1>2 DEF Covers

\* A chain none of whose links changes.
LEMMA CatchSame ==
  ASSUME WaitInv, WaitInv', NEW t \in Thread, HeadOf(t)' = HeadOf(t), inHand'[t] = inHand[t],
         \A x \in Catch(t) : waitBack'[x] = waitBack[x]
  PROVE  Catch(t)' = Catch(t)
  <1>1. WaitLinks /\ WaitLinks' /\ HeadOf(t) \in Block
    BY Whereabouts, WhereaboutsNext DEF PlacesInv
  <1>2. PICK link, new, h : link = waitBack /\ new = waitBack' /\ h = HeadOf(t)
    OBVIOUS
  <1>3. link \in [Thread -> Block] /\ new \in [Thread -> Block] /\ h \in Block
    BY <1>1, <1>2 DEF WaitLinks
  <1>4. \A y \in Follow(link, h) : new[y] = link[y]
    BY <1>2, WaitFollow DEF Catch
  <1>5. Follow(new, h) = Follow(link, h)
    BY <1>3, <1>4, FollowSame
  <1>6. Waits!Behind(HeadOf(t))' = Waits!Behind(HeadOf(t))
    BY <1>2, <1>5 DEF Waits!Behind, Waits!Follow, Follow
  <1> QED BY <1>6 DEF Catch, Hand

LEMMA ListSame ==
  ASSUME WaitInv, WaitInv', bucket'.block = bucket.block, \A x \in Waits!List : waitBack'[x] = waitBack[x]
  PROVE  Waits!List' = Waits!List
  <1>1. WaitLinks /\ WaitLinks' /\ bucket.block \in Block
    BY Whereabouts, WhereaboutsNext DEF PlacesInv, OfWaiters, BucketType, Buckets
  <1>2. PICK link, new, h : link = waitBack /\ new = waitBack' /\ h = bucket.block
    OBVIOUS
  <1>3. link \in [Thread -> Block] /\ new \in [Thread -> Block] /\ h \in Block
    BY <1>1, <1>2 DEF WaitLinks
  <1>4. \A y \in Follow(link, h) : new[y] = link[y]
    BY <1>2, WaitFollow DEF Waits!List
  <1>5. Follow(new, h) = Follow(link, h)
    BY <1>3, <1>4, FollowSame
  <1> QED BY <1>2, <1>5 DEF Waits!List, Waits!Behind, Waits!Follow, Follow

\* A step that leaves the chains as they are.
LEMMA CoversQuiet ==
  ASSUME WaitInv, WaitInv', Covers, NEW t \in Thread, Alone(t), FlagsBut(t), bucket'.block = bucket.block,
         Untouched(t), HeadOf(t)' = HeadOf(t), inHand'[t] = inHand[t],
         Listed(t)' => Listed(t), Left(t)' => Left(t) \/ bucket'.wakeAll \/ t \notin Waits!List',
         bucket.wakeAll => bucket'.wakeAll
  PROVE  Covers'
  <1>1. \A b \in Waits!List : waitBack'[b] = waitBack[b]
    BY Whereabouts DEF PlacesInv, Untouched, Listed
  <1>2. Waits!List' = Waits!List
    BY <1>1, ListSame
  <1>3. ASSUME NEW u \in Thread
        PROVE  Catch(u)' = Catch(u)
    <2>1. HeadOf(u)' = HeadOf(u) /\ inHand'[u] = inHand[u]
      BY OthersPlaced DEF Alone
    <2>2. \A x \in Catch(u) : waitBack'[x] = waitBack[x]
      BY Whereabouts DEF PlacesInv, Untouched
    <2> QED BY <2>1, <2>2, CatchSame
  <1>4. \A b \in Thread : Caught(b) <=> Caught(b)'
    BY <1>3 DEF Caught
  <1>5. ASSUME NEW b \in Thread
        PROVE  (Listed(b)' => Listed(b)) /\ (Left(b)' => Left(b) \/ bucket'.wakeAll \/ b \notin Waits!List')
    <2>1. CASE b = t
      BY <2>1
    <2>2. CASE b # t
      BY <2>2, OthersPlaced DEF Listed, Left, Alone, FlagsBut
    <2> QED BY <2>1, <2>2
  <1>6. \A u \in Thread : \A b \in Catch(u) : Caught(b)'
    BY <1>3 DEF Caught
  <1>7. PICK X : X = {}
    OBVIOUS
  <1> QED BY <1>2, <1>5, <1>6, <1>7, CoversStep

-----------------------------------------------------------------------------
(* Steps of WaitOnAddress that leave the chains as they are.               *)

LEMMA LeftQuiet ==
  ASSUME WaitInv, WaitInv', WaitLeft, NEW t \in Thread, Alone(t), FlagsBut(t), bucket'.block = bucket.block,
         Untouched(t), HeadOf(t)' = HeadOf(t), inHand'[t] = inHand[t],
         Listed(t)' => Listed(t), Left(t)' => Left(t) \/ bucket'.wakeAll \/ t \notin Waits!List',
         bucket.wakeAll => bucket'.wakeAll, bucket'.wakeAll => bucket'.locked, MoreAt(t)',
         changed' \in [Thread -> BOOLEAN],
         \A u \in Thread : u # t /\ waitPc[u] \in {"spin", "kernel"} => changed'[u] = changed[u]
  PROVE  WaitLeft'
  <1>1. Covers'
    BY CoversQuiet DEF WaitLeft
  <1>2. ASSUME NEW u \in Thread, u # t
        PROVE  MoreAt(u)'
    <2>1. MoreAt(u)
      BY DEF WaitLeft
    <2> QED BY <1>2, <2>1 DEF MoreAt, Alone, FlagsBut
  <1> QED BY <1>1, <1>2 DEF WaitLeft

\* t goes on, and its block stays as it is.
LEMMA LeftStays ==
  ASSUME WaitInv, WaitInv', WaitLeft, NEW t \in Thread, Alone(t), FlagsBut(t), bucket'.block = bucket.block,
         UNCHANGED <<waitBack, waitNotify, waitNext>>,
         inHand'[t] = inHand[t], LastWake'[t] = LastWake[t], ~Drains(t)',
         ~Drains(t) \/ (pItem[t] = Null /\ LastWake[t] = Null /\ inHand[t] = Null),
         Listed(t)' => Listed(t), Left(t)' => Left(t) \/ bucket'.wakeAll \/ t \notin Waits!List',
         bucket.wakeAll => bucket'.wakeAll, bucket'.wakeAll => bucket'.locked, MoreAt(t)',
         changed' \in [Thread -> BOOLEAN],
         \A u \in Thread : u # t /\ waitPc[u] \in {"spin", "kernel"} => changed'[u] = changed[u]
  PROVE  WaitLeft'
  <1>1. HeadOf(t)' = HeadOf(t)
    BY DEF HeadOf, Drains
  <1>2. Untouched(t)
    BY DEF Untouched
  <1> QED BY <1>1, <1>2, LeftQuiet

\* t returns, with its block nowhere.
LEMMA LeftReturns ==
  ASSUME WaitInv, WaitInv', WaitLeft, NEW t \in Thread, Alone(t), FlagsBut(t), bucket'.block = bucket.block,
         NEW item, Gets(t, "idle", Waits!NoCall, Waits!Spinning, inHand[t], LastWake[t], item),
         Waits!Reset(t), changed' = [changed EXCEPT ![t] = FALSE], ~Listed(t), Drains(t) => pItem[t] = Null,
         bucket.wakeAll => bucket'.wakeAll, bucket'.wakeAll => bucket'.locked
  PROVE  WaitLeft'
  <1>1. Fits("idle", Waits!NoCall, Waits!Spinning, inHand[t], LastWake[t], item)
    BY DEF WaitInv, OfWaiters, WaiterInv, WaiterAt, Gets
  <1>2. inHand[t] = Null /\ LastWake[t] = Null
    BY <1>1 DEF Fits
  <1>3. Untouched(t)
    BY Whereabouts DEF PlacesInv, WaitLinks, Waits!Reset, Untouched
  <1>4. HeadOf(t)' = HeadOf(t) /\ inHand'[t] = inHand[t]
    BY <1>2 DEF HeadOf, Drains, Gets
  <1>5. ~Listed(t)' /\ ~Left(t)' /\ MoreAt(t)'
    BY CallIs DEF Listed, OnQueue, ToSet, ToRelease, Drains, Left, MoreAt, Gets
  <1>6. changed' \in [Thread -> BOOLEAN] /\ \A u \in Thread : u # t => changed'[u] = changed[u]
    BY DEF WaitLeft
  <1> QED BY <1>3, <1>4, <1>5, <1>6, LeftQuiet

LEMMA LeftBeginWait ==
  ASSUME WaitInv, WaitInv', WaitLeft, NEW t \in Thread, Waits!BeginWait(t)
  PROVE  WaitLeft'
  <1>0. OfWaiters /\ WaitLinks
    BY Whereabouts DEF PlacesInv
  <1>1. waitPc[t] = "idle" /\ WaiterAt(t) /\ waitCall[t] \in WaitCalls /\ MoreAt(t)
    BY <1>0 DEF Waits!BeginWait, OfWaiters, BucketType, WaiterInv, WaitLeft
  <1>2. PICK c : Alone(t) /\ FlagsBut(t) /\ Gets(t, "add", c, flag[t], inHand[t], LastWake[t], pItem[t])
    BY <1>0, BeginWaitDoes
  <1>3. bucket'.block = bucket.block /\ (bucket.wakeAll => bucket'.wakeAll) /\ (bucket'.wakeAll => bucket'.locked)
    <2>1. bucket' = bucket
      BY <1>0, <1>1 DEF Waits!BeginWait, Waits!block
    <2>2. bucket.wakeAll => bucket.locked
      BY DEF WaitLeft
    <2> QED BY <1>0, <2>1, <2>2 DEF OfWaiters, BucketType, Buckets
  <1>4. UNCHANGED <<waitBack, waitNotify, waitNext>>
    BY <1>1 DEF Waits!BeginWait, Waits!block, Waits!links
  <1>5. /\ inHand'[t] = inHand[t] /\ LastWake'[t] = LastWake[t] /\ ~Drains(t)'
        /\ ~Drains(t) \/ (pItem[t] = Null /\ LastWake[t] = Null /\ inHand[t] = Null)
    BY <1>1, <1>2 DEF Drains, WaiterAt, Fits, Gets
  <1>6. Listed(t)' => Listed(t)
    BY <1>1, <1>2, CallKinds DEF Listed, OnQueue, ToSet, ToRelease, Drains, Gets, WaiterAt, Fits, Waits!Spinning,
       Waits!Kernel, Waits!Woken, Waits!TimedOut
  <1>7. Left(t)' => Left(t) \/ bucket'.wakeAll \/ t \notin Waits!List'
    BY <1>1, <1>2, CallKinds, CallIs DEF Left, Gets, WaiterAt, Fits, Waits!Spinning, Waits!Kernel, Waits!Woken,
       Waits!TimedOut
  <1>8. MoreAt(t)'
    <2>1. PICK a \in Address :
            waitCall' = [waitCall EXCEPT ![t] = [kind |-> "wait", address |-> a, timed |-> TRUE, compared |-> FALSE]]
      BY DEF Waits!BeginWait
    <2>2. waitCall'[t].timed
      BY <1>0, <2>1 DEF OfWaiters, BucketType
    <2> QED BY <1>2, <2>2 DEF MoreAt, Gets
  <1>9. changed' = changed /\ changed \in [Thread -> BOOLEAN]
    <2>1. changed' = changed
      BY <1>1 DEF Waits!BeginWait, Waits!ghosts
    <2> QED BY <2>1 DEF WaitLeft
  <1> QED BY <1>2, <1>3, <1>4, <1>5, <1>6, <1>7, <1>8, <1>9, LeftStays

LEMMA LeftBeginWake ==
  ASSUME WaitInv, WaitInv', WaitLeft, NEW t \in Thread, Waits!BeginWake(t)
  PROVE  WaitLeft'
  <1>0. OfWaiters /\ WaitLinks
    BY Whereabouts DEF PlacesInv
  <1>1. waitPc[t] = "idle" /\ WaiterAt(t) /\ waitCall[t] \in WaitCalls /\ MoreAt(t)
    BY <1>0 DEF Waits!BeginWake, OfWaiters, BucketType, WaiterInv, WaitLeft
  <1>2. PICK c : Alone(t) /\ FlagsBut(t) /\ Gets(t, "wake", c, flag[t], inHand[t], LastWake[t], pItem[t])
    BY <1>0, BeginWakeDoes
  <1>3. bucket'.block = bucket.block /\ (bucket.wakeAll => bucket'.wakeAll) /\ (bucket'.wakeAll => bucket'.locked)
    <2>1. bucket' = bucket
      BY <1>0, <1>1 DEF Waits!BeginWake, Waits!block
    <2>2. bucket.wakeAll => bucket.locked
      BY DEF WaitLeft
    <2> QED BY <1>0, <2>1, <2>2 DEF OfWaiters, BucketType, Buckets
  <1>4. UNCHANGED <<waitBack, waitNotify, waitNext>>
    BY <1>1 DEF Waits!BeginWake, Waits!block, Waits!links
  <1>5. /\ inHand'[t] = inHand[t] /\ LastWake'[t] = LastWake[t] /\ ~Drains(t)'
        /\ ~Drains(t) \/ (pItem[t] = Null /\ LastWake[t] = Null /\ inHand[t] = Null)
    BY <1>1, <1>2 DEF Drains, WaiterAt, Fits, Gets
  <1>6. Listed(t)' => Listed(t)
    BY <1>1, <1>2, CallKinds DEF Listed, OnQueue, ToSet, ToRelease, Drains, Gets, WaiterAt, Fits, Waits!Spinning,
       Waits!Kernel, Waits!Woken, Waits!TimedOut
  <1>7. Left(t)' => Left(t) \/ bucket'.wakeAll \/ t \notin Waits!List'
    BY <1>1, <1>2, CallKinds, CallIs DEF Left, Gets, WaiterAt, Fits, Waits!Spinning, Waits!Kernel, Waits!Woken,
       Waits!TimedOut
  <1>8. MoreAt(t)'
    <2>1. PICK a \in Address, all \in BOOLEAN :
            waitCall' = [waitCall EXCEPT ![t] = [kind |-> "wake", address |-> a, all |-> all, bNoRemove |-> FALSE]]
      BY DEF Waits!BeginWake
    <2>2. waitCall'[t].kind = "wake"
      BY <1>0, <2>1 DEF OfWaiters, BucketType
    <2> QED BY <1>2, <2>2 DEF MoreAt, Gets
  <1>9. /\ changed' \in [Thread -> BOOLEAN]
        /\ \A u \in Thread : u # t /\ waitPc[u] \in {"spin", "kernel"} => changed'[u] = changed[u]
    <2>1. changed \in [Thread -> BOOLEAN]
      BY DEF WaitLeft
    <2>2. PICK a \in Address : changed' = [w \in Thread |-> changed[w] \/ (Waits!WaitsAt(w, a) /\ ~waitCall[w].compared)]
      BY DEF Waits!BeginWake
    <2>3. \A u \in Thread : waitPc[u] \in {"spin", "kernel"} => waitCall[u].compared
      BY <1>0 DEF OfWaiters, WaiterInv, WaiterAt, Fits, InSleep
    <2> HIDE DEF Waits!WaitsAt
    <2>4. changed' \in [Thread -> BOOLEAN]
      BY <2>1, <2>2
    <2> QED BY <2>1, <2>2, <2>3, <2>4
  <1> QED BY <1>2, <1>3, <1>4, <1>5, <1>6, <1>7, <1>8, <1>9, LeftStays

LEMMA LeftLook ==
  ASSUME WaitInv, WaitInv', WaitLeft, NEW t \in Thread, Waits!Look(t)
  PROVE  WaitLeft'
  <1>0. OfWaiters /\ WaitLinks
    BY Whereabouts DEF PlacesInv
  <1>1. waitPc[t] = "look" /\ WaiterAt(t) /\ waitCall[t] \in WaitCalls /\ MoreAt(t)
    BY <1>0 DEF Waits!Look, OfWaiters, BucketType, WaiterInv, WaitLeft
  <1>2. Alone(t) /\ FlagsBut(t) /\ Gets(t, "optimize", waitCall[t], flag[t], inHand[t], LastWake[t], pItem[t])
    BY <1>0, LookDoes
  <1>3. bucket'.block = bucket.block /\ (bucket.wakeAll => bucket'.wakeAll) /\ (bucket'.wakeAll => bucket'.locked)
    <2>1. bucket' = bucket
      BY <1>0, <1>1 DEF Waits!Look, Waits!block
    <2>2. bucket.wakeAll => bucket.locked
      BY DEF WaitLeft
    <2> QED BY <1>0, <2>1, <2>2 DEF OfWaiters, BucketType, Buckets
  <1>4. UNCHANGED <<waitBack, waitNotify, waitNext>>
    BY <1>1 DEF Waits!Look, Waits!block, Waits!links
  <1>5. /\ inHand'[t] = inHand[t] /\ LastWake'[t] = LastWake[t] /\ ~Drains(t)'
        /\ ~Drains(t) \/ (pItem[t] = Null /\ LastWake[t] = Null /\ inHand[t] = Null)
    BY <1>1, <1>2 DEF Drains, WaiterAt, Fits, Gets
  <1>6. Listed(t)' => Listed(t)
    BY <1>1, <1>2, CallKinds DEF Listed, OnQueue, ToSet, ToRelease, Drains, Gets, WaiterAt, Fits, Waits!Spinning,
       Waits!Kernel, Waits!Woken, Waits!TimedOut
  <1>7. Left(t)' => Left(t) \/ bucket'.wakeAll \/ t \notin Waits!List'
    BY <1>1, <1>2, CallKinds, CallIs DEF Left, Gets, WaiterAt, Fits, Waits!Spinning, Waits!Kernel, Waits!Woken,
       Waits!TimedOut
  <1>8. MoreAt(t)'
    BY <1>1, <1>2 DEF MoreAt, Gets, WaiterAt, Fits, Waits!Spinning, Waits!Kernel, Waits!Woken, Waits!TimedOut
  <1>9. changed' = changed /\ changed \in [Thread -> BOOLEAN]
    <2>1. changed' = changed
      BY <1>1 DEF Waits!Look, Waits!ghosts
    <2> QED BY <2>1 DEF WaitLeft
  <1> QED BY <1>2, <1>3, <1>4, <1>5, <1>6, <1>7, <1>8, <1>9, LeftStays

LEMMA LeftCompare ==
  ASSUME WaitInv, WaitInv', WaitLeft, NEW t \in Thread, Waits!Compare(t)
  PROVE  WaitLeft'
  <1>0. OfWaiters /\ WaitLinks
    BY Whereabouts DEF PlacesInv
  <1>1. waitPc[t] = "compare" /\ WaiterAt(t) /\ waitCall[t] \in WaitCalls /\ MoreAt(t)
    BY <1>0 DEF Waits!Compare, OfWaiters, BucketType, WaiterInv, WaitLeft
  <1>p. PICK p : p = IF changed[t] THEN "remove" ELSE "spin"
    OBVIOUS
  <1>c. PICK c : c = [waitCall[t] EXCEPT !.compared = TRUE]
    OBVIOUS
  <1>2. Alone(t) /\ FlagsBut(t) /\ Gets(t, p, c, flag[t], inHand[t], LastWake[t], pItem[t])
    BY <1>p, <1>c, <1>0, CompareDoes
  <1>3. bucket'.block = bucket.block /\ (bucket.wakeAll => bucket'.wakeAll) /\ (bucket'.wakeAll => bucket'.locked)
    <2>1. bucket' = bucket
      BY <1>0, <1>1 DEF Waits!Compare, Waits!block
    <2>2. bucket.wakeAll => bucket.locked
      BY DEF WaitLeft
    <2> QED BY <1>0, <2>1, <2>2 DEF OfWaiters, BucketType, Buckets
  <1>4. UNCHANGED <<waitBack, waitNotify, waitNext>>
    BY <1>1 DEF Waits!Compare, Waits!block, Waits!links
  <1>5. /\ inHand'[t] = inHand[t] /\ LastWake'[t] = LastWake[t] /\ ~Drains(t)'
        /\ ~Drains(t) \/ (pItem[t] = Null /\ LastWake[t] = Null /\ inHand[t] = Null)
    BY <1>p, <1>c, <1>1, <1>2 DEF Drains, WaiterAt, Fits, Gets
  <1>6. Listed(t)' => Listed(t)
    BY <1>p, <1>c, <1>1, <1>2, CallKinds DEF Listed, OnQueue, ToSet, ToRelease, Drains, Gets, WaiterAt, Fits,
       Waits!Spinning, Waits!Kernel, Waits!Woken, Waits!TimedOut
  <1>7. Left(t)' => Left(t) \/ bucket'.wakeAll \/ t \notin Waits!List'
    <2>1. waitCall[t] \in Waiting /\ waitCall[t].timed
      BY <1>1, CallIs DEF WaiterAt, Fits, InWait, MoreAt
    <2>2. c.timed
      BY <1>c, <2>1 DEF Waiting
    <2> QED BY <1>p, <1>2, <2>2 DEF Left, Gets
  <1>8. MoreAt(t)'
    <2>1. waitCall[t] \in Waiting
      BY <1>1 DEF WaiterAt, Fits, InWait
    <2>2. c.compared
      BY <1>c, <2>1, CallIs
    <2>3. changed' = changed
      BY DEF Waits!Compare
    <2> QED BY <1>p, <1>2, <2>2, <2>3 DEF MoreAt, Gets
  <1>9. changed' = changed /\ changed \in [Thread -> BOOLEAN]
    <2>1. changed' = changed
      BY <1>1 DEF Waits!Compare, Waits!ghosts
    <2> QED BY <2>1 DEF WaitLeft
  <1> QED BY <1>2, <1>3, <1>4, <1>5, <1>6, <1>7, <1>8, <1>9, LeftStays

LEMMA LeftSpinEnds ==
  ASSUME WaitInv, WaitInv', WaitLeft, NEW t \in Thread, Waits!Spin(t), flag[t] = Waits!Spinning
  PROVE  WaitLeft'
  <1>0. OfWaiters /\ WaitLinks
    BY Whereabouts DEF PlacesInv
  <1>1. waitPc[t] = "spin" /\ WaiterAt(t) /\ waitCall[t] \in WaitCalls /\ MoreAt(t)
    BY <1>0 DEF Waits!Spin, OfWaiters, BucketType, WaiterInv, WaitLeft
  <1>2. Alone(t) /\ FlagsBut(t) /\ Gets(t, "kernel", waitCall[t], Waits!Kernel, inHand[t], LastWake[t], pItem[t])
    BY <1>0, SpinEndsDoes
  <1>3. bucket'.block = bucket.block /\ (bucket.wakeAll => bucket'.wakeAll) /\ (bucket'.wakeAll => bucket'.locked)
    <2>1. bucket' = bucket
      BY <1>0, <1>1 DEF Waits!Spin, Waits!block
    <2>2. bucket.wakeAll => bucket.locked
      BY DEF WaitLeft
    <2> QED BY <1>0, <2>1, <2>2 DEF OfWaiters, BucketType, Buckets
  <1>4. UNCHANGED <<waitBack, waitNotify, waitNext>>
    BY <1>1 DEF Waits!Spin, Waits!block, Waits!links
  <1>5. /\ inHand'[t] = inHand[t] /\ LastWake'[t] = LastWake[t] /\ ~Drains(t)'
        /\ ~Drains(t) \/ (pItem[t] = Null /\ LastWake[t] = Null /\ inHand[t] = Null)
    BY <1>1, <1>2 DEF Drains, WaiterAt, Fits, Gets
  <1>6. Listed(t)' => Listed(t)
    BY <1>1, <1>2, CallKinds DEF Listed, OnQueue, ToSet, ToRelease, Drains, Gets, WaiterAt, Fits, Waits!Spinning,
       Waits!Kernel, Waits!Woken, Waits!TimedOut
  <1>7. Left(t)' => Left(t) \/ bucket'.wakeAll \/ t \notin Waits!List'
    BY <1>1, <1>2, CallKinds, CallIs DEF Left, Gets, WaiterAt, Fits, Waits!Spinning, Waits!Kernel, Waits!Woken,
       Waits!TimedOut
  <1>8. MoreAt(t)'
    <2>1. changed' = changed
      BY <1>1 DEF Waits!Spin, Waits!ghosts
    <2> QED BY <1>1, <1>2, <2>1 DEF MoreAt, Gets
  <1>9. changed' = changed /\ changed \in [Thread -> BOOLEAN]
    <2>1. changed' = changed
      BY <1>1 DEF Waits!Spin, Waits!ghosts
    <2> QED BY <2>1 DEF WaitLeft
  <1> QED BY <1>2, <1>3, <1>4, <1>5, <1>6, <1>7, <1>8, <1>9, LeftStays

LEMMA LeftTimesOut ==
  ASSUME WaitInv, WaitInv', WaitLeft, NEW t \in Thread, Waits!TimeOut(t)
  PROVE  WaitLeft'
  <1>0. OfWaiters /\ WaitLinks
    BY Whereabouts DEF PlacesInv
  <1>1. waitPc[t] = "kernel" /\ WaiterAt(t) /\ waitCall[t] \in WaitCalls /\ MoreAt(t)
    BY <1>0 DEF Waits!TimeOut, OfWaiters, BucketType, WaiterInv, WaitLeft
  <1>p. PICK p : p = IF flag[t] = Waits!Woken THEN "kernelAgain" ELSE "remove"
    OBVIOUS
  <1>2. Alone(t) /\ FlagsBut(t) /\ Gets(t, p, waitCall[t], Waits!TimedOut, inHand[t], LastWake[t], pItem[t])
    BY <1>p, <1>0, TimeOutDoes
  <1>3. bucket'.block = bucket.block /\ (bucket.wakeAll => bucket'.wakeAll) /\ (bucket'.wakeAll => bucket'.locked)
    <2>1. bucket' = bucket
      BY <1>0, <1>1 DEF Waits!TimeOut, Waits!block
    <2>2. bucket.wakeAll => bucket.locked
      BY DEF WaitLeft
    <2> QED BY <1>0, <2>1, <2>2 DEF OfWaiters, BucketType, Buckets
  <1>4. UNCHANGED <<waitBack, waitNotify, waitNext>>
    BY <1>1 DEF Waits!TimeOut, Waits!block, Waits!links
  <1>5. /\ inHand'[t] = inHand[t] /\ LastWake'[t] = LastWake[t] /\ ~Drains(t)'
        /\ ~Drains(t) \/ (pItem[t] = Null /\ LastWake[t] = Null /\ inHand[t] = Null)
    BY <1>p, <1>1, <1>2 DEF Drains, WaiterAt, Fits, Gets
  <1>6. Listed(t)' => Listed(t)
    BY <1>p, <1>1, <1>2, CallKinds DEF Listed, OnQueue, ToSet, ToRelease, Drains, Gets, WaiterAt, Fits,
       Waits!Spinning, Waits!Kernel, Waits!Woken, Waits!TimedOut
  <1>7. Left(t)' => Left(t) \/ bucket'.wakeAll \/ t \notin Waits!List'
    BY <1>p, <1>1, <1>2, CallKinds, CallIs DEF Left, Gets, WaiterAt, Fits, Waits!Spinning, Waits!Kernel,
       Waits!Woken, Waits!TimedOut
  <1>8. MoreAt(t)'
    BY <1>p, <1>1, <1>2 DEF MoreAt, Gets, WaiterAt, Fits, Waits!Spinning, Waits!Kernel, Waits!Woken, Waits!TimedOut
  <1>9. changed' = changed /\ changed \in [Thread -> BOOLEAN]
    <2>1. changed' = changed
      BY <1>1 DEF Waits!TimeOut, Waits!ghosts
    <2> QED BY <2>1 DEF WaitLeft
  <1> QED BY <1>2, <1>3, <1>4, <1>5, <1>6, <1>7, <1>8, <1>9, LeftStays

LEMMA LeftNotFound ==
  ASSUME WaitInv, WaitInv', WaitLeft, NEW t \in Thread, Waits!NotFound(t)
  PROVE  WaitLeft'
  <1>0. OfWaiters /\ WaitLinks
    BY Whereabouts DEF PlacesInv
  <1>1. waitPc[t] = "notFound" /\ WaiterAt(t) /\ waitCall[t] \in WaitCalls /\ MoreAt(t)
    BY <1>0 DEF Waits!NotFound, OfWaiters, BucketType, WaiterInv, WaitLeft
  <1>p. PICK p : p = IF flag[t] = Waits!Woken THEN "unlock" ELSE "kernelLocked"
    OBVIOUS
  <1>2. Alone(t) /\ FlagsBut(t) /\ Gets(t, p, waitCall[t], Waits!Kernel, inHand[t], LastWake[t], pItem[t])
    BY <1>p, <1>0, NotFoundDoes
  <1>3. bucket'.block = bucket.block /\ (bucket.wakeAll => bucket'.wakeAll) /\ (bucket'.wakeAll => bucket'.locked)
    <2>1. bucket' = bucket
      BY <1>0, <1>1 DEF Waits!NotFound, Waits!block
    <2>2. bucket.wakeAll => bucket.locked
      BY DEF WaitLeft
    <2> QED BY <1>0, <2>1, <2>2 DEF OfWaiters, BucketType, Buckets
  <1>4. UNCHANGED <<waitBack, waitNotify, waitNext>>
    BY <1>1 DEF Waits!NotFound, Waits!block, Waits!links
  <1>5. /\ inHand'[t] = inHand[t] /\ LastWake'[t] = LastWake[t] /\ ~Drains(t)'
        /\ ~Drains(t) \/ (pItem[t] = Null /\ LastWake[t] = Null /\ inHand[t] = Null)
    BY <1>p, <1>1, <1>2 DEF Drains, WaiterAt, Fits, Gets
  <1>6. Listed(t)' => Listed(t)
    BY <1>p, <1>1, <1>2, CallKinds DEF Listed, OnQueue, ToSet, ToRelease, Drains, Gets, WaiterAt, Fits,
       Waits!Spinning, Waits!Kernel, Waits!Woken, Waits!TimedOut
  <1>7. Left(t)' => Left(t) \/ bucket'.wakeAll \/ t \notin Waits!List'
    BY <1>p, <1>1, <1>2, CallKinds, CallIs DEF Left, Gets, WaiterAt, Fits, Waits!Spinning, Waits!Kernel,
       Waits!Woken, Waits!TimedOut
  <1>8. MoreAt(t)'
    BY <1>p, <1>1, <1>2 DEF MoreAt, Gets, WaiterAt, Fits, Waits!Spinning, Waits!Kernel, Waits!Woken, Waits!TimedOut
  <1>9. changed' = changed /\ changed \in [Thread -> BOOLEAN]
    <2>1. changed' = changed
      BY <1>1 DEF Waits!NotFound, Waits!ghosts
    <2> QED BY <2>1 DEF WaitLeft
  <1> QED BY <1>2, <1>3, <1>4, <1>5, <1>6, <1>7, <1>8, <1>9, LeftStays

LEMMA LeftRejoinSpins ==
  ASSUME WaitInv, WaitInv', WaitLeft, NEW t \in Thread, Waits!Rejoin(t), flag[t] # Waits!Woken
  PROVE  WaitLeft'
  <1>0. OfWaiters /\ WaitLinks
    BY Whereabouts DEF PlacesInv
  <1>1. waitPc[t] = "rejoin" /\ WaiterAt(t) /\ waitCall[t] \in WaitCalls /\ MoreAt(t)
    BY <1>0 DEF Waits!Rejoin, OfWaiters, BucketType, WaiterInv, WaitLeft
  <1>c. PICK c : c = [waitCall[t] EXCEPT !.timed = FALSE]
    OBVIOUS
  <1>2. Alone(t) /\ FlagsBut(t) /\ Gets(t, "spin", c, Waits!Spinning, inHand[t], LastWake[t], pItem[t])
    BY <1>c, <1>0, RejoinSpinsDoes
  <1>3. bucket'.block = bucket.block /\ (bucket.wakeAll => bucket'.wakeAll) /\ (bucket'.wakeAll => bucket'.locked)
    <2>1. bucket' = bucket
      BY <1>0, <1>1 DEF Waits!Rejoin, Waits!block
    <2>2. bucket.wakeAll => bucket.locked
      BY DEF WaitLeft
    <2> QED BY <1>0, <2>1, <2>2 DEF OfWaiters, BucketType, Buckets
  <1>4. UNCHANGED <<waitBack, waitNotify, waitNext>>
    BY <1>1 DEF Waits!Rejoin, Waits!block, Waits!links
  <1>5. /\ inHand'[t] = inHand[t] /\ LastWake'[t] = LastWake[t] /\ ~Drains(t)'
        /\ ~Drains(t) \/ (pItem[t] = Null /\ LastWake[t] = Null /\ inHand[t] = Null)
    BY <1>c, <1>1, <1>2 DEF Drains, WaiterAt, Fits, Gets
  <1>6. Listed(t)' => Listed(t)
    BY <1>c, <1>1, <1>2, CallKinds DEF Listed, OnQueue, ToSet, ToRelease, Drains, Gets, WaiterAt, Fits,
       Waits!Spinning, Waits!Kernel, Waits!Woken, Waits!TimedOut
  <1>7. Left(t)' => Left(t) \/ bucket'.wakeAll \/ t \notin Waits!List'
    BY <1>c, <1>1, <1>2, CallKinds, CallIs DEF Left, Gets, WaiterAt, Fits, Waits!Spinning, Waits!Kernel,
       Waits!Woken, Waits!TimedOut
  <1>8. MoreAt(t)'
    <2>1. ~c.timed
      BY <1>c, <1>1, CallIs DEF WaiterAt, Fits, InWait, Waiting
    <2>2. c.compared
      BY <1>c, <1>1, CallIs DEF WaiterAt, Fits, InWait, InSleep
    <2> QED BY <1>2, <2>1, <2>2 DEF MoreAt, Gets
  <1>9. changed' = changed /\ changed \in [Thread -> BOOLEAN]
    <2>1. changed' = changed
      BY <1>1 DEF Waits!Rejoin, Waits!ghosts
    <2> QED BY <2>1 DEF WaitLeft
  <1> QED BY <1>2, <1>3, <1>4, <1>5, <1>6, <1>7, <1>8, <1>9, LeftStays

LEMMA LeftScanned ==
  ASSUME WaitInv, WaitInv', WaitLeft, NEW t \in Thread, Waits!Scanned(t)
  PROVE  WaitLeft'
  <1>0. OfWaiters /\ WaitLinks
    BY Whereabouts DEF PlacesInv
  <1>1. waitPc[t] = "scan" /\ WaiterAt(t) /\ waitCall[t] \in WaitCalls /\ MoreAt(t)
    BY <1>0 DEF Waits!Scanned, OfWaiters, BucketType, WaiterInv, WaitLeft
  <1>2. Alone(t) /\ FlagsBut(t) /\ Gets(t, "releaseAll", waitCall[t], flag[t], inHand[t], LastWake[t], pItem[t])
    BY <1>0, ScannedDoes
  <1>3. bucket'.block = bucket.block /\ (bucket.wakeAll => bucket'.wakeAll) /\ (bucket'.wakeAll => bucket'.locked)
    <2>1. bucket' = bucket
      BY <1>0, <1>1 DEF Waits!Scanned, Waits!block
    <2>2. bucket.wakeAll => bucket.locked
      BY DEF WaitLeft
    <2> QED BY <1>0, <2>1, <2>2 DEF OfWaiters, BucketType, Buckets
  <1>4. UNCHANGED <<waitBack, waitNotify, waitNext>>
    BY <1>1 DEF Waits!Scanned, Waits!block, Waits!links
  <1>5. /\ inHand'[t] = inHand[t] /\ LastWake'[t] = LastWake[t] /\ ~Drains(t)'
        /\ ~Drains(t) \/ (pItem[t] = Null /\ LastWake[t] = Null /\ inHand[t] = Null)
    BY <1>1, <1>2 DEF Drains, WaiterAt, Fits, Gets
  <1>6. Listed(t)' => Listed(t)
    BY <1>1, <1>2, CallKinds DEF Listed, OnQueue, ToSet, ToRelease, Drains, Gets, WaiterAt, Fits, Waits!Spinning,
       Waits!Kernel, Waits!Woken, Waits!TimedOut
  <1>7. Left(t)' => Left(t) \/ bucket'.wakeAll \/ t \notin Waits!List'
    BY <1>1, <1>2, CallKinds, CallIs DEF Left, Gets, WaiterAt, Fits, Waits!Spinning, Waits!Kernel, Waits!Woken,
       Waits!TimedOut
  <1>8. MoreAt(t)'
    BY <1>1, <1>2 DEF MoreAt, Gets, WaiterAt, Fits, Waits!Spinning, Waits!Kernel, Waits!Woken, Waits!TimedOut
  <1>9. changed' = changed /\ changed \in [Thread -> BOOLEAN]
    <2>1. changed' = changed
      BY <1>1 DEF Waits!Scanned, Waits!ghosts
    <2> QED BY <2>1 DEF WaitLeft
  <1> QED BY <1>2, <1>3, <1>4, <1>5, <1>6, <1>7, <1>8, <1>9, LeftStays

LEMMA LeftRemoveAsks ==
  ASSUME WaitInv, WaitInv', WaitLeft, NEW t \in Thread, Waits!RemoveWaitBlock(t), bucket.block = Null \/ bucket.locked
  PROVE  WaitLeft'
  <1>0. OfWaiters /\ WaitLinks
    BY Whereabouts DEF PlacesInv
  <1>1. waitPc[t] = "remove" /\ WaiterAt(t) /\ waitCall[t] \in WaitCalls /\ MoreAt(t)
    BY <1>0 DEF Waits!RemoveWaitBlock, OfWaiters, BucketType, WaiterInv, WaitLeft
  <1>2. Alone(t) /\ FlagsBut(t) /\ Gets(t, "rejoin", waitCall[t], flag[t], inHand[t], LastWake[t], pItem[t])
    BY <1>0, RemoveAsksDoes
  <1>3. bucket'.block = bucket.block /\ (bucket.wakeAll => bucket'.wakeAll) /\ (bucket'.wakeAll => bucket'.locked)
    <2>1. bucket' = [bucket EXCEPT !.wakeAll = bucket.locked]
      BY <1>0, <1>1 DEF Waits!RemoveWaitBlock, Waits!block
    <2>2. bucket.wakeAll => bucket.locked
      BY DEF WaitLeft
    <2> QED BY <1>0, <2>1, <2>2 DEF OfWaiters, BucketType, Buckets
  <1>4. UNCHANGED <<waitBack, waitNotify, waitNext>>
    BY <1>1 DEF Waits!RemoveWaitBlock, Waits!block, Waits!links
  <1>5. /\ inHand'[t] = inHand[t] /\ LastWake'[t] = LastWake[t] /\ ~Drains(t)'
        /\ ~Drains(t) \/ (pItem[t] = Null /\ LastWake[t] = Null /\ inHand[t] = Null)
    BY <1>1, <1>2 DEF Drains, WaiterAt, Fits, Gets
  <1>6. Listed(t)' => Listed(t)
    BY <1>1, <1>2, CallKinds DEF Listed, OnQueue, ToSet, ToRelease, Drains, Gets, WaiterAt, Fits, Waits!Spinning,
       Waits!Kernel, Waits!Woken, Waits!TimedOut
  <1>7. Left(t)' => Left(t) \/ bucket'.wakeAll \/ t \notin Waits!List'
    <2>1. CASE bucket.locked
      <3>1. bucket' = [bucket EXCEPT !.wakeAll = bucket.locked]
        BY DEF Waits!RemoveWaitBlock
      <3> QED BY <1>0, <2>1, <3>1 DEF OfWaiters, BucketType, Buckets
    <2>2. CASE ~bucket.locked
      <3>1. bucket'.block = Null
        BY <1>3, <2>2
      <3>2. Waits!List' = {}
        BY <3>1, WhereaboutsNext DEF PlacesInv
      <3> QED BY <3>2
    <2> QED BY <2>1, <2>2
  <1>8. MoreAt(t)'
    BY <1>1, <1>2 DEF MoreAt, Gets, WaiterAt, Fits, Waits!Spinning, Waits!Kernel, Waits!Woken, Waits!TimedOut
  <1>9. changed' = changed /\ changed \in [Thread -> BOOLEAN]
    <2>1. changed' = changed
      BY <1>1 DEF Waits!RemoveWaitBlock, Waits!ghosts
    <2> QED BY <2>1 DEF WaitLeft
  <1> QED BY <1>2, <1>3, <1>4, <1>5, <1>6, <1>7, <1>8, <1>9, LeftStays

LEMMA LeftRemoveFinds ==
  ASSUME WaitInv, WaitInv', WaitLeft, NEW t \in Thread, Waits!RemoveWaitBlock(t), ~(bucket.block = Null \/ bucket.locked), bucket.block = t
  PROVE  WaitLeft'
  <1>0. OfWaiters /\ WaitLinks
    BY Whereabouts DEF PlacesInv
  <1>1. waitPc[t] = "remove" /\ WaiterAt(t) /\ waitCall[t] \in WaitCalls /\ MoreAt(t)
    BY <1>0 DEF Waits!RemoveWaitBlock, OfWaiters, BucketType, WaiterInv, WaitLeft
  <1>2. Alone(t) /\ FlagsBut(t) /\ Gets(t, "removeFirst", waitCall[t], flag[t], inHand[t], LastWake[t], pItem[t])
    BY <1>0, RemoveFindsDoes
  <1>3. bucket'.block = bucket.block /\ (bucket.wakeAll => bucket'.wakeAll) /\ (bucket'.wakeAll => bucket'.locked)
    <2>1. bucket' = [bucket EXCEPT !.locked = TRUE]
      BY <1>0, <1>1 DEF Waits!RemoveWaitBlock, Waits!block
    <2>2. bucket.wakeAll => bucket.locked
      BY DEF WaitLeft
    <2> QED BY <1>0, <2>1, <2>2 DEF OfWaiters, BucketType, Buckets
  <1>4. UNCHANGED <<waitBack, waitNotify, waitNext>>
    BY <1>1 DEF Waits!RemoveWaitBlock, Waits!block, Waits!links
  <1>5. /\ inHand'[t] = inHand[t] /\ LastWake'[t] = LastWake[t] /\ ~Drains(t)'
        /\ ~Drains(t) \/ (pItem[t] = Null /\ LastWake[t] = Null /\ inHand[t] = Null)
    BY <1>1, <1>2 DEF Drains, WaiterAt, Fits, Gets
  <1>6. Listed(t)' => Listed(t)
    BY <1>1, <1>2, CallKinds DEF Listed, OnQueue, ToSet, ToRelease, Drains, Gets, WaiterAt, Fits, Waits!Spinning,
       Waits!Kernel, Waits!Woken, Waits!TimedOut
  <1>7. Left(t)' => Left(t) \/ bucket'.wakeAll \/ t \notin Waits!List'
    BY <1>1, <1>2, CallKinds, CallIs DEF Left, Gets, WaiterAt, Fits, Waits!Spinning, Waits!Kernel, Waits!Woken,
       Waits!TimedOut
  <1>8. MoreAt(t)'
    BY <1>1, <1>2 DEF MoreAt, Gets, WaiterAt, Fits, Waits!Spinning, Waits!Kernel, Waits!Woken, Waits!TimedOut
  <1>9. changed' = changed /\ changed \in [Thread -> BOOLEAN]
    <2>1. changed' = changed
      BY <1>1 DEF Waits!RemoveWaitBlock, Waits!ghosts
    <2> QED BY <2>1 DEF WaitLeft
  <1> QED BY <1>2, <1>3, <1>4, <1>5, <1>6, <1>7, <1>8, <1>9, LeftStays

LEMMA LeftRemoveNewestAgain ==
  ASSUME WaitInv, WaitInv', WaitLeft, NEW t \in Thread, Waits!RemoveNewest(t), bucket # waitCurrent, bucket.block = t
  PROVE  WaitLeft'
  <1>0. OfWaiters /\ WaitLinks
    BY Whereabouts DEF PlacesInv
  <1>1. waitPc[t] = "removeFirst" /\ WaiterAt(t) /\ waitCall[t] \in WaitCalls /\ MoreAt(t)
    BY <1>0 DEF Waits!RemoveNewest, OfWaiters, BucketType, WaiterInv, WaitLeft
  <1>2. Alone(t) /\ FlagsBut(t) /\ Gets(t, "removeFirst", waitCall[t], flag[t], inHand[t], LastWake[t], pItem[t])
    BY <1>0, RemoveNewestAgainDoes
  <1>3. bucket'.block = bucket.block /\ (bucket.wakeAll => bucket'.wakeAll) /\ (bucket'.wakeAll => bucket'.locked)
    <2>1. bucket' = bucket
      BY <1>0, <1>1 DEF Waits!RemoveNewest, Waits!block
    <2>2. bucket.wakeAll => bucket.locked
      BY DEF WaitLeft
    <2> QED BY <1>0, <2>1, <2>2 DEF OfWaiters, BucketType, Buckets
  <1>4. UNCHANGED <<waitBack, waitNotify, waitNext>>
    BY <1>1 DEF Waits!RemoveNewest, Waits!block, Waits!links
  <1>5. /\ inHand'[t] = inHand[t] /\ LastWake'[t] = LastWake[t] /\ ~Drains(t)'
        /\ ~Drains(t) \/ (pItem[t] = Null /\ LastWake[t] = Null /\ inHand[t] = Null)
    BY <1>1, <1>2 DEF Drains, WaiterAt, Fits, Gets
  <1>6. Listed(t)' => Listed(t)
    BY <1>1, <1>2, CallKinds DEF Listed, OnQueue, ToSet, ToRelease, Drains, Gets, WaiterAt, Fits, Waits!Spinning,
       Waits!Kernel, Waits!Woken, Waits!TimedOut
  <1>7. Left(t)' => Left(t) \/ bucket'.wakeAll \/ t \notin Waits!List'
    BY <1>1, <1>2, CallKinds, CallIs DEF Left, Gets, WaiterAt, Fits, Waits!Spinning, Waits!Kernel, Waits!Woken,
       Waits!TimedOut
  <1>8. MoreAt(t)'
    BY <1>1, <1>2 DEF MoreAt, Gets, WaiterAt, Fits, Waits!Spinning, Waits!Kernel, Waits!Woken, Waits!TimedOut
  <1>9. changed' = changed /\ changed \in [Thread -> BOOLEAN]
    <2>1. changed' = changed
      BY <1>1 DEF Waits!RemoveNewest, Waits!ghosts
    <2> QED BY <2>1 DEF WaitLeft
  <1> QED BY <1>2, <1>3, <1>4, <1>5, <1>6, <1>7, <1>8, <1>9, LeftStays

LEMMA LeftWakeListStays ==
  ASSUME WaitInv, WaitInv', WaitLeft, NEW t \in Thread, Waits!WakeNext(t), pItem[t] = Null, waitCall[t].kind = "wait", ~waitCall[t].compared
  PROVE  WaitLeft'
  <1>0. OfWaiters /\ WaitLinks
    BY Whereabouts DEF PlacesInv
  <1>1. waitPc[t] = "wakeList" /\ WaiterAt(t) /\ waitCall[t] \in WaitCalls /\ MoreAt(t)
    BY <1>0 DEF Waits!WakeNext, OfWaiters, BucketType, WaiterInv, WaitLeft
  <1>2. Alone(t) /\ FlagsBut(t) /\ Gets(t, "compare", waitCall[t], flag[t], inHand[t], LastWake[t], pItem[t])
    BY <1>0, WakeListStaysDoes
  <1>3. bucket'.block = bucket.block /\ (bucket.wakeAll => bucket'.wakeAll) /\ (bucket'.wakeAll => bucket'.locked)
    <2>1. bucket' = bucket
      BY <1>0, <1>1 DEF Waits!WakeNext, Waits!block
    <2>2. bucket.wakeAll => bucket.locked
      BY DEF WaitLeft
    <2> QED BY <1>0, <2>1, <2>2 DEF OfWaiters, BucketType, Buckets
  <1>4. UNCHANGED <<waitBack, waitNotify, waitNext>>
    BY <1>1 DEF Waits!WakeNext, Waits!block, Waits!links
  <1>5. /\ inHand'[t] = inHand[t] /\ LastWake'[t] = LastWake[t] /\ ~Drains(t)'
        /\ ~Drains(t) \/ (pItem[t] = Null /\ LastWake[t] = Null /\ inHand[t] = Null)
    BY <1>1, <1>2 DEF Drains, WaiterAt, Fits, Gets
  <1>6. Listed(t)' => Listed(t)
    BY <1>1, <1>2, CallKinds DEF Listed, OnQueue, ToSet, ToRelease, Drains, Gets, WaiterAt, Fits, Waits!Spinning,
       Waits!Kernel, Waits!Woken, Waits!TimedOut
  <1>7. Left(t)' => Left(t) \/ bucket'.wakeAll \/ t \notin Waits!List'
    BY <1>1, <1>2, CallKinds, CallIs DEF Left, Gets, WaiterAt, Fits, Waits!Spinning, Waits!Kernel, Waits!Woken,
       Waits!TimedOut
  <1>8. MoreAt(t)'
    BY <1>1, <1>2 DEF MoreAt, Gets, WaiterAt, Fits, Waits!Spinning, Waits!Kernel, Waits!Woken, Waits!TimedOut
  <1>9. changed' = changed /\ changed \in [Thread -> BOOLEAN]
    <2>1. changed' = changed
      BY <1>1 DEF Waits!WakeNext, Waits!ghosts
    <2> QED BY <2>1 DEF WaitLeft
  <1> QED BY <1>2, <1>3, <1>4, <1>5, <1>6, <1>7, <1>8, <1>9, LeftStays

LEMMA LeftReleaseAllUnlocks ==
  ASSUME WaitInv, WaitInv', WaitLeft, NEW t \in Thread, Waits!ReleaseAll(t), LastWake[t] = Null, ~waitCall[t].bNoRemove
  PROVE  WaitLeft'
  <1>0. OfWaiters /\ WaitLinks
    BY Whereabouts DEF PlacesInv
  <1>1. waitPc[t] = "releaseAll" /\ WaiterAt(t) /\ waitCall[t] \in WaitCalls /\ MoreAt(t)
    BY <1>0 DEF Waits!ReleaseAll, OfWaiters, BucketType, WaiterInv, WaitLeft
  <1>2. Alone(t) /\ FlagsBut(t) /\ Gets(t, "unlock", waitCall[t], flag[t], inHand[t], LastWake[t], Null)
    BY <1>0, ReleaseAllUnlocksDoes
  <1>3. bucket'.block = bucket.block /\ (bucket.wakeAll => bucket'.wakeAll) /\ (bucket'.wakeAll => bucket'.locked)
    <2>1. bucket' = bucket
      BY <1>0, <1>1 DEF Waits!ReleaseAll, Waits!block
    <2>2. bucket.wakeAll => bucket.locked
      BY DEF WaitLeft
    <2> QED BY <1>0, <2>1, <2>2 DEF OfWaiters, BucketType, Buckets
  <1>4. UNCHANGED <<waitBack, waitNotify, waitNext>>
    BY <1>1 DEF Waits!ReleaseAll, Waits!block, Waits!links
  <1>5. /\ inHand'[t] = inHand[t] /\ LastWake'[t] = LastWake[t] /\ ~Drains(t)'
        /\ ~Drains(t) \/ (pItem[t] = Null /\ LastWake[t] = Null /\ inHand[t] = Null)
    BY <1>1, <1>2 DEF Drains, WaiterAt, Fits, Gets
  <1>6. Listed(t)' => Listed(t)
    BY <1>1, <1>2, CallKinds DEF Listed, OnQueue, ToSet, ToRelease, Drains, Gets, WaiterAt, Fits, Waits!Spinning,
       Waits!Kernel, Waits!Woken, Waits!TimedOut
  <1>7. Left(t)' => Left(t) \/ bucket'.wakeAll \/ t \notin Waits!List'
    BY <1>1, <1>2, CallKinds, CallIs DEF Left, Gets, WaiterAt, Fits, Waits!Spinning, Waits!Kernel, Waits!Woken,
       Waits!TimedOut
  <1>8. MoreAt(t)'
    BY <1>1, <1>2 DEF MoreAt, Gets, WaiterAt, Fits, Waits!Spinning, Waits!Kernel, Waits!Woken, Waits!TimedOut
  <1>9. changed' = changed /\ changed \in [Thread -> BOOLEAN]
    <2>1. changed' = changed
      BY <1>1 DEF Waits!ReleaseAll, Waits!ghosts
    <2> QED BY <2>1 DEF WaitLeft
  <1> QED BY <1>2, <1>3, <1>4, <1>5, <1>6, <1>7, <1>8, <1>9, LeftStays

LEMMA LeftSpinReturns ==
  ASSUME WaitInv, WaitInv', WaitLeft, NEW t \in Thread, Waits!Spin(t), flag[t] # Waits!Spinning
  PROVE  WaitLeft'
  <1>0. OfWaiters
    BY Whereabouts DEF PlacesInv
  <1>1. waitPc[t] = "spin" /\ WaiterAt(t) /\ waitCall[t] \in WaitCalls
    BY <1>0 DEF Waits!Spin, OfWaiters, BucketType, WaiterInv
  <1>2. Alone(t) /\ FlagsBut(t) /\ Gets(t, "idle", Waits!NoCall, Waits!Spinning, inHand[t], LastWake[t], pItem[t])
    BY <1>0, SpinReturnsDoes
  <1>3. bucket'.block = bucket.block /\ (bucket.wakeAll => bucket'.wakeAll) /\ (bucket'.wakeAll => bucket'.locked)
    <2>1. bucket' = bucket
      BY <1>0, <1>1 DEF Waits!Spin, Waits!Unlock
    <2>2. bucket.wakeAll => bucket.locked
      BY DEF WaitLeft
    <2> QED BY <1>0, <2>1, <2>2 DEF OfWaiters, BucketType, Buckets
  <1>4. Waits!Reset(t) /\ changed' = [changed EXCEPT ![t] = FALSE]
    BY <1>1 DEF Waits!Spin, Waits!Return, Waits!Unlock
  <1>5. ~Listed(t) /\ (Drains(t) => pItem[t] = Null)
    BY <1>1, CallKinds DEF Listed, OnQueue, ToSet, ToRelease, Drains, WaiterAt, Fits, Waits!Spinning, Waits!Kernel,
       Waits!Woken, Waits!TimedOut
  <1> QED BY <1>2, <1>3, <1>4, <1>5, LeftReturns

LEMMA LeftRejoinReturns ==
  ASSUME WaitInv, WaitInv', WaitLeft, NEW t \in Thread, Waits!Rejoin(t), flag[t] = Waits!Woken
  PROVE  WaitLeft'
  <1>0. OfWaiters
    BY Whereabouts DEF PlacesInv
  <1>1. waitPc[t] = "rejoin" /\ WaiterAt(t) /\ waitCall[t] \in WaitCalls
    BY <1>0 DEF Waits!Rejoin, OfWaiters, BucketType, WaiterInv
  <1>2. Alone(t) /\ FlagsBut(t) /\ Gets(t, "idle", Waits!NoCall, Waits!Spinning, inHand[t], LastWake[t], pItem[t])
    BY <1>0, RejoinReturnsDoes
  <1>3. bucket'.block = bucket.block /\ (bucket.wakeAll => bucket'.wakeAll) /\ (bucket'.wakeAll => bucket'.locked)
    <2>1. bucket' = bucket
      BY <1>0, <1>1 DEF Waits!Rejoin, Waits!Unlock
    <2>2. bucket.wakeAll => bucket.locked
      BY DEF WaitLeft
    <2> QED BY <1>0, <2>1, <2>2 DEF OfWaiters, BucketType, Buckets
  <1>4. Waits!Reset(t) /\ changed' = [changed EXCEPT ![t] = FALSE]
    BY <1>1 DEF Waits!Rejoin, Waits!Return, Waits!Unlock
  <1>5. ~Listed(t) /\ (Drains(t) => pItem[t] = Null)
    BY <1>1, CallKinds DEF Listed, OnQueue, ToSet, ToRelease, Drains, WaiterAt, Fits, Waits!Spinning, Waits!Kernel,
       Waits!Woken, Waits!TimedOut
  <1> QED BY <1>2, <1>3, <1>4, <1>5, LeftReturns

LEMMA LeftWakeLeaves ==
  ASSUME WaitInv, WaitInv', WaitLeft, NEW t \in Thread, Waits!Wake(t), bucket.block = Null \/ bucket.locked
  PROVE  WaitLeft'
  <1>0. OfWaiters
    BY Whereabouts DEF PlacesInv
  <1>1. waitPc[t] = "wake" /\ WaiterAt(t) /\ waitCall[t] \in WaitCalls
    BY <1>0 DEF Waits!Wake, OfWaiters, BucketType, WaiterInv
  <1>2. Alone(t) /\ FlagsBut(t) /\ Gets(t, "idle", Waits!NoCall, Waits!Spinning, inHand[t], LastWake[t], pItem[t])
    BY <1>0, WakeLeavesDoes
  <1>3. bucket'.block = bucket.block /\ (bucket.wakeAll => bucket'.wakeAll) /\ (bucket'.wakeAll => bucket'.locked)
    <2>1. bucket' = [bucket EXCEPT !.wakeAll = bucket.locked]
      BY <1>0, <1>1 DEF Waits!Wake, Waits!Unlock
    <2>2. bucket.wakeAll => bucket.locked
      BY DEF WaitLeft
    <2> QED BY <1>0, <2>1, <2>2 DEF OfWaiters, BucketType, Buckets
  <1>4. Waits!Reset(t) /\ changed' = [changed EXCEPT ![t] = FALSE]
    BY <1>1 DEF Waits!Wake, Waits!Return, Waits!Unlock
  <1>5. ~Listed(t) /\ (Drains(t) => pItem[t] = Null)
    BY <1>1, CallKinds DEF Listed, OnQueue, ToSet, ToRelease, Drains, WaiterAt, Fits, Waits!Spinning, Waits!Kernel,
       Waits!Woken, Waits!TimedOut
  <1> QED BY <1>2, <1>3, <1>4, <1>5, LeftReturns

LEMMA LeftUnlockReturns ==
  ASSUME WaitInv, WaitInv', WaitLeft, NEW t \in Thread, Waits!UnlockList(t), ~bucket.wakeAll
  PROVE  WaitLeft'
  <1>0. OfWaiters
    BY Whereabouts DEF PlacesInv
  <1>1. waitPc[t] = "unlock" /\ WaiterAt(t) /\ waitCall[t] \in WaitCalls
    BY <1>0 DEF Waits!UnlockList, OfWaiters, BucketType, WaiterInv
  <1>2. Alone(t) /\ FlagsBut(t) /\ Gets(t, "idle", Waits!NoCall, Waits!Spinning, inHand[t], LastWake[t], pItem[t])
    BY <1>0, UnlockReturnsDoes
  <1>3. bucket'.block = bucket.block /\ (bucket.wakeAll => bucket'.wakeAll) /\ (bucket'.wakeAll => bucket'.locked)
    <2>1. bucket' = [bucket EXCEPT !.locked = FALSE] /\ ~bucket.wakeAll
      BY <1>0, <1>1 DEF Waits!UnlockList, Waits!Unlock
    <2>2. bucket.wakeAll => bucket.locked
      BY DEF WaitLeft
    <2> QED BY <1>0, <2>1, <2>2 DEF OfWaiters, BucketType, Buckets
  <1>4. Waits!Reset(t) /\ changed' = [changed EXCEPT ![t] = FALSE]
    BY <1>1 DEF Waits!UnlockList, Waits!Return, Waits!Unlock
  <1>5. ~Listed(t) /\ (Drains(t) => pItem[t] = Null)
    BY <1>1, CallKinds DEF Listed, OnQueue, ToSet, ToRelease, Drains, WaiterAt, Fits, Waits!Spinning, Waits!Kernel,
       Waits!Woken, Waits!TimedOut
  <1> QED BY <1>2, <1>3, <1>4, <1>5, LeftReturns

LEMMA LeftWakeListReturns ==
  ASSUME WaitInv, WaitInv', WaitLeft, NEW t \in Thread, Waits!WakeNext(t), pItem[t] = Null, ~(waitCall[t].kind = "wait" /\ ~waitCall[t].compared)
  PROVE  WaitLeft'
  <1>0. OfWaiters
    BY Whereabouts DEF PlacesInv
  <1>1. waitPc[t] = "wakeList" /\ WaiterAt(t) /\ waitCall[t] \in WaitCalls
    BY <1>0 DEF Waits!WakeNext, OfWaiters, BucketType, WaiterInv
  <1>2. Alone(t) /\ FlagsBut(t) /\ Gets(t, "idle", Waits!NoCall, Waits!Spinning, inHand[t], LastWake[t], pItem[t])
    BY <1>0, WakeListReturnsDoes
  <1>3. bucket'.block = bucket.block /\ (bucket.wakeAll => bucket'.wakeAll) /\ (bucket'.wakeAll => bucket'.locked)
    <2>1. bucket' = bucket
      BY <1>0, <1>1 DEF Waits!WakeNext, Waits!Unlock
    <2>2. bucket.wakeAll => bucket.locked
      BY DEF WaitLeft
    <2> QED BY <1>0, <2>1, <2>2 DEF OfWaiters, BucketType, Buckets
  <1>4. Waits!Reset(t) /\ changed' = [changed EXCEPT ![t] = FALSE]
    BY <1>1 DEF Waits!WakeNext, Waits!Return, Waits!Unlock
  <1>5. ~Listed(t) /\ (Drains(t) => pItem[t] = Null)
    BY <1>1, CallKinds DEF Listed, OnQueue, ToSet, ToRelease, Drains, WaiterAt, Fits, Waits!Spinning, Waits!Kernel,
       Waits!Woken, Waits!TimedOut
  <1> QED BY <1>2, <1>3, <1>4, <1>5, LeftReturns

LEMMA LeftReleaseAllReturns ==
  ASSUME WaitInv, WaitInv', WaitLeft, NEW t \in Thread, Waits!ReleaseAll(t), LastWake[t] = Null, waitCall[t].bNoRemove
  PROVE  WaitLeft'
  <1>0. OfWaiters
    BY Whereabouts DEF PlacesInv
  <1>1. waitPc[t] = "releaseAll" /\ WaiterAt(t) /\ waitCall[t] \in WaitCalls
    BY <1>0 DEF Waits!ReleaseAll, OfWaiters, BucketType, WaiterInv
  <1>2. Alone(t) /\ FlagsBut(t) /\ Gets(t, "idle", Waits!NoCall, Waits!Spinning, inHand[t], LastWake[t], Null)
    BY <1>0, ReleaseAllReturnsDoes
  <1>3. bucket'.block = bucket.block /\ (bucket.wakeAll => bucket'.wakeAll) /\ (bucket'.wakeAll => bucket'.locked)
    <2>1. bucket' = bucket
      BY <1>0, <1>1 DEF Waits!ReleaseAll, Waits!Unlock
    <2>2. bucket.wakeAll => bucket.locked
      BY DEF WaitLeft
    <2> QED BY <1>0, <2>1, <2>2 DEF OfWaiters, BucketType, Buckets
  <1>4. Waits!Reset(t) /\ changed' = [changed EXCEPT ![t] = FALSE]
    BY <1>1 DEF Waits!ReleaseAll, Waits!Return, Waits!Unlock
  <1>5. ~Listed(t) /\ (Drains(t) => pItem[t] = Null)
    BY <1>1, CallKinds DEF Listed, OnQueue, ToSet, ToRelease, Drains, WaiterAt, Fits, Waits!Spinning, Waits!Kernel,
       Waits!Woken, Waits!TimedOut
  <1> QED BY <1>2, <1>3, <1>4, <1>5, LeftReturns
-----------------------------------------------------------------------------
(* Steps of WaitOnAddress that change the chains.                          *)

\* The sets of WaitHolds are those the links lead through.
LEMMA HeldIs ==
  ASSUME OfWaiters, NEW L \in SUBSET Thread, NEW T \in [Thread -> SUBSET Thread],
         NEW pos \in [Thread -> Nat], NEW r \in [Thread -> Nat], NEW m, WaitHolds(L, T, pos, r, m)
  PROVE  /\ Waits!List = L
         /\ \A t \in Thread : Waits!Behind(HeadOf(t)) = T[t] /\ Catch(t) = T[t] \cup Hand(t)
  <1>1. WaitLinks /\ Queued(L, pos, m) /\ Carries(T, r)
    BY DEF WaitHolds
  <1>2. Waits!List = L
    BY <1>1, QueueIs
  <1>3. ASSUME NEW t \in Thread
        PROVE  Waits!Behind(HeadOf(t)) = T[t]
    BY <1>1, CarriedIs
  <1> QED BY <1>2, <1>3 DEF Catch

LEMMA ListBecomes ==
  ASSUME WaitLinks', NEW S, NEW pos \in [Thread -> Nat], Ordered(waitBack', S, bucket'.block, pos)
  PROVE  Waits!List' = S
  <1>1. PICK link, h : link = waitBack' /\ h = bucket'.block
    OBVIOUS
  <1>2. link \in [Thread -> Block]
    BY <1>1 DEF WaitLinks
  <1>3. Follow(link, h) = S
    BY <1>1, <1>2, FollowOrdered
  <1> QED BY <1>1, <1>3 DEF Waits!List, Waits!Behind, Waits!Follow, Follow

LEMMA CatchBecomes ==
  ASSUME WaitLinks', NEW t \in Thread, NEW S, NEW r \in [Thread -> Nat], Ordered(waitBack', S, HeadOf(t)', r)
  PROVE  Catch(t)' = S \cup Hand(t)'
  <1>1. PICK link, h : link = waitBack' /\ h = HeadOf(t)'
    OBVIOUS
  <1>2. link \in [Thread -> Block]
    BY <1>1 DEF WaitLinks
  <1>3. Follow(link, h) = S
    BY <1>1, <1>2, FollowOrdered
  <1>4. Waits!Behind(HeadOf(t))' = S
    BY <1>1, <1>3 DEF Waits!Behind, Waits!Follow, Follow
  <1> QED BY <1>4 DEF Catch

\* Of the blocks on the list and with t, those in X are done with, or new on the list.
Keeps(t, X) ==
  /\ \A x \in Waits!List : x \in X \/ x \in Waits!List' \/ x \in Catch(t)'
  /\ \A x \in Catch(t) : x \in X \/ x \in Catch(t)'
  /\ \A u \in Thread : u # t => \A x \in Catch(u) : waitBack'[x] = waitBack[x]
  /\ \A x \in X : Listed(x)' => x \in Waits!List' /\ ~Left(x)'
  /\ t \notin X => (Listed(t)' => Listed(t)) /\ (Left(t)' => Left(t) \/ bucket'.wakeAll \/ t \notin Waits!List')

\* Nobody forgets that everybody is to be woken.
WordKept ==
  /\ bucket.wakeAll => bucket'.wakeAll \/ Waits!List' = {}
  /\ bucket'.wakeAll => bucket'.locked

LEMMA LeftMoves ==
  ASSUME WaitInv, WaitInv', WaitLeft, NEW t \in Thread, NEW b \in Thread, Alone(t), FlagsBut(b),
         b = t \/ (Listed(b) /\ flag'[b] = Waits!Woken), NEW X, Keeps(t, X), WordKept, MoreAt(t)',
         changed' \in [Thread -> BOOLEAN], \A u \in Thread : u # t => changed'[u] = changed[u]
  PROVE  WaitLeft'
  <1>1. ASSUME NEW u \in Thread, NEW x \in Catch(u)
        PROVE  x \in X \/ Caught(x)'
    <2>1. CASE u = t
      BY <1>1, <2>1 DEF Keeps, Caught
    <2>2. CASE u # t
      <3>1. HeadOf(u)' = HeadOf(u) /\ inHand'[u] = inHand[u]
        BY <2>2, OthersHeld
      <3>2. Catch(u)' = Catch(u)
        BY <2>2, <3>1, CatchSame DEF Keeps
      <3> QED BY <1>1, <3>2 DEF Caught
    <2> QED BY <2>1, <2>2
  <1>2. ASSUME NEW x \in Thread, x \notin X
        PROVE  (Listed(x)' => Listed(x)) /\ (Left(x)' => Left(x) \/ bucket'.wakeAll \/ x \notin Waits!List')
    <2>1. CASE x = t
      BY <1>2, <2>1 DEF Keeps
    <2>2. CASE x # t /\ x = b
      BY <2>2 DEF Left
    <2>3. CASE x # t /\ x # b
      BY <2>3, StillPlaced DEF Listed, Left, Alone, FlagsBut
    <2> QED BY <2>1, <2>2, <2>3
  <1>3. \A x \in Waits!List : x \in X \/ x \in Waits!List' \/ Caught(x)'
    BY DEF Keeps, Caught
  <1>4. Covers'
    BY <1>1, <1>2, <1>3, CoversStep DEF Keeps, WordKept, WaitLeft
  <1>5. ASSUME NEW u \in Thread, u # t
        PROVE  MoreAt(u)'
    <2>1. MoreAt(u)
      BY DEF WaitLeft
    <2>2. flag'[u] = flag[u] \/ flag'[u] = Waits!Woken
      BY <1>5 DEF FlagsBut
    <2> QED BY <1>5, <2>1, <2>2 DEF MoreAt, Alone
  <1> QED BY <1>4, <1>5 DEF WaitLeft, WordKept

\* None of the links that lead to older blocks changes.
LEMMA LeftMarks ==
  ASSUME WaitInv, WaitInv', WaitLeft, NEW t \in Thread, Alone(t), FlagsBut(t), waitBack' = waitBack,
         bucket'.block = bucket.block, HeadOf(t)' = HeadOf(t), inHand'[t] = inHand[t],
         Listed(t)' => Listed(t), ~Left(t)', bucket.wakeAll => bucket'.wakeAll, bucket'.wakeAll => bucket'.locked,
         MoreAt(t)', changed' = changed
  PROVE  WaitLeft'
  <1>1. Waits!List' = Waits!List /\ Catch(t)' = Catch(t)
    BY ListSame, CatchSame
  <1>2. PICK X : X = {}
    OBVIOUS
  <1>3. Keeps(t, X) /\ WordKept
    BY <1>1, <1>2 DEF Keeps, WordKept
  <1>4. changed' \in [Thread -> BOOLEAN] /\ \A u \in Thread : changed'[u] = changed[u]
    BY DEF WaitLeft
  <1>5. PICK b : b = t
    OBVIOUS
  <1> QED BY <1>3, <1>4, <1>5, LeftMoves

LEMMA LeftOptimizeStays ==
  ASSUME WaitInv, WaitInv', WaitLeft, NEW t \in Thread, Waits!Optimize(t), bucket # waitCurrent \/ ~bucket.wakeAll
  PROVE  WaitLeft'
  <1>1. waitPc[t] = "optimize" /\ WaiterAt(t) /\ OfWaiters /\ MoreAt(t)
    BY DEF Waits!Optimize, WaitInv, OfWaiters, WaiterInv, WaitLeft
  <1>2. PICK p \in {"compare", "optimize"} :
          /\ Alone(t) /\ FlagsBut(t) /\ Gets(t, p, waitCall[t], flag[t], inHand[t], LastWake[t], pItem[t])
    BY <1>1, OptimizeAgainDoes, OptimizeEndsDoes
  <1>3. waitBack' = waitBack
    BY DEF Waits!Optimize
  <1>4. bucket'.block = bucket.block /\ (bucket.wakeAll => bucket'.wakeAll) /\ (bucket'.wakeAll => bucket'.locked)
    <2>1. bucket.wakeAll => bucket.locked
      BY DEF WaitLeft
    <2>2. CASE bucket # waitCurrent
      BY <2>1, <2>2 DEF Waits!Optimize
    <2>3. CASE bucket = waitCurrent
      <3>1. bucket' = [bucket EXCEPT !.locked = FALSE] /\ ~bucket.wakeAll
        BY <2>3 DEF Waits!Optimize, Waits!Unlock
      <3> QED BY <1>1, <3>1 DEF OfWaiters, BucketType, Buckets
    <2> QED BY <2>2, <2>3
  <1>5. HeadOf(t)' = HeadOf(t) /\ inHand'[t] = inHand[t]
    BY <1>1, <1>2 DEF HeadOf, Drains, Gets
  <1>6. (Listed(t)' => Listed(t)) /\ ~Left(t)'
    BY <1>1, <1>2 DEF Listed, OnQueue, ToSet, ToRelease, Drains, Gets, Left
  <1>7. MoreAt(t)'
    BY <1>1, <1>2 DEF MoreAt, Gets, WaiterAt, Fits
  <1>8. changed' = changed
    BY DEF Waits!Optimize, Waits!Unlock, Waits!ghosts
  <1> QED BY <1>2, <1>3, <1>4, <1>5, <1>6, <1>7, <1>8, LeftMarks

LEMMA LeftWakeLocks ==
  ASSUME WaitInv, WaitInv', WaitLeft, NEW t \in Thread, Waits!Wake(t), ~(bucket.block = Null \/ bucket.locked)
  PROVE  WaitLeft'
  <1>1. waitPc[t] = "wake" /\ WaiterAt(t) /\ OfWaiters /\ OfWaiters'
    BY DEF Waits!Wake, WaitInv, OfWaiters, WaiterInv
  <1>2. PICK w : w = [bucket EXCEPT !.locked = TRUE]
    OBVIOUS
  <1>3. bucket' = w /\ Waits!BeginScan(t, w)
    BY <1>2 DEF Waits!Wake
  <1>4. PICK h : h = bucket.block
    OBVIOUS
  <1>5. w.block = h
    BY <1>1, <1>2, <1>4, BucketLocked DEF OfWaiters, BucketType
  <1>6. waitBack' = waitBack /\ pItem' = [pItem EXCEPT ![t] = Waits!Oldest(h)]
    BY <1>3, <1>5 DEF Waits!BeginScan
  <1>7. Waits!Oldest(h) \in Block
    <2>1. pItem'[t] = Waits!Oldest(h)
      BY <1>1, <1>6 DEF OfWaiters, BucketType
    <2>2. pItem'[t] \in Block
      BY <1>1 DEF OfWaiters, BucketType
    <2> QED BY <2>1, <2>2
  <1>8. Alone(t) /\ FlagsBut(t) /\ Gets(t, "scan", waitCall[t], flag[t], inHand[t], LastWake[t], Waits!Oldest(h))
    BY <1>1, <1>4, <1>7, WakeLocksDoes
  <1>9. bucket'.block = bucket.block /\ (bucket.wakeAll => bucket'.wakeAll) /\ (bucket'.wakeAll => bucket'.locked)
    BY <1>1, <1>2, <1>3 DEF OfWaiters, BucketType, Buckets
  <1>10. HeadOf(t)' = HeadOf(t) /\ inHand'[t] = inHand[t]
    BY <1>1, <1>8 DEF HeadOf, Drains, Gets
  <1>11. (Listed(t)' => Listed(t)) /\ ~Left(t)'
    BY <1>1, <1>8 DEF Listed, OnQueue, ToSet, ToRelease, Drains, Gets, Left
  <1>12. MoreAt(t)'
    BY <1>1, <1>8, CallIs DEF MoreAt, Gets, WaiterAt, Fits, InWake
  <1>13. changed' = changed
    BY DEF Waits!Wake, Waits!ghosts
  <1> QED BY <1>6, <1>8, <1>9, <1>10, <1>11, <1>12, <1>13, LeftMarks

LEMMA LeftHoldAgain ==
  ASSUME WaitInv, WaitInv', WaitLeft, NEW t \in Thread, Waits!HoldNewest(t), bucket # waitCurrent
  PROVE  WaitLeft'
  <1>1. waitPc[t] = "scan" /\ WaiterAt(t) /\ OfWaiters /\ OfWaiters'
    BY DEF Waits!HoldNewest, WaitInv, OfWaiters, WaiterInv
  <1>2. PICK h : h = bucket.block
    OBVIOUS
  <1>3. bucket' = bucket /\ Waits!BeginScan(t, bucket)
    BY DEF Waits!HoldNewest
  <1>4. waitBack' = waitBack /\ pItem' = [pItem EXCEPT ![t] = Waits!Oldest(h)]
    BY <1>2, <1>3 DEF Waits!BeginScan
  <1>5. Waits!Oldest(h) \in Block
    <2>1. pItem'[t] = Waits!Oldest(h)
      BY <1>1, <1>4 DEF OfWaiters, BucketType
    <2>2. pItem'[t] \in Block
      BY <1>1 DEF OfWaiters, BucketType
    <2> QED BY <2>1, <2>2
  <1>6. h # Null /\ Locks(t)
    <2>1. PICK L \in SUBSET Thread, T \in [Thread -> SUBSET Thread], pos \in [Thread -> Nat], r \in [Thread -> Nat],
               m \in Block : WaitHolds(L, T, pos, r, m)
      BY DEF WaitInv, WaitHeld
    <2>2. Meets(t, L, pos, m, Waits!First(t))
      BY <1>1, <2>1, ScanMeets DEF Waits!HoldNewest
    <2>3. L # {} /\ Locks(t) /\ WaitLinks /\ Queued(L, pos, m)
      BY <2>1, <2>2 DEF Meets, WaitHolds
    <2> QED BY <1>2, <2>3, QueueIs
  <1>7. Alone(t) /\ FlagsBut(t) /\ Gets(t, "scan", waitCall[t], flag[t], inHand[t], LastWake[t], Waits!Oldest(h))
    BY <1>1, <1>2, <1>5, <1>6, HoldAgainDoes
  <1>8. bucket'.block = bucket.block /\ (bucket.wakeAll => bucket'.wakeAll) /\ (bucket'.wakeAll => bucket'.locked)
    BY <1>3 DEF WaitLeft
  <1>9. HeadOf(t)' = HeadOf(t) /\ inHand'[t] = inHand[t]
    BY <1>1, <1>7 DEF HeadOf, Drains, Gets
  <1>10. (Listed(t)' => Listed(t)) /\ ~Left(t)'
    BY <1>1, <1>7 DEF Listed, OnQueue, ToSet, ToRelease, Drains, Gets, Left
  <1>11. MoreAt(t)'
    BY <1>1, <1>7, CallIs DEF MoreAt, Gets, WaiterAt, Fits, InWake
  <1>12. changed' = changed
    BY DEF Waits!HoldNewest, Waits!ghosts
  <1> QED BY <1>4, <1>7, <1>8, <1>9, <1>10, <1>11, <1>12, LeftMarks

LEMMA LeftAdd ==
  ASSUME WaitInv, WaitInv', WaitLeft, NEW t \in Thread, Waits!Add(t)
  PROVE  WaitLeft'
  <1>1. waitPc[t] = "add" /\ WaiterAt(t) /\ OfWaiters /\ MoreAt(t) /\ WaitLinks' /\ bucket \in Buckets
    BY WhereaboutsNext DEF PlacesInv, Waits!Add, WaitInv, OfWaiters, WaiterInv, WaitLeft, BucketType
  <1>2. PICK p \in {"compare", "look"} :
          Alone(t) /\ FlagsBut(t) /\ Gets(t, p, waitCall[t], flag[t], inHand[t], LastWake[t], pItem[t])
    BY <1>1, AddJoinsDoes, AddLocksDoes
  <1>3. PICK L \in SUBSET Thread, T \in [Thread -> SUBSET Thread], pos \in [Thread -> Nat], r \in [Thread -> Nat],
             m \in Block : WaitHolds(L, T, pos, r, m)
    BY DEF WaitInv, WaitHeld
  <1>4. WaitLinks /\ Queued(L, pos, m) /\ Placed(L, T) /\ Waits!List = L
    BY <1>1, <1>3, HeldIs DEF WaitHolds
  <1>5. PICK n \in Nat : \A x \in L : pos[x] < n
    BY <1>4, NextNumber DEF Queued, Queue
  <1>6. /\ waitBack' = [waitBack EXCEPT ![t] = bucket.block] /\ bucket'.block = t /\ changed' = changed
        /\ bucket' = Waits!Word(t, bucket.locked \/ bucket.block # Null, bucket.wakeAll)
    BY DEF Waits!Add, Waits!Word, Waits!ghosts
  <1>7. ~Listed(t) /\ HeadOf(t) = Null /\ inHand[t] = Null /\ t \notin L
    <2>1. ~Listed(t) /\ HeadOf(t) = Null /\ inHand[t] = Null
      BY <1>1 DEF Listed, OnQueue, ToSet, ToRelease, Drains, HeadOf, WaiterAt, Fits
    <2> QED BY <1>4, <2>1, NotPlaced
  <1>8. Waits!List' = L \cup {t}
    <2>1. PICK new, pos1 : new = waitBack' /\ pos1 = [pos EXCEPT ![t] = n]
      OBVIOUS
    <2>2. Ordered(new, L \cup {t}, t, pos1)
      BY <1>4, <1>5, <1>6, <1>7, <2>1, OrderedPush DEF Queued, Queue, WaitLinks
    <2>3. pos1 \in [Thread -> Nat]
      BY <2>1
    <2> QED BY <1>1, <1>6, <2>1, <2>2, <2>3, ListBecomes
  <1>9. Catch(t) = {}
    BY <1>7, Whereabouts DEF PlacesInv, Catch, Hand
  <1>10. PICK X : X = {t}
    OBVIOUS
  <1>11. Keeps(t, X)
    <2>1. ASSUME NEW u \in Thread, u # t, NEW x \in Catch(u)
          PROVE  waitBack'[x] = waitBack[x]
      <3>1. x \in Thread /\ x # t
        BY <1>7, <2>1, Whereabouts DEF PlacesInv
      <3> QED BY <1>4, <1>6, <3>1 DEF WaitLinks
    <2>2. t \in Waits!List' /\ ~Left(t)'
      BY <1>2, <1>8 DEF Left, Gets
    <2> QED BY <1>4, <1>8, <1>9, <1>10, <2>1, <2>2 DEF Keeps
  <1>12. WordKept
    <2>1. bucket'.wakeAll = bucket.wakeAll /\ (bucket.locked => bucket'.locked)
      <3>1. bucket.locked \in BOOLEAN
        BY <1>1 DEF Buckets
      <3>2. PICK l \in BOOLEAN : l <=> bucket.locked \/ bucket.block # Null
        OBVIOUS
      <3>3. bucket' = [block |-> t, locked |-> l, wakeAll |-> bucket.wakeAll]
        BY <1>6, <3>1, <3>2 DEF Waits!Word
      <3>4. bucket'.wakeAll = bucket.wakeAll /\ bucket'.locked = l
        BY <3>3
      <3> QED BY <3>2, <3>4
    <2> QED BY <2>1 DEF WordKept, WaitLeft
  <1>13. MoreAt(t)'
    BY <1>1, <1>2 DEF MoreAt, Gets, WaiterAt, Fits
  <1>14. changed' \in [Thread -> BOOLEAN] /\ \A u \in Thread : changed'[u] = changed[u]
    BY <1>6 DEF WaitLeft
  <1>15. PICK b : b = t
    OBVIOUS
  <1> QED BY <1>2, <1>11, <1>12, <1>13, <1>14, <1>15, LeftMoves

\* t takes the whole list to wake it.
LEMMA LeftWhole ==
  ASSUME WaitInv, WaitInv', WaitLeft, NEW t \in Thread, Locks(t), waitPc[t] \in {"optimize", "unlock"}, Alone(t), FlagsBut(t),
         Gets(t, "wakeList", waitCall[t], flag[t], inHand[t], LastWake[t], bucket.block),
         bucket' = Waits!Empty, waitBack' = waitBack, changed' = changed
  PROVE  WaitLeft'
  <1>1. WaitLinks /\ WaitLinks' /\ OfWaiters /\ WaiterAt(t) /\ MoreAt(t)
    BY WhereaboutsNext DEF PlacesInv, WaitInv, WaitHeld, WaitHolds, OfWaiters, WaiterInv, WaitLeft
  <1>2. PICK L \in SUBSET Thread, T \in [Thread -> SUBSET Thread], pos \in [Thread -> Nat], r \in [Thread -> Nat],
             m \in Block : WaitHolds(L, T, pos, r, m)
    BY DEF WaitInv, WaitHeld
  <1>3. Queued(L, pos, m) /\ Waits!List = L
    BY <1>1, <1>2, HeldIs DEF WaitHolds
  <1>4. inHand[t] = Null /\ HeadOf(t) = Null /\ Drains(t)' /\ HeadOf(t)' = bucket.block /\ Hand(t)' = {}
    BY <1>1 DEF WaiterAt, Fits, HeadOf, Drains, Gets, Hand
  <1>5. Catch(t) = {}
    BY <1>4, Whereabouts DEF PlacesInv, Catch, Hand
  <1>6. Catch(t)' = L
    <2>1. Ordered(waitBack', L, HeadOf(t)', pos)
      BY <1>3, <1>4 DEF Queued, Queue
    <2> QED BY <1>1, <1>4, <2>1, CatchBecomes
  <1>7. ~bucket'.wakeAll /\ Waits!List' = {}
    <2>1. bucket'.block = Null /\ ~bucket'.wakeAll
      BY DEF Waits!Empty, Waits!Word
    <2> QED BY <2>1, WhereaboutsNext DEF PlacesInv
  <1>8. WordKept
    BY <1>7 DEF WordKept
  <1>9. PICK X : X = {}
    OBVIOUS
  <1>10. Listed(t)' => Listed(t)
    <2>1. waitPc'[t] = "wakeList" /\ waitCall'[t] = waitCall[t] /\ flag'[t] = flag[t]
      BY DEF Gets
    <2>2. SUFFICES ASSUME ToSet(t)'
                   PROVE  OnQueue(t)
      BY <2>1 DEF Listed, OnQueue, ToRelease
    <2> QED BY <1>1, <2>1, <2>2 DEF OnQueue, ToSet, WaiterAt, Fits
  <1>11. ~Left(t)'
    BY DEF Left, Gets
  <1>12. Keeps(t, X)
    BY <1>3, <1>5, <1>6, <1>9, <1>10, <1>11 DEF Keeps
  <1>13. MoreAt(t)'
    BY <1>1 DEF MoreAt, Gets
  <1>14. changed' \in [Thread -> BOOLEAN] /\ \A u \in Thread : changed'[u] = changed[u]
    BY DEF WaitLeft
  <1>15. PICK b : b = t
    OBVIOUS
  <1> QED BY <1>8, <1>12, <1>13, <1>14, <1>15, LeftMoves

LEMMA LeftOptimizeWakes ==
  ASSUME WaitInv, WaitInv', WaitLeft, NEW t \in Thread, Waits!Optimize(t), bucket = waitCurrent, bucket.wakeAll
  PROVE  WaitLeft'
  <1>1. waitPc[t] = "optimize" /\ Locks(t) /\ OfWaiters
    BY DEF Waits!Optimize, Locks, WaitInv
  <1>2. Alone(t) /\ FlagsBut(t) /\ Gets(t, "wakeList", waitCall[t], flag[t], inHand[t], LastWake[t], bucket.block)
    BY <1>1, OptimizeWakesDoes
  <1>3. bucket' = Waits!Empty /\ waitBack' = waitBack /\ changed' = changed
    BY DEF Waits!Optimize, Waits!Unlock, Waits!ghosts
  <1> QED BY <1>1, <1>2, <1>3, LeftWhole

LEMMA LeftUnlockWakes ==
  ASSUME WaitInv, WaitInv', WaitLeft, NEW t \in Thread, Waits!UnlockList(t), bucket.wakeAll
  PROVE  WaitLeft'
  <1>1. waitPc[t] = "unlock" /\ Locks(t) /\ OfWaiters
    BY DEF Waits!UnlockList, Locks, WaitInv
  <1>2. Alone(t) /\ FlagsBut(t) /\ Gets(t, "wakeList", waitCall[t], flag[t], inHand[t], LastWake[t], bucket.block)
    BY <1>1, UnlockWakesDoes
  <1>3. bucket' = Waits!Empty /\ waitBack' = waitBack /\ changed' = changed
    BY DEF Waits!UnlockList, Waits!Unlock, Waits!ghosts, Waits!block, Waits!links
  <1> QED BY <1>1, <1>2, <1>3, LeftWhole

\* t takes its block off, or does not find it.
LEMMA LeftUnlinks ==
  ASSUME WaitInv, WaitInv', WaitLeft, NEW L \in SUBSET Thread, NEW T \in [Thread -> SUBSET Thread],
         NEW pos \in [Thread -> Nat], NEW r \in [Thread -> Nat], NEW m \in Block, WaitHolds(L, T, pos, r, m),
         NEW t \in Thread, Alone(t), FlagsBut(t),
         NEW S, S \ {t} = L \ {t}, NEW h, CutTo(S \ {t}, h, pos), bucket'.block = h,
         NEW p, p = IF t \in L THEN "unlock" ELSE "notFound",
         Gets(t, p, waitCall[t], flag[t], inHand[t], LastWake[t], pItem[t]), waitPc[t] \in {"remove", "removeFirst"},
         bucket.wakeAll => bucket'.wakeAll, bucket'.locked, changed' = changed
  PROVE  WaitLeft'
  <1>1. OfWaiters /\ MoreAt(t) /\ WaitLinks /\ WaitLinks'
    BY Whereabouts, WhereaboutsNext DEF WaitInv, WaitLeft, PlacesInv
  <1>2. PICK U : U = S \ {t}
    OBVIOUS
  <1>3. Waits!List = L
    BY <1>1, HeldIs
  <1>4. Waits!List' = U
    <2>1. Ordered(waitBack', U, bucket'.block, pos)
      BY <1>2 DEF CutTo, Queue
    <2> QED BY <1>1, <2>1, ListBecomes
  <1>5. \A u \in Thread : \A x \in Catch(u) : waitBack'[x] = waitBack[x]
    <2>1. ASSUME NEW u \in Thread, NEW x \in Catch(u)
          PROVE  waitBack'[x] = waitBack[x]
      <3>1. x \in Thread
        BY <2>1, Whereabouts DEF PlacesInv
      <3>2. x \notin L
        BY <1>3, <2>1, <3>1, Whereabouts DEF PlacesInv, Caught
      <3>3. x \notin U
        BY <1>2, <3>2
      <3> QED BY <1>2, <3>1, <3>3 DEF CutTo
    <2> QED BY <2>1
  <1>6. Catch(t)' = Catch(t)
    <2>1. HeadOf(t)' = HeadOf(t) /\ inHand'[t] = inHand[t]
      BY DEF HeadOf, Drains, Gets
    <2> QED BY <1>5, <2>1, CatchSame
  <1>7. PICK X : X = IF t \in L THEN {t} ELSE {}
    OBVIOUS
  <1>8. t \in L => ~Listed(t)'
    BY DEF Listed, OnQueue, ToSet, ToRelease, Drains, Gets
  <1>9. t \notin L => (Listed(t)' => Listed(t))
    BY DEF Listed, OnQueue, ToSet, ToRelease, Drains, Gets
  <1>10. Keeps(t, X)
    BY <1>2, <1>3, <1>4, <1>5, <1>6, <1>7, <1>8, <1>9 DEF Keeps
  <1>11. WordKept
    BY DEF WordKept
  <1>12. MoreAt(t)'
    BY <1>1 DEF MoreAt, Gets
  <1>13. changed' \in [Thread -> BOOLEAN] /\ \A u \in Thread : changed'[u] = changed[u]
    BY DEF WaitLeft
  <1>14. PICK b : b = t
    OBVIOUS
  <1> QED BY <1>10, <1>11, <1>12, <1>13, <1>14, LeftMoves

LEMMA LeftRemoveCuts ==
  ASSUME WaitInv, WaitInv', WaitLeft, NEW t \in Thread, Waits!RemoveWaitBlock(t),
         ~(bucket.block = Null \/ bucket.locked), bucket.block # t
  PROVE  WaitLeft'
  <1>0. PICK L \in SUBSET Thread, T \in [Thread -> SUBSET Thread], pos \in [Thread -> Nat], r \in [Thread -> Nat],
             m \in Block : WaitHolds(L, T, pos, r, m)
    BY DEF WaitInv, WaitHeld
  <1>1. OfWaiters /\ WaitLinks /\ Queued(L, pos, m) /\ waitPc[t] = "remove"
    BY <1>0 DEF WaitHolds, WaitInv, Waits!RemoveWaitBlock
  <1>2. PICK h : h = bucket.block
    OBVIOUS
  <1>3. L # {} /\ h \in L /\ h # t /\ Waits!List = L
    BY <1>1, <1>2, QueueIs
  <1>4. PICK n : n = waitNotify[h]
    OBVIOUS
  <1>5. n = Null
    BY <1>1, <1>2, <1>4, NewestEnds
  <1>6. Waits!Unlink(h, t, n) /\ bucket' = [bucket EXCEPT !.locked = TRUE] /\ changed' = changed
    BY <1>2, <1>4 DEF Waits!RemoveWaitBlock, Waits!ghosts
  <1>7. Ordered(waitBack, L, h, pos)
    BY <1>1, <1>2 DEF Queued, Queue
  <1>8. CutTo(L \ {t}, h, pos)
    BY <1>1, <1>3, <1>5, <1>6, <1>7, CutIs
  <1>9. bucket'.block = h /\ bucket'.locked /\ (bucket.wakeAll => bucket'.wakeAll)
    BY <1>1, <1>2, <1>6 DEF OfWaiters, BucketType, Buckets
  <1>10. PICK p : p = IF t \in L THEN "unlock" ELSE "notFound"
    OBVIOUS
  <1>11. Alone(t) /\ FlagsBut(t) /\ Gets(t, p, waitCall[t], flag[t], inHand[t], LastWake[t], pItem[t])
    BY <1>1, <1>3, <1>10, RemoveCutsDoes
  <1> QED BY <1>0, <1>1, <1>6, <1>8, <1>9, <1>10, <1>11, LeftUnlinks

LEMMA LeftRemoveNewestCuts ==
  ASSUME WaitInv, WaitInv', WaitLeft, NEW t \in Thread, Waits!RemoveNewest(t), bucket # waitCurrent, bucket.block # t
  PROVE  WaitLeft'
  <1>0. PICK L \in SUBSET Thread, T \in [Thread -> SUBSET Thread], pos \in [Thread -> Nat], r \in [Thread -> Nat],
             m \in Block : WaitHolds(L, T, pos, r, m)
    BY DEF WaitInv, WaitHeld
  <1>1. OfWaiters /\ WaitLinks /\ Queued(L, pos, m) /\ waitPc[t] = "removeFirst" /\ Locks(t) /\ t \in L
    BY <1>0 DEF WaitHolds, WaitInv, Waits!RemoveNewest, Locks, Fit, FitAt
  <1>2. PICK h : h = bucket.block
    OBVIOUS
  <1>3. L # {} /\ h \in L /\ h # t /\ h # Null
    BY <1>1, <1>2, QueueIs
  <1>4. PICK n : n = waitNotify[h]
    OBVIOUS
  <1>5. n = Null
    BY <1>1, <1>2, <1>3, <1>4, NewestEnds
  <1>6. Waits!Unlink(h, t, n) /\ bucket' = bucket /\ changed' = changed
    BY <1>2, <1>3, <1>4 DEF Waits!RemoveNewest, Waits!ghosts
  <1>7. Ordered(waitBack, L, h, pos)
    BY <1>1, <1>2 DEF Queued, Queue
  <1>8. CutTo(L \ {t}, h, pos)
    BY <1>1, <1>3, <1>5, <1>6, <1>7, CutIs
  <1>9. bucket'.block = h /\ bucket'.locked /\ (bucket.wakeAll => bucket'.wakeAll)
    BY <1>1, <1>2, <1>6 DEF OfWaiters, LocksInv
  <1>10. PICK p : p = IF t \in L THEN "unlock" ELSE "notFound"
    OBVIOUS
  <1>11. Alone(t) /\ FlagsBut(t) /\ Gets(t, p, waitCall[t], flag[t], inHand[t], LastWake[t], pItem[t])
    BY <1>1, <1>10, RemoveNewestCutsDoes
  <1> QED BY <1>0, <1>1, <1>6, <1>8, <1>9, <1>10, <1>11, LeftUnlinks

LEMMA LeftRemoveNewestLeaves ==
  ASSUME WaitInv, WaitInv', WaitLeft, NEW t \in Thread, Waits!RemoveNewest(t), bucket = waitCurrent, waitBack[t] # Null
  PROVE  WaitLeft'
  <1>0. PICK L \in SUBSET Thread, T \in [Thread -> SUBSET Thread], pos \in [Thread -> Nat], r \in [Thread -> Nat],
             m \in Block : WaitHolds(L, T, pos, r, m)
    BY DEF WaitInv, WaitHeld
  <1>1. OfWaiters /\ WaitLinks /\ Queued(L, pos, m) /\ waitPc[t] = "removeFirst" /\ Locks(t) /\ t \in L
    BY <1>0 DEF WaitHolds, WaitInv, Waits!RemoveNewest, Locks, Fit, FitAt
  <1>2. PICK h : h = waitBack[t]
    OBVIOUS
  <1>3. bucket.block = t /\ t # Null
    BY <1>1, NullIsNoThread DEF OfWaiters, LocksInv
  <1>4. h \in Thread /\ h \in Block
    BY <1>1, <1>2 DEF WaitLinks, Block
  <1>5. Ordered(waitBack, L, t, pos)
    BY <1>1, <1>3 DEF Queued, Queue
  <1>6. PICK S : S = L \ {t}
    OBVIOUS
  <1>7. Ordered(waitBack, S, h, pos)
    <2>1. waitBack \in [Thread -> Block]
      BY <1>1 DEF WaitLinks
    <2> QED BY <1>2, <1>3, <1>5, <1>6, <2>1, OrderedPop
  <1>8. h \in S /\ S # {} /\ h # t /\ S \ {t} = L \ {t}
    BY <1>4, <1>6, <1>7, NullIsNoThread DEF Ordered
  <1>9. Waits!Unlink(h, t, Null) /\ bucket' = [bucket EXCEPT !.block = h] /\ changed' = changed
    BY <1>2, <1>4, NullIsNoThread DEF Waits!RemoveNewest, Waits!ghosts
  <1>10. CutTo(S \ {t}, h, pos)
    BY <1>1, <1>7, <1>8, <1>9, CutIs
  <1>11. bucket'.block = h /\ bucket'.locked /\ (bucket.wakeAll => bucket'.wakeAll)
    <2>1. bucket.locked /\ bucket \in Buckets
      BY <1>1 DEF OfWaiters, LocksInv, BucketType
    <2> QED BY <1>4, <1>9, <2>1 DEF Buckets
  <1>12. PICK p : p = IF t \in L THEN "unlock" ELSE "notFound"
    OBVIOUS
  <1>13. Alone(t) /\ FlagsBut(t) /\ Gets(t, p, waitCall[t], flag[t], inHand[t], LastWake[t], pItem[t])
    BY <1>1, <1>2, <1>4, <1>12, RemoveNewestLeavesDoes
  <1> QED BY <1>0, <1>1, <1>8, <1>9, <1>10, <1>11, <1>12, <1>13, LeftUnlinks

LEMMA LeftRemoveLast ==
  ASSUME WaitInv, WaitInv', WaitLeft, NEW t \in Thread, Waits!RemoveNewest(t), bucket = waitCurrent, waitBack[t] = Null
  PROVE  WaitLeft'
  <1>0. PICK L \in SUBSET Thread, T \in [Thread -> SUBSET Thread], pos \in [Thread -> Nat], r \in [Thread -> Nat],
             m \in Block : WaitHolds(L, T, pos, r, m)
    BY DEF WaitInv, WaitHeld
  <1>1. /\ OfWaiters /\ WaitLinks /\ Queued(L, pos, m) /\ WaiterAt(t) /\ Waits!List = L
        /\ waitPc[t] = "removeFirst" /\ Locks(t) /\ t \in L
    BY <1>0, HeldIs DEF WaitHolds, WaitInv, Waits!RemoveNewest, Locks, Fit, FitAt, OfWaiters, WaiterInv
  <1>2. bucket.block = t /\ t # Null
    BY <1>1, NullIsNoThread DEF OfWaiters, LocksInv
  <1>3. L = {t}
    <2>1. Ordered(waitBack, L, t, pos) /\ waitBack \in [Thread -> Block]
      BY <1>1, <1>2 DEF Queued, Queue, WaitLinks
    <2>2. Ordered(waitBack, L \ {t}, Null, pos)
      <3>1. Ordered(waitBack, L \ {t}, waitBack[t], pos)
        BY <1>2, <2>1, OrderedPop
      <3> QED BY <3>1
    <2>3. L \ {t} = {}
      BY <2>2 DEF Ordered
    <2> QED BY <1>1, <2>3
  <1>4. bucket' = Waits!Empty /\ Waits!Reset(t) /\ changed' = [changed EXCEPT ![t] = FALSE]
    BY DEF Waits!RemoveNewest, Waits!Return
  <1>5. ~bucket'.wakeAll /\ Waits!List' = {}
    <2>1. bucket'.block = Null /\ ~bucket'.wakeAll
      BY <1>4 DEF Waits!Empty, Waits!Word
    <2> QED BY <2>1, WhereaboutsNext DEF PlacesInv
  <1>6. Alone(t) /\ FlagsBut(t)
        /\ Gets(t, "idle", Waits!NoCall, Waits!Spinning, inHand[t], LastWake[t], pItem[t])
    BY <1>1, RemoveLastDoes
  <1>7. Catch(t) = {}
    <2>1. HeadOf(t) = Null /\ inHand[t] = Null
      BY <1>1 DEF HeadOf, Drains, WaiterAt, Fits
    <2> QED BY <2>1, Whereabouts DEF PlacesInv, Catch, Hand
  <1>8. PICK X : X = {t}
    OBVIOUS
  <1>9. ~Listed(t)'
    BY <1>6 DEF Listed, OnQueue, ToSet, ToRelease, Drains, Gets
  <1>10. Keeps(t, X)
    <2>1. ASSUME NEW u \in Thread, NEW x \in Catch(u)
          PROVE  waitBack'[x] = waitBack[x]
      <3>1. x \in Thread /\ x # t
        BY <1>1, <2>1, Whereabouts DEF PlacesInv, Caught
      <3> QED BY <1>1, <1>4, <3>1 DEF WaitLinks, Waits!Reset
    <2> QED BY <1>1, <1>3, <1>7, <1>8, <1>9, <2>1 DEF Keeps
  <1>11. WordKept
    BY <1>5 DEF WordKept
  <1>12. MoreAt(t)'
    BY <1>6, CallIs DEF MoreAt, Gets
  <1>13. changed' \in [Thread -> BOOLEAN] /\ \A u \in Thread : u # t => changed'[u] = changed[u]
    BY <1>4 DEF WaitLeft
  <1>14. PICK b : b = t
    OBVIOUS
  <1> QED BY <1>6, <1>10, <1>11, <1>12, <1>13, <1>14, LeftMoves

-----------------------------------------------------------------------------
(* Wakers take blocks, set their flags and release them.                   *)

\* t takes f off the list and has it in hand.
LEMMA LeftTakes ==
  ASSUME WaitInv, WaitInv', WaitLeft, NEW L \in SUBSET Thread, NEW T \in [Thread -> SUBSET Thread],
         NEW pos \in [Thread -> Nat], NEW r \in [Thread -> Nat], NEW m \in Block, WaitHolds(L, T, pos, r, m),
         NEW t \in Thread, Alone(t), FlagsBut(t), waitPc[t] = "scan",
         NEW f \in L, NEW c, NEW item, Gets(t, "take", c, flag[t], f, LastWake[t], item), NEW m1,
         Queued(L \ {f}, pos, m1)', \A x \in Thread \ L : waitBack'[x] = waitBack[x],
         WordKept, changed' = changed
  PROVE  WaitLeft'
  <1>1. OfWaiters /\ WaitLinks /\ WaitLinks' /\ OfWaiters' /\ Carries(T, r) /\ Placed(L, T)
    BY Whereabouts, WhereaboutsNext DEF WaitInv, PlacesInv, WaitHolds
  <1>2. Waits!List = L /\ Waits!Behind(HeadOf(t)) = T[t] /\ Catch(t) = T[t] \cup Hand(t)
    BY <1>1, HeldIs
  <1>3. Waits!List' = L \ {f}
    <2>1. Ordered(waitBack', L \ {f}, bucket'.block, pos)
      BY DEF Queued, Queue
    <2> QED BY <1>1, <2>1, ListBecomes
  <1>4. \A u \in Thread : \A x \in Catch(u) : waitBack'[x] = waitBack[x]
    <2>1. ASSUME NEW u \in Thread, NEW x \in Catch(u)
          PROVE  x \in Thread \ L
      BY <1>2, <2>1, Whereabouts DEF PlacesInv, Caught
    <2> QED BY <2>1
  <1>5. HeadOf(t)' = HeadOf(t) /\ Hand(t)' = {f} /\ Hand(t) = {}
    <2>1. inHand[t] = Null /\ f # Null
      BY <1>1, NullIsNoThread DEF OfWaiters, WaiterInv, WaiterAt, Fits
    <2> QED BY <2>1 DEF HeadOf, Drains, Gets, Hand
  <1>6. Catch(t)' = T[t] \cup {f}
    <2>1. Ordered(waitBack, T[t], HeadOf(t)', r)
      BY <1>1, <1>5 DEF Carries
    <2>2. \A x \in T[t] : waitBack'[x] = waitBack[x]
      BY <1>2, <1>4
    <2>3. Ordered(waitBack', T[t], HeadOf(t)', r)
      BY <2>1, <2>2, OrderedSame
    <2> QED BY <1>1, <1>5, <2>3, CatchBecomes
  <1>7. PICK X : X = {}
    OBVIOUS
  <1>8. ~Listed(t)' /\ ~Left(t)'
    BY DEF Listed, OnQueue, ToSet, ToRelease, Drains, Gets, Left
  <1>9. Keeps(t, X)
    BY <1>2, <1>3, <1>4, <1>5, <1>6, <1>7, <1>8 DEF Keeps
  <1>10. MoreAt(t)'
    <2>1. c \in Waking1
      BY <1>1 DEF OfWaiters, WaiterInv, WaiterAt, Fits, Gets, InWake
    <2> QED BY <2>1, CallIs DEF MoreAt, Gets
  <1>11. changed' \in [Thread -> BOOLEAN] /\ \A u \in Thread : changed'[u] = changed[u]
    BY DEF WaitLeft
  <1>12. PICK b : b = t
    OBVIOUS
  <1> QED BY <1>9, <1>10, <1>11, <1>12, LeftMoves

LEMMA LeftHoldOlder ==
  ASSUME WaitInv, WaitInv', WaitLeft, NEW t \in Thread, Waits!HoldOlder(t)
  PROVE  WaitLeft'
  <1>0. PICK L \in SUBSET Thread, T \in [Thread -> SUBSET Thread], pos \in [Thread -> Nat], r \in [Thread -> Nat],
             m \in Block : WaitHolds(L, T, pos, r, m)
    BY DEF WaitInv, WaitHeld
  <1>1. WaitLinks /\ Queued(L, pos, m) /\ OfWaiters /\ waitPc[t] = "scan"
    BY <1>0 DEF WaitHolds, WaitInv, Waits!HoldOlder
  <1>2. PICK f : f = Waits!First(t)
    OBVIOUS
  <1>3. Meets(t, L, pos, m, f)
    BY <1>0, <1>1, <1>2, ScanMeets DEF Waits!HoldOlder
  <1>4. Locks(t) /\ pBlock = m /\ f \in L /\ pos[f] <= pos[m] /\ f # m
    BY <1>2, <1>3 DEF Meets, Waits!HoldOlder
  <1>5. Queue(waitBack, waitNext, waitNotify, L, bucket.block, pos, m)
    BY <1>1 DEF Queued
  <1>6. pos[f] < pos[m] /\ f \in Thread
    <2>1. m \in L /\ pos[f] \in Nat /\ pos[m] \in Nat
      BY <1>4, <1>5, QueueTypes
    <2>2. pos[f] # pos[m]
      BY <1>4, <1>5, <2>1 DEF Queue, Ordered
    <2> QED BY <1>4, <2>1, <2>2
  <1>7. waitBack \in [Thread -> Block] /\ waitNext \in [Thread -> Block] /\ waitNotify \in [Thread -> Block]
    BY <1>1 DEF WaitLinks
  <1>8. PICK link1, known1, forth1 : link1 = waitBack' /\ known1 = waitNext' /\ forth1 = waitNotify'
    OBVIOUS
  <1>9. Drawn(waitBack, waitNext, waitNotify, link1, known1, forth1, m, f)
    BY <1>2, <1>4, <1>8 DEF Drawn, Waits!HoldOlder
  <1>10. QueueWithout(waitBack, waitNext, waitNotify, link1, known1, forth1, L \ {f}, bucket.block, pos, m)
    BY <1>4, <1>5, <1>6, <1>7, <1>9, QueueDrawn
  <1>11. bucket' = bucket /\ changed' = changed
    BY DEF Waits!HoldOlder, Waits!Hold, Waits!ghosts
  <1>12. Queued(L \ {f}, pos, m)' /\ \A x \in Thread \ L : waitBack'[x] = waitBack[x]
    BY <1>8, <1>10, <1>11 DEF QueueWithout, Queued
  <1>13. PICK item : item = waitNotify[f]
    OBVIOUS
  <1>14. item \in Block /\ f \in Block
    BY <1>6, <1>7, <1>13 DEF Block
  <1>15. Alone(t) /\ FlagsBut(t) /\ Gets(t, "take", waitCall[t], flag[t], f, LastWake[t], item)
    BY <1>1, <1>2, <1>4, <1>6, <1>13, <1>14, HoldOlderDoes
  <1>16. WordKept
    BY <1>11 DEF WordKept, WaitLeft
  <1> QED BY <1>0, <1>1, <1>4, <1>11, <1>12, <1>15, <1>16, LeftTakes

LEMMA LeftHoldNewest ==
  ASSUME WaitInv, WaitInv', WaitLeft, NEW t \in Thread, Waits!HoldNewest(t), bucket = waitCurrent
  PROVE  WaitLeft'
  <1>0. PICK L \in SUBSET Thread, T \in [Thread -> SUBSET Thread], pos \in [Thread -> Nat], r \in [Thread -> Nat],
             m \in Block : WaitHolds(L, T, pos, r, m)
    BY DEF WaitInv, WaitHeld
  <1>1. WaitLinks /\ Queued(L, pos, m) /\ OfWaiters /\ waitPc[t] = "scan"
    BY <1>0 DEF WaitHolds, WaitInv, Waits!HoldNewest
  <1>2. PICK f : f = Waits!First(t)
    OBVIOUS
  <1>3. Meets(t, L, pos, m, f)
    BY <1>0, <1>1, <1>2, ScanMeets DEF Waits!HoldNewest
  <1>4. /\ Locks(t) /\ pBlock = f /\ f = m /\ bucket.block = m
        /\ f \in L /\ f \in Thread /\ f # Null
    BY <1>2, <1>3, NullIsNoThread DEF Meets, Waits!HoldNewest
  <1>5. Queue(waitBack, waitNext, waitNotify, L, f, pos, f)
    BY <1>1, <1>4 DEF Queued
  <1>6. waitBack \in [Thread -> Block] /\ waitNext \in [Thread -> Block] /\ waitNotify \in [Thread -> Block]
    BY <1>1 DEF WaitLinks
  <1>7. PICK older, known1, forth1 : older = waitBack[f] /\ known1 = waitNext' /\ forth1 = waitNotify'
    OBVIOUS
  <1>8. older \in Block
    BY <1>4, <1>6, <1>7
  <1>9. Popped(waitBack, waitNext, waitNotify, known1, forth1, f) /\ waitBack' = waitBack /\ changed' = changed
    BY <1>2, <1>4, <1>7 DEF Popped, Waits!HoldNewest, Waits!Hold, Waits!ghosts
  <1>10. /\ QueueWithout(waitBack, waitNext, waitNotify, waitBack, known1, forth1, L \ {f}, older, pos, older)
         /\ waitNotify[f] = Null
    <2>1. PICK link, known, forth : link = waitBack /\ known = waitNext /\ forth = waitNotify
      OBVIOUS
    <2>2. link \in [Thread -> Block] /\ known \in [Thread -> Block] /\ forth \in [Thread -> Block]
      BY <1>6, <2>1
    <2>3. Queue(link, known, forth, L, f, pos, f) /\ f # Null /\ Popped(link, known, forth, known1, forth1, f)
      BY <1>4, <1>5, <1>9, <2>1
    <2>4. QueueWithout(link, known, forth, link, known1, forth1, L \ {f}, link[f], pos, link[f]) /\ forth[f] = Null
      BY <2>2, <2>3, QueuePop
    <2> QED BY <1>7, <2>1, <2>4
  <1>11. bucket'.block = older /\ (bucket.wakeAll => bucket'.wakeAll \/ older = Null) /\ (bucket'.wakeAll => bucket'.locked)
    <2>1. bucket' = IF older = Null THEN Waits!Empty ELSE [bucket EXCEPT !.block = older]
      BY <1>4, <1>7 DEF Waits!HoldNewest
    <2>2. bucket.wakeAll => bucket.locked
      BY DEF WaitLeft
    <2>3. CASE older = Null
      BY <2>1, <2>3 DEF Waits!Empty, Waits!Word
    <2>4. CASE older # Null
      BY <1>1, <1>8, <2>1, <2>2, <2>4 DEF OfWaiters, BucketType, Buckets
    <2> QED BY <2>3, <2>4
  <1>12. WordKept
    <2>1. older = Null => Waits!List' = {}
      BY <1>11, WhereaboutsNext DEF PlacesInv
    <2> QED BY <1>11, <2>1 DEF WordKept
  <1>13. Queued(L \ {f}, pos, older)' /\ \A x \in Thread \ L : waitBack'[x] = waitBack[x]
    BY <1>7, <1>9, <1>10, <1>11 DEF QueueWithout, Queued
  <1>14. PICK c : Alone(t) /\ FlagsBut(t) /\ Gets(t, "take", c, flag[t], f, LastWake[t], Null)
    <2>1. waitNotify[Waits!First(t)] \in Block /\ waitNotify[Waits!First(t)] = Null /\ Waits!First(t) \in Thread
      BY <1>2, <1>4, <1>10 DEF Block
    <2>2. CASE older = Null
      BY <1>1, <1>2, <1>4, <1>7, <2>1, <2>2, HoldLastDoes
    <2>3. CASE older # Null
      BY <1>1, <1>2, <1>4, <1>7, <1>8, <2>1, <2>3, HoldNewestDoes DEF Block
    <2> QED BY <2>2, <2>3
  <1> QED BY <1>0, <1>1, <1>4, <1>9, <1>12, <1>13, <1>14, LeftTakes

\* A block whose thread is not in the kernel is not waited for once its flag is set.
LEMMA SetAwake ==
  ASSUME WaitLeft, NEW b \in Thread, ToSet(b), flag[b] # Waits!Kernel
  PROVE  waitPc[b] \notin {"kernel", "kernelAgain", "kernelLocked"}
  BY DEF WaitLeft, MoreAt, ToSet, Drains

LEMMA LeftWakeNext ==
  ASSUME WaitInv, WaitInv', WaitLeft, NEW t \in Thread, Waits!WakeNext(t), pItem[t] # Null
  PROVE  WaitLeft'
  <1>1. /\ waitPc[t] = "wakeList" /\ Drains(t) /\ OfWaiters /\ WaiterAt(t) /\ MoreAt(t) /\ BucketType
        /\ WaitLinks /\ WaitLinks'
    BY Whereabouts, WhereaboutsNext DEF Waits!WakeNext, WaitInv, OfWaiters, WaiterInv, Drains, WaitLeft, PlacesInv
  <1>2. PICK L \in SUBSET Thread, T \in [Thread -> SUBSET Thread], pos \in [Thread -> Nat], r \in [Thread -> Nat],
             m \in Block : WaitHolds(L, T, pos, r, m)
    BY DEF WaitInv, WaitHeld
  <1>3. /\ Carries(T, r) /\ Placed(L, T) /\ Disjoint(L, T)
        /\ Waits!List = L /\ Waits!Behind(HeadOf(t)) = T[t] /\ Catch(t) = T[t] \cup Hand(t)
    BY <1>1, <1>2, HeldIs DEF WaitHolds
  <1>4. PICK b : b = pItem[t]
    OBVIOUS
  <1>5. HeadOf(t) = b /\ b # Null /\ inHand[t] = Null /\ Hand(t) = {}
    BY <1>1, <1>4 DEF HeadOf, WaiterAt, Fits, Hand
  <1>6. b \in T[t] /\ b \in Thread /\ Ordered(waitBack, T[t], b, r) /\ ToSet(b)
    BY <1>1, <1>3, <1>5, CarriedIs DEF Placed
  <1>7. PICK asleep \in BOOLEAN : asleep <=> flag[b] = Waits!Kernel
    OBVIOUS
  <1>8. PICK p, hand :
          p = (IF asleep THEN "release" ELSE "wakeList") /\ hand = (IF asleep THEN b ELSE Null)
    OBVIOUS
  <1>9. /\ flag' = [flag EXCEPT ![b] = Waits!Woken] /\ pItem' = [pItem EXCEPT ![t] = waitBack[b]]
        /\ UNCHANGED <<bucket, waitCall, LastWake, waitBack, waitNotify, waitNext, changed>>
        /\ IF flag[b] = Waits!Kernel THEN inHand' = [inHand EXCEPT ![t] = b] /\ waitPc' = [waitPc EXCEPT ![t] = "release"]
                                     ELSE UNCHANGED <<inHand, waitPc>>
    BY <1>4, <1>5 DEF Waits!WakeNext, Waits!Goto, Waits!links, Waits!owner
  <1>10. Alone(t) /\ FlagsBut(b) /\ flag'[b] = Waits!Woken /\ waitPc'[t] = p /\ inHand'[t] = hand /\ pItem'[t] = waitBack[b]
    BY <1>1, <1>5, <1>6, <1>7, <1>8, <1>9 DEF Alone, FlagsBut, BucketType
  <1>11. Waits!List' = L
    BY <1>3, <1>9, ListSame
  <1>12. Catch(t)' = (T[t] \ {b}) \cup Hand(t)'
    <2>1. Ordered(waitBack, T[t] \ {b}, waitBack[b], r)
      BY <1>1, <1>5, <1>6, OrderedPop DEF WaitLinks
    <2>2. HeadOf(t)' = waitBack[b]
      BY <1>8, <1>10 DEF HeadOf, Drains
    <2>3. Ordered(waitBack', T[t] \ {b}, HeadOf(t)', r)
      BY <1>9, <2>1, <2>2
    <2> QED BY <1>1, <2>3, CatchBecomes
  <1>13. PICK X : X = IF asleep THEN {} ELSE {b}
    OBVIOUS
  <1>14. Hand(t)' = IF asleep THEN {b} ELSE {}
    BY <1>5, <1>8, <1>10 DEF Hand
  <1>15. asleep => b # t
    BY <1>1, <1>6, <1>7, SetAsleep
  <1>16. ~asleep => ~Listed(b)'
    <2>1. SUFFICES ASSUME ~asleep, ToRelease(b)'
                   PROVE  FALSE
      BY <1>10 DEF Listed, OnQueue, ToSet
    <2>2. waitPc[b] \notin {"kernel", "kernelAgain", "kernelLocked"}
      BY <1>6, <1>7, <2>1, SetAwake
    <2>3. waitPc'[b] = waitPc[b]
      BY <1>7, <1>9, <2>1
    <2> QED BY <2>1, <2>2, <2>3 DEF ToRelease
  <1>17. b # t => (Listed(t)' => Listed(t))
    <2>1. SUFFICES ASSUME b # t, ToSet(t)'
                   PROVE  ToSet(t)
      BY <1>1, <1>8, <1>10 DEF Listed, OnQueue, ToRelease
    <2> QED BY <1>1, <1>6, <1>8, <1>9, <1>10, <2>1 DEF ToSet, FlagsBut, Drains
  <1>18. ~Left(t)'
    BY <1>8, <1>10 DEF Left
  <1>19. Keeps(t, X)
    <2>1. \A x \in Catch(t) : x \in X \/ x \in Catch(t)'
      BY <1>3, <1>5, <1>12, <1>13, <1>14
    <2>2. \A x \in X : ~Listed(x)'
      BY <1>13, <1>16
    <2>3. t \notin X => (Listed(t)' => Listed(t))
      BY <1>13, <1>15, <1>17
    <2> QED BY <1>3, <1>9, <1>11, <1>18, <2>1, <2>2, <2>3 DEF Keeps
  <1>20. WordKept
    BY <1>9 DEF WordKept, WaitLeft
  <1>21. MoreAt(t)'
    BY <1>1, <1>8, <1>9, <1>10 DEF MoreAt
  <1>22. changed' \in [Thread -> BOOLEAN] /\ \A u \in Thread : changed'[u] = changed[u]
    BY <1>9 DEF WaitLeft
  <1>23. Listed(b)
    BY <1>6 DEF Listed
  <1> QED BY <1>6, <1>10, <1>19, <1>20, <1>21, <1>22, <1>23, LeftMoves

LEMMA LeftTake ==
  ASSUME WaitInv, WaitInv', WaitLeft, NEW t \in Thread, Waits!Take(t)
  PROVE  WaitLeft'
  <1>1. /\ waitPc[t] = "take" /\ ~Drains(t) /\ OfWaiters /\ WaiterAt(t) /\ MoreAt(t) /\ BucketType
        /\ WaitLinks /\ WaitLinks'
    BY Whereabouts, WhereaboutsNext DEF Waits!Take, WaitInv, OfWaiters, WaiterInv, Drains, WaitLeft, PlacesInv
  <1>2. PICK L \in SUBSET Thread, T \in [Thread -> SUBSET Thread], pos \in [Thread -> Nat], r \in [Thread -> Nat],
             m \in Block : WaitHolds(L, T, pos, r, m)
    BY DEF WaitInv, WaitHeld
  <1>3. /\ Carries(T, r) /\ Placed(L, T) /\ Disjoint(L, T)
        /\ Waits!List = L /\ \A u \in Thread : Waits!Behind(HeadOf(u)) = T[u] /\ Catch(u) = T[u] \cup Hand(u)
    BY <1>1, <1>2, HeldIs DEF WaitHolds
  <1>4. PICK b : b = inHand[t]
    OBVIOUS
  <1>5. HeadOf(t) = LastWake[t] /\ b # Null /\ b \in Thread /\ Hand(t) = {b}
    BY <1>1, <1>4 DEF HeadOf, WaiterAt, Fits, BucketType, Block, Hand
  <1>6. Ordered(waitBack, T[t], LastWake[t], r) /\ T[t] \subseteq Thread
    BY <1>3, <1>5 DEF Carries
  <1>7. b \notin L /\ b # t /\ ToSet(b) /\ \A u \in Thread : b \notin T[u]
    <2>1. ToSet(b) /\ b \notin L /\ \A u \in Thread : b \notin T[u]
      BY <1>1, <1>3, <1>4, <1>5 DEF Disjoint, Placed
    <2> QED BY <1>1, <1>5, <2>1, SetAsleep
  <1>8. PICK asleep \in BOOLEAN : asleep <=> flag[b] = Waits!Kernel
    OBVIOUS
  <1>9. PICK p, last, link :
          /\ p = IF flag[b] # Waits!Woken /\ ~waitCall[t].all THEN "releaseAll" ELSE "scan"
          /\ last = IF asleep THEN b ELSE LastWake[t]
          /\ link = IF asleep THEN LastWake[t] ELSE waitBack[b]
    OBVIOUS
  <1>10. /\ flag' = [flag EXCEPT ![b] = Waits!Woken] /\ waitBack' = [waitBack EXCEPT ![b] = link]
         /\ LastWake' = [LastWake EXCEPT ![t] = last] /\ inHand' = [inHand EXCEPT ![t] = Null]
         /\ waitPc' = [waitPc EXCEPT ![t] = p]
         /\ UNCHANGED <<bucket, waitCall, pItem, waitNotify, waitNext, changed>>
    BY <1>4, <1>8, <1>9 DEF Waits!Take, Waits!Goto, Waits!owner
  <1>11. /\ Alone(t) /\ FlagsBut(b) /\ flag'[b] = Waits!Woken /\ flag'[t] = flag[t]
         /\ waitPc'[t] = p /\ inHand'[t] = Null /\ LastWake'[t] = last
    BY <1>1, <1>5, <1>7, <1>10 DEF Alone, FlagsBut, BucketType
  <1>12. \A x \in Thread : x # b => waitBack'[x] = waitBack[x]
    BY <1>1, <1>10 DEF WaitLinks
  <1>13. Waits!List' = L
    BY <1>3, <1>7, <1>10, <1>12, ListSame
  <1>14. PICK n \in Nat : \A x \in T[t] : r[x] < n
    BY <1>6, NextNumber
  <1>15. PICK S, r1 : S = (IF asleep THEN T[t] \cup {b} ELSE T[t]) /\ r1 = [r EXCEPT ![b] = n]
    OBVIOUS
  <1>16. Catch(t)' = S
    <2>1. HeadOf(t)' = last /\ Hand(t)' = {}
      BY <1>9, <1>11 DEF HeadOf, Drains, Hand
    <2>2. CASE asleep
      <3>1. PICK new : new = waitBack'
        OBVIOUS
      <3>2. new = [waitBack EXCEPT ![b] = LastWake[t]]
        BY <1>9, <1>10, <2>2, <3>1
      <3>3. Ordered(new, T[t] \cup {b}, b, r1) /\ r1 \in [Thread -> Nat]
        BY <1>1, <1>5, <1>6, <1>7, <1>14, <1>15, <3>2, OrderedPush DEF WaitLinks
      <3>4. Ordered(waitBack', S, HeadOf(t)', r1)
        BY <1>9, <1>15, <2>1, <2>2, <3>1, <3>3
      <3> QED BY <1>1, <2>1, <3>3, <3>4, CatchBecomes
    <2>3. CASE ~asleep
      <3>1. \A x \in T[t] : waitBack'[x] = waitBack[x]
        BY <1>6, <1>7, <1>12
      <3>2. Ordered(waitBack', T[t], LastWake[t], r)
        BY <1>6, <3>1, OrderedSame
      <3>3. Ordered(waitBack', S, HeadOf(t)', r)
        BY <1>9, <1>15, <2>1, <2>3, <3>2
      <3> QED BY <1>1, <2>1, <3>3, CatchBecomes
    <2> QED BY <2>2, <2>3
  <1>17. PICK X : X = IF asleep THEN {} ELSE {b}
    OBVIOUS
  <1>18. ~asleep => ~Listed(b)'
    <2>1. SUFFICES ASSUME ~asleep, ToRelease(b)'
                   PROVE  FALSE
      BY <1>11 DEF Listed, OnQueue, ToSet
    <2>2. waitPc[b] \notin {"kernel", "kernelAgain", "kernelLocked"}
      BY <1>5, <1>7, <1>8, <2>1, SetAwake
    <2>3. waitPc'[b] = waitPc[b]
      BY <1>5, <1>7, <1>11 DEF Alone
    <2> QED BY <2>1, <2>2, <2>3 DEF ToRelease
  <1>19. ~Listed(t)' /\ ~Left(t)'
    BY <1>9, <1>11 DEF Listed, OnQueue, ToSet, ToRelease, Drains, Left
  <1>20. Keeps(t, X)
    <2>1. \A x \in Catch(t) : x \in X \/ x \in Catch(t)'
      BY <1>3, <1>5, <1>15, <1>16, <1>17
    <2>2. ASSUME NEW u \in Thread, u # t, NEW x \in Catch(u)
          PROVE  waitBack'[x] = waitBack[x]
      <3>1. b \in Catch(t)
        BY <1>3, <1>5
      <3>2. x \in Thread /\ x # b
        BY <2>2, <3>1, Whereabouts DEF PlacesInv
      <3> QED BY <1>12, <3>2
    <2>3. \A x \in X : ~Listed(x)'
      BY <1>17, <1>18
    <2> QED BY <1>3, <1>13, <1>19, <2>1, <2>2, <2>3 DEF Keeps
  <1>21. WordKept
    BY <1>10 DEF WordKept, WaitLeft
  <1>22. MoreAt(t)'
    BY <1>1, <1>9, <1>10, <1>11 DEF MoreAt
  <1>23. changed' \in [Thread -> BOOLEAN] /\ \A u \in Thread : changed'[u] = changed[u]
    BY <1>10 DEF WaitLeft
  <1>24. Listed(b)
    BY <1>7 DEF Listed
  <1> QED BY <1>5, <1>11, <1>20, <1>21, <1>22, <1>23, <1>24, LeftMoves

\* t releases b, which is on no chain any more.
LEMMA LeftFrees ==
  ASSUME WaitInv, WaitInv', WaitLeft, NEW t \in Thread, NEW b \in Thread, AloneWith(t, b), b # t,
         bucket' = bucket, waitPc[t] \in {"release", "releaseAll"}, waitPc'[t] \in {"wakeList", "releaseAll"},
         waitPc'[t] = "wakeList" <=> waitPc[t] = "release",
         waitPc[b] \in {"kernel", "kernelAgain", "kernelLocked"},
         waitPc'[b] = "unlock" \/ waitPc'[b] = "idle",
         b \in Catch(t), Catch(t) \subseteq Catch(t)' \cup {b},
         waitPc'[b] = "unlock" => waitCall'[b] = waitCall[b], waitPc'[b] = "idle" => waitCall'[b] = Waits!NoCall,
         changed' \in [Thread -> BOOLEAN], \A u \in Thread : u # b => changed'[u] = changed[u]
  PROVE  WaitLeft'
  <1>1. PICK X : X = {b}
    OBVIOUS
  <1>2. \A x \in Thread : x # b => waitBack'[x] = waitBack[x]
    BY DEF AloneWith
  <1>3. Waits!List' = Waits!List
    <2>1. \A x \in Waits!List : x \in Thread /\ x # b
      BY Whereabouts DEF PlacesInv, Caught
    <2> QED BY <1>2, <2>1, ListSame
  <1>4. ASSUME NEW u \in Thread, u # t
        PROVE  Catch(u)' = Catch(u)
    <2>1. inHand'[u] = inHand[u] /\ HeadOf(u)' = HeadOf(u)
      <3>1. inHand'[u] = inHand[u] /\ LastWake'[u] = LastWake[u] /\ pItem'[u] = pItem[u]
        BY <1>4 DEF AloneWith
      <3>2. CASE u = b
        BY <3>1, <3>2 DEF Drains, HeadOf
      <3>3. CASE u # b
        BY <1>4, <3>1, <3>3 DEF Drains, HeadOf, AloneWith
      <3> QED BY <3>1, <3>2, <3>3
    <2>2. \A x \in Catch(u) : x \in Thread /\ x # b
      BY <1>4, Whereabouts DEF PlacesInv
    <2> QED BY <1>2, <2>1, <2>2, CatchSame
  <1>5. ~Listed(b)'
    BY DEF Listed, OnQueue, ToSet, ToRelease, Drains
  <1>6. ASSUME NEW x \in Thread, x # b
        PROVE  (Listed(x)' => Listed(x)) /\ (Left(x)' => Left(x))
    <2>1. CASE x = t
      BY <1>6, <2>1 DEF Listed, OnQueue, ToSet, ToRelease, Drains, AloneWith, Left
    <2>2. CASE x # t
      BY <1>6, <2>2 DEF Listed, OnQueue, ToSet, ToRelease, Drains, AloneWith, Left
    <2> QED BY <2>1, <2>2
  <1>7. \A u \in Thread : \A x \in Catch(u) : x \in X \/ Caught(x)'
    BY <1>1, <1>4 DEF Caught
  <1>8. Covers'
    BY <1>1, <1>3, <1>5, <1>6, <1>7, CoversStep DEF WaitLeft
  <1>9. ASSUME NEW u \in Thread
        PROVE  MoreAt(u)'
    <2>1. MoreAt(u)
      BY DEF WaitLeft
    <2>2. CASE u = b
      BY <2>1, <2>2, CallIs DEF MoreAt
    <2>3. CASE u # b /\ u = t
      BY <2>1, <2>3 DEF MoreAt, AloneWith
    <2>4. CASE u # b /\ u # t
      BY <2>1, <2>4 DEF MoreAt, AloneWith
    <2> QED BY <2>2, <2>3, <2>4
  <1> QED BY <1>8, <1>9 DEF WaitLeft

LEMMA LeftReleaseNext ==
  ASSUME WaitInv, WaitInv', WaitLeft, NEW t \in Thread, Waits!ReleaseNext(t)
  PROVE  WaitLeft'
  <1>1. /\ waitPc[t] = "release" /\ WaiterAt(t) /\ Drains(t) /\ OfWaiters /\ WaitLinks /\ WaitLinks' /\ BucketType
    BY Whereabouts, WhereaboutsNext DEF PlacesInv, Waits!ReleaseNext, WaitInv, OfWaiters, WaiterInv, Drains
  <1>2. PICK b : b = inHand[t]
    OBVIOUS
  <1>3. b \in Thread /\ b # Null /\ Hand(t) = {b}
    BY <1>1, <1>2 DEF WaiterAt, Fits, BucketType, Block, Hand
  <1>4. LastWake[t] \in Block /\ pItem[t] \in Block /\ Null \in Block
    BY <1>1 DEF BucketType, Block
  <1>5. /\ UNCHANGED <<bucket, waitCurrent, pBlock, pItem, LastWake>> /\ Waits!Release(t, b, "wakeList")
        /\ inHand' = [inHand EXCEPT ![t] = Null]
    BY <1>2 DEF Waits!ReleaseNext, Waits!owner
  <1>6. Frees(t, b, "wakeList", Null, LastWake[t], pItem[t])
    BY <1>1, <1>5 DEF Frees, BucketType
  <1>7. Fits("wakeList", waitCall[t], flag[t], Null, LastWake[t], pItem[t])
    BY <1>1 DEF WaiterAt, Fits, InWait, InSleep, InWake, InBoth
  <1>8. /\ AloneWith(t, b) /\ b # t
        /\ waitPc'[t] = "wakeList" /\ inHand'[t] = Null /\ pItem'[t] = pItem[t]
        /\ waitPc[b] \in {"kernel", "kernelAgain", "kernelLocked"}
        /\ waitPc'[b] = "unlock" \/ waitPc'[b] = "idle"
    BY <1>1, <1>3, <1>4, <1>6, <1>7, FreesIs
  <1>9. /\ waitPc'[b] = "unlock" => waitCall'[b] = waitCall[b]
        /\ waitPc'[b] = "idle" => waitCall'[b] = Waits!NoCall
        /\ changed' \in [Thread -> BOOLEAN] /\ \A u \in Thread : u # b => changed'[u] = changed[u]
    <2>1. PICK gone \in BOOLEAN : gone <=> waitPc[b] # "kernelLocked"
      OBVIOUS
    <2>2. /\ waitPc' = [waitPc EXCEPT ![t] = "wakeList", ![b] = IF gone THEN "idle" ELSE "unlock"]
          /\ waitCall' = [waitCall EXCEPT ![b] = IF gone THEN Waits!NoCall ELSE waitCall[b]]
          /\ changed' = [changed EXCEPT ![b] = IF gone THEN FALSE ELSE changed[b]]
      BY <1>5, <2>1 DEF Waits!Release, WaitLeft
    <2> QED BY <1>1, <1>3, <1>8, <2>2 DEF BucketType, WaitLeft
  <1>10. Catch(t) \subseteq Catch(t)' \cup {b} /\ b \in Catch(t)
    <2>1. PICK L \in SUBSET Thread, T \in [Thread -> SUBSET Thread], pos \in [Thread -> Nat], r \in [Thread -> Nat],
               m \in Block : WaitHolds(L, T, pos, r, m)
      BY DEF WaitInv, WaitHeld
    <2>2. Catch(t) = T[t] \cup {b} /\ Carries(T, r) /\ Disjoint(L, T)
      BY <1>1, <1>3, <2>1, HeldIs DEF WaitHolds
    <2>3. Ordered(waitBack, T[t], HeadOf(t), r) /\ b \notin T[t] /\ T[t] \subseteq Thread
      BY <1>2, <1>3, <2>2 DEF Carries, Disjoint
    <2>4. \A x \in T[t] : waitBack'[x] = waitBack[x]
      BY <1>8, <2>3 DEF AloneWith
    <2>5. HeadOf(t)' = HeadOf(t)
      BY <1>1, <1>8 DEF HeadOf, Drains
    <2>6. Ordered(waitBack', T[t], HeadOf(t)', r)
      BY <2>3, <2>4, <2>5, OrderedSame
    <2>7. Catch(t)' = T[t] \cup Hand(t)'
      BY <1>1, <2>6, CatchBecomes
    <2> QED BY <2>2, <2>7
  <1> QED BY <1>1, <1>3, <1>5, <1>8, <1>9, <1>10, LeftFrees

LEMMA LeftReleaseAll ==
  ASSUME WaitInv, WaitInv', WaitLeft, NEW t \in Thread, Waits!ReleaseAll(t), LastWake[t] # Null
  PROVE  WaitLeft'
  <1>1. /\ waitPc[t] = "releaseAll" /\ WaiterAt(t) /\ ~Drains(t) /\ OfWaiters /\ WaitLinks /\ WaitLinks' /\ BucketType
    BY Whereabouts, WhereaboutsNext DEF PlacesInv, Waits!ReleaseAll, WaitInv, OfWaiters, WaiterInv, Drains
  <1>2. PICK L \in SUBSET Thread, T \in [Thread -> SUBSET Thread], pos \in [Thread -> Nat], r \in [Thread -> Nat],
             m \in Block : WaitHolds(L, T, pos, r, m)
    BY DEF WaitInv, WaitHeld
  <1>3. PICK b : b = LastWake[t]
    OBVIOUS
  <1>4. HeadOf(t) = b /\ inHand[t] = Null /\ Hand(t) = {}
    BY <1>1, <1>3 DEF HeadOf, WaiterAt, Fits, Hand
  <1>5. b \in T[t] /\ b \in Thread /\ Ordered(waitBack, T[t], b, r) /\ T[t] \subseteq Thread /\ Catch(t) = T[t]
    <2>1. Carries(T, r) /\ Ordered(waitBack, T[t], b, r) /\ T[t] \subseteq Thread
      BY <1>2, <1>4 DEF WaitHolds, Carries, Ordered
    <2>2. b # Null
      BY <1>3
    <2>3. Catch(t) = T[t]
      BY <1>1, <1>2, <1>4, HeldIs DEF WaitHolds
    <2>4. b \in T[t]
      BY <2>1, <2>2 DEF Ordered
    <2> QED BY <2>1, <2>3, <2>4
  <1>6. PICK last : last = waitBack[b]
    OBVIOUS
  <1>7. last \in Block /\ pItem[t] \in Block /\ Null \in Block
    BY <1>1, <1>5, <1>6 DEF WaitLinks, BucketType, Block
  <1>8. /\ UNCHANGED <<bucket, waitCurrent, pBlock, pItem, inHand>> /\ Waits!Release(t, b, "releaseAll")
        /\ LastWake' = [LastWake EXCEPT ![t] = last]
    BY <1>3, <1>6 DEF Waits!ReleaseAll, Waits!owner
  <1>9. Frees(t, b, "releaseAll", Null, last, pItem[t])
    BY <1>1, <1>4, <1>8 DEF Frees, BucketType
  <1>10. Fits("releaseAll", waitCall[t], flag[t], Null, last, pItem[t])
    BY <1>1 DEF WaiterAt, Fits, InWait, InSleep, InWake, InBoth
  <1>11. /\ AloneWith(t, b) /\ b # t
         /\ waitPc'[t] = "releaseAll" /\ LastWake'[t] = last
         /\ waitPc[b] \in {"kernel", "kernelAgain", "kernelLocked"}
         /\ waitPc'[b] = "unlock" \/ waitPc'[b] = "idle"
    BY <1>1, <1>5, <1>7, <1>9, <1>10, FreesIs
  <1>12. /\ waitPc'[b] = "unlock" => waitCall'[b] = waitCall[b]
         /\ waitPc'[b] = "idle" => waitCall'[b] = Waits!NoCall
         /\ changed' \in [Thread -> BOOLEAN] /\ \A u \in Thread : u # b => changed'[u] = changed[u]
    <2>1. PICK gone \in BOOLEAN : gone <=> waitPc[b] # "kernelLocked"
      OBVIOUS
    <2>2. /\ waitPc' = [waitPc EXCEPT ![t] = "releaseAll", ![b] = IF gone THEN "idle" ELSE "unlock"]
          /\ waitCall' = [waitCall EXCEPT ![b] = IF gone THEN Waits!NoCall ELSE waitCall[b]]
          /\ changed' = [changed EXCEPT ![b] = IF gone THEN FALSE ELSE changed[b]]
      BY <1>8, <2>1 DEF Waits!Release, WaitLeft
    <2> QED BY <1>1, <1>5, <1>11, <2>2 DEF BucketType, WaitLeft
  <1>13. Catch(t) \subseteq Catch(t)' \cup {b}
    <2>1. Ordered(waitBack, T[t] \ {b}, waitBack[b], r)
      BY <1>1, <1>3, <1>5, OrderedPop DEF WaitLinks
    <2>2. \A x \in T[t] \ {b} : waitBack'[x] = waitBack[x]
      BY <1>5, <1>11 DEF AloneWith
    <2>3. HeadOf(t)' = waitBack[b]
      BY <1>6, <1>11 DEF HeadOf, Drains
    <2>4. Ordered(waitBack', T[t] \ {b}, HeadOf(t)', r)
      BY <2>1, <2>2, <2>3, OrderedSame
    <2>5. Catch(t)' = (T[t] \ {b}) \cup Hand(t)'
      BY <1>1, <2>4, CatchBecomes
    <2> QED BY <1>5, <2>5
  <1> QED BY <1>1, <1>5, <1>8, <1>11, <1>12, <1>13, LeftFrees

-----------------------------------------------------------------------------
(* Nobody waits on an address in vain.                                     *)

LEMMA LeftInit ==
  ASSUME Waits!Init
  PROVE  WaitLeft
  <1>1. WaitInv
    BY WaitInit
  <1>2. /\ bucket = Waits!Empty /\ waitPc = [t \in Thread |-> "idle"] /\ changed = [t \in Thread |-> FALSE]
        /\ waitCall = [t \in Thread |-> Waits!NoCall]
    BY DEF Waits!Init
  <1>3. \A t \in Thread : ~Listed(t) /\ MoreAt(t)
    BY <1>2, CallIs DEF Listed, OnQueue, ToSet, ToRelease, Drains, MoreAt
  <1>4. ~bucket.wakeAll
    BY <1>2 DEF Waits!Empty, Waits!Word
  <1>5. Waits!List = {}
    BY <1>1, <1>3, Whereabouts DEF PlacesInv, Listed
  <1> QED BY <1>2, <1>3, <1>4, <1>5 DEF WaitLeft, Covers

LEMMA LeftStutters ==
  ASSUME WaitInv, WaitInv', WaitLeft, UNCHANGED waitVars
  PROVE  WaitLeft'
  <1>1. UNCHANGED <<bucket, waitBack, flag, waitPc, waitCall, pItem, inHand, LastWake, changed>>
    BY DEF waitVars
  <1>2. Waits!List' = Waits!List
    BY <1>1, ListSame
  <1>3. \A t \in Thread : Catch(t)' = Catch(t)
    BY <1>1, CatchSame DEF HeadOf, Drains
  <1>4. \A b \in Thread : Caught(b)' <=> Caught(b)
    BY <1>3 DEF Caught
  <1>5. \A b : (Listed(b)' <=> Listed(b)) /\ (Left(b)' <=> Left(b)) /\ (MoreAt(b)' <=> MoreAt(b))
    BY <1>1 DEF Listed, OnQueue, ToSet, ToRelease, Drains, Left, MoreAt
  <1> QED BY <1>1, <1>2, <1>4, <1>5 DEF WaitLeft, Covers

LEMMA LeftStep ==
  ASSUME WaitInv, WaitInv', WaitLeft, NEW t \in Thread, Waits!Acts(t)
  PROVE  WaitLeft'
  <1>1. Waits!BeginWait(t) \/ Waits!BeginWake(t) \/ Waits!TimeOut(t) \/ Waits!Inside(t)
    BY DEF Waits!Acts
  <1>2. CASE Waits!BeginWait(t) \/ Waits!BeginWake(t) \/ Waits!TimeOut(t)
    BY <1>2, LeftBeginWait, LeftBeginWake, LeftTimesOut
  <1>3. CASE Waits!Add(t) \/ Waits!Look(t) \/ Waits!Compare(t) \/ Waits!NotFound(t) \/ Waits!Scanned(t)
    BY <1>3, LeftAdd, LeftLook, LeftCompare, LeftNotFound, LeftScanned
  <1>4. CASE Waits!Optimize(t)
    BY <1>4, LeftOptimizeStays, LeftOptimizeWakes
  <1>5. CASE Waits!Spin(t) \/ Waits!Rejoin(t)
    BY <1>5, LeftSpinEnds, LeftSpinReturns, LeftRejoinSpins, LeftRejoinReturns
  <1>6. CASE Waits!RemoveWaitBlock(t)
    BY <1>6, LeftRemoveAsks, LeftRemoveFinds, LeftRemoveCuts
  <1>7. CASE Waits!RemoveNewest(t)
    BY <1>7, LeftRemoveNewestAgain, LeftRemoveNewestCuts, LeftRemoveLast, LeftRemoveNewestLeaves
  <1>8. CASE Waits!UnlockList(t) \/ Waits!Wake(t)
    BY <1>8, LeftUnlockWakes, LeftUnlockReturns, LeftWakeLeaves, LeftWakeLocks
  <1>9. CASE Waits!WakeNext(t)
    BY <1>9, LeftWakeNext, LeftWakeListStays, LeftWakeListReturns
  <1>10. CASE Waits!HoldOlder(t) \/ Waits!HoldNewest(t) \/ Waits!Take(t) \/ Waits!ReleaseNext(t)
    BY <1>10, LeftHoldOlder, LeftHoldNewest, LeftHoldAgain, LeftTake, LeftReleaseNext
  <1>11. CASE Waits!ReleaseAll(t)
    BY <1>11, LeftReleaseAll, LeftReleaseAllUnlocks, LeftReleaseAllReturns
  <1> QED BY <1>1, <1>2, <1>3, <1>4, <1>5, <1>6, <1>7, <1>8, <1>9, <1>10, <1>11 DEF Waits!Inside

\* Whoever waits on an address is on the list or with a waker, and if its timeout will not wake it
\* the owner of the list has been asked to (synch.hpp:971-1096, 1134-1156, 1194-1303), as long as no
\* missed release has met another wait.
THEOREM WaitsLeft == SleepersSpec => []((BelowVista /\ misled) \/ WaitLeft)
  <1>1. SleepersInit => WaitLeft
    BY LeftInit DEF SleepersInit
  <1>2. /\ Sound /\ Sound' /\ ((BelowVista /\ misled) \/ WaitLeft)
        /\ [SleepersNext]_<<part, vars, late, waitVars>>
        => ((BelowVista /\ misled) \/ WaitLeft)'
    <2> SUFFICES ASSUME Sound, Sound', (BelowVista /\ misled) \/ WaitLeft, ~(BelowVista /\ misled'),
                        [SleepersNext]_<<part, vars, late, waitVars>>
                 PROVE  WaitLeft'
      OBVIOUS
    <2>1. WaitInv'
      BY DEF Sound
    <2>2. CASE Next /\ UNCHANGED <<part, waitVars>>
      <3>1. WaitInv /\ WaitLeft
        BY <2>2, NextActs DEF Sound
      <3> QED BY <2>1, <2>2, <3>1, LeftStutters
    <2>3. CASE Waits!Next /\ UNCHANGED part /\ part = "address"
      <3>1. WaitInv /\ WaitLeft /\ (misled' \/ \E t \in Thread : Waits!Acts(t))
        BY <2>3, WaitsNextActs DEF Sound
      <3>2. misled' => BelowVista
        BY <2>3, WaitsNextActs, MisledBelow DEF Sound
      <3> QED BY <2>1, <3>1, <3>2, LeftStep
    <2>4. CASE UNCHANGED <<part, vars, late, waitVars>>
      <3>1. WaitInv /\ WaitLeft
        BY <2>4 DEF Sound, late
      <3> QED BY <2>1, <2>4, <3>1, LeftStutters
    <2> QED BY <2>2, <2>3, <2>4 DEF SleepersNext
  <1> QED BY <1>1, <1>2, WaitsInvariance, PTL DEF SleepersSpec

LEMMA NobodyWaitsInVain ==
  ASSUME WaitInv, WaitLeft
  PROVE  Waits!NobodyStuck
  <1> SUFFICES ASSUME \A t \in Thread : Waits!Rests(t)
               PROVE  \A t \in Thread : \/ waitPc[t] = "idle"
                                        \/ waitPc[t] = "kernel" /\ ~changed[t] /\ ~Waits!Due(t)
    BY DEF Waits!NobodyStuck
  <1>1. PlacesInv /\ OfWaiters /\ \A t \in Thread : WaiterAt(t) /\ MoreAt(t)
    BY Whereabouts DEF WaitInv, OfWaiters, WaiterInv, WaitLeft
  <1>2. ASSUME NEW t \in Thread
        PROVE  waitPc[t] \in {"idle", "kernel", "kernelAgain", "kernelLocked"}
    <2>1. CASE waitPc[t] = "release"
      <3>1. Drains(t) /\ inHand[t] \in Hand(t)
        BY <1>1, <2>1 DEF Drains, WaiterAt, Fits, Hand
      <3>2. ToRelease(inHand[t])
        BY <1>1, <3>1 DEF PlacesInv
      <3> QED BY <2>1, <3>2 DEF ToRelease, Waits!Rests, Waits!Asleep
    <2>2. CASE waitPc[t] = "releaseAll"
      <3>1. PICK b : b = LastWake[t]
        OBVIOUS
      <3>2. ~Drains(t) /\ HeadOf(t) = b /\ b # Null /\ b \in Thread
        BY <1>1, <2>2, <3>1 DEF Drains, HeadOf, Waits!Rests, Waits!Asleep, OfWaiters, BucketType, Block
      <3>3. b \in Waits!Behind(HeadOf(t))
        BY <3>2, FollowFirst, WaitFollow
      <3>4. ToRelease(b)
        BY <1>1, <3>2, <3>3 DEF PlacesInv
      <3> QED BY <2>2, <3>1, <3>4 DEF ToRelease, Waits!Rests, Waits!Asleep
    <2> QED BY <2>1, <2>2 DEF Waits!Rests, Waits!Asleep
  <1>3. ASSUME NEW t \in Thread
        PROVE  inHand[t] = Null /\ LastWake[t] = Null /\ HeadOf(t) = Null /\ Catch(t) = {}
    <2>1. inHand[t] = Null /\ LastWake[t] = Null /\ HeadOf(t) = Null
      BY <1>1, <1>2 DEF WaiterAt, Fits, HeadOf, Drains
    <2> QED BY <1>1, <2>1 DEF PlacesInv, Catch, Hand
  <1>4. \A b \in Thread : Listed(b) => b \in Waits!List /\ OnQueue(b)
    BY <1>1, <1>3 DEF WaitLeft, Covers, Caught, PlacesInv
  <1>5. ~bucket.wakeAll
    <2>1. \A t \in Thread : waitPc[t] # "kernelLocked"
      BY <1>1, <1>4 DEF MoreAt, Listed, ToSet, ToRelease, OnQueue
    <2>2. \A t \in Thread : ~Locks(t)
      BY <1>2, <2>1 DEF Locks
    <2> QED BY <1>1, <2>2 DEF WaitLeft, OfWaiters, LocksInv
  <1>6. ASSUME NEW t \in Thread, waitPc[t] # "idle"
        PROVE  waitPc[t] = "kernel" /\ ~changed[t] /\ ~Waits!Due(t)
    <2>1. waitPc[t] = "kernel" /\ flag[t] # Waits!Woken
      BY <1>1, <1>2, <1>4, <1>6 DEF MoreAt, Listed, ToSet, ToRelease, OnQueue
    <2>2. t \in Waits!List
      BY <1>4, <2>1 DEF Listed, OnQueue
    <2>3. waitCall[t].timed
      BY <1>5, <2>1, <2>2 DEF WaitLeft, Covers, Left
    <2>4. ~changed[t]
      BY <1>1, <2>1, <2>3 DEF MoreAt
    <2>5. \A u \in Thread : t \notin Waits!Taken(u)
      <3>1. Waits!Behind(Null) = {}
        BY WaitFollow, FollowNone
      <3> QED BY <1>2, <1>3, <3>1 DEF Waits!Taken
    <2> QED BY <1>5, <2>1, <2>4, <2>5 DEF Waits!Due
  <1> QED BY <1>6

\* In every behaviour of WaitOnAddress and WakeByAddressSingle/All, for any number of threads and addresses:
\* once no call can take a step (src/Thunks/api-ms-win-core-synch.hpp:858-1303), no thread is left waiting
\* that a wake-up was for, and none waits although its address has changed since and a caller has said so,
\* unless a release has been missed (154-168, 189-190).
THEOREM WaitsNobodyStuck == SleepersSpec => []Waits!NobodyStuck
  <1>1. Sound /\ ((BelowVista /\ misled) \/ WaitLeft) => Waits!NobodyStuck
    <2>1. misled => Waits!NobodyStuck
      BY DEF Waits!NobodyStuck, Waits!Missed
    <2> QED BY <2>1, NobodyWaitsInVain DEF Sound
  <1> QED BY <1>1, WaitsInvariance, WaitsLeft, PTL

-----------------------------------------------------------------------------
(* Every wake-up reaches those it is for: whoever it has not reached yet   *)
(* still waits at its address, and its walk over the list, which goes from *)
(* the oldest block to newer ones, has that thread's block ahead of it.    *)

Late == {"releaseAll", "unlock", "wakeList", "release"}

\* w waits at the address t wakes, and nobody has woken it yet.
Seeks(t, w) ==
  /\ waitCall[t] \in Waking1 /\ waitCall[w] \in Waiting
  /\ waitCall[w].address = waitCall[t].address
  /\ waitPc[w] \in {"spin", "kernel"} /\ flag[w] # Waits!Woken

\* The walk of t has not left it behind on the list.
Passed(t, w) ==
  /\ waitPc[t] \in {"scan", "take"} /\ w \in Waits!List => w \in Waits!Ahead(pItem[t])
  /\ waitPc[t] \in Late => w \notin Waits!List

\* What a waker has in hand waits at its address.
Wanted(t) ==
  waitPc[t] = "take" => waitCall[inHand[t]] \in Waiting /\ waitCall[inHand[t]].address = waitCall[t].address

ReachInv ==
  /\ unreached \in [Thread -> SUBSET Thread]
  /\ \A t \in Thread : \A w \in unreached[t] : Seeks(t, w) /\ Passed(t, w)
  /\ \A t \in Thread : Wanted(t)

-----------------------------------------------------------------------------
(* What t finds is on the list, and what is written there.                 *)

LEMMA ListFacts ==
  ASSUME WaitInv
  PROVE  /\ OfWaiters /\ WaitLinks /\ Waits!List \in SUBSET Thread
         /\ bucket.block # Null => bucket.block \in Waits!List
         /\ \A y \in Waits!List : waitBack[y] # Null => waitBack[y] \in Waits!List
         /\ \A y \in Waits!List : OnQueue(y) /\ ~Caught(y)
  <1>1. PlacesInv
    BY Whereabouts
  <1>2. Waits!List = Follow(waitBack, bucket.block)
    BY WaitFollow DEF Waits!List
  <1>3. bucket.block # Null => bucket.block \in Thread
    BY <1>1 DEF PlacesInv, OfWaiters, BucketType, Buckets, Block
  <1>4. waitBack \in [Thread -> Block]
    BY <1>1 DEF PlacesInv, WaitLinks
  <1>5. Waits!List \in SUBSET Thread /\ Closed(waitBack, Waits!List)
    BY <1>2, <1>4, FollowThreads, FollowClosed
  <1>6. bucket.block # Null => bucket.block \in Waits!List
    BY <1>2, <1>3, FollowFirst
  <1> QED BY <1>1, <1>5, <1>6 DEF PlacesInv, Closed

LEMMA BehindListed ==
  ASSUME WaitInv, NEW h \in Waits!List
  PROVE  Waits!Behind(h) \subseteq Waits!List
  <1>1. Closed(waitBack, Waits!List) /\ Waits!List \in SUBSET Thread
    BY ListFacts DEF Closed
  <1>2. Follow(waitBack, h) \subseteq Waits!List
    BY <1>1, FollowLeast
  <1> QED BY <1>2, WaitFollow

\* Links that lead nowhere else than before keep the list within S.
LEMMA ListWithin ==
  ASSUME NEW S \in SUBSET Thread, bucket'.block # Null => bucket'.block \in S,
         \A y \in S : waitBack'[y] # Null => waitBack'[y] \in S
  PROVE  Waits!List' \subseteq S
  <1>1. PICK link, h : link = waitBack' /\ h = bucket'.block
    OBVIOUS
  <1>2. Closed(link, S)
    BY <1>1 DEF Closed
  <1>3. Follow(link, h) \subseteq S
    BY <1>1, <1>2, FollowLeast
  <1> QED BY <1>1, <1>3 DEF Waits!List, Waits!Behind, Waits!Follow, Follow

LEMMA ScanAhead ==
  ASSUME WaitInv, NEW t \in Thread, waitPc[t] \in {"scan", "take"}
  PROVE  Waits!Ahead(pItem[t]) \subseteq Waits!List /\ (pItem[t] # Null => Locks(t))
  <1>1. PICK L \in SUBSET Thread, T \in [Thread -> SUBSET Thread], pos \in [Thread -> Nat], r \in [Thread -> Nat],
             m \in Block : WaitHolds(L, T, pos, r, m)
    BY DEF WaitInv, WaitHeld
  <1>2. WaitLinks /\ Queued(L, pos, m) /\ Fit(L, pos, m)
    BY <1>1 DEF WaitHolds
  <1>3. Waits!List = L
    BY <1>2, QueueIs
  <1>4. CASE pItem[t] = Null
    BY <1>4, FollowNone, WaitFollow
  <1>5. CASE pItem[t] # Null
    <2>1. Locks(t) /\ pItem[t] \in L /\ pos[pItem[t]] <= pos[m]
      BY <1>2, <1>5 DEF Fit, FitAt
    <2>2. PICK p : p = pItem[t]
      OBVIOUS
    <2>3. Follow(waitNotify, p) = Between(L, pos, p, m)
      BY <1>2, <2>1, <2>2, AheadIs DEF WaitLinks, Queued
    <2> QED BY <1>3, <2>1, <2>2, <2>3, WaitFollow DEF Between
  <1> QED BY <1>4, <1>5

\* A thread that is nowhere on the list.
LEMMA NotListed ==
  ASSUME WaitInv, NEW t \in Thread, ~OnQueue(t) \/ Caught(t)
  PROVE  t \notin Waits!List
  BY ListFacts


\* The word and the links lead nowhere but to blocks on the list.
StaysListed ==
  /\ bucket'.block \in {bucket.block, Null} \cup Waits!List
  /\ \A y \in Waits!List : waitBack'[y] \in {waitBack[y], Null} \cup Waits!List

LEMMA ListShrinks ==
  ASSUME WaitInv, StaysListed
  PROVE  Waits!List' \subseteq Waits!List
  <1>1. Waits!List \in SUBSET Thread /\ (bucket.block # Null => bucket.block \in Waits!List)
        /\ \A y \in Waits!List : waitBack[y] # Null => waitBack[y] \in Waits!List
    BY ListFacts
  <1>2. PICK S : S = Waits!List
    OBVIOUS
  <1>3. Waits!List' \subseteq S
    BY <1>1, <1>2, ListWithin DEF StaysListed
  <1> QED BY <1>2, <1>3

LEMMA StaysUnlinked ==
  ASSUME WaitInv, NEW t \in Thread, NEW h \in Waits!List, NEW n, Waits!Unlink(h, t, n)
  PROVE  \A y \in Waits!List : waitBack'[y] \in {waitBack[y], Null} \cup Waits!List
  <1>1. /\ \A y \in Waits!List : y \in Thread /\ (waitBack[y] # Null => waitBack[y] \in Waits!List)
        /\ t # Null
    BY ListFacts, NullIsNoThread
  <1>2. waitBack' = [b \in Thread |->
          IF b \in Waits!Behind(h) \ {t} /\ waitBack[b] = t THEN waitBack[t] ELSE waitBack[b]]
    BY DEF Waits!Unlink
  <1>3. ASSUME NEW y \in Waits!List
        PROVE  waitBack'[y] \in {waitBack[y], Null} \cup Waits!List
    <2>1. waitBack'[y] = waitBack[y] \/ (waitBack[y] = t /\ waitBack'[y] = waitBack[t])
      BY <1>1, <1>2
    <2> QED BY <1>1, <2>1
  <1> QED BY <1>3

\* Steps that write no link to an older block but their own, which leads nowhere then.
LEMMA StaysPlain ==
  ASSUME WaitInv, NEW t \in Thread,
         Waits!BeginWait(t) \/ Waits!BeginWake(t) \/ Waits!TimeOut(t) \/ Waits!Look(t) \/ Waits!Compare(t)
         \/ Waits!NotFound(t) \/ Waits!Scanned(t) \/ Waits!Optimize(t) \/ Waits!Spin(t) \/ Waits!Rejoin(t)
         \/ Waits!UnlockList(t) \/ Waits!Wake(t) \/ Waits!WakeNext(t)
  PROVE  StaysListed
  <1>1. /\ BucketType /\ WaitLinks /\ Waits!List \in SUBSET Thread
        /\ \A w \in Buckets : [w EXCEPT !.locked = TRUE].block = w.block /\ [w EXCEPT !.locked = FALSE].block = w.block
        /\ \A w \in Buckets, a \in BOOLEAN : [w EXCEPT !.wakeAll = a].block = w.block
        /\ Waits!Empty.block = Null /\ bucket.locked \in BOOLEAN
    BY ListFacts, BucketIs, BucketNew DEF OfWaiters, BucketType, Buckets
  <1>2. CASE Waits!BeginWait(t) \/ Waits!BeginWake(t) \/ Waits!TimeOut(t) \/ Waits!Look(t) \/ Waits!Compare(t)
             \/ Waits!NotFound(t) \/ Waits!Scanned(t)
    <2>1. UNCHANGED <<bucket, waitBack>>
      BY <1>2 DEF Waits!BeginWait, Waits!BeginWake, Waits!TimeOut, Waits!Look, Waits!Compare, Waits!NotFound,
         Waits!Scanned, Waits!block, Waits!links
    <2> QED BY <2>1 DEF StaysListed
  <1>3. ASSUME waitBack' = waitBack \/ Waits!Reset(t)
        PROVE  \A y \in Waits!List : waitBack'[y] \in {waitBack[y], Null} \cup Waits!List
    BY <1>1, <1>3 DEF Waits!Reset, WaitLinks
  <1>4. CASE Waits!Optimize(t)
    <2>1. waitBack' = waitBack /\ bucket'.block \in {bucket.block, Null}
      BY <1>1, <1>4 DEF Waits!Optimize, Waits!Unlock, BucketType
    <2> QED BY <1>3, <2>1 DEF StaysListed
  <1>5. CASE Waits!Spin(t) \/ Waits!Rejoin(t)
    <2>1. bucket' = bucket /\ (waitBack' = waitBack \/ Waits!Reset(t))
      BY <1>5 DEF Waits!Spin, Waits!Rejoin, Waits!Return, Waits!links
    <2> QED BY <1>3, <2>1 DEF StaysListed
  <1>6. CASE Waits!UnlockList(t)
    <2>1. bucket'.block \in {bucket.block, Null}
      BY <1>1, <1>6 DEF Waits!UnlockList, Waits!Unlock, BucketType
    <2>2. waitBack' = waitBack \/ Waits!Reset(t)
      BY <1>6 DEF Waits!UnlockList, Waits!Unlock, Waits!Return, Waits!block, Waits!links
    <2> QED BY <1>3, <2>1, <2>2 DEF StaysListed
  <1>7. CASE Waits!Wake(t)
    <2>1. bucket'.block = bucket.block
      <3>1. \/ bucket' = [bucket EXCEPT !.wakeAll = bucket.locked]
            \/ bucket' = [bucket EXCEPT !.locked = TRUE]
        BY <1>7 DEF Waits!Wake
      <3> QED BY <1>1, <3>1 DEF BucketType
    <2>2. waitBack' = waitBack \/ Waits!Reset(t)
      BY <1>7 DEF Waits!Wake, Waits!Return, Waits!BeginScan
    <2> QED BY <1>3, <2>1, <2>2 DEF StaysListed
  <1>8. CASE Waits!WakeNext(t)
    <2>1. bucket' = bucket
      BY <1>8 DEF Waits!WakeNext
    <2>2. waitBack' = waitBack \/ Waits!Reset(t)
      BY <1>8 DEF Waits!WakeNext, Waits!Return, Waits!block, Waits!links
    <2> QED BY <1>3, <2>1, <2>2 DEF StaysListed
  <1> QED BY <1>2, <1>4, <1>5, <1>6, <1>7, <1>8

\* What a waker is about to set or to release is with it.
LEMMA InCatch ==
  ASSUME WaitInv, NEW t \in Thread
  PROVE  /\ inHand[t] # Null => inHand[t] \in Thread /\ Caught(inHand[t])
         /\ ~Drains(t) /\ LastWake[t] # Null => LastWake[t] \in Thread /\ Caught(LastWake[t])
  <1>1. inHand[t] \in Block /\ LastWake[t] \in Block
    BY ListFacts DEF OfWaiters, BucketType
  <1>2. ASSUME ~Drains(t), LastWake[t] # Null
        PROVE  LastWake[t] \in Waits!Behind(HeadOf(t))
    <2>1. HeadOf(t) = LastWake[t] /\ LastWake[t] \in Thread
      BY <1>1, <1>2 DEF HeadOf, Block
    <2> QED BY <2>1, FollowFirst, WaitFollow
  <1> QED BY <1>1, <1>2 DEF Caught, Catch, Hand, Block

LEMMA StaysReleased ==
  ASSUME WaitInv, NEW t \in Thread, NEW b \in Thread, NEW p, Waits!Release(t, b, p), bucket' = bucket
  PROVE  StaysListed
  <1>1. waitBack' = waitBack \/ waitBack' = [waitBack EXCEPT ![b] = Null]
    BY DEF Waits!Release, Waits!Reset, Waits!block, Waits!links
  <1>2. \A y \in Waits!List : waitBack'[y] \in {waitBack[y], Null}
    BY <1>1, ListFacts DEF WaitLinks
  <1> QED BY <1>2 DEF StaysListed

LEMMA StaysWoken ==
  ASSUME WaitInv, NEW t \in Thread, Waits!Take(t) \/ Waits!ReleaseNext(t) \/ Waits!ReleaseAll(t)
  PROVE  StaysListed
  <1>1. WaitLinks /\ OfWaiters /\ WaiterAt(t) /\ \A y \in Waits!List : y \in Thread /\ ~Caught(y)
    BY ListFacts DEF OfWaiters, WaiterInv
  <1>2. CASE Waits!Take(t)
    <2>1. inHand[t] # Null
      BY <1>1, <1>2 DEF Waits!Take, WaiterAt, Fits
    <2>2. inHand[t] \in Thread /\ inHand[t] \notin Waits!List
      BY <1>1, <2>1, InCatch
    <2>3. bucket' = bucket /\ waitBack' = [waitBack EXCEPT ![inHand[t]] = IF flag[inHand[t]] = Waits!Kernel THEN LastWake[t] ELSE @]
      BY <1>2 DEF Waits!Take
    <2>4. \A y \in Waits!List : waitBack'[y] = waitBack[y]
      BY <1>1, <2>2, <2>3 DEF WaitLinks
    <2> QED BY <2>3, <2>4 DEF StaysListed
  <1>3. CASE Waits!ReleaseNext(t)
    <2>1. inHand[t] # Null
      BY <1>1, <1>3 DEF Waits!ReleaseNext, WaiterAt, Fits
    <2>2. inHand[t] \in Thread
      BY <2>1, InCatch
    <2>3. Waits!Release(t, inHand[t], "wakeList") /\ bucket' = bucket
      BY <1>3 DEF Waits!ReleaseNext
    <2> QED BY <2>2, <2>3, StaysReleased
  <1>4. CASE Waits!ReleaseAll(t) /\ LastWake[t] # Null
    <2>1. ~Drains(t)
      BY <1>4 DEF Waits!ReleaseAll, Drains
    <2>2. LastWake[t] \in Thread
      BY <1>4, <2>1, InCatch
    <2>3. Waits!Release(t, LastWake[t], "releaseAll") /\ bucket' = bucket
      BY <1>4 DEF Waits!ReleaseAll
    <2> QED BY <2>2, <2>3, StaysReleased
  <1>5. CASE Waits!ReleaseAll(t) /\ LastWake[t] = Null
    <2>1. bucket' = bucket /\ (waitBack' = waitBack \/ Waits!Reset(t))
      BY <1>5 DEF Waits!ReleaseAll, Waits!Return, Waits!block, Waits!links
    <2>2. \A y \in Waits!List : waitBack'[y] \in {waitBack[y], Null}
      BY <1>1, <2>1 DEF Waits!Reset, WaitLinks
    <2> QED BY <2>1, <2>2 DEF StaysListed
  <1> QED BY <1>2, <1>3, <1>4, <1>5

\* A thread takes its own block off.
LEMMA StaysRemoved ==
  ASSUME WaitInv, NEW t \in Thread, Waits!RemoveWaitBlock(t) \/ Waits!RemoveNewest(t)
  PROVE  StaysListed
  <1>1. /\ BucketType /\ WaitLinks /\ LocksInv /\ Waits!List \in SUBSET Thread
        /\ (bucket.block # Null => bucket.block \in Waits!List)
        /\ \A y \in Waits!List : waitBack[y] # Null => waitBack[y] \in Waits!List
    BY ListFacts DEF OfWaiters
  <1>2. \A w \in Buckets : [w EXCEPT !.locked = TRUE].block = w.block
    BY BucketLocked
  <1>3. CASE Waits!RemoveWaitBlock(t) /\ (bucket.block = Null \/ bucket.locked)
    <2>1. bucket' = [bucket EXCEPT !.wakeAll = bucket.locked] /\ waitBack' = waitBack
      BY <1>3 DEF Waits!RemoveWaitBlock, Waits!block, Waits!links
    <2>2. bucket'.block = bucket.block
      BY <1>1, <2>1, BucketIs DEF BucketType
    <2> QED BY <2>1, <2>2 DEF StaysListed
  <1>4. CASE Waits!RemoveWaitBlock(t) /\ ~(bucket.block = Null \/ bucket.locked)
    <2>1. bucket' = [bucket EXCEPT !.locked = TRUE]
          /\ (waitBack' = waitBack \/ Waits!Unlink(bucket.block, t, waitNotify[bucket.block]))
      BY <1>4 DEF Waits!RemoveWaitBlock, Waits!block, Waits!links
    <2>2. bucket'.block = bucket.block
      BY <1>1, <1>2, <2>1 DEF BucketType
    <2>3. PICK h, n : h = bucket.block /\ n = waitNotify[bucket.block]
      OBVIOUS
    <2>4. h \in Waits!List
      BY <1>1, <1>4, <2>3
    <2>5. Waits!Unlink(h, t, n) => \A y \in Waits!List : waitBack'[y] \in {waitBack[y], Null} \cup Waits!List
      BY <2>4, StaysUnlinked
    <2> QED BY <2>1, <2>2, <2>3, <2>5 DEF StaysListed
  <1>5. CASE Waits!RemoveNewest(t) /\ bucket # waitCurrent
    <2>1. bucket' = bucket /\ (waitBack' = waitBack \/ Waits!Unlink(bucket.block, t, waitNotify[bucket.block]))
      BY <1>5 DEF Waits!RemoveNewest, Waits!links
    <2>2. PICK h, n : h = bucket.block /\ n = waitNotify[bucket.block]
      OBVIOUS
    <2>3. h \in Waits!List
      <3>1. Locks(t)
        BY <1>5 DEF Waits!RemoveNewest, Locks
      <3> QED BY <1>1, <2>2, <3>1 DEF LocksInv
    <2>4. Waits!Unlink(h, t, n) => \A y \in Waits!List : waitBack'[y] \in {waitBack[y], Null} \cup Waits!List
      BY <2>3, StaysUnlinked
    <2> QED BY <2>1, <2>2, <2>4 DEF StaysListed
  <1>6. CASE Waits!RemoveNewest(t) /\ bucket = waitCurrent
    <2>1. bucket.block = t /\ t \in Waits!List
      <3>1. bucket.block = t
        BY <1>1, <1>6 DEF Waits!RemoveNewest, LocksInv
      <3> QED BY <1>1, <3>1, NullIsNoThread
    <2>2. PICK rest : rest = waitBack[t]
      OBVIOUS
    <2>3. CASE rest = Null
      <3>1. bucket' = Waits!Empty /\ Waits!Reset(t)
        BY <1>6, <2>2, <2>3 DEF Waits!RemoveNewest, Waits!Return
      <3>2. \A y \in Waits!List : waitBack'[y] \in {waitBack[y], Null}
        BY <1>1, <3>1 DEF Waits!Reset, WaitLinks
      <3> QED BY <3>1, <3>2, BucketNew DEF StaysListed
    <2>4. CASE rest # Null
      <3>1. bucket' = [bucket EXCEPT !.block = rest] /\ Waits!Unlink(rest, t, Null) /\ rest \in Waits!List
        BY <1>1, <1>6, <2>1, <2>2, <2>4 DEF Waits!RemoveNewest
      <3>2. bucket'.block = rest
        BY <1>1, <3>1, BucketIs DEF BucketType, Block
      <3>3. \A y \in Waits!List : waitBack'[y] \in {waitBack[y], Null} \cup Waits!List
        BY <3>1, StaysUnlinked
      <3> QED BY <3>1, <3>2, <3>3 DEF StaysListed
    <2> QED BY <2>3, <2>4
  <1> QED BY <1>3, <1>4, <1>5, <1>6

\* A waker takes one it has met off the list.
LEMMA StaysHeld ==
  ASSUME WaitInv, NEW t \in Thread, Waits!HoldOlder(t) \/ Waits!HoldNewest(t)
  PROVE  StaysListed
  <1>1. /\ BucketType /\ WaitLinks /\ OfWaiters /\ Waits!List \in SUBSET Thread
        /\ (bucket.block # Null => bucket.block \in Waits!List)
        /\ \A y \in Waits!List : waitBack[y] # Null => waitBack[y] \in Waits!List
    BY ListFacts DEF OfWaiters
  <1>2. PICK L \in SUBSET Thread, T \in [Thread -> SUBSET Thread], pos \in [Thread -> Nat], r \in [Thread -> Nat],
             m \in Block : WaitHolds(L, T, pos, r, m)
    BY DEF WaitInv, WaitHeld
  <1>3. PICK f : f = Waits!First(t)
    OBVIOUS
  <1>4. f \in Waits!List /\ pBlock \in Waits!List
    <2>1. Meets(t, L, pos, m, f)
      BY <1>1, <1>2, <1>3, ScanMeets DEF Waits!HoldOlder, Waits!HoldNewest
    <2>2. Waits!List = L /\ m \in L
      BY <1>2, <2>1, QueueIs DEF WaitHolds, Meets
    <2> QED BY <2>1, <2>2 DEF Meets
  <1>5. CASE Waits!HoldOlder(t)
    <2>1. bucket' = bucket /\ waitBack' = [waitBack EXCEPT ![waitNotify[f]] = waitBack[f]]
      BY <1>3, <1>5 DEF Waits!HoldOlder
    <2>2. \A y \in Waits!List : waitBack'[y] \in {waitBack[y], waitBack[f]}
      BY <1>1, <2>1 DEF WaitLinks
    <2>3. waitBack[f] \in {Null} \cup Waits!List
      BY <1>1, <1>4
    <2> QED BY <2>1, <2>2, <2>3 DEF StaysListed
  <1>6. CASE Waits!HoldNewest(t) /\ bucket # waitCurrent
    <2>1. bucket' = bucket /\ waitBack' = waitBack
      BY <1>6 DEF Waits!HoldNewest, Waits!BeginScan
    <2> QED BY <2>1 DEF StaysListed
  <1>7. CASE Waits!HoldNewest(t) /\ bucket = waitCurrent
    <2>1. PICK older : older = waitBack[pBlock]
      OBVIOUS
    <2>2. bucket' = (IF older = Null THEN Waits!Empty ELSE [bucket EXCEPT !.block = older]) /\ waitBack' = waitBack
      BY <1>7, <2>1 DEF Waits!HoldNewest
    <2>3. older \in {Null} \cup Waits!List
      BY <1>1, <1>4, <2>1
    <2>4. bucket'.block = older
      BY <1>1, <2>2, <2>3, BucketNew, BucketIs DEF BucketType, Block
    <2> QED BY <2>2, <2>3, <2>4 DEF StaysListed
  <1> QED BY <1>5, <1>6, <1>7

\* One more comes on top.
LEMMA OneMore ==
  ASSUME WaitInv, NEW t \in Thread, Waits!Add(t)
  PROVE  Waits!List' \subseteq Waits!List \cup {t}
  <1>1. /\ BucketType /\ WaitLinks /\ Waits!List \in SUBSET Thread
        /\ (bucket.block # Null => bucket.block \in Waits!List)
        /\ \A y \in Waits!List : waitBack[y] # Null => waitBack[y] \in Waits!List
    BY ListFacts DEF OfWaiters
  <1>2. waitBack' = [waitBack EXCEPT ![t] = bucket.block] /\ bucket'.block = t
    BY DEF Waits!Add, Waits!Word
  <1>3. PICK S : S = Waits!List \cup {t}
    OBVIOUS
  <1>4. S \in SUBSET Thread /\ bucket'.block \in S
    BY <1>1, <1>2, <1>3
  <1>5. \A y \in S : waitBack'[y] # Null => waitBack'[y] \in S
    BY <1>1, <1>2, <1>3 DEF WaitLinks
  <1>6. Waits!List' \subseteq S
    BY <1>4, <1>5, ListWithin
  <1> QED BY <1>3, <1>6

Steps(t) == Waits!BeginWait(t) \/ Waits!BeginWake(t) \/ Waits!TimeOut(t) \/ Waits!Inside(t)

LEMMA ListGrows ==
  ASSUME WaitInv, NEW t \in Thread, Steps(t), NEW w \in Waits!List'
  PROVE  w \in Waits!List \/ (w = t /\ waitPc[t] = "add")
  <1>1. CASE Waits!Add(t)
    BY <1>1, OneMore DEF Waits!Add
  <1>2. CASE ~Waits!Add(t)
    <2>1. StaysListed
      BY <1>2, StaysPlain, StaysWoken, StaysRemoved, StaysHeld DEF Steps, Waits!Inside
    <2> QED BY <2>1, ListShrinks
  <1> QED BY <1>1, <1>2


\* The links to newer blocks belong to the owner of the list.
LEMMA NotifyReset ==
  ASSUME WaitInv, NEW b \in Thread, ~OnQueue(b) \/ Caught(b), Waits!Reset(b)
  PROVE  \A y \in Waits!List : waitNotify'[y] = waitNotify[y]
  <1>1. b \notin Waits!List
    BY NotListed
  <1> QED BY <1>1, ListFacts DEF Waits!Reset, WaitLinks

LEMMA NotifyKept ==
  ASSUME WaitInv, NEW t \in Thread, bucket.locked, ~Locks(t), Steps(t)
  PROVE  \A y \in Waits!List : waitNotify'[y] = waitNotify[y]
  <1> DEFINE Kept == \A y \in Waits!List : waitNotify'[y] = waitNotify[y]
  <1>1. OfWaiters /\ WaitLinks /\ WaiterAt(t) /\ flag[t] \in {0, 1, 2, 4}
    BY ListFacts DEF OfWaiters, WaiterInv, BucketType
  <1>2. waitPc[t] # "scan" \/ Waits!Met(t) = {}
    <2>1. SUFFICES ASSUME waitPc[t] = "scan", Waits!Met(t) # {}
                   PROVE  FALSE
      OBVIOUS
    <2>2. PICK L \in SUBSET Thread, T \in [Thread -> SUBSET Thread], pos \in [Thread -> Nat], r \in [Thread -> Nat],
               m \in Block : WaitHolds(L, T, pos, r, m)
      BY DEF WaitInv, WaitHeld
    <2>3. Meets(t, L, pos, m, Waits!First(t))
      BY <1>1, <2>1, <2>2, ScanMeets
    <2> QED BY <2>3 DEF Meets
  <1>3. CASE waitNotify' = waitNotify
    BY <1>3
  <1>4. ASSUME NEW b \in Thread, Caught(b), NEW p, Waits!Release(t, b, p)
        PROVE  Kept
    BY <1>4, NotifyReset DEF Waits!Release, Waits!block, Waits!links
  <1>5. CASE Waits!BeginWait(t) \/ Waits!BeginWake(t) \/ Waits!TimeOut(t) \/ Waits!Add(t) \/ Waits!Compare(t)
             \/ Waits!Scanned(t) \/ Waits!Take(t)
    <2>1. waitNotify' = waitNotify
      BY <1>5 DEF Waits!BeginWait, Waits!BeginWake, Waits!TimeOut, Waits!Add, Waits!Compare, Waits!Scanned, Waits!Take,
         Waits!block, Waits!links
    <2> QED BY <1>3, <2>1
  <1>6. ~(Waits!Look(t) \/ Waits!Optimize(t) \/ Waits!RemoveNewest(t) \/ Waits!NotFound(t) \/ Waits!UnlockList(t))
    BY DEF Waits!Look, Waits!Optimize, Waits!RemoveNewest, Waits!NotFound, Waits!UnlockList, Locks
  <1>7. ~(Waits!HoldOlder(t) \/ Waits!HoldNewest(t))
    BY <1>2 DEF Waits!HoldOlder, Waits!HoldNewest
  <1>8. CASE Waits!RemoveWaitBlock(t)
    <2>1. waitNotify' = waitNotify
      BY <1>8 DEF Waits!RemoveWaitBlock, Waits!block, Waits!links
    <2> QED BY <1>3, <2>1
  <1>9. CASE Waits!Spin(t) \/ Waits!Rejoin(t)
    <2>1. waitNotify' = waitNotify \/ (Waits!Reset(t) /\ flag[t] = Waits!Woken)
      BY <1>1, <1>9 DEF Waits!Spin, Waits!Rejoin, Waits!Return, Waits!links, WaiterAt, Fits, Waits!Spinning, Waits!Woken
    <2> QED BY <1>3, <2>1, NotifyReset DEF OnQueue
  <1>10. CASE Waits!Wake(t) \/ Waits!WakeNext(t)
    <2>1. waitNotify' = waitNotify \/ Waits!Reset(t)
      BY <1>10 DEF Waits!Wake, Waits!WakeNext, Waits!Return, Waits!block, Waits!links
    <2>2. ~OnQueue(t)
      BY <1>10 DEF Waits!Wake, Waits!WakeNext, OnQueue
    <2> QED BY <1>3, <2>1, <2>2, NotifyReset
  <1>11. CASE Waits!ReleaseNext(t)
    <2>1. inHand[t] # Null
      BY <1>1, <1>11 DEF Waits!ReleaseNext, WaiterAt, Fits
    <2>2. inHand[t] \in Thread /\ Caught(inHand[t])
      BY <2>1, InCatch
    <2>3. Waits!Release(t, inHand[t], "wakeList")
      BY <1>11 DEF Waits!ReleaseNext
    <2> QED BY <2>2, <2>3, <1>4
  <1>12. CASE Waits!ReleaseAll(t) /\ LastWake[t] # Null
    <2>1. ~Drains(t)
      BY <1>12 DEF Waits!ReleaseAll, Drains
    <2>2. LastWake[t] \in Thread /\ Caught(LastWake[t])
      BY <1>12, <2>1, InCatch
    <2>3. Waits!Release(t, LastWake[t], "releaseAll")
      BY <1>12 DEF Waits!ReleaseAll
    <2> QED BY <2>2, <2>3, <1>4
  <1>13. CASE Waits!ReleaseAll(t) /\ LastWake[t] = Null
    <2>1. waitNotify' = waitNotify \/ Waits!Reset(t)
      BY <1>13 DEF Waits!ReleaseAll, Waits!Return, Waits!block, Waits!links
    <2>2. ~OnQueue(t)
      BY <1>13 DEF Waits!ReleaseAll, OnQueue
    <2> QED BY <1>3, <2>1, <2>2, NotifyReset
  <1> QED BY <1>5, <1>6, <1>7, <1>8, <1>9, <1>10, <1>11, <1>12, <1>13 DEF Steps, Waits!Inside

-----------------------------------------------------------------------------
(* Whom a step may change, and how.                                        *)

\* A call that goes on is the same call.
SameCall(u) ==
  waitPc[u] # "idle" /\ waitPc'[u] # "idle" =>
    waitCall'[u].kind = waitCall[u].kind /\ waitCall'[u].address = waitCall[u].address

LEMMA CallsKept ==
  ASSUME WaitInv, NEW t \in Thread, Steps(t)
  PROVE  \A u \in Thread : SameCall(u)
  <1>1. /\ BucketType /\ WaiterAt(t) /\ WaiterInv /\ waitPc \in [Thread -> InPlaces] /\ waitCall \in [Thread -> WaitCalls]
        /\ waitPc[t] \in InPlaces
    BY ListFacts DEF OfWaiters, BucketType, WaiterInv
  <1>2. ASSUME waitCall' = waitCall
        PROVE  \A u \in Thread : SameCall(u)
    BY <1>2 DEF SameCall
  <1>3. ASSUME NEW b \in Thread, NEW c, waitCall' = [waitCall EXCEPT ![b] = c],
               waitPc[b] = "idle" \/ waitPc'[b] = "idle" \/ (c.kind = waitCall[b].kind /\ c.address = waitCall[b].address)
        PROVE  \A u \in Thread : SameCall(u)
    BY <1>1, <1>3 DEF SameCall
  <1>4. ASSUME Waits!Return(t)
        PROVE  \A u \in Thread : SameCall(u)
    <2>1. waitCall' = [waitCall EXCEPT ![t] = Waits!NoCall] /\ waitPc'[t] = "idle"
      BY <1>1, <1>4 DEF Waits!Return, Waits!Goto
    <2> QED BY <1>3, <2>1
  <1>5. ASSUME NEW b, NEW p, Waits!Release(t, b, p), b \in Thread, b # t
        PROVE  \A u \in Thread : SameCall(u)
    <2>1. CASE waitPc[b] = "kernelLocked"
      <3>1. waitCall' = [waitCall EXCEPT ![b] = waitCall[b]]
        BY <1>5, <2>1 DEF Waits!Release
      <3> QED BY <1>3, <1>5, <3>1
    <2>2. CASE waitPc[b] # "kernelLocked"
      <3>1. waitCall' = [waitCall EXCEPT ![b] = Waits!NoCall] /\ waitPc' = [waitPc EXCEPT ![t] = p, ![b] = "idle"]
        BY <1>5, <2>2 DEF Waits!Release
      <3>2. waitPc'[b] = "idle"
        BY <1>1, <1>5, <3>1
      <3> QED BY <1>3, <1>5, <3>1, <3>2
    <2> QED BY <2>1, <2>2
  <1>6. CASE Waits!BeginWait(t) \/ Waits!BeginWake(t)
    <2>1. waitPc[t] = "idle" /\ \E c : waitCall' = [waitCall EXCEPT ![t] = c]
      BY <1>6 DEF Waits!BeginWait, Waits!BeginWake
    <2> QED BY <1>3, <2>1
  <1>7. CASE Waits!Compare(t)
    <2>1. PICK c : c = [waitCall[t] EXCEPT !.compared = TRUE] /\ waitCall' = [waitCall EXCEPT ![t] = c]
      BY <1>7 DEF Waits!Compare
    <2>2. waitCall[t] \in Waiting
      BY <1>1, <1>7 DEF Waits!Compare, WaiterAt, Fits, InWait
    <2>3. c.kind = waitCall[t].kind /\ c.address = waitCall[t].address
      BY <2>1, <2>2 DEF Waiting
    <2> QED BY <1>3, <2>1, <2>3
  <1>8. CASE Waits!Rejoin(t)
    <2>1. CASE flag[t] = Waits!Woken
      BY <1>4, <1>8, <2>1 DEF Waits!Rejoin
    <2>2. CASE flag[t] # Waits!Woken
      <3>1. PICK c : c = [waitCall[t] EXCEPT !.timed = FALSE] /\ waitCall' = [waitCall EXCEPT ![t] = c]
        BY <1>8, <2>2 DEF Waits!Rejoin
      <3>2. waitCall[t] \in Waiting
        BY <1>1, <1>8 DEF Waits!Rejoin, WaiterAt, Fits, InWait
      <3>3. c.kind = waitCall[t].kind /\ c.address = waitCall[t].address
        BY <3>1, <3>2 DEF Waiting
      <3> QED BY <1>3, <3>1, <3>3
    <2> QED BY <2>1, <2>2
  <1>9. CASE Waits!HoldNewest(t)
    <2>1. CASE bucket # waitCurrent
      BY <1>2, <1>9, <2>1 DEF Waits!HoldNewest
    <2>2. CASE bucket = waitCurrent
      <3>1. PICK c : c = [waitCall[t] EXCEPT !.bNoRemove = (waitBack[pBlock] = Null)]
                     /\ waitCall' = [waitCall EXCEPT ![t] = c]
        BY <1>9, <2>2 DEF Waits!HoldNewest
      <3>2. waitCall[t] \in Waking1
        BY <1>1, <1>9 DEF Waits!HoldNewest, WaiterAt, Fits, InWake
      <3>3. c.kind = waitCall[t].kind /\ c.address = waitCall[t].address
        BY <3>1, <3>2 DEF Waking1
      <3> QED BY <1>3, <3>1, <3>3
    <2> QED BY <2>1, <2>2
  <1>10. CASE Waits!Add(t) \/ Waits!Look(t) \/ Waits!TimeOut(t) \/ Waits!RemoveWaitBlock(t) \/ Waits!NotFound(t)
              \/ Waits!Scanned(t) \/ Waits!HoldOlder(t) \/ Waits!Take(t) \/ Waits!Optimize(t)
    <2>1. waitCall' = waitCall
      BY <1>10 DEF Waits!Add, Waits!Look, Waits!TimeOut, Waits!RemoveWaitBlock, Waits!NotFound, Waits!Scanned,
         Waits!HoldOlder, Waits!Take, Waits!Optimize, Waits!Unlock
    <2> QED BY <1>2, <2>1
  <1>11. CASE Waits!Spin(t) \/ Waits!RemoveNewest(t) \/ Waits!UnlockList(t) \/ Waits!WakeNext(t) \/ Waits!Wake(t)
    <2>1. waitCall' = waitCall \/ Waits!Return(t)
      BY <1>11 DEF Waits!Spin, Waits!RemoveNewest, Waits!UnlockList, Waits!Unlock, Waits!WakeNext, Waits!Wake
    <2> QED BY <1>2, <1>4, <2>1
  <1>12. CASE Waits!ReleaseNext(t)
    <2>1. PICK b : b = inHand[t]
      OBVIOUS
    <2>2. Waits!Release(t, b, "wakeList") /\ b \in Thread /\ b # t
      BY <1>1, <1>12, <2>1, InCatch DEF Waits!ReleaseNext, Waits!Release, Waits!Asleep, WaiterAt, Fits
    <2> QED BY <1>5, <2>2
  <1>13. CASE Waits!ReleaseAll(t)
    <2>1. CASE LastWake[t] # Null
      <3>1. PICK b : b = LastWake[t]
        OBVIOUS
      <3>2. ~Drains(t)
        BY <1>13 DEF Waits!ReleaseAll, Drains
      <3>3. Waits!Release(t, b, "releaseAll") /\ b \in Thread /\ b # t
        BY <1>13, <2>1, <3>1, <3>2, InCatch DEF Waits!ReleaseAll, Waits!Release, Waits!Asleep
      <3> QED BY <1>5, <3>3
    <2>2. CASE LastWake[t] = Null
      BY <1>2, <1>4, <1>13, <2>2 DEF Waits!ReleaseAll
    <2> QED BY <2>1, <2>2
  <1> QED BY <1>6, <1>7, <1>8, <1>9, <1>10, <1>11, <1>12, <1>13 DEF Steps, Waits!Inside


\* One who waits in vain so far, until a waker sets its flag or it gives up.
LEMMA SeekerStays ==
  ASSUME WaitInv, unreached \in [Thread -> SUBSET Thread], NEW t \in Thread, Steps(t),
         NEW w \in Thread, waitPc[w] \in {"spin", "kernel"}, flag[w] # Waits!Woken
  PROVE  \/ waitPc'[w] \in {"spin", "kernel"} /\ flag'[w] # Waits!Woken
         \/ \A u \in Thread : w \notin unreached'[u]
  <1> DEFINE Stays1 == waitPc'[w] \in {"spin", "kernel"} /\ flag'[w] # Waits!Woken
             Gone1 == \A u \in Thread : w \notin unreached'[u]
  <1>1. /\ BucketType /\ WaiterAt(t) /\ WaiterAt(w) /\ waitPc \in [Thread -> InPlaces] /\ flag \in [Thread -> {0, 1, 2, 4}]
        /\ PlacesInv
    BY ListFacts, Whereabouts DEF OfWaiters, BucketType, WaiterInv
  <1>2. ASSUME NEW x, NEW woken, Waits!Stirs(x, woken), x = w
        PROVE  Gone1
    BY <1>2 DEF Waits!Stirs
  <1>3. ASSUME NEW b \in Thread, Listed(b) => ToRelease(b), NEW p, Waits!Release(t, b, p), t # w
        PROVE  Stays1
    <2>1. b # w
      BY <1>3 DEF Listed, OnQueue, ToRelease
    <2>2. waitPc'[w] = waitPc[w] /\ flag'[w] = flag[w]
      BY <1>1, <1>3, <2>1 DEF Waits!Release, Waits!Reset, Waits!block
    <2> QED BY <2>2
  <1>4. CASE t = w
    <2>1. Waits!Spin(t) \/ Waits!TimeOut(t)
      BY <1>4 DEF Steps, Waits!BeginWait, Waits!BeginWake, Waits!Inside, Waits!Add, Waits!Look, Waits!Optimize, Waits!Compare,
         Waits!RemoveWaitBlock, Waits!RemoveNewest, Waits!NotFound, Waits!Rejoin, Waits!UnlockList, Waits!WakeNext,
         Waits!ReleaseNext, Waits!Wake, Waits!Scanned, Waits!HoldOlder, Waits!HoldNewest, Waits!Take, Waits!ReleaseAll
    <2>2. CASE Waits!Spin(t)
      <3>1. flag[t] = Waits!Spinning
        BY <1>1, <1>4, <2>2 DEF Waits!Spin, WaiterAt, Fits, Waits!Spinning, Waits!Woken
      <3>2. waitPc' = [waitPc EXCEPT ![w] = "kernel"] /\ flag' = [flag EXCEPT ![w] = Waits!Kernel]
        BY <1>4, <2>2, <3>1 DEF Waits!Spin, Waits!Goto
      <3> QED BY <1>1, <3>2 DEF Waits!Kernel, Waits!Woken
    <2>3. CASE Waits!TimeOut(t)
      BY <1>2, <1>4, <2>3 DEF Waits!TimeOut
    <2> QED BY <2>1, <2>2, <2>3
  <1>5. CASE t # w
    <2>1. ASSUME NEW p, waitPc' = [waitPc EXCEPT ![t] = p] \/ waitPc' = waitPc,
                 flag' = flag \/ \E b, f : b # w /\ flag' = [flag EXCEPT ![b] = f]
          PROVE  Stays1
      BY <1>1, <1>5, <2>1
    <2>2. ASSUME Waits!Return(t)
          PROVE  Stays1
      BY <1>5, <2>1, <2>2 DEF Waits!Return, Waits!Goto, Waits!Reset
    <2>3. CASE Waits!BeginWait(t) \/ Waits!BeginWake(t) \/ Waits!TimeOut(t) \/ Waits!Add(t) \/ Waits!Look(t)
               \/ Waits!Compare(t) \/ Waits!NotFound(t) \/ Waits!Scanned(t)
      <3>1. \E p : waitPc' = [waitPc EXCEPT ![t] = p]
        BY <2>3 DEF Waits!BeginWait, Waits!BeginWake, Waits!TimeOut, Waits!Add, Waits!Look, Waits!Compare, Waits!NotFound,
           Waits!Scanned, Waits!Goto
      <3>2. flag' = flag \/ \E f : flag' = [flag EXCEPT ![t] = f]
        BY <2>3 DEF Waits!BeginWait, Waits!BeginWake, Waits!TimeOut, Waits!Add, Waits!Look, Waits!Compare, Waits!NotFound,
           Waits!Scanned, Waits!block
      <3> QED BY <1>5, <2>1, <3>1, <3>2
    <2>4. CASE Waits!Optimize(t) \/ Waits!HoldOlder(t) \/ Waits!HoldNewest(t) \/ Waits!RemoveWaitBlock(t)
      <3>1. waitPc' = waitPc \/ \E p : waitPc' = [waitPc EXCEPT ![t] = p]
        BY <2>4 DEF Waits!Optimize, Waits!Unlock, Waits!HoldOlder, Waits!HoldNewest, Waits!Hold, Waits!BeginScan,
           Waits!RemoveWaitBlock, Waits!Goto
      <3>2. flag' = flag
        BY <2>4 DEF Waits!Optimize, Waits!HoldOlder, Waits!HoldNewest, Waits!Hold, Waits!BeginScan,
           Waits!RemoveWaitBlock, Waits!block
      <3> QED BY <2>1, <3>1, <3>2
    <2>5. CASE Waits!Spin(t) \/ Waits!Rejoin(t)
      <3>1. Waits!Return(t) \/ (/\ \E p : waitPc' = [waitPc EXCEPT ![t] = p] /\ \E f : flag' = [flag EXCEPT ![t] = f])
        BY <2>5 DEF Waits!Spin, Waits!Rejoin, Waits!Goto
      <3> QED BY <1>5, <2>1, <2>2, <3>1
    <2>6. CASE Waits!RemoveNewest(t) \/ Waits!UnlockList(t) \/ Waits!Wake(t)
      <3>1. Waits!Return(t) \/ (/\ (waitPc' = waitPc \/ \E p : waitPc' = [waitPc EXCEPT ![t] = p]) /\ flag' = flag)
        BY <2>6 DEF Waits!RemoveNewest, Waits!UnlockList, Waits!Unlock, Waits!Wake, Waits!BeginScan, Waits!Goto, Waits!block
      <3> QED BY <2>1, <2>2, <3>1
    <2>7. CASE Waits!WakeNext(t)
      <3>1. PICK b : b = pItem[t]
        OBVIOUS
      <3>2. CASE b = Null
        <4>1. Waits!Return(t) \/ ((\E p : waitPc' = [waitPc EXCEPT ![t] = p]) /\ flag' = flag)
          BY <2>7, <3>1, <3>2 DEF Waits!WakeNext, Waits!Goto, Waits!block
        <4> QED BY <2>1, <2>2, <4>1
      <3>3. CASE b # Null /\ b # w
        <4>1. (waitPc' = waitPc \/ \E p : waitPc' = [waitPc EXCEPT ![t] = p]) /\ flag' = [flag EXCEPT ![b] = Waits!Woken]
          BY <2>7, <3>1, <3>3 DEF Waits!WakeNext, Waits!Goto
        <4> QED BY <2>1, <3>3, <4>1
      <3>4. CASE b # Null /\ b = w
        BY <1>2, <2>7, <3>1, <3>4 DEF Waits!WakeNext
      <3> QED BY <3>2, <3>3, <3>4
    <2>8. CASE Waits!Take(t)
      <3>1. PICK b : b = inHand[t]
        OBVIOUS
      <3>2. CASE b = w
        BY <1>2, <2>8, <3>1, <3>2 DEF Waits!Take
      <3>3. CASE b # w
        <4>1. (\E p : waitPc' = [waitPc EXCEPT ![t] = p]) /\ flag' = [flag EXCEPT ![b] = Waits!Woken]
          BY <2>8, <3>1 DEF Waits!Take, Waits!Goto
        <4> QED BY <2>1, <3>3, <4>1
      <3> QED BY <3>2, <3>3
    <2>9. CASE Waits!ReleaseNext(t)
      <3>1. PICK b : b = inHand[t]
        OBVIOUS
      <3>2. b \in Thread /\ b \in Hand(t) /\ Drains(t)
        BY <1>1, <2>9, <3>1, InCatch DEF Waits!ReleaseNext, WaiterAt, Fits, Hand, Drains
      <3>3. ToRelease(b)
        BY <1>1, <3>2 DEF PlacesInv
      <3> QED BY <1>3, <1>5, <2>9, <3>1, <3>2, <3>3 DEF Waits!ReleaseNext
    <2>10. CASE Waits!ReleaseAll(t) /\ LastWake[t] # Null
      <3>1. PICK b : b = LastWake[t]
        OBVIOUS
      <3>2. ~Drains(t)
        BY <2>10 DEF Waits!ReleaseAll, Drains
      <3>3. b \in Thread /\ HeadOf(t) = b
        BY <2>10, <3>1, <3>2, InCatch DEF HeadOf
      <3>4. b \in Waits!Behind(HeadOf(t))
        BY <3>3, FollowFirst, WaitFollow
      <3>5. ToRelease(b)
        BY <1>1, <3>2, <3>4 DEF PlacesInv
      <3> QED BY <1>3, <1>5, <2>10, <3>1, <3>3, <3>5 DEF Waits!ReleaseAll
    <2>11. CASE Waits!ReleaseAll(t) /\ LastWake[t] = Null
      <3>1. Waits!Return(t) \/ ((\E p : waitPc' = [waitPc EXCEPT ![t] = p]) /\ flag' = flag)
        BY <2>11 DEF Waits!ReleaseAll, Waits!Goto, Waits!block
      <3> QED BY <2>1, <2>2, <3>1
    <2> QED BY <2>3, <2>4, <2>5, <2>6, <2>7, <2>8, <2>9, <2>10, <2>11 DEF Steps, Waits!Inside
  <1> QED BY <1>4, <1>5


\* Nobody comes to be waited for but when a wake-up begins, and who is on the way out waits for nobody.
Thins(t) ==
  /\ unreached' \in [Thread -> SUBSET Thread]
  /\ \A u \in Thread : unreached'[u] \subseteq unreached[u]
  /\ waitCall[t] \in Waking1 /\ waitPc'[t] = "idle" => unreached'[t] = {}

LEMMA Thinner ==
  ASSUME WaitInv, unreached \in [Thread -> SUBSET Thread], NEW t \in Thread, Steps(t), ~Waits!BeginWake(t)
  PROVE  Thins(t)
  <1>1. /\ BucketType /\ WaiterAt(t) /\ waitPc \in [Thread -> InPlaces]
    BY ListFacts DEF OfWaiters, BucketType, WaiterInv
  <1>2. ASSUME unreached' = unreached, waitPc'[t] # "idle" \/ waitCall[t] \notin Waking1
        PROVE  Thins(t)
    BY <1>2 DEF Thins
  <1>3. ASSUME NEW x, NEW woken, Waits!Stirs(x, woken), waitPc'[t] # "idle"
        PROVE  Thins(t)
    BY <1>3 DEF Thins, Waits!Stirs
  <1>4. ASSUME Waits!Return(t)
        PROVE  Thins(t)
    BY <1>4 DEF Thins, Waits!Return
  <1>5. ASSUME NEW p, waitPc' = [waitPc EXCEPT ![t] = p], p # "idle"
        PROVE  waitPc'[t] # "idle"
    BY <1>1, <1>5
  <1>6. CASE Waits!BeginWait(t) \/ Waits!Add(t) \/ Waits!Look(t) \/ Waits!RemoveWaitBlock(t) \/ Waits!NotFound(t)
              \/ Waits!Scanned(t) \/ Waits!HoldOlder(t)
    <2>1. unreached' = unreached /\ \E p : waitPc' = [waitPc EXCEPT ![t] = p] /\ p # "idle"
      BY <1>6 DEF Waits!BeginWait, Waits!Add, Waits!Look, Waits!RemoveWaitBlock, Waits!NotFound, Waits!Scanned,
         Waits!HoldOlder, Waits!Hold, Waits!Goto, Waits!ghosts
    <2> QED BY <1>2, <1>5, <2>1
  <1>7. CASE Waits!Optimize(t)
    <2>1. waitCall[t] \notin Waking1
      BY <1>1, <1>7, CallIs DEF Waits!Optimize, WaiterAt, Fits, InWait
    <2>2. unreached' = unreached
      BY <1>7 DEF Waits!Optimize, Waits!Unlock, Waits!ghosts
    <2> QED BY <1>2, <2>1, <2>2
  <1>8. CASE Waits!Compare(t)
    <2>1. \E p : waitPc' = [waitPc EXCEPT ![t] = p] /\ p # "idle"
      BY <1>8 DEF Waits!Compare, Waits!Goto
    <2>2. unreached' = unreached \/ Waits!Stirs(t, FALSE)
      BY <1>8 DEF Waits!Compare
    <2> QED BY <1>2, <1>3, <1>5, <2>1, <2>2
  <1>9. CASE Waits!TimeOut(t)
    <2>1. waitPc'[t] # "idle"
      BY <1>1, <1>9 DEF Waits!TimeOut, Waits!Goto
    <2>2. Waits!Stirs(t, FALSE)
      BY <1>9 DEF Waits!TimeOut
    <2> QED BY <1>3, <2>1, <2>2
  <1>10. CASE Waits!Spin(t) \/ Waits!Rejoin(t)
    <2>1. Waits!Return(t) \/ (unreached' = unreached /\ \E p : waitPc' = [waitPc EXCEPT ![t] = p] /\ p # "idle")
      BY <1>10 DEF Waits!Spin, Waits!Rejoin, Waits!Goto, Waits!ghosts
    <2> QED BY <1>2, <1>4, <1>5, <2>1
  <1>11. CASE Waits!RemoveNewest(t)
    <2>1. waitCall[t] \notin Waking1
      BY <1>1, <1>11, CallIs DEF Waits!RemoveNewest, WaiterAt, Fits, InWait
    <2>2. unreached' = unreached \/ Waits!Return(t)
      BY <1>11 DEF Waits!RemoveNewest, Waits!ghosts
    <2> QED BY <1>2, <1>4, <2>1, <2>2
  <1>12. CASE Waits!UnlockList(t)
    <2>1. Waits!Return(t) \/ (unreached' = unreached /\ \E p : waitPc' = [waitPc EXCEPT ![t] = p] /\ p # "idle")
      BY <1>12 DEF Waits!UnlockList, Waits!Unlock, Waits!Goto, Waits!ghosts
    <2> QED BY <1>2, <1>4, <1>5, <2>1
  <1>13. CASE Waits!Wake(t)
    <2>1. Waits!Return(t) \/ (unreached' = unreached /\ \E p : waitPc' = [waitPc EXCEPT ![t] = p] /\ p # "idle")
      BY <1>13 DEF Waits!Wake, Waits!BeginScan, Waits!Goto, Waits!ghosts
    <2> QED BY <1>2, <1>4, <1>5, <2>1
  <1>14. CASE Waits!HoldNewest(t)
    <2>1. waitPc'[t] # "idle"
      BY <1>1, <1>14 DEF Waits!HoldNewest, Waits!Hold, Waits!BeginScan, Waits!Goto
    <2>2. unreached' = unreached
      BY <1>14 DEF Waits!HoldNewest, Waits!Hold, Waits!ghosts
    <2> QED BY <1>2, <2>1, <2>2
  <1>15. CASE Waits!Take(t)
    <2>1. waitPc'[t] # "idle"
      BY <1>1, <1>15 DEF Waits!Take, Waits!Goto
    <2>2. Waits!Stirs(inHand[t], TRUE)
      BY <1>15 DEF Waits!Take
    <2> QED BY <1>3, <2>1, <2>2
  <1>16. CASE Waits!WakeNext(t) /\ pItem[t] = Null
    <2>1. Waits!Return(t) \/ (unreached' = unreached /\ \E p : waitPc' = [waitPc EXCEPT ![t] = p] /\ p # "idle")
      BY <1>16 DEF Waits!WakeNext, Waits!Goto, Waits!ghosts
    <2> QED BY <1>2, <1>4, <1>5, <2>1
  <1>17. CASE Waits!WakeNext(t) /\ pItem[t] # Null
    <2>1. waitPc[t] = "wakeList" /\ (waitPc' = waitPc \/ waitPc' = [waitPc EXCEPT ![t] = "release"])
      BY <1>17 DEF Waits!WakeNext, Waits!Goto
    <2>2. waitPc'[t] # "idle"
      BY <1>1, <2>1
    <2>3. Waits!Stirs(pItem[t], TRUE)
      BY <1>17 DEF Waits!WakeNext
    <2> QED BY <1>3, <2>2, <2>3
  <1>18. ASSUME NEW b, NEW p \in {"wakeList", "releaseAll"}, Waits!Release(t, b, p), waitPc[t] \in {"release", "releaseAll"}
        PROVE  waitPc'[t] # "idle"
    <2>1. b # t
      BY <1>18 DEF Waits!Release, Waits!Asleep
    <2>2. waitPc'[t] = p
      BY <1>1, <1>18, <2>1 DEF Waits!Release
    <2> QED BY <2>2
  <1>19. CASE Waits!ReleaseNext(t)
    <2>1. waitPc[t] = "release" /\ unreached' = unreached /\ Waits!Release(t, inHand[t], "wakeList")
      BY <1>19 DEF Waits!ReleaseNext
    <2> QED BY <1>2, <1>18, <2>1
  <1>20. CASE Waits!ReleaseAll(t) /\ LastWake[t] # Null
    <2>1. waitPc[t] = "releaseAll" /\ unreached' = unreached /\ Waits!Release(t, LastWake[t], "releaseAll")
      BY <1>20 DEF Waits!ReleaseAll
    <2> QED BY <1>2, <1>18, <2>1
  <1>21. CASE Waits!ReleaseAll(t) /\ LastWake[t] = Null
    <2>1. Waits!Return(t) \/ (unreached' = unreached /\ \E p : waitPc' = [waitPc EXCEPT ![t] = p] /\ p # "idle")
      BY <1>21 DEF Waits!ReleaseAll, Waits!Goto, Waits!ghosts
    <2> QED BY <1>2, <1>4, <1>5, <2>1
  <1> QED BY <1>6, <1>7, <1>8, <1>9, <1>10, <1>11, <1>12, <1>13, <1>14, <1>15, <1>16, <1>17, <1>19, <1>20, <1>21
          DEF Steps, Waits!Inside

\* A waker goes on by itself.
LEMMA WakerStays ==
  ASSUME WaitInv, NEW t \in Thread, Steps(t), NEW u \in Thread, u # t, waitCall[u] \notin Waiting
  PROVE  waitPc'[u] = waitPc[u] /\ pItem'[u] = pItem[u] /\ inHand'[u] = inHand[u]
  <1>1. /\ BucketType /\ waitPc \in [Thread -> InPlaces] /\ pItem \in [Thread -> Block] /\ inHand \in [Thread -> Block]
        /\ WaiterAt(u)
    BY ListFacts DEF OfWaiters, BucketType, WaiterInv
  <1> DEFINE Only(f, g) == g = f \/ \E x : g = [f EXCEPT ![t] = x]
  <1>2. ASSUME Only(waitPc, waitPc')
        PROVE  waitPc'[u] = waitPc[u]
    BY <1>1, <1>2
  <1>3. Only(pItem, pItem') /\ Only(inHand, inHand')
    BY DEF Steps, Waits!BeginWait, Waits!BeginWake, Waits!TimeOut, Waits!Inside, Waits!Add, Waits!Look, Waits!Optimize, Waits!Compare,
         Waits!Spin, Waits!RemoveWaitBlock, Waits!RemoveNewest, Waits!NotFound, Waits!Rejoin, Waits!UnlockList, Waits!WakeNext,
         Waits!ReleaseNext, Waits!Wake, Waits!Scanned, Waits!HoldOlder, Waits!HoldNewest, Waits!Take, Waits!ReleaseAll,
         Waits!Unlock, Waits!Hold, Waits!BeginScan, Waits!walk
  <1>4. ASSUME NEW b, NEW p, Waits!Release(t, b, p)
        PROVE  waitPc'[u] = waitPc[u]
    <2>1. b # u
      BY <1>1, <1>4 DEF Waits!Release, Waits!Asleep, WaiterAt, Fits, InWait
    <2> QED BY <1>1, <1>4, <2>1 DEF Waits!Release
  <1>5. Only(waitPc, waitPc') \/ \E b, p : Waits!Release(t, b, p)
    BY DEF Steps, Waits!BeginWait, Waits!BeginWake, Waits!TimeOut, Waits!Inside, Waits!Add, Waits!Look, Waits!Optimize, Waits!Compare,
         Waits!Spin, Waits!RemoveWaitBlock, Waits!RemoveNewest, Waits!NotFound, Waits!Rejoin, Waits!UnlockList, Waits!WakeNext,
         Waits!ReleaseNext, Waits!Wake, Waits!Scanned, Waits!HoldOlder, Waits!HoldNewest, Waits!Take, Waits!ReleaseAll,
         Waits!Unlock, Waits!Hold, Waits!BeginScan, Waits!Return, Waits!Goto
  <1>6. pItem'[u] = pItem[u] /\ inHand'[u] = inHand[u]
    BY <1>1, <1>3
  <1> QED BY <1>2, <1>4, <1>5, <1>6


-----------------------------------------------------------------------------
(* The walk of a waker comes by all those it looks for.                    *)

LEMMA AheadNext ==
  ASSUME NEW t, NEW forth, NEW p, forth = waitNotify', p = pItem'[t]
  PROVE  Waits!Ahead(pItem[t])' = Follow(forth, p)
  BY DEF Waits!Ahead, Waits!Follow, Follow

\* The others' walks stay ahead of those on the list.
LEMMA PassedOthers ==
  ASSUME WaitInv, WaitInv', NEW t \in Thread, Steps(t), NEW u \in Thread, u # t, waitCall[u] \notin Waiting,
         NEW w \in Thread, waitPc[w] # "add", Passed(u, w)
  PROVE  Passed(u, w)'
  <1>1. waitPc'[u] = waitPc[u] /\ pItem'[u] = pItem[u]
    BY WakerStays
  <1>2. w \in Waits!List' => w \in Waits!List
    BY ListGrows
  <1>3. CASE waitPc[u] \notin {"scan", "take"}
    BY <1>1, <1>2, <1>3 DEF Passed
  <1>4. CASE waitPc[u] \in {"scan", "take"} /\ w \notin Waits!List
    BY <1>1, <1>2, <1>4 DEF Passed, Late
  <1>5. CASE waitPc[u] \in {"scan", "take"} /\ w \in Waits!List
    <2>1. PICK p, forth : p = pItem[u] /\ forth = waitNotify'
      OBVIOUS
    <2>2. w \in Waits!Ahead(p)
      BY <1>5, <2>1 DEF Passed
    <2>3. p # Null /\ Waits!Ahead(p) \subseteq Waits!List /\ Locks(u)
      BY <1>5, <2>1, <2>2, ScanAhead, FollowNone, WaitFollow
    <2>4. bucket.locked /\ ~Locks(t) /\ WaitLinks /\ p \in Block
      BY <2>1, <2>3, ListFacts DEF OfWaiters, LocksInv, BucketType
    <2>5. \A y \in Waits!List : forth[y] = waitNotify[y]
      BY <2>1, <2>4, NotifyKept
    <2>6. forth \in [Thread -> Block]
      BY <2>1, WhereaboutsNext DEF PlacesInv, WaitLinks
    <2>7. Follow(forth, p) = Follow(waitNotify, p)
      <3>1. PICK old : old = waitNotify
        OBVIOUS
      <3>2. old \in [Thread -> Block] /\ \A y \in Follow(old, p) : forth[y] = old[y]
        BY <2>3, <2>4, <2>5, <3>1, WaitFollow DEF WaitLinks
      <3> QED BY <2>4, <2>6, <3>1, <3>2, FollowSame
    <2>8. Waits!Ahead(pItem[u])' = Follow(forth, p)
      BY <1>1, <2>1, AheadNext
    <2> QED BY <1>1, <1>5, <2>2, <2>7, <2>8, WaitFollow DEF Passed, Late
  <1> QED BY <1>3, <1>4, <1>5

\* A walk that begins at the oldest block comes by all.
LEMMA BeginsAtAll ==
  ASSUME WaitInv, NEW t \in Thread, NEW w, Waits!BeginScan(t, w), w.block = bucket.block, bucket'.block = bucket.block,
         bucket.block # Null
  PROVE  Waits!List' \subseteq Waits!Ahead(pItem[t])'
  <1>1. PICK L \in SUBSET Thread, T \in [Thread -> SUBSET Thread], pos \in [Thread -> Nat], r \in [Thread -> Nat],
             m \in Block : WaitHolds(L, T, pos, r, m)
    BY DEF WaitInv, WaitHeld
  <1>2. WaitLinks /\ Queued(L, pos, m)
    BY <1>1 DEF WaitHolds
  <1>3. PICK h : h = bucket.block
    OBVIOUS
  <1>4. h \in L /\ pos[m] <= pos[h] /\ (\A c \in L : pos[c] \in Nat /\ pos[c] <= pos[h]) /\ L # {}
    BY <1>2, <1>3, QueueIs
  <1>5. MarksFrom(h)
    BY <1>3 DEF Waits!BeginScan, Waits!Mark, MarksFrom
  <1>6. PICK o : o = Waits!Oldest(h)
    OBVIOUS
  <1>7. WaitLinks' /\ Queued(L, pos, h)' /\ o \in L /\ pos[o] <= pos[h]
    BY <1>2, <1>3, <1>4, <1>5, <1>6, MarksIs
  <1>8. PICK link, known, forth, b : link = waitBack' /\ known = waitNext' /\ forth = waitNotify' /\ b = bucket'.block
    OBVIOUS
  <1>9. link \in [Thread -> Block] /\ known \in [Thread -> Block] /\ forth \in [Thread -> Block]
        /\ Queue(link, known, forth, L, b, pos, h)
    BY <1>7, <1>8 DEF WaitLinks, Queued
  <1>10. known[h] = o
    <2>1. waitNext' = [waitNext EXCEPT ![h] = o] /\ h \in Thread
      BY <1>4, <1>5, <1>6 DEF MarksFrom
    <2> QED BY <1>2, <1>8, <2>1 DEF WaitLinks
  <1>11. \A c \in L : pos[o] <= pos[c]
    BY <1>4, <1>9, <1>10 DEF Queue, Known
  <1>12. Follow(forth, o) = Between(L, pos, o, h)
    BY <1>7, <1>9, AheadIs
  <1>13. L \subseteq Follow(forth, o)
    BY <1>4, <1>11, <1>12 DEF Between
  <1>14. Waits!List' = L
    <2>1. Ordered(link, L, b, pos)
      BY <1>9 DEF Queue
    <2> QED BY <1>7, <1>8, <2>1, ListBecomes
  <1>15. pItem'[t] = o
    <2>1. pItem' = [pItem EXCEPT ![t] = o]
      BY <1>3, <1>6 DEF Waits!BeginScan
    <2>2. pItem \in [Thread -> Block]
      BY ListFacts DEF OfWaiters, BucketType
    <2> QED BY <2>1, <2>2
  <1>16. Waits!Ahead(pItem[t])' = Follow(forth, o)
    BY <1>8, <1>15, AheadNext
  <1> QED BY <1>13, <1>14, <1>16

\* The first of those it looks for comes before the others.
LEMMA FirstBefore ==
  ASSUME WaitInv, NEW t \in Thread, waitPc[t] = "scan", Waits!Met(t) # {},
         NEW L \in SUBSET Thread, NEW T \in [Thread -> SUBSET Thread],
         NEW pos \in [Thread -> Nat], NEW r \in [Thread -> Nat], NEW m \in Block, WaitHolds(L, T, pos, r, m),
         NEW f, f = Waits!First(t)
  PROVE  /\ Meets(t, L, pos, m, f) /\ f \in Waits!Met(t)
         /\ \A c \in Waits!Met(t) : c \in L /\ pos[f] <= pos[c] /\ pos[c] <= pos[m]
  <1>1. OfWaiters /\ WaitLinks /\ Queued(L, pos, m) /\ Fit(L, pos, m)
    BY DEF WaitInv, WaitHolds
  <1>2. Meets(t, L, pos, m, f)
    BY <1>1, ScanMeets
  <1>3. PICK p, S : p = pItem[t] /\ S = Waits!Met(t)
    OBVIOUS
  <1>4. S \in SUBSET Follow(waitNotify, p) /\ S # {}
    BY <1>3, WaitFollow DEF Waits!Met
  <1>5. p # Null
    BY <1>4, FollowNone
  <1>6. p \in L /\ pos[p] <= pos[m]
    BY <1>1, <1>3, <1>5 DEF Fit, FitAt
  <1>7. f = FirstOf(waitNotify, S)
    BY <1>3, WaitFollow DEF Waits!First, FirstOf
  <1>8. Queue(waitBack, waitNext, waitNotify, L, bucket.block, pos, m)
    BY <1>1 DEF Queued
  <1>9. waitBack \in [Thread -> Block] /\ waitNext \in [Thread -> Block] /\ waitNotify \in [Thread -> Block]
    BY <1>1 DEF WaitLinks
  <1>10. Leads(L, pos, m, S, f)
    BY <1>4, <1>6, <1>7, <1>8, <1>9, FirstIs
  <1> QED BY <1>2, <1>3, <1>10 DEF Leads


\* When it takes the first, those it has yet to look for are still ahead.
LEMMA AheadOlder ==
  ASSUME WaitInv, NEW t \in Thread, Waits!HoldOlder(t), NEW w \in Waits!Met(t), w \in Waits!List'
  PROVE  w \in Waits!Ahead(pItem[t])'
  <1>1. PICK L \in SUBSET Thread, T \in [Thread -> SUBSET Thread], pos \in [Thread -> Nat], r \in [Thread -> Nat],
             m \in Block : WaitHolds(L, T, pos, r, m)
    BY DEF WaitInv, WaitHeld
  <1>2. WaitLinks /\ Queued(L, pos, m)
    BY <1>1 DEF WaitHolds
  <1>3. PICK f : f = Waits!First(t)
    OBVIOUS
  <1>4. waitPc[t] = "scan" /\ Waits!Met(t) # {} /\ f # pBlock
    BY <1>3 DEF Waits!HoldOlder
  <1>5. /\ Meets(t, L, pos, m, f) /\ w \in L /\ pos[f] <= pos[w] /\ pos[w] <= pos[m]
    BY <1>1, <1>3, <1>4, FirstBefore
  <1>6. f \in L /\ f \in Thread /\ f # m /\ pBlock = m /\ pos[f] <= pos[m]
    BY <1>4, <1>5 DEF Meets
  <1>7. PICK link, known, forth : link = waitBack /\ known = waitNext /\ forth = waitNotify
    OBVIOUS
  <1>8. link \in [Thread -> Block] /\ known \in [Thread -> Block] /\ forth \in [Thread -> Block]
        /\ Queue(link, known, forth, L, bucket.block, pos, m)
    BY <1>2, <1>7 DEF WaitLinks, Queued
  <1>9. m \in L /\ \A c \in L : pos[c] \in Nat
    BY <1>6, <1>8, QueueTypes
  <1>10. pos[f] < pos[m]
    <2>1. pos[f] # pos[m]
      BY <1>6, <1>8, <1>9 DEF Queue, Ordered
    <2> QED BY <1>6, <1>9, <2>1
  <1>11. PICK link1, known1, forth1, newer : link1 = waitBack' /\ known1 = waitNext' /\ forth1 = waitNotify' /\ newer = forth[f]
    OBVIOUS
  <1>12. Drawn(link, known, forth, link1, known1, forth1, m, f)
    BY <1>3, <1>6, <1>7, <1>11 DEF Drawn, Waits!HoldOlder
  <1>13. /\ QueueWithout(link, known, forth, link1, known1, forth1, L \ {f}, bucket.block, pos, m)
         /\ newer \in L \ {f} /\ pos[newer] <= pos[m]
    BY <1>6, <1>8, <1>10, <1>11, <1>12, QueueDrawn
  <1>14. Queue(link1, known1, forth1, L \ {f}, bucket.block, pos, m)
         /\ link1 \in [Thread -> Block] /\ known1 \in [Thread -> Block] /\ forth1 \in [Thread -> Block]
    BY <1>13 DEF QueueWithout
  <1>15. WaitLinks' /\ bucket' = bucket
    BY <1>11, <1>14 DEF WaitLinks, Waits!HoldOlder
  <1>16. Waits!List' = L \ {f}
    <2>1. Ordered(link1, L \ {f}, bucket.block, pos)
      BY <1>14 DEF Queue
    <2>2. PICK S : S = L \ {f}
      OBVIOUS
    <2>3. Ordered(waitBack', S, bucket'.block, pos)
      BY <1>11, <1>15, <2>1, <2>2
    <2>4. Waits!List' = S
      BY <1>15, <2>3, ListBecomes
    <2> QED BY <2>2, <2>4
  <1>17. pos[newer] <= pos[w]
    <2>1. w # f
      BY <1>16
    <2>2. pos[f] < pos[w]
      <3>1. pos[f] # pos[w]
        BY <1>5, <1>6, <1>8, <2>1 DEF Queue, Ordered
      <3> QED BY <1>5, <1>6, <1>9, <3>1
    <2>3. SUFFICES ASSUME pos[w] < pos[newer]
                   PROVE  FALSE
      BY <1>5, <1>9, <1>13
    <2>4. newer # Null /\ link[newer] = f
      BY <1>6, <1>8, <1>10, <1>11 DEF Queue, Forward
    <2>5. pos[w] <= pos[f]
      BY <1>5, <1>8, <1>13, <2>3, <2>4 DEF Queue, Ordered
    <2> QED BY <1>5, <1>6, <1>9, <2>2, <2>5
  <1>18. Follow(forth1, newer) = Between(L \ {f}, pos, newer, m)
    <2>1. PICK S : S = L \ {f}
      OBVIOUS
    <2>2. Queue(link1, known1, forth1, S, bucket.block, pos, m) /\ newer \in S
      BY <1>13, <1>14, <2>1
    <2>3. Follow(forth1, newer) = Between(S, pos, newer, m)
      BY <1>13, <1>14, <2>2, AheadIs
    <2> QED BY <2>1, <2>3
  <1>19. w \in Follow(forth1, newer)
    BY <1>5, <1>16, <1>17, <1>18 DEF Between
  <1>20. pItem'[t] = newer
    <2>1. pItem' = [pItem EXCEPT ![t] = newer]
      BY <1>3, <1>7, <1>11 DEF Waits!HoldOlder, Waits!Hold
    <2>2. pItem \in [Thread -> Block]
      BY ListFacts DEF OfWaiters, BucketType
    <2> QED BY <2>1, <2>2
  <1>21. Waits!Ahead(pItem[t])' = Follow(forth1, newer)
    BY <1>11, <1>20, AheadNext
  <1> QED BY <1>19, <1>21

\* The newest is the last of them.
LEMMA NoneNewer ==
  ASSUME WaitInv, WaitInv', NEW t \in Thread, Waits!HoldNewest(t), bucket = waitCurrent, NEW w \in Waits!Met(t)
  PROVE  w \notin Waits!List'
  <1>1. PICK L \in SUBSET Thread, T \in [Thread -> SUBSET Thread], pos \in [Thread -> Nat], r \in [Thread -> Nat],
             m \in Block : WaitHolds(L, T, pos, r, m)
    BY DEF WaitInv, WaitHeld
  <1>2. WaitLinks /\ Queued(L, pos, m)
    BY <1>1 DEF WaitHolds
  <1>3. PICK f : f = Waits!First(t)
    OBVIOUS
  <1>4. waitPc[t] = "scan" /\ Waits!Met(t) # {} /\ f = pBlock
    BY <1>3 DEF Waits!HoldNewest
  <1>5. /\ Meets(t, L, pos, m, f) /\ w \in L /\ pos[f] <= pos[w] /\ pos[w] <= pos[m]
    BY <1>1, <1>3, <1>4, FirstBefore
  <1>6. f \in L /\ f \in Thread /\ f = m
    BY <1>4, <1>5 DEF Meets
  <1>7. w = f
    <2>1. pos[w] = pos[f] /\ Ordered(waitBack, L, bucket.block, pos)
      BY <1>2, <1>5, <1>6, QueueIs DEF Queued, Queue
    <2> QED BY <1>5, <1>6, <2>1 DEF Ordered
  <1>8. inHand'[t] = f /\ waitPc'[t] = "take"
    <2>1. inHand' = [inHand EXCEPT ![t] = f] /\ waitPc' = [waitPc EXCEPT ![t] = "take"]
      BY <1>3 DEF Waits!HoldNewest, Waits!Hold, Waits!Goto
    <2>2. inHand \in [Thread -> Block] /\ waitPc \in [Thread -> InPlaces]
      BY ListFacts DEF OfWaiters, BucketType
    <2> QED BY <2>1, <2>2
  <1>9. f \in Catch(t)'
    BY <1>6, <1>8, NullIsNoThread DEF Catch, Hand
  <1> QED BY <1>7, <1>9, WhereaboutsNext DEF PlacesInv, Caught


\* Its own steps leave nobody behind.
LEMMA PassedOwn ==
  ASSUME WaitInv, WaitInv', NEW t \in Thread, Steps(t), Wanted(t), unreached \in [Thread -> SUBSET Thread],
         NEW w \in Thread, w \in unreached'[t], Seeks(t, w), Passed(t, w)
  PROVE  Passed(t, w)'
  <1>1. /\ BucketType /\ WaiterAt(t) /\ waitPc \in [Thread -> InPlaces] /\ waitPc[t] \notin {"add", "idle"} \cup InWait
        /\ waitPc[t] \in InPlaces
    BY ListFacts, CallIs DEF OfWaiters, BucketType, WaiterInv, WaiterAt, Fits, Seeks, InWait
  <1>2. w \in Waits!List' => w \in Waits!List
    BY <1>1, ListGrows
  <1>3. Waits!WaitsAt(w, waitCall[t].address)
    BY CallIs DEF Seeks, Waits!WaitsAt
  <1>4. CASE w \notin Waits!List'
    BY <1>4 DEF Passed
  <1>5. CASE w \in Waits!List'
    <2>1. waitPc[t] \notin Late /\ (waitPc[t] \in {"scan", "take"} => w \in Waits!Ahead(pItem[t]))
      BY <1>2, <1>5 DEF Passed
    <2>2. waitPc[t] = "scan" => w \in Waits!Met(t)
      BY <1>3, <2>1 DEF Waits!Met
    <2>3. Waits!Wake(t) \/ Waits!Scanned(t) \/ Waits!HoldOlder(t) \/ Waits!HoldNewest(t) \/ Waits!Take(t)
      BY <1>1, <2>1 DEF Steps, Late, InPlaces, InWait, Waits!BeginWait, Waits!BeginWake, Waits!TimeOut, Waits!Inside, Waits!Add, Waits!Look,
         Waits!Optimize, Waits!Compare, Waits!Spin, Waits!RemoveWaitBlock, Waits!RemoveNewest, Waits!NotFound, Waits!Rejoin,
         Waits!UnlockList, Waits!WakeNext, Waits!ReleaseNext, Waits!ReleaseAll
    <2>4. CASE Waits!Wake(t)
      <3>1. CASE bucket.block = Null \/ bucket.locked
        <4>1. waitPc' = [waitPc EXCEPT ![t] = "idle"]
          BY <2>4, <3>1 DEF Waits!Wake, Waits!Return, Waits!Goto
        <4> QED BY <1>1, <4>1 DEF Passed, Late
      <3>2. CASE ~(bucket.block = Null \/ bucket.locked)
        <4>1. PICK v : v = [bucket EXCEPT !.locked = TRUE]
          OBVIOUS
        <4>2. v.block = bucket.block
          BY <1>1, <4>1, BucketLocked DEF BucketType
        <4>3. bucket' = v /\ Waits!BeginScan(t, v)
          BY <2>4, <3>2, <4>1 DEF Waits!Wake
        <4>4. w \in Waits!Ahead(pItem[t])'
          BY <1>5, <3>2, <4>2, <4>3, BeginsAtAll
        <4>5. waitPc'[t] = "scan"
          BY <1>1, <4>3 DEF Waits!BeginScan, Waits!Goto
        <4> QED BY <4>4, <4>5 DEF Passed, Late
      <3> QED BY <3>1, <3>2
    <2>5. CASE Waits!Scanned(t)
      BY <2>2, <2>5 DEF Waits!Scanned
    <2>6. CASE Waits!HoldOlder(t)
      <3>1. w \in Waits!Ahead(pItem[t])'
        BY <1>5, <2>2, <2>6, AheadOlder DEF Waits!HoldOlder
      <3>2. waitPc'[t] = "take"
        BY <1>1, <2>6 DEF Waits!HoldOlder, Waits!Hold, Waits!Goto
      <3> QED BY <3>1, <3>2 DEF Passed, Late
    <2>7. CASE Waits!HoldNewest(t) /\ bucket = waitCurrent
      BY <1>5, <2>2, <2>7, NoneNewer DEF Waits!HoldNewest
    <2>8. CASE Waits!HoldNewest(t) /\ bucket # waitCurrent
      <3>1. bucket' = bucket /\ Waits!BeginScan(t, bucket)
        BY <2>8 DEF Waits!HoldNewest
      <3>2. bucket.block # Null
        BY <1>2, <1>5, Whereabouts DEF PlacesInv
      <3>3. w \in Waits!Ahead(pItem[t])'
        BY <1>5, <3>1, <3>2, BeginsAtAll
      <3>4. waitPc'[t] = "scan"
        BY <1>1, <3>1 DEF Waits!BeginScan, Waits!Goto
      <3> QED BY <3>3, <3>4 DEF Passed, Late
    <2>9. CASE Waits!Take(t)
      <3>1. waitNotify' = waitNotify /\ pItem' = pItem /\ Waits!Stirs(inHand[t], TRUE) /\ waitPc[t] = "take"
        BY <2>9 DEF Waits!Take
      <3>2. PICK p : p = (IF flag[inHand[t]] # Waits!Woken /\ ~waitCall[t].all THEN "releaseAll" ELSE "scan")
        OBVIOUS
      <3>3. waitPc'[t] = p
        BY <1>1, <2>9, <3>2 DEF Waits!Take, Waits!Goto
      <3>4. waitCall[t].kind = "wake" /\ Waits!WaitsAt(inHand[t], waitCall[t].address)
        BY <3>1, CallIs DEF Seeks, Wanted, Waits!WaitsAt
      <3>5. waitCall[t].all
        BY <3>1, <3>4 DEF Waits!Stirs
      <3>6. waitPc'[t] = "scan"
        BY <3>2, <3>3, <3>5
      <3>7. Waits!Ahead(pItem[t])' = Waits!Ahead(pItem[t])
        BY <3>1 DEF Waits!Ahead, Waits!Follow
      <3> QED BY <2>1, <3>1, <3>6, <3>7 DEF Passed, Late
    <2> QED BY <2>3, <2>4, <2>5, <2>6, <2>7, <2>8, <2>9
  <1> QED BY <1>4, <1>5

\* What it takes in hand waits at its address, and goes on to.
LEMMA WantedNext ==
  ASSUME WaitInv, WaitInv', NEW t \in Thread, Steps(t), NEW u \in Thread, waitPc'[u] = "take", waitPc[u] # "idle",
         inHand'[u] \in Thread => Waits!WaitsAt(inHand'[u], waitCall[u].address)
  PROVE  Wanted(u)'
  <1>1. /\ WaiterInv /\ WaiterInv' /\ WaiterAt(u)' /\ PlacesInv' /\ inHand'[u] \in Block
        /\ waitCall \in [Thread -> WaitCalls] /\ waitCall' \in [Thread -> WaitCalls]
    BY ListFacts, WhereaboutsNext DEF PlacesInv, OfWaiters, WaiterInv, BucketType
  <1>2. PICK b : b = inHand'[u]
    OBVIOUS
  <1>3. b \in Thread /\ b # Null
    BY <1>1, <1>2, NullIsNoThread DEF WaiterAt, Fits, Block
  <1>4. Waits!WaitsAt(b, waitCall[u].address)
    BY <1>2, <1>3
  <1>5. waitPc[b] # "idle"
    BY <1>1, <1>3, <1>4, CallIs DEF WaiterInv, WaiterAt, Fits, Waits!WaitsAt
  <1>6. ToSet(b)'
    <2>1. b \in Hand(u)' /\ ~Drains(u)'
      BY <1>2, <1>3 DEF Hand, Drains
    <2> QED BY <1>1, <2>1 DEF PlacesInv
  <1>7. waitPc'[b] # "idle"
    BY <1>6 DEF ToSet, Drains
  <1>8. SameCall(u) /\ SameCall(b)
    BY <1>3, CallsKept
  <1>9. waitCall'[b].kind = "wait" /\ waitCall'[b].address = waitCall'[u].address
    BY <1>4, <1>5, <1>7, <1>8 DEF SameCall, Waits!WaitsAt
  <1>10. waitCall'[b] \in Waiting
    BY <1>1, <1>3, <1>9, CallKinds
  <1> QED BY <1>2, <1>9, <1>10 DEF Wanted

\* The wake-up and those it is for go on, or are no longer looked for.
LEMMA SeeksNext ==
  ASSUME WaitInv, WaitInv', unreached \in [Thread -> SUBSET Thread], NEW t \in Thread, Steps(t), NEW u \in Thread,
         u = t => waitPc'[u] # "idle", NEW w \in Thread, w \in unreached'[u], Seeks(u, w)
  PROVE  Seeks(u, w)'
  <1>1. /\ WaiterInv /\ waitCall' \in [Thread -> WaitCalls]
    BY ListFacts, WhereaboutsNext DEF PlacesInv, OfWaiters, BucketType
  <1>2. waitPc[w] \in {"spin", "kernel"} /\ flag[w] # Waits!Woken /\ waitCall[w].kind = "wait" /\ waitCall[u].kind = "wake"
    BY CallIs DEF Seeks
  <1>3. waitPc'[w] \in {"spin", "kernel"} /\ flag'[w] # Waits!Woken
    BY <1>2, SeekerStays
  <1>4. waitPc[u] # "idle" /\ waitCall[u] \notin Waiting
    BY <1>1, <1>2, CallIs DEF WaiterInv, WaiterAt, Fits
  <1>5. waitPc'[u] # "idle"
    BY <1>4, WakerStays
  <1>6. SameCall(u) /\ SameCall(w)
    BY CallsKept
  <1>7. waitCall'[u].kind = "wake" /\ waitCall'[w].kind = "wait" /\ waitCall'[u].address = waitCall'[w].address
    BY <1>2, <1>3, <1>4, <1>5, <1>6 DEF SameCall, Seeks
  <1>8. waitCall'[u] \in Waking1 /\ waitCall'[w] \in Waiting
    BY <1>1, <1>7, CallKinds
  <1> QED BY <1>3, <1>7, <1>8 DEF Seeks


-----------------------------------------------------------------------------
(* Every wake-up reaches those it is for.                                  *)

LEMMA ReachBegins ==
  ASSUME WaitInv, WaitInv', ReachInv, NEW t \in Thread, Waits!BeginWake(t), NEW w \in unreached'[t]
  PROVE  w \in Thread /\ Seeks(t, w)' /\ Passed(t, w)'
  <1>1. /\ WaiterInv /\ waitPc \in [Thread -> InPlaces] /\ waitCall \in [Thread -> WaitCalls]
    BY ListFacts DEF OfWaiters, BucketType
  <1>2. PICK a \in Address, all \in BOOLEAN :
          /\ waitCall' = [waitCall EXCEPT ![t] = [kind |-> "wake", address |-> a, all |-> all, bNoRemove |-> FALSE]]
          /\ unreached' = [unreached EXCEPT ![t] = {x \in Thread : /\ Waits!WaitsAt(x, a) /\ waitPc[x] \in {"spin", "kernel"}
                                                                /\ flag[x] # Waits!Woken}]
    BY DEF Waits!BeginWake
  <1>3. waitPc[t] = "idle" /\ waitPc' = [waitPc EXCEPT ![t] = "wake"] /\ flag' = flag
    BY DEF Waits!BeginWake, Waits!Goto, Waits!block
  <1>4. w \in Thread /\ Waits!WaitsAt(w, a) /\ waitPc[w] \in {"spin", "kernel"} /\ flag[w] # Waits!Woken
    BY <1>2 DEF ReachInv
  <1>5. w # t
    BY <1>3, <1>4
  <1>6. waitCall'[w] = waitCall[w] /\ waitPc'[w] = waitPc[w] /\ flag'[w] = flag[w] /\ waitPc'[t] = "wake"
    BY <1>1, <1>2, <1>3, <1>4, <1>5
  <1>7. waitCall[w] \in Waiting /\ waitCall[w].address = a
    BY <1>1, <1>4, CallKinds DEF Waits!WaitsAt
  <1>8. waitCall'[t] \in Waking1 /\ waitCall'[t].address = a
    BY <1>1, <1>2 DEF Waking1
  <1> QED BY <1>4, <1>6, <1>7, <1>8 DEF Seeks, Passed, Late

LEMMA ReachWants ==
  ASSUME WaitInv, WaitInv', ReachInv, NEW t \in Thread, Steps(t), NEW u \in Thread
  PROVE  Wanted(u)'
  <1> SUFFICES ASSUME waitPc'[u] = "take"
               PROVE  Wanted(u)'
    BY DEF Wanted
  <1>1. /\ WaiterInv /\ WaiterInv' /\ WaiterAt(u) /\ WaiterAt(u)' /\ waitPc \in [Thread -> InPlaces]
        /\ inHand \in [Thread -> Block] /\ waitCall \in [Thread -> WaitCalls]
    BY ListFacts, WhereaboutsNext DEF PlacesInv, OfWaiters, WaiterInv, BucketType
  <1>2. waitCall'[u] \in Waking1
    BY <1>1 DEF WaiterAt, Fits, InWake
  <1>3. CASE u # t
    <2>1. waitPc[u] = "take" /\ inHand'[u] = inHand[u]
      <3>1. CASE waitCall[u] \notin Waiting
        BY <1>3, <3>1, WakerStays
      <3>2. CASE waitCall[u] \in Waiting
        <4>1. waitPc[u] # "idle"
          BY <1>1, <3>2, CallIs DEF WaiterAt, Fits
        <4>2. waitCall'[u].kind = waitCall[u].kind
          BY <4>1, CallsKept DEF SameCall
        <4> QED BY <1>2, <3>2, <4>2, CallIs
      <3> QED BY <3>1, <3>2
    <2>2. Waits!WaitsAt(inHand[u], waitCall[u].address)
      BY <2>1, CallIs DEF ReachInv, Wanted, Waits!WaitsAt
    <2> QED BY <2>1, <2>2, WantedNext
  <1>4. CASE u = t
    <2>1. (Waits!HoldOlder(t) \/ Waits!HoldNewest(t)) /\ Waits!Hold(t)
      <3>1. ASSUME NEW p, waitPc' = [waitPc EXCEPT ![t] = p], p # "take"
            PROVE  FALSE
        BY <1>1, <1>4, <3>1
      <3>2. ASSUME NEW b, NEW p, Waits!Release(t, b, p), waitPc[t] \in {"release", "releaseAll"}, p # "take"
            PROVE  FALSE
        <4>1. b # t
          BY <3>2 DEF Waits!Release, Waits!Asleep
        <4> QED BY <1>1, <1>4, <3>2, <4>1 DEF Waits!Release
      <3>3. ~(Waits!BeginWait(t) \/ Waits!BeginWake(t) \/ Waits!TimeOut(t) \/ Waits!Add(t) \/ Waits!Look(t) \/ Waits!Compare(t)
              \/ Waits!Spin(t) \/ Waits!RemoveWaitBlock(t) \/ Waits!NotFound(t) \/ Waits!Rejoin(t) \/ Waits!Scanned(t))
        BY <3>1 DEF Waits!BeginWait, Waits!BeginWake, Waits!TimeOut, Waits!Add, Waits!Look, Waits!Compare, Waits!Spin,
           Waits!RemoveWaitBlock, Waits!NotFound, Waits!Rejoin, Waits!Scanned, Waits!Return, Waits!Goto
      <3>4. ~(Waits!UnlockList(t) \/ Waits!Wake(t) \/ Waits!Take(t))
        BY <3>1 DEF Waits!UnlockList, Waits!Unlock, Waits!Wake, Waits!BeginScan, Waits!Take, Waits!Return, Waits!Goto
      <3>5. ~(Waits!Optimize(t) \/ Waits!RemoveNewest(t) \/ Waits!WakeNext(t))
        <4>1. waitPc[t] \in {"optimize", "removeFirst", "wakeList"} => waitPc' # waitPc
          BY <1>4
        <4> QED BY <3>1, <4>1 DEF Waits!Optimize, Waits!Unlock, Waits!RemoveNewest, Waits!WakeNext, Waits!Return, Waits!Goto
      <3>6. ~(Waits!ReleaseNext(t) \/ Waits!ReleaseAll(t))
        BY <3>1, <3>2 DEF Waits!ReleaseNext, Waits!ReleaseAll, Waits!Return, Waits!Goto
      <3>7. Waits!HoldNewest(t) => bucket = waitCurrent
        BY <3>1 DEF Waits!HoldNewest, Waits!BeginScan, Waits!Goto
      <3> QED BY <3>3, <3>4, <3>5, <3>6, <3>7 DEF Steps, Waits!Inside, Waits!HoldOlder, Waits!HoldNewest
    <2>2. waitPc[t] = "scan" /\ Waits!Met(t) # {}
      BY <2>1 DEF Waits!HoldOlder, Waits!HoldNewest
    <2>3. Waits!First(t) \in Waits!Met(t)
      <3>1. PICK L \in SUBSET Thread, T \in [Thread -> SUBSET Thread], pos \in [Thread -> Nat], r \in [Thread -> Nat],
                 m \in Block : WaitHolds(L, T, pos, r, m)
        BY DEF WaitInv, WaitHeld
      <3>2. PICK f : f = Waits!First(t)
        OBVIOUS
      <3> QED BY <2>2, <3>1, <3>2, FirstBefore
    <2>4. inHand'[t] = Waits!First(t)
      BY <1>1, <2>1 DEF Waits!Hold
    <2>5. Waits!WaitsAt(inHand'[t], waitCall[t].address)
      BY <2>3, <2>4 DEF Waits!Met
    <2> QED BY <1>4, <2>2, <2>5, WantedNext
  <1> QED BY <1>3, <1>4

LEMMA ReachStep ==
  ASSUME WaitInv, WaitInv', ReachInv, NEW t \in Thread, Waits!Acts(t)
  PROVE  ReachInv'
  <1>1. Steps(t)
    BY DEF Waits!Acts, Steps
  <1>2. unreached \in [Thread -> SUBSET Thread]
    BY DEF ReachInv
  <1>3. \A u \in Thread : Wanted(u)'
    BY <1>1, ReachWants
  <1>4. ASSUME NEW u \in Thread, NEW w \in unreached'[u], w \in unreached[u], u = t => waitPc'[u] # "idle"
        PROVE  Seeks(u, w)' /\ Passed(u, w)'
    <2>1. w \in Thread /\ Seeks(u, w) /\ Passed(u, w) /\ Wanted(u)
      BY <1>2, <1>4 DEF ReachInv
    <2>2. Seeks(u, w)'
      BY <1>1, <1>2, <1>4, <2>1, SeeksNext
    <2>3. CASE u = t
      BY <1>1, <1>2, <1>4, <2>1, <2>2, <2>3, PassedOwn
    <2>4. CASE u # t
      <3>1. waitCall[u] \notin Waiting /\ waitPc[w] # "add"
        BY <2>1, CallIs DEF Seeks
      <3> QED BY <1>1, <2>1, <2>2, <2>4, <3>1, PassedOthers
    <2> QED BY <2>3, <2>4
  <1>5. CASE Waits!BeginWake(t)
    <2>1. \E S \in SUBSET Thread : unreached' = [unreached EXCEPT ![t] = S]
      BY <1>5 DEF Waits!BeginWake
    <2>2. unreached' \in [Thread -> SUBSET Thread] /\ \A u \in Thread : u # t => unreached'[u] = unreached[u]
      BY <1>2, <2>1
    <2>3. \A u \in Thread : \A w \in unreached'[u] : Seeks(u, w)' /\ Passed(u, w)'
      <3>1. ASSUME NEW u \in Thread, NEW w \in unreached'[u]
            PROVE  Seeks(u, w)' /\ Passed(u, w)'
        <4>1. CASE u = t
          BY <1>5, <3>1, <4>1, ReachBegins
        <4>2. CASE u # t
          BY <1>4, <2>2, <3>1, <4>2
        <4> QED BY <4>1, <4>2
      <3> QED BY <3>1
    <2> QED BY <1>3, <2>2, <2>3 DEF ReachInv
  <1>6. CASE ~Waits!BeginWake(t)
    <2>1. Thins(t)
      BY <1>1, <1>2, <1>6, Thinner
    <2>2. ASSUME NEW u \in Thread, NEW w \in unreached'[u]
          PROVE  Seeks(u, w)' /\ Passed(u, w)'
      <3>1. w \in unreached[u]
        BY <2>1 DEF Thins
      <3>2. waitCall[u] \in Waking1
        BY <3>1 DEF ReachInv, Seeks
      <3>3. u = t => waitPc'[u] # "idle"
        BY <2>1, <2>2, <3>2 DEF Thins
      <3> QED BY <1>4, <3>1, <3>3
    <2> QED BY <1>3, <2>1, <2>2 DEF ReachInv, Thins
  <1> QED BY <1>5, <1>6

LEMMA ReachInit ==
  ASSUME Waits!Init
  PROVE  ReachInv
  <1>1. unreached = [t \in Thread |-> {}] /\ waitPc = [t \in Thread |-> "idle"]
    BY DEF Waits!Init
  <1>2. unreached \in [Thread -> SUBSET Thread] /\ \A t \in Thread : unreached[t] = {} /\ waitPc[t] = "idle"
    BY <1>1
  <1> QED BY <1>2 DEF ReachInv, Wanted

LEMMA ReachStutters ==
  ASSUME ReachInv, UNCHANGED waitVars
  PROVE  ReachInv'
  <1>1. UNCHANGED <<bucket, waitBack, waitNotify, flag, waitPc, waitCall, pItem, inHand, unreached>>
    BY DEF waitVars
  <1>2. Waits!List' = Waits!List /\ \A t : Waits!Ahead(pItem[t])' = Waits!Ahead(pItem[t])
    BY <1>1 DEF Waits!List, Waits!Behind, Waits!Ahead, Waits!Follow
  <1>3. \A t : Wanted(t)' <=> Wanted(t)
    BY <1>1 DEF Wanted
  <1>4. \A t, w : (Seeks(t, w)' <=> Seeks(t, w)) /\ (Passed(t, w)' <=> Passed(t, w))
    BY <1>1, <1>2 DEF Seeks, Passed
  <1> QED BY <1>1, <1>3, <1>4 DEF ReachInv

\* While a call of WakeByAddressSingle/All runs (synch.hpp:1134-1303), whoever has waited at its address since the
\* call began, and has neither been woken nor given up, is still there for it to find: the call's walk has not left
\* the waiter behind on the list, whatever others take off the list meanwhile.
THEOREM WakesPass == SleepersSpec => []((BelowVista /\ misled) \/ ReachInv)
  <1>1. SleepersInit => ReachInv
    BY ReachInit DEF SleepersInit
  <1>2. /\ Sound /\ Sound' /\ ((BelowVista /\ misled) \/ ReachInv)
        /\ [SleepersNext]_<<part, vars, late, waitVars>>
        => ((BelowVista /\ misled) \/ ReachInv)'
    <2> SUFFICES ASSUME Sound, Sound', (BelowVista /\ misled) \/ ReachInv, ~(BelowVista /\ misled'),
                        [SleepersNext]_<<part, vars, late, waitVars>>
                 PROVE  ReachInv'
      OBVIOUS
    <2>1. CASE Next /\ UNCHANGED <<part, waitVars>>
      BY <2>1, NextActs, ReachStutters
    <2>2. CASE Waits!Next /\ UNCHANGED part /\ part = "address"
      <3>1. WaitInv /\ WaitInv' /\ ReachInv /\ (misled' \/ \E t \in Thread : Waits!Acts(t))
        BY <2>2, WaitsNextActs DEF Sound
      <3>2. misled' => BelowVista
        BY <2>2, WaitsNextActs, MisledBelow DEF Sound
      <3> QED BY <3>1, <3>2, ReachStep
    <2>3. CASE UNCHANGED <<part, vars, late, waitVars>>
      BY <2>3, ReachStutters DEF late
    <2> QED BY <2>1, <2>2, <2>3 DEF SleepersNext
  <1> QED BY <1>1, <1>2, WaitsInvariance, PTL DEF SleepersSpec

\* A missed release that meets a wait ends no call of a waker.
LEMMA MeetEndsNoWake ==
  ASSUME WaitInv, NEW x \in Thread, Waits!Meet(x), NEW t \in Thread, waitCall[t].kind = "wake"
  PROVE  waitPc'[t] # "idle"
  <1>1. PICK b : b = missed[x]
    OBVIOUS
  <1>2. Waits!Release(x, b, waitPc[x])
    BY <1>1 DEF Waits!Meet
  <1>3. /\ \A u \in Thread : WaiterAt(u)
        /\ waitPc \in [Thread -> InPlaces] /\ waitCall[t] \in WaitCalls
    BY DEF WaitInv, OfWaiters, BucketType, WaiterInv
  <1>4. waitCall[t] \in Waking1 /\ waitPc[t] # "idle" /\ waitCall[t] \notin Waiting
    <2>1. waitCall[t] # Waits!NoCall /\ waitCall[t] \notin Waiting
      BY DEF Waits!NoCall, Waiting
    <2>2. WaiterAt(t)
      BY <1>3
    <2> QED BY <1>3, <2>1, <2>2 DEF WaiterAt, Fits, WaitCalls
  <1>5. b # t
    BY <1>2, <1>3, <1>4 DEF Waits!Release, Waits!Asleep, WaiterAt, Fits, InWait
  <1> QED BY <1>2, <1>3, <1>4, <1>5 DEF Waits!Release

LEMMA CatchTaken == \A b \in Thread : Caught(b) => \E t \in Thread : b \in Waits!Taken(t)
  BY DEF Caught, Catch, HeadOf, Drains, Hand, Waits!Taken

LEMMA CatchTakenNext == \A b \in Thread : Caught(b)' => \E t \in Thread : b \in Waits!Taken(t)'
  <1>1. (\A b \in Thread : Caught(b) => \E t \in Thread : b \in Waits!Taken(t))'
    BY CatchTaken, PTL
  <1> QED BY <1>1

\* A waker leaves when it has passed all, or has asked the owner of the list to wake everybody.
LEMMA WakerLeaves ==
  ASSUME WaitInv, NEW t \in Thread, Steps(t), waitCall[t] \in Waking1, waitPc'[t] = "idle"
  PROVE  /\ Waits!Return(t)
         /\ \/ waitPc[t] \in Late
            \/ (bucket.block = Null \/ bucket.locked) /\ bucket'.wakeAll = bucket.locked
  <1>1. /\ BucketType /\ WaiterAt(t) /\ waitPc \in [Thread -> InPlaces] /\ waitPc[t] \notin {"idle"} \cup InWait
        /\ waitPc[t] \in InPlaces
    BY ListFacts, CallIs DEF OfWaiters, BucketType, WaiterInv, WaiterAt, Fits, InWait
  <1>2. ASSUME NEW p, waitPc' = [waitPc EXCEPT ![t] = p], p # "idle"
        PROVE  FALSE
    BY <1>1, <1>2
  <1>3. ASSUME NEW b, NEW p, Waits!Release(t, b, p), p # "idle"
        PROVE  FALSE
    <2>1. b # t
      BY <1>1, <1>3 DEF Waits!Release, Waits!Asleep, InWait
    <2> QED BY <1>1, <1>3, <2>1 DEF Waits!Release
  <1>4. Waits!Wake(t) \/ Waits!UnlockList(t) \/ Waits!WakeNext(t) \/ Waits!ReleaseAll(t)
    <2>1. ~(Waits!BeginWait(t) \/ Waits!BeginWake(t) \/ Waits!TimeOut(t) \/ Waits!Add(t) \/ Waits!Look(t) \/ Waits!Optimize(t)
            \/ Waits!Compare(t) \/ Waits!Spin(t) \/ Waits!RemoveWaitBlock(t) \/ Waits!RemoveNewest(t) \/ Waits!NotFound(t)
            \/ Waits!Rejoin(t))
      BY <1>1 DEF InWait, Waits!BeginWait, Waits!BeginWake, Waits!TimeOut, Waits!Add, Waits!Look, Waits!Optimize, Waits!Compare,
         Waits!Spin, Waits!RemoveWaitBlock, Waits!RemoveNewest, Waits!NotFound, Waits!Rejoin
    <2>2. ~(Waits!Scanned(t) \/ Waits!HoldOlder(t))
      BY <1>2 DEF Waits!Scanned, Waits!HoldOlder, Waits!Hold, Waits!Goto
    <2>3. ~Waits!HoldNewest(t)
      BY <1>2 DEF Waits!HoldNewest, Waits!Hold, Waits!BeginScan, Waits!Goto
    <2>4. ~Waits!Take(t)
      BY <1>2 DEF Waits!Take, Waits!Goto
    <2>5. ~Waits!ReleaseNext(t)
      BY <1>3 DEF Waits!ReleaseNext
    <2> QED BY <2>1, <2>2, <2>3, <2>4, <2>5 DEF Steps, Waits!Inside
  <1>5. Waits!Return(t)
    <2>1. waitPc' # waitPc
      BY <1>1
    <2> QED BY <1>2, <1>3, <1>4, <2>1 DEF Waits!Wake, Waits!UnlockList, Waits!Unlock, Waits!WakeNext, Waits!ReleaseAll,
            Waits!BeginScan, Waits!Goto
  <1>6. CASE Waits!Wake(t)
    <2>1. (bucket.block = Null \/ bucket.locked) /\ bucket' = [bucket EXCEPT !.wakeAll = bucket.locked]
      BY <1>2, <1>6 DEF Waits!Wake, Waits!BeginScan, Waits!Goto
    <2>2. bucket'.wakeAll = bucket.locked
      BY <1>1, <2>1 DEF BucketType, Buckets
    <2> QED BY <1>5, <2>1, <2>2
  <1>7. CASE Waits!UnlockList(t) \/ Waits!WakeNext(t) \/ Waits!ReleaseAll(t)
    BY <1>5, <1>7 DEF Waits!UnlockList, Waits!WakeNext, Waits!ReleaseAll, Late
  <1> QED BY <1>4, <1>6, <1>7

LEMMA LeavesDue ==
  ASSUME WaitInv, WaitInv', WaitLeft', ReachInv, NEW x \in Thread, Steps(x), NEW t \in Thread, waitCall[t].kind = "wake",
         waitPc'[t] = "idle", NEW w \in unreached[t]
  PROVE  Waits!Due(w)'
  <1>1. w \in Thread /\ Seeks(t, w) /\ Passed(t, w)
    BY DEF ReachInv
  <1>2. /\ WaiterInv /\ waitPc \in [Thread -> InPlaces] /\ flag \in [Thread -> {0, 1, 2, 4}]
    BY ListFacts DEF OfWaiters, BucketType
  <1>3. waitCall[t] \in Waking1 /\ waitPc[t] # "idle" /\ waitCall[t] \notin Waiting
    BY <1>1, <1>2, CallIs DEF Seeks, WaiterInv, WaiterAt, Fits
  <1>4. x = t
    BY <1>3, WakerStays
  <1>5. Waits!Return(t) /\ (waitPc[t] \in Late \/ ((bucket.block = Null \/ bucket.locked) /\ bucket'.wakeAll = bucket.locked))
    BY <1>3, <1>4, WakerLeaves
  <1>6. w # t
    BY <1>1, <1>3 DEF Seeks
  <1>7. waitPc'[w] = waitPc[w] /\ flag'[w] = flag[w]
    BY <1>1, <1>2, <1>5, <1>6 DEF Waits!Return, Waits!Goto, Waits!Reset
  <1>8. Listed(w)'
    BY <1>1, <1>7 DEF Seeks, Listed, OnQueue
  <1>9. CASE Caught(w)'
    BY <1>1, <1>9, CatchTakenNext DEF Waits!Due
  <1>10. CASE w \in Waits!List'
    <2>1. w \in Waits!List
      BY <1>4, <1>6, <1>10, ListGrows
    <2>2. waitPc[t] \notin Late /\ bucket.block # Null
      BY <1>1, <2>1, Whereabouts DEF Passed, PlacesInv
    <2>3. bucket'.wakeAll
      BY <1>5, <2>2
    <2> QED BY <1>10, <2>3 DEF Waits!Due
  <1> QED BY <1>1, <1>8, <1>9, <1>10 DEF WaitLeft, Covers

\* No lost wake-up on an address, for any number of threads and addresses: whoever slept or was about to when a wake-up of
\* its address began (RtlpWakeByAddress, src/Thunks/api-ms-win-core-synch.hpp:1134-1303) has been woken, has given
\* up, or is about to be woken when the call returns; WakeByAddressSingle counts another waiter of the address instead.
THEOREM WakesReachAlways == SleepersSpec => WakeReaches
  <1> DEFINE Reaches ==
        \A t \in Thread : waitCall[t].kind = "wake" /\ waitPc'[t] = "idle" =>
          IF waitCall[t].all THEN \A w \in unreached[t] : Waits!Due(w)'
                             ELSE unreached[t] = {} \/ \E w \in unreached[t] : Waits!Due(w)'
  <1>1. /\ Sound /\ Sound' /\ ((BelowVista /\ misled) \/ WaitLeft)' /\ ((BelowVista /\ misled) \/ ReachInv)
        /\ [SleepersNext]_<<part, vars, late, waitVars>>
        => [Reaches]_Waits!vars
    <2>1. ASSUME Sound, Sound', ((BelowVista /\ misled) \/ WaitLeft)', (BelowVista /\ misled) \/ ReachInv, Waits!Next
          PROVE  Reaches
      <3>1. WaitInv /\ ReachInv /\ ~misled
        BY <2>1, WaitsNextActs DEF Sound
      <3>2. PICK x \in Thread : Waits!Meet(x) \/ (Waits!Acts(x) /\ misled' = misled)
        BY <2>1, <3>1 DEF Waits!Next, Waits!Miss, Waits!Acts, Waits!Inside, Waits!late
      <3>3. CASE Waits!Meet(x)
        BY <3>1, <3>3, MeetEndsNoWake
      <3>4. CASE Waits!Acts(x) /\ misled' = misled
        <4>1. WaitInv' /\ WaitLeft'
          BY <2>1, <3>1, <3>4 DEF Sound
        <4>2. Steps(x)
          BY <3>4 DEF Waits!Acts, Steps
        <4>3. ASSUME NEW t \in Thread, waitCall[t].kind = "wake", waitPc'[t] = "idle", NEW w \in unreached[t]
              PROVE  Waits!Due(w)'
          BY <3>1, <4>1, <4>2, <4>3, LeavesDue
        <4> QED BY <4>3
      <3> QED BY <3>2, <3>3, <3>4
    <2>2. UNCHANGED waitVars => UNCHANGED Waits!vars
      BY DEF waitVars, Waits!vars, Waits!block, Waits!links
    <2> QED BY <2>1, <2>2 DEF SleepersNext
  <1>2. SleepersSpec => [][Reaches]_Waits!vars
    BY <1>1, WaitsInvariance, WaitsLeft, WakesPass, PTL DEF SleepersSpec
  <1> QED BY <1>2 DEF WakeReaches, Waits!WakeReaches

-----------------------------------------------------------------------------
(* Condition variables: who sleeps on one is on the list or with a waker,  *)
(* and whoever has been told to wait for its waker is owed a wake-up.      *)

\* Those on the list that came no later than b.
Older(L, pos, b) == {x \in L : pos[x] <= pos[b]}

\* b sees to the wake-ups of others while its own block is with another waker.
Away(b) == pc[b] \in {"waking", "release"} /\ then[b] = "kernelAgain"

\* Who has gone into the kernel has told the wakers so.
ToldSo == \A b \in Thread : pc[b] \in {"kernel", "single", "removeNewest", "kernelAgain"} \/ Away(b) => ~spinning[b]

Found(L, T) ==
  /\ \A b \in Thread : On(b) => b \in L \/ \E t \in Thread : b \in T[t]
  /\ \A b \in L : then[b] # "kernelAgain"

\* A count that means all is not for nobody, while the newest block is taken off.
Asked == \A o \in Thread : pc[o] = "removeNewest" /\ word.count = WakeMask => owed >= 1

\* What the owner o still has to wake.
Room(T, o) == word.count + Own(o) - Cardinality(T[o])

\* A wake-up has been written over, and those still owed reach b.
Promise(L, T, pos, b) ==
  /\ forgotten >= 1 /\ owed >= 1
  /\ \A o \in Thread : Owner(o) => owed >= Room(T, o) + 1 \/ owed >= Cardinality(Older(L, pos, b))

Promised(L, T, pos) ==
  \A b \in L : pc[b] = "kernelAgain" /\ word.count # WakeMask => Promise(L, T, pos, b)

\* A waker that waits for another has the higher number: no circle of them waits.
Numbered(T, n, N) ==
  /\ \A u \in Thread : n[u] <= N
  /\ \A u \in Thread : \A b \in T[u] : Away(b) => n[u] < n[b]

Ranked(T) == \E n \in [Thread -> Nat], N \in Nat : Numbered(T, n, N)

Reached(L, T, pos) == Found(L, T) /\ ToldSo /\ Asked /\ Promised(L, T, pos) /\ Ranked(T)

SleepLeft ==
  \E L \in SUBSET Thread, T \in [Thread -> SUBSET Thread], pos \in [Thread -> Nat], r \in [Thread -> Nat], m \in Block :
    Holds(L, T, pos, r, m) /\ Reached(L, T, pos)

OnlyAt(t) ==
  \A x \in Thread : x # t => pc'[x] = pc[x] /\ call'[x] = call[x] /\ then'[x] = then[x] /\ spinning'[x] = spinning[x]

LEMMA Alike ==
  ASSUME NEW t \in Thread, OnlyAt(t), NEW x \in Thread, x # t
  PROVE  /\ On(x)' <=> On(x)
         /\ Away(x)' <=> Away(x)
         /\ Owner(x)' <=> Owner(x)
         /\ Own(x)' = Own(x)
         /\ pc'[x] = pc[x] /\ then'[x] = then[x] /\ spinning'[x] = spinning[x]
  <1>1. pc'[x] = pc[x] /\ call'[x] = call[x] /\ then'[x] = then[x] /\ spinning'[x] = spinning[x]
    BY DEF OnlyAt
  <1> QED BY <1>1 DEF On, Away, Owner, Own

\* What is called for is owed, or as many as there are.
LEMMA OweKeeps ==
  ASSUME NEW m \in Int, NEW n \in Nat, forgotten \in Nat, Owe(m, n)
  PROVE  /\ owed' \in Nat /\ forgotten' \in Nat
         /\ m <= owed' \/ n <= owed'
         /\ 1 <= m /\ 1 <= n => 1 <= owed'
         /\ 1 <= forgotten /\ 1 <= owed' => 1 <= forgotten'
  BY DEF Owe, Least

LEMMA OlderFew ==
  ASSUME NEW L \in SUBSET Thread, NEW L1 \in SUBSET L, NEW pos \in [Thread -> Nat], NEW b \in L1
  PROVE  /\ Cardinality(Older(L1, pos, b)) \in Nat /\ Cardinality(Older(L1, pos, b)) >= 1
         /\ Cardinality(Older(L, pos, b)) \in Nat
         /\ Cardinality(Older(L1, pos, b)) <= Cardinality(Older(L, pos, b))
         /\ Cardinality(L1) \in Nat /\ Cardinality(Older(L1, pos, b)) <= Cardinality(L1)
         /\ 1 <= Cardinality(L1)
  <1>1. PICK A : A = Older(L1, pos, b)
    OBVIOUS
  <1>2. PICK B : B = Older(L, pos, b)
    OBVIOUS
  <1>3. A \subseteq B /\ A \subseteq L1 /\ B \subseteq L /\ b \in A
    <2>1. pos[b] <= pos[b]
      OBVIOUS
    <2> QED BY <1>1, <1>2, <2>1 DEF Older
  <1>4. IsFiniteSet(A) /\ IsFiniteSet(B) /\ IsFiniteSet(L1)
    BY <1>3, ThreadsAssumption, FS_Subset
  <1>5. Cardinality(A) \in Nat /\ Cardinality(B) \in Nat /\ Cardinality(L1) \in Nat
    BY <1>4, FS_CardinalityType
  <1>6. Cardinality(A) <= Cardinality(B) /\ Cardinality(A) <= Cardinality(L1)
    BY <1>3, <1>4, FS_Subset
  <1>7. Cardinality(A) # 0
    BY <1>3, <1>4, FS_EmptySet
  <1> QED BY <1>1, <1>2, <1>5, <1>6, <1>7

\* The oldest is older than any other.
LEMMA OlderLess ==
  ASSUME NEW L \in SUBSET Thread, NEW pos \in [Thread -> Nat], NEW o \in L, \A x \in L : pos[o] <= pos[x],
         NEW b \in L \ {o}
  PROVE  Cardinality(Older(L \ {o}, pos, b)) = Cardinality(Older(L, pos, b)) - 1
  <1>1. PICK B : B = Older(L, pos, b)
    OBVIOUS
  <1>2. Older(L \ {o}, pos, b) = B \ {o} /\ o \in B /\ B \subseteq L
    BY <1>1 DEF Older
  <1>3. IsFiniteSet(B)
    BY <1>2, ThreadsAssumption, FS_Subset
  <1>4. Cardinality(B \ {o}) = Cardinality(B) - 1
    BY <1>2, <1>3, FS_RemoveElement
  <1> QED BY <1>1, <1>2, <1>4

LEMMA RankedSame ==
  ASSUME NEW T \in [Thread -> SUBSET Thread], NEW T1 \in [Thread -> SUBSET Thread], Ranked(T),
         \A u \in Thread : \A x \in T1[u] : Away(x)' => Away(x) /\ x \in T[u]
  PROVE  Ranked(T1)'
  <1>1. PICK n \in [Thread -> Nat], N \in Nat : Numbered(T, n, N)
    BY DEF Ranked
  <1>2. Numbered(T1, n, N)'
    BY <1>1 DEF Numbered
  <1> QED BY <1>2 DEF Ranked

\* t goes to wake others while its block is with a waker.
LEMMA RankedAway ==
  ASSUME NEW T \in [Thread -> SUBSET Thread], Ranked(T), NEW t \in Thread, OnlyAt(t), T[t] = {}
  PROVE  Ranked(T)'
  <1>1. PICK n \in [Thread -> Nat], N \in Nat : Numbered(T, n, N)
    BY DEF Ranked
  <1>2. PICK n1 : n1 = [n EXCEPT ![t] = N + 1]
    OBVIOUS
  <1>3. n1 \in [Thread -> Nat] /\ n1[t] = N + 1 /\ \A u \in Thread : u # t => n1[u] = n[u]
    BY <1>2
  <1>4. \A u \in Thread : n1[u] <= N + 1
    <2>1. \A u \in Thread : n[u] <= N /\ n[u] \in Nat
      BY <1>1 DEF Numbered
    <2> QED BY <1>3, <2>1
  <1>5. ASSUME NEW u \in Thread, NEW b \in T[u], Away(b)'
        PROVE  n1[u] < n1[b]
    <2>1. u # t /\ n[u] <= N /\ n[u] \in Nat
      BY <1>1 DEF Numbered
    <2>2. CASE b = t
      BY <1>3, <2>1, <2>2
    <2>3. CASE b # t
      <3>1. Away(b)
        BY <1>5, <2>3, Alike
      <3> QED BY <1>1, <1>3, <2>1, <2>3, <3>1 DEF Numbered
    <2> QED BY <2>2, <2>3
  <1>6. Numbered(T, n1, N + 1)'
    BY <1>4, <1>5 DEF Numbered
  <1> QED BY <1>3, <1>6 DEF Ranked

\* One thread's step keeps it all.
LEMMA KeepsBy ==
  ASSUME NEW L \in SUBSET Thread, NEW T \in [Thread -> SUBSET Thread], NEW pos \in [Thread -> Nat], Reached(L, T, pos),
         NEW t \in Thread, OnlyAt(t), NEW L1, NEW T1, NEW pos1, Moved(L1, T1, pos1), L1 \subseteq L \cup {t},
         On(t)' => On(t) \/ t \in L1,
         \A x \in L : On(x)' => x \in L1 \/ \E u \in Thread : x \in T1[u],
         \A u \in Thread : \A x \in T[u] : On(x)' => \E v \in Thread : x \in T1[v],
         t \in L1 => then'[t] # "kernelAgain",
         pc'[t] \in {"kernel", "single", "removeNewest", "kernelAgain"} \/ Away(t)' => ~spinning'[t],
         Ranked(T1)', Asked', Promised(L1, T1, pos1)'
  PROVE  SleepLeft'
  <1>1. Found(L, T) /\ ToldSo
    BY DEF Reached
  <1>2. ASSUME NEW b \in Thread, On(b)'
        PROVE  b \in L1 \/ \E u \in Thread : b \in T1[u]
    <2>1. On(b) \/ b \in L1
      BY <1>2, Alike
    <2> QED BY <1>1, <1>2, <2>1 DEF Found
  <1>3. \A b \in L1 : then'[b] # "kernelAgain"
    <2>1. ASSUME NEW b \in L1, b # t
          PROVE  then'[b] # "kernelAgain"
      <3>1. b \in L /\ then'[b] = then[b]
        BY <2>1, Alike
      <3> QED BY <1>1, <3>1 DEF Found
    <2> QED BY <2>1
  <1>4. ToldSo'
    <2>1. ASSUME NEW b \in Thread, pc'[b] \in {"kernel", "single", "removeNewest", "kernelAgain"} \/ Away(b)'
          PROVE  ~spinning'[b]
      BY <1>1, <2>1, Alike DEF ToldSo
    <2> QED BY <2>1 DEF ToldSo
  <1>5. Reached(L1, T1, pos1)'
    BY <1>2, <1>3, <1>4 DEF Reached, Found
  <1> QED BY <1>5 DEF Moved, SleepLeft

\* Nothing is owed that was not, and no more is left to the owner.
LEMMA KeepsQuiet ==
  ASSUME NEW L \in SUBSET Thread, NEW T \in [Thread -> SUBSET Thread], NEW pos \in [Thread -> Nat], Reached(L, T, pos),
         NEW t \in Thread, OnlyAt(t), NEW T1, Moved(L, T1, pos), \A u \in Thread : T1[u] \subseteq T[u],
         \A u \in Thread : \A x \in T[u] \ T1[u] : ~On(x)',
         On(t)' => On(t), Away(t)' => Away(t), t \in L => then'[t] # "kernelAgain",
         pc'[t] \in {"kernel", "single", "removeNewest", "kernelAgain"} \/ Away(t)' => ~spinning'[t],
         UNCHANGED ghosts, word'.count # WakeMask => word.count # WakeMask,
         \A o \in Thread : Owner(o)' => Owner(o) /\ Own(o)' = Own(o) /\ T1[o] = T[o] /\ word'.count = word.count,
         t \in L /\ pc'[t] = "kernelAgain" => pc[t] = "kernelAgain" \/ word'.count = WakeMask,
         pc'[t] = "removeNewest" => pc[t] = "removeNewest"
  PROVE  SleepLeft'
  <1>1. Found(L, T) /\ Asked /\ Promised(L, T, pos) /\ Ranked(T)
    BY DEF Reached
  <1>2. UNCHANGED <<owed, forgotten>>
    BY DEF ghosts
  <1>3. T1 \in [Thread -> SUBSET Thread]
    BY DEF Moved
  <1>4. Ranked(T1)'
    <2>1. ASSUME NEW u \in Thread, NEW x \in T1[u], Away(x)'
          PROVE  Away(x) /\ x \in T[u]
      <3>1. x \in T[u] /\ x \in Thread
        BY <1>3
      <3> QED BY <2>1, <3>1, Alike
    <2> QED BY <1>1, <1>3, <2>1, RankedSame
  <1>5. Asked'
    <2>1. ASSUME NEW o \in Thread, pc'[o] = "removeNewest", word'.count = WakeMask
          PROVE  owed' >= 1
      <3>1. pc[o] = "removeNewest"
        BY <2>1, Alike
      <3>2. word'.count = word.count
        BY <2>1 DEF Owner
      <3> QED BY <1>1, <1>2, <2>1, <3>1, <3>2 DEF Asked
    <2> QED BY <2>1 DEF Asked
  <1>6. Promised(L, T1, pos)'
    <2>1. ASSUME NEW b \in L, pc'[b] = "kernelAgain", word'.count # WakeMask
          PROVE  Promise(L, T1, pos, b)'
      <3>1. pc[b] = "kernelAgain" /\ word.count # WakeMask
        BY <2>1, Alike
      <3>2. Promise(L, T, pos, b)
        BY <1>1, <3>1 DEF Promised
      <3>3. ASSUME NEW o \in Thread, Owner(o)'
            PROVE  owed' >= Room(T1, o)' + 1 \/ owed' >= Cardinality(Older(L, pos, b))
        <4>1. Room(T1, o)' = Room(T, o) /\ Owner(o)
          BY <3>3 DEF Room
        <4> QED BY <1>2, <3>2, <4>1 DEF Promise
      <3> QED BY <1>2, <3>2, <3>3 DEF Promise, Older
    <2> QED BY <2>1 DEF Promised
  <1>7. \A x \in L : On(x)' => x \in L \/ \E u \in Thread : x \in T1[u]
    OBVIOUS
  <1>8. \A u \in Thread : \A x \in T[u] : On(x)' => \E v \in Thread : x \in T1[v]
    OBVIOUS
  <1>9. L \subseteq L \cup {t}
    OBVIOUS
  <1>10. On(t)' => On(t) \/ t \in L
    OBVIOUS
  <1> QED BY <1>4, <1>5, <1>6, <1>7, <1>8, <1>9, <1>10, KeepsBy

LEMMA HoldsMoved ==
  ASSUME NEW L \in SUBSET Thread, NEW T \in [Thread -> SUBSET Thread], NEW pos \in [Thread -> Nat],
         NEW r \in [Thread -> Nat], NEW m \in Block, Holds(L, T, pos, r, m)'
  PROVE  Moved(L, T, pos)
  BY DEF Moved

LEMMA ReturnOnly ==
  ASSUME OfThreads, NEW t \in Thread, Return(t)
  PROVE  OnlyAt(t) /\ pc'[t] = "idle" /\ then'[t] = "idle" /\ ~On(t)' /\ ~Away(t)' /\ ~Owner(t)'
  BY DEF OfThreads, TypeOK, Return, OnlyAt, On, Away, Owner

LEMMA KeepsSpin ==
  ASSUME OfThreads, NEW L \in SUBSET Thread, NEW T \in [Thread -> SUBSET Thread], NEW pos \in [Thread -> Nat],
         NEW r \in [Thread -> Nat], NEW m \in Block, Holds(L, T, pos, r, m), Reached(L, T, pos),
         NEW t \in Thread, Spin(t)
  PROVE  SleepLeft'
  <1>1. Moved(L, T, pos)
    BY HoldsSpin, HoldsMoved
  <1>2. /\ OnlyAt(t) /\ (On(t)' => On(t)) /\ ~Away(t)' /\ (t \in L => then'[t] # "kernelAgain") /\ ~Owner(t)'
        /\ pc'[t] \in {"kernel", "single", "removeNewest", "kernelAgain"} => ~spinning'[t]
        /\ pc'[t] \in {"kernel", "idle"}
    <2>1. CASE spinning[t]
      <3>1. /\ pc[t] = "spin" /\ pc' = [pc EXCEPT ![t] = "kernel"] /\ spinning' = [spinning EXCEPT ![t] = FALSE]
            /\ UNCHANGED <<call, then>>
        BY <2>1 DEF Spin, Goto
      <3>2. pc'[t] = "kernel" /\ ~spinning'[t] /\ OnlyAt(t)
        BY <3>1 DEF OfThreads, TypeOK, OnlyAt
      <3>3. t \in L => then[t] # "kernelAgain"
        BY DEF Reached, Found
      <3> QED BY <2>1, <3>1, <3>2, <3>3 DEF On, Away, Owner
    <2>2. CASE ~spinning[t]
      BY <2>2, ReturnOnly DEF Spin
    <2> QED BY <2>1, <2>2
  <1>3. UNCHANGED <<word, ghosts>>
    BY DEF Spin
  <1>4. \A o \in Thread : Owner(o)' => Owner(o) /\ Own(o)' = Own(o) /\ T[o] = T[o] /\ word'.count = word.count
    BY <1>2, <1>3, Alike
  <1> QED BY <1>1, <1>2, <1>3, <1>4, KeepsQuiet

LEMMA KeepsTimeOut ==
  ASSUME OfThreads, NEW L \in SUBSET Thread, NEW T \in [Thread -> SUBSET Thread], NEW pos \in [Thread -> Nat],
         NEW r \in [Thread -> Nat], NEW m \in Block, Holds(L, T, pos, r, m), Reached(L, T, pos),
         NEW t \in Thread, TimeOut(t)
  PROVE  SleepLeft'
  <1>1. Moved(L, T, pos)
    BY HoldsTimeOut, HoldsMoved
  <1>2. pc[t] = "kernel" /\ pc' = [pc EXCEPT ![t] = "single"] /\ UNCHANGED <<call, then, spinning, word, ghosts>>
    BY DEF TimeOut, Goto
  <1>3. OnlyAt(t) /\ pc'[t] = "single" /\ On(t) /\ ~Away(t)' /\ ~Owner(t)'
    BY <1>2 DEF OfThreads, TypeOK, OnlyAt, On, Away, Owner
  <1>4. ~spinning'[t] /\ (t \in L => then'[t] # "kernelAgain")
    BY <1>2 DEF Reached, Found, ToldSo
  <1>5. \A o \in Thread : Owner(o)' => Owner(o) /\ Own(o)' = Own(o) /\ T[o] = T[o] /\ word'.count = word.count
    BY <1>2, <1>3, Alike
  <1> QED BY <1>1, <1>2, <1>3, <1>4, <1>5, KeepsQuiet

LEMMA KeepsReleased ==
  ASSUME OfThreads, NEW L \in SUBSET Thread, NEW T \in [Thread -> SUBSET Thread], NEW pos \in [Thread -> Nat],
         NEW r \in [Thread -> Nat], NEW m \in Block, Holds(L, T, pos, r, m), Reached(L, T, pos),
         NEW t \in Thread, Released(t)
  PROVE  SleepLeft'
  <1>1. Moved(L, T, pos)
    BY HoldsReleased, HoldsMoved
  <1>2. pc[t] = "release" /\ UNCHANGED <<word, ghosts>>
    BY DEF Released
  <1>3. t \in L => then[t] # "kernelAgain"
    BY DEF Reached, Found
  <1>4. /\ OnlyAt(t) /\ (On(t)' => On(t)) /\ ~Away(t)' /\ (t \in L => then'[t] # "kernelAgain") /\ ~Owner(t)'
        /\ pc'[t] \in {"kernel", "single", "removeNewest", "kernelAgain"} => ~spinning'[t]
        /\ (t \in L => pc'[t] # "kernelAgain") /\ pc'[t] # "removeNewest"
    <2>1. CASE then[t] = "idle"
      BY <2>1, ReturnOnly DEF Released
    <2>2. CASE then[t] # "idle"
      <3>1. pc' = [pc EXCEPT ![t] = then[t]] /\ UNCHANGED <<spinning, call, then>>
        BY <2>2 DEF Released, Stay, Goto
      <3>2. pc'[t] = then[t] /\ OnlyAt(t)
        BY <3>1 DEF OfThreads, TypeOK, OnlyAt
      <3>3. then[t] \in {"spin", "kernelAgain"} /\ call[t] = "sleep"
        <4>1. then[t] \in {"spin", "kernelAgain"} /\ call[t] \in {"none", "sleep", "wake", "wakeAll"}
          BY <2>2 DEF OfThreads, TypeOK
        <4>2. call[t] # "none" /\ (call[t] \in {"wake", "wakeAll"} => then[t] = "idle")
          BY <1>2 DEF OfThreads, LocalInv, LocalAt
        <4> QED BY <2>2, <4>1, <4>2
      <3>4. Away(t) => ~spinning[t]
        BY DEF Reached, ToldSo
      <3> QED BY <1>2, <1>3, <3>1, <3>2, <3>3, <3>4 DEF On, Away, Owner
    <2> QED BY <2>1, <2>2
  <1>5. \A o \in Thread : Owner(o)' => Owner(o) /\ Own(o)' = Own(o) /\ T[o] = T[o] /\ word'.count = word.count
    BY <1>2, <1>4, Alike
  <1>6. /\ pc'[t] \in {"kernel", "single", "removeNewest", "kernelAgain"} \/ Away(t)' => ~spinning'[t]
        /\ t \in L /\ pc'[t] = "kernelAgain" => pc[t] = "kernelAgain" \/ word'.count = WakeMask
        /\ pc'[t] = "removeNewest" => pc[t] = "removeNewest"
        /\ Away(t)' => Away(t)
    BY <1>4
  <1>7. UNCHANGED ghosts /\ (word'.count # WakeMask => word.count # WakeMask)
    BY <1>2
  <1> QED BY <1>1, <1>4, <1>5, <1>6, <1>7, KeepsQuiet

LEMMA KeepsRelease ==
  ASSUME OfThreads, NEW L \in SUBSET Thread, NEW T \in [Thread -> SUBSET Thread], NEW pos \in [Thread -> Nat],
         NEW r \in [Thread -> Nat], NEW m \in Block, Holds(L, T, pos, r, m), Reached(L, T, pos),
         NEW t \in Thread, Release(t)
  PROVE  SleepLeft'
  <1>1. PICK b : b = pWake[t]
    OBVIOUS
  <1>2. PICK T1 : T1 = [T EXCEPT ![t] = T[t] \ {b}]
    OBVIOUS
  <1>3. b \in T[t] /\ b \in Thread /\ b \notin L /\ pc[t] = "release" /\ ~Owner(t)
    <2>1. pWake[t] # Null /\ pc[t] = "release"
      BY DEF Release
    <2>2. b \in T[t]
      BY <1>1, <2>1, TakenIs DEF Holds
    <2> QED BY <2>1, <2>2 DEF Holds, Apart, Owner
  <1>4. T1 \in [Thread -> SUBSET Thread] /\ T1[t] = T[t] \ {b} /\ \A u \in Thread : u # t => T1[u] = T[u]
    BY <1>2
  <1>5. Moved(L, T1, pos)
    <2>1. Holds(L, T1, pos, r, m)'
      BY <1>1, <1>2, HoldsRelease
    <2> QED BY <1>4, <2>1, HoldsMoved
  <1>6. UNCHANGED <<word, ghosts>>
    BY DEF Release
  <1>7. /\ OnlyAt(b) /\ ~On(b)' /\ (Away(b)' => Away(b)) /\ (Owner(b)' => Owner(b) /\ Own(b)' = Own(b))
        /\ (pc'[b] \in {"kernel", "single", "removeNewest", "kernelAgain"} \/ Away(b)' => ~spinning'[b])
        /\ pc'[b] = pc[b] \/ pc'[b] = "idle"
    <2>1. CASE spinning[b]
      <3>1. spinning' = [spinning EXCEPT ![b] = FALSE] /\ UNCHANGED <<pc, call, then>>
        BY <1>1, <2>1 DEF Release
      <3>2. OnlyAt(b) /\ ~spinning'[b]
        BY <1>3, <3>1 DEF OfThreads, TypeOK, OnlyAt
      <3>3. pc[b] \notin {"kernel", "single", "removeNewest", "kernelAgain"} /\ ~Away(b)
        BY <1>3, <2>1 DEF Reached, ToldSo
      <3> QED BY <3>1, <3>2, <3>3 DEF On, Away, Owner, Own
    <2>2. CASE ~spinning[b]
      <3>1. Return(b)
        BY <1>1, <2>2 DEF Release
      <3> QED BY <1>3, <3>1, ReturnOnly
    <2> QED BY <2>1, <2>2
  <1>8. \A o \in Thread : Owner(o)' => Owner(o) /\ Own(o)' = Own(o) /\ T1[o] = T[o] /\ word'.count = word.count
    BY <1>3, <1>4, <1>6, <1>7, Alike
  <1>9. (\A u \in Thread : T1[u] \subseteq T[u]) /\ \A u \in Thread : \A x \in T[u] \ T1[u] : ~On(x)'
    <2>1. \A u \in Thread : \A x \in T[u] \ T1[u] : x = b
      BY <1>4
    <2> QED BY <1>4, <1>7, <2>1
  <1>10. /\ b \in L => then'[b] # "kernelAgain"
         /\ b \in L /\ pc'[b] = "kernelAgain" => pc[b] = "kernelAgain" \/ word'.count = WakeMask
         /\ pc'[b] = "removeNewest" => pc[b] = "removeNewest"
         /\ On(b)' => On(b)
    BY <1>3, <1>7
  <1>11. UNCHANGED ghosts /\ (word'.count # WakeMask => word.count # WakeMask)
    BY <1>6
  <1> QED BY <1>3, <1>5, <1>7, <1>8, <1>9, <1>10, <1>11, KeepsQuiet

\* The owner looks again, or unlocks the list with nothing left to do.
LEMMA KeepsOwner ==
  ASSUME OfThreads, NEW L \in SUBSET Thread, NEW T \in [Thread -> SUBSET Thread], NEW pos \in [Thread -> Nat],
         Reached(L, T, pos), Moved(L, T, pos), NEW t \in Thread, Owner(t), UNCHANGED <<call, then, spinning, ghosts>>,
         \/ /\ word' = word
            /\ \/ UNCHANGED pc
               \/ pc[t] = "optimize" /\ (pc' = [pc EXCEPT ![t] = "waking"] \/ pc' = [pc EXCEPT ![t] = "optimize"])
         \/ /\ word.count # WakeMask
            /\ \/ pc[t] = "optimize" /\ pc' = [pc EXCEPT ![t] = "spin"]
               \/ pc[t] = "waking" /\ pc' = [pc EXCEPT ![t] = "release"]
  PROVE  SleepLeft'
  <1>1. /\ OnlyAt(t)
        /\ \/ pc'[t] = pc[t] /\ word' = word
           \/ pc[t] = "optimize" /\ pc'[t] = "waking" /\ word' = word
           \/ pc[t] = "optimize" /\ pc'[t] = "spin" /\ word.count # WakeMask
           \/ pc[t] = "waking" /\ pc'[t] = "release" /\ word.count # WakeMask
    BY DEF OfThreads, TypeOK, OnlyAt
  <1>2. call'[t] = call[t] /\ then'[t] = then[t] /\ spinning'[t] = spinning[t]
    OBVIOUS
  <1>3. pc[t] = "optimize" => call[t] = "sleep" /\ then[t] = "spin"
    BY DEF OfThreads, LocalInv, LocalAt, Sleeping
  <1>4. /\ (On(t)' => On(t)) /\ (Away(t)' => Away(t)) /\ (Owner(t)' => Own(t)' = Own(t) /\ word' = word)
    BY <1>1, <1>2, <1>3 DEF On, Away, Owner, Own
  <1>5. t \in L => then'[t] # "kernelAgain"
    BY <1>2 DEF Reached, Found
  <1>6. pc'[t] \in {"kernel", "single", "removeNewest", "kernelAgain"} \/ Away(t)' => ~spinning'[t]
    <2>1. pc[t] \in {"kernel", "single", "removeNewest", "kernelAgain"} \/ Away(t) => ~spinning[t]
      BY DEF Reached, ToldSo
    <2> QED BY <1>1, <1>2, <1>4, <2>1
  <1>7. \A o \in Thread : Owner(o)' => Owner(o) /\ Own(o)' = Own(o) /\ T[o] = T[o] /\ word'.count = word.count
    <2>1. \A o \in Thread : o # t => ~Owner(o)
      BY OnlyOwner
    <2> QED BY <1>1, <1>4, <2>1, Alike
  <1>8. /\ t \in L /\ pc'[t] = "kernelAgain" => pc[t] = "kernelAgain" \/ word'.count = WakeMask
        /\ pc'[t] = "removeNewest" => pc[t] = "removeNewest"
        /\ word'.count # WakeMask => word.count # WakeMask
    BY <1>1
  <1>9. UNCHANGED ghosts
    OBVIOUS
  <1> QED BY <1>1, <1>4, <1>5, <1>6, <1>7, <1>8, <1>9, KeepsQuiet

LEMMA KeepsOptimize ==
  ASSUME OfThreads, NEW L \in SUBSET Thread, NEW T \in [Thread -> SUBSET Thread], NEW pos \in [Thread -> Nat],
         NEW r \in [Thread -> Nat], NEW m \in Block, Holds(L, T, pos, r, m), Reached(L, T, pos),
         NEW t \in Thread, Optimize(t)
  PROVE  SleepLeft'
  <1>1. Moved(L, T, pos)
    BY HeldOptimize
  <1>2. pc[t] = "optimize" /\ Owner(t) /\ UNCHANGED <<call, then, spinning, ghosts>>
    BY DEF Optimize, Owner
  <1>3. CASE word = Current
    <2>1. word.count = 0 /\ WakeMask # 0
      BY <1>2, <1>3, WakeMaskPositive DEF OfThreads, OwnerInv
    <2>2. pc' = [pc EXCEPT ![t] = "spin"]
      BY <1>3 DEF Optimize, Goto
    <2> QED BY <1>1, <1>2, <2>1, <2>2, KeepsOwner
  <1>4. CASE word # Current
    <2>1. word' = word /\ (pc' = [pc EXCEPT ![t] = "waking"] \/ pc' = [pc EXCEPT ![t] = "optimize"])
      BY <1>4 DEF Optimize, Goto
    <2> QED BY <1>1, <1>2, <2>1, KeepsOwner
  <1> QED BY <1>3, <1>4

LEMMA KeepsUnlock ==
  ASSUME OfThreads, NEW L \in SUBSET Thread, NEW T \in [Thread -> SUBSET Thread], NEW pos \in [Thread -> Nat],
         NEW r \in [Thread -> Nat], NEW m \in Block, Holds(L, T, pos, r, m), Reached(L, T, pos),
         NEW t \in Thread, Unlock(t)
  PROVE  SleepLeft'
  <1>1. Moved(L, T, pos)
    BY HeldUnlock
  <1>2. pc[t] = "waking" /\ Owner(t) /\ UNCHANGED <<call, then, spinning, ghosts>> /\ Current.count # WakeMask
    BY DEF Unlock, Waking, Owner
  <1>3. \/ word = Current /\ pc' = [pc EXCEPT ![t] = "release"]
        \/ word' = word /\ UNCHANGED pc
    BY DEF Unlock, Goto
  <1> QED BY <1>1, <1>2, <1>3, KeepsOwner

\* Nobody is left on the list.
LEMMA KeepsNone ==
  ASSUME OfThreads, NEW L \in SUBSET Thread, NEW T \in [Thread -> SUBSET Thread], NEW pos \in [Thread -> Nat],
         Reached(L, T, pos), NEW t \in Thread, OnlyAt(t), NEW T1 \in [Thread -> SUBSET Thread],
         NEW E \in SUBSET Thread, \A x \in E : FALSE, Moved(E, T1, pos), word' = Empty,
         \A u \in Thread : T[u] \subseteq T1[u] /\ T1[u] \subseteq T[u] \cup L,
         \A x \in L : On(x)' => \E u \in Thread : x \in T1[u],
         On(t)' => On(t), Away(t)' => Away(t),
         pc'[t] \in {"kernel", "single", "removeNewest", "kernelAgain"} \/ Away(t)' => ~spinning'[t]
  PROVE  SleepLeft'
  <1>1. Found(L, T) /\ Ranked(T)
    BY DEF Reached
  <1>3. Ranked(T1)'
    <2>1. ASSUME NEW u \in Thread, NEW x \in T1[u], Away(x)'
          PROVE  Away(x) /\ x \in T[u]
      <3>1. x \in Thread /\ Away(x)
        BY <2>1, Alike
      <3>2. x \notin L
        BY <1>1, <3>1 DEF Found, Away
      <3> QED BY <3>1, <3>2
    <2> QED BY <1>1, <2>1, RankedSame
  <1>4. Asked'
    <2>1. word'.count # WakeMask
      BY WakeMaskPositive DEF Empty, Word
    <2> QED BY <2>1 DEF Asked
  <1>5. Promised(E, T1, pos)'
    BY DEF Promised
  <1>6. \A u \in Thread : \A x \in T[u] : On(x)' => \E v \in Thread : x \in T1[v]
    OBVIOUS
  <1>7. \A x \in L : On(x)' => x \in E \/ \E u \in Thread : x \in T1[u]
    OBVIOUS
  <1>8. E \subseteq L \cup {t} /\ (t \in E => then'[t] # "kernelAgain") /\ (On(t)' => On(t) \/ t \in E)
    OBVIOUS
  <1> QED BY <1>3, <1>4, <1>5, <1>6, <1>7, <1>8, KeepsBy

\* What is taken when t takes the whole list as well.
WithAll(L, T, t) == [T EXCEPT ![t] = T[t] \cup L]

\* The whole list is taken with the word.
LEMMA KeepsTaken ==
  ASSUME OfThreads, NEW L \in SUBSET Thread, NEW T \in [Thread -> SUBSET Thread], NEW pos \in [Thread -> Nat],
         Reached(L, T, pos), NEW t \in Thread, OnlyAt(t), pc[t] = "waking", pc'[t] = "release",
         call'[t] = call[t], then'[t] = then[t], spinning'[t] = spinning[t], word' = Empty,
         Moved({}, WithAll(L, T, t), pos)
  PROVE  SleepLeft'
  <1>a. PICK T1 : T1 = WithAll(L, T, t)
    OBVIOUS
  <1>b. T1[t] = T[t] \cup L /\ \A u \in Thread : u # t => T1[u] = T[u]
    BY <1>a DEF WithAll
  <1>c. Moved({}, T1, pos)
    BY <1>a
  <1>1. \A x \in {} : FALSE
    OBVIOUS
  <1>2. {} \in SUBSET Thread /\ T1 \in [Thread -> SUBSET Thread]
    BY <1>c DEF Moved
  <1>6. (On(t)' => On(t)) /\ (Away(t)' => Away(t))
    BY DEF On, Away
  <1>7. pc'[t] \in {"kernel", "single", "removeNewest", "kernelAgain"} \/ Away(t)' => ~spinning'[t]
    BY <1>6 DEF Reached, ToldSo
  <1>8. \A u \in Thread : T[u] \subseteq T1[u] /\ T1[u] \subseteq T[u] \cup L
    BY <1>b
  <1>9. \A x \in L : On(x)' => \E u \in Thread : x \in T1[u]
    BY <1>b
  <1>10. PICK E \in SUBSET Thread : Moved(E, T1, pos) /\ \A x \in E : FALSE
    BY <1>1, <1>2, <1>c
  <1> QED BY <1>2, <1>10, <1>6, <1>7, <1>8, <1>9, KeepsNone

LEMMA KeepsTakeAll ==
  ASSUME OfThreads, NEW L \in SUBSET Thread, NEW T \in [Thread -> SUBSET Thread], NEW pos \in [Thread -> Nat],
         NEW r \in [Thread -> Nat], NEW m \in Block, Holds(L, T, pos, r, m), Reached(L, T, pos),
         NEW t \in Thread, TakeAll(t)
  PROVE  SleepLeft'
  <1>2. Moved({}, WithAll(L, T, t), pos)
    <2>1. L \ L = {}
      OBVIOUS
    <2> QED BY <2>1, HeldTakeAll DEF WithAll
  <1>3. /\ pc[t] = "waking" /\ pc' = [pc EXCEPT ![t] = "release"] /\ UNCHANGED <<call, then, spinning>>
        /\ word' = Empty
    BY DEF TakeAll, Goto
  <1>5. OnlyAt(t) /\ pc'[t] = "release" /\ call'[t] = call[t] /\ then'[t] = then[t] /\ spinning'[t] = spinning[t]
    BY <1>3 DEF OfThreads, TypeOK, OnlyAt
  <1> QED BY <1>2, <1>3, <1>5, KeepsTaken

LEMMA KeepsTakeLast ==
  ASSUME OfThreads, NEW L \in SUBSET Thread, NEW T \in [Thread -> SUBSET Thread], NEW pos \in [Thread -> Nat],
         NEW r \in [Thread -> Nat], NEW m \in Block, Holds(L, T, pos, r, m), Reached(L, T, pos),
         NEW t \in Thread, TakeLast(t)
  PROVE  SleepLeft'
  <1>1. pc[t] = "waking" /\ Owner(t) /\ UNCHANGED <<call, then, spinning>>
    BY DEF TakeLast, Waking, Owner
  <1>2. CASE word # Current
    <2>1. Moved(L, T, pos)
      BY <1>2, HeldTakeLast
    <2>2. word' = word /\ UNCHANGED pc /\ UNCHANGED ghosts
      BY <1>2 DEF TakeLast
    <2> QED BY <1>1, <2>1, <2>2, KeepsOwner
  <1>3. CASE word = Current
    <2>3. Moved({}, WithAll(L, T, t), pos)
      <3>1. PICK o : L = {o} /\ Moved(L \ {o}, [T EXCEPT ![t] = T[t] \cup {o}], pos)
        BY <1>3, HeldTakeLast
      <3>2. L \ {o} = {} /\ [T EXCEPT ![t] = T[t] \cup {o}] = WithAll(L, T, t)
        BY <3>1 DEF WithAll
      <3> QED BY <3>1, <3>2
    <2>4. pc' = [pc EXCEPT ![t] = "release"] /\ word' = Empty
      BY <1>3 DEF TakeLast, Goto
    <2>6. OnlyAt(t) /\ pc'[t] = "release" /\ call'[t] = call[t] /\ then'[t] = then[t] /\ spinning'[t] = spinning[t]
      BY <1>1, <2>4 DEF OfThreads, TypeOK, OnlyAt
    <2>7. pc[t] = "waking" /\ word' = Empty
      BY <1>1, <2>4
    <2> QED BY <2>3, <2>6, <2>7, KeepsTaken
  <1> QED BY <1>2, <1>3

\* What the locals of a caller say.
LEMMA CallerIs ==
  ASSUME OfThreads, NEW L \in SUBSET Thread, NEW T \in [Thread -> SUBSET Thread], NEW pos \in [Thread -> Nat],
         NEW r \in [Thread -> Nat], NEW m, Holds(L, T, pos, r, m), NEW t \in Thread, pc[t] = "idle"
  PROVE  t \notin L /\ T[t] = {} /\ Cardinality(T[t]) = 0 /\ then[t] = "idle" /\ ~On(t) /\ ~Owner(t)
  <1>1. ~On(t) /\ t \notin L /\ ~Owner(t)
    <2>1. ~On(t) /\ ~Owner(t)
      BY DEF On, Owner
    <2> QED BY <2>1, NotOn DEF Holds
  <1>2. pWake[t] = Null /\ then[t] = "idle"
    BY DEF OfThreads, LocalInv, LocalAt
  <1> QED BY <1>1, <1>2, TakenIs DEF Holds

\* The same list, the same blocks taken, and more is owed.
LEMMA KeepsMore ==
  ASSUME NEW L \in SUBSET Thread, NEW T \in [Thread -> SUBSET Thread], NEW pos \in [Thread -> Nat],
         Reached(L, T, pos), Moved(L, T, pos), NEW t \in Thread, OnlyAt(t),
         On(t)' => On(t), Away(t)' => Away(t), t \in L => then'[t] # "kernelAgain",
         pc'[t] \in {"kernel", "single", "removeNewest", "kernelAgain"} \/ Away(t)' => ~spinning'[t],
         Asked', Promised(L, T, pos)'
  PROVE  SleepLeft'
  <1>1. Ranked(T)'
    <2>1. ASSUME NEW u \in Thread, NEW x \in T[u], Away(x)'
          PROVE  Away(x) /\ x \in T[u]
      BY <2>1, Alike
    <2> QED BY <2>1, RankedSame DEF Reached
  <1>2. /\ \A x \in L : On(x)' => x \in L \/ \E u \in Thread : x \in T[u]
        /\ \A u \in Thread : \A x \in T[u] : On(x)' => \E v \in Thread : x \in T[v]
        /\ On(t)' => On(t) \/ t \in L
        /\ L \subseteq L \cup {t}
    OBVIOUS
  <1> QED BY <1>1, <1>2, KeepsBy

LEMMA KeepsWakeAll ==
  ASSUME OfThreads, NEW L \in SUBSET Thread, NEW T \in [Thread -> SUBSET Thread], NEW pos \in [Thread -> Nat],
         NEW r \in [Thread -> Nat], NEW m \in Block, Holds(L, T, pos, r, m), Reached(L, T, pos),
         NEW t \in Thread, WakeAllConditionVariable(t)
  PROVE  SleepLeft'
  <1>1. pc[t] = "idle" /\ UNCHANGED <<spinning, then>>
    BY DEF WakeAllConditionVariable
  <1>2. t \notin L /\ T[t] = {} /\ then[t] = "idle" /\ ~On(t)
    BY <1>1, CallerIs
  <1>3. CASE word.locked
    <2>1. Moved(L, T, pos)
      BY <1>3, HeldWakeAll
    <2>2. UNCHANGED <<pc, call>> /\ Owe(Cardinality(List), Cardinality(List)) /\ word' = [word EXCEPT !.count = WakeMask]
      BY <1>3 DEF WakeAllConditionVariable
    <2>3. word'.count = WakeMask
      BY <2>2 DEF OfThreads, TypeOK, Words
    <2>4. OnlyAt(t) /\ (On(t)' => On(t)) /\ (Away(t)' => Away(t)) /\ pc'[t] = "idle"
      BY <1>1, <2>2 DEF OnlyAt, On, Away
    <2>5. Asked'
      <3>1. ASSUME NEW o \in Thread, pc'[o] = "removeNewest"
            PROVE  owed' >= 1
        <4>1. o \in L
          BY <2>2, <3>1 DEF Holds, Proper
        <4>2. List = L /\ Cardinality(L) \in Nat /\ 1 <= Cardinality(L) /\ forgotten \in Nat
          BY <4>1, ListIs, OlderFew DEF Holds, Counts
        <4>3. Cardinality(List) \in Int
          BY <4>2
        <4> QED BY <2>2, <4>2, <4>3, OweKeeps
      <3> QED BY <3>1 DEF Asked
    <2>6. Promised(L, T, pos)'
      BY <2>3 DEF Promised
    <2>7. ~Away(t)' /\ pc'[t] \notin {"kernel", "single", "removeNewest", "kernelAgain"}
      BY <2>4 DEF Away
    <2> QED BY <1>2, <2>1, <2>4, <2>5, <2>6, <2>7, KeepsMore
  <1>4. CASE ~word.locked
    <2>1. PICK T1 : T1 = [T EXCEPT ![t] = L]
      OBVIOUS
    <2>2. T1 \in [Thread -> SUBSET Thread]
      BY <2>1
    <2>3. PICK E \in SUBSET Thread : Moved(E, T1, pos) /\ \A x \in E : FALSE
      <3>1. Moved({}, T1, pos)
        BY <1>4, <2>1, HeldWakeAll
      <3> QED BY <3>1
    <2>4. word' = Empty /\ call' = [call EXCEPT ![t] = "wakeAll"] /\ pc' = [pc EXCEPT ![t] = "release"]
      BY <1>4 DEF WakeAllConditionVariable, Goto
    <2>5. OnlyAt(t) /\ pc'[t] = "release" /\ call'[t] = "wakeAll" /\ then'[t] = "idle"
      BY <1>1, <1>2, <2>4 DEF OnlyAt, OfThreads, TypeOK
    <2>6. ~On(t)' /\ ~Away(t)' /\ pc'[t] \notin {"kernel", "single", "removeNewest", "kernelAgain"}
      BY <2>5 DEF On, Away
    <2>7. T1[t] = L /\ \A u \in Thread : u # t => T1[u] = T[u]
      BY <2>1
    <2>8. \A u \in Thread : T[u] \subseteq T1[u] /\ T1[u] \subseteq T[u] \cup L
      BY <1>2, <2>7
    <2>9. \A x \in L : On(x)' => \E u \in Thread : x \in T1[u]
      BY <2>7
    <2> QED BY <2>2, <2>3, <2>4, <2>5, <2>6, <2>8, <2>9, KeepsNone
  <1>5. word.locked \in BOOLEAN
    BY WordsAre DEF OfThreads
  <1> QED BY <1>3, <1>4, <1>5

LEMMA KeepsWake ==
  ASSUME OfThreads, NEW L \in SUBSET Thread, NEW T \in [Thread -> SUBSET Thread], NEW pos \in [Thread -> Nat],
         NEW r \in [Thread -> Nat], NEW m \in Block, Holds(L, T, pos, r, m), Reached(L, T, pos),
         NEW t \in Thread, WakeConditionVariable(t)
  PROVE  SleepLeft'
  <1>1. /\ pc[t] = "idle" /\ UNCHANGED <<spinning, then>> /\ Owe(owed + 1, Cardinality(List)) /\ word.block # Null
        /\ word.count # WakeMask
    BY DEF WakeConditionVariable
  <1>2. t \notin L /\ T[t] = {} /\ Cardinality(T[t]) = 0 /\ then[t] = "idle" /\ ~On(t) /\ ~Owner(t)
    BY <1>1, CallerIs
  <1>3. Moved(L, T, pos)
    <2>1. Holds(L, T, pos, r, m)'
      BY HoldsWake
    <2> QED BY <2>1, HoldsMoved
  <1>4. List = L /\ Cardinality(L) \in Nat /\ owed \in Nat /\ forgotten \in Nat
    BY ListIs DEF Holds, Counts
  <1>5. word.count \in Nat /\ word.locked \in BOOLEAN /\ \A o \in Thread : Cardinality(T[o]) \in Nat /\ Own(o) \in {0, 1}
    BY WordsAre, TakenIs DEF OfThreads, Holds, Own
  <1>6. /\ owed' \in Nat /\ forgotten' \in Nat
        /\ owed + 1 <= owed' \/ Cardinality(L) <= owed'
        /\ 1 <= Cardinality(L) => 1 <= owed'
        /\ 1 <= forgotten /\ 1 <= owed' => 1 <= forgotten'
    <2>1. owed + 1 \in Int /\ 1 <= owed + 1
      BY <1>4
    <2> QED BY <1>1, <1>4, <2>1, OweKeeps
  <1>7. \/ /\ word.locked /\ UNCHANGED <<pc, call>> /\ word' = [word EXCEPT !.count = @ + 1]
        \/ /\ ~word.locked /\ word' = [word EXCEPT !.locked = TRUE]
           /\ call' = [call EXCEPT ![t] = "wake"] /\ pc' = [pc EXCEPT ![t] = "waking"]
    BY <1>5 DEF WakeConditionVariable, Goto
  <1>8. /\ OnlyAt(t) /\ then'[t] = "idle"
        /\ \/ word.locked /\ pc'[t] = "idle" /\ word'.count = word.count + 1
           \/ ~word.locked /\ pc'[t] = "waking" /\ call'[t] = "wake" /\ word'.count = word.count
    BY <1>1, <1>2, <1>7 DEF OnlyAt, OfThreads, TypeOK, Words
  <1>9. ~On(t)' /\ ~Away(t)' /\ pc'[t] \notin {"kernel", "single", "removeNewest", "kernelAgain"}
    BY <1>8 DEF On, Away
  <1>10. Asked'
    <2>1. ASSUME NEW o \in Thread, pc'[o] = "removeNewest"
          PROVE  owed' >= 1
      <3>1. o \in L
        BY <1>8, <1>9, <2>1, Alike DEF Holds, Proper
      <3>2. 1 <= Cardinality(L)
        BY <3>1, OlderFew
      <3> QED BY <1>6, <3>2
    <2> QED BY <2>1 DEF Asked
  <1>11. Promised(L, T, pos)'
    <2>1. ASSUME NEW b \in L, pc'[b] = "kernelAgain"
          PROVE  Promise(L, T, pos, b)'
      <3>1. PICK k : k = Cardinality(Older(L, pos, b))
        OBVIOUS
      <3>2. k \in Nat /\ 1 <= k /\ k <= Cardinality(L) /\ 1 <= Cardinality(L)
        BY <3>1, OlderFew
      <3>3. pc[b] = "kernelAgain"
        BY <1>8, <1>9, <2>1, Alike
      <3>4. Promise(L, T, pos, b)
        BY <1>1, <3>3 DEF Reached, Promised
      <3>5. owed' >= 1 /\ forgotten' >= 1
        BY <1>4, <1>6, <3>2, <3>4 DEF Promise
      <3>6. ASSUME NEW o \in Thread, Owner(o)'
            PROVE  owed' >= Room(T, o)' + 1 \/ owed' >= k
        <4>1. CASE word.locked
          <5>1. o # t /\ Owner(o) /\ Own(o)' = Own(o) /\ word'.count = word.count + 1
            BY <1>8, <3>6, <4>1, Alike DEF Owner
          <5>2. Room(T, o) = word.count + Own(o) - Cardinality(T[o])
                /\ Room(T, o)' = word.count + 1 + Own(o) - Cardinality(T[o])
            BY <5>1 DEF Room
          <5>3. owed >= Room(T, o) + 1 \/ owed >= k
            BY <3>1, <3>4, <5>1 DEF Promise
          <5> QED BY <1>4, <1>5, <1>6, <3>2, <5>2, <5>3
        <4>2. CASE ~word.locked
          <5>1. word.count = 0 /\ \A x \in Thread : ~Owner(x)
            BY <4>2 DEF OfThreads, OwnerInv
          <5>2. o = t
            BY <1>8, <3>6, <5>1, Alike
          <5>3. Own(t)' = 1 /\ word'.count = 0
            BY <1>8, <4>2, <5>1 DEF Own
          <5>4. Room(T, o)' = 1
            <6>1. Room(T, t)' = word'.count + Own(t)' - Cardinality(T[t])
              BY DEF Room
            <6>2. Room(T, t)' = 1
              BY <1>2, <5>3, <6>1
            <6> QED BY <5>2, <6>2
          <5>5. owed >= 1
            BY <3>4 DEF Promise
          <5> QED BY <1>4, <1>6, <3>2, <5>4, <5>5
        <4> QED BY <1>5, <4>1, <4>2
      <3> QED BY <3>1, <3>5, <3>6 DEF Promise, Older
    <2> QED BY <2>1 DEF Promised
  <1> QED BY <1>2, <1>3, <1>8, <1>9, <1>10, <1>11, KeepsMore

LEMMA KeepsSleep ==
  ASSUME OfThreads, NEW L \in SUBSET Thread, NEW T \in [Thread -> SUBSET Thread], NEW pos \in [Thread -> Nat],
         NEW r \in [Thread -> Nat], NEW m \in Block, Holds(L, T, pos, r, m), Reached(L, T, pos),
         NEW t \in Thread, Sleep(t), NEW pos1 \in [Thread -> Nat], Moved(L \cup {t}, T, pos1),
         \A x \in L : pos1[x] = pos[x] /\ pos1[x] < pos1[t]
  PROVE  SleepLeft'
  <1>1. pc[t] = "idle" /\ UNCHANGED <<spinning, ghosts>>
    BY DEF Sleep
  <1>2. t \notin L /\ T[t] = {} /\ Cardinality(T[t]) = 0 /\ then[t] = "idle" /\ ~On(t) /\ ~Owner(t)
    BY <1>1, CallerIs
  <1>4. PICK L1 : L1 = L \cup {t}
    OBVIOUS
  <1>5. /\ word'.count = word.count /\ call' = [call EXCEPT ![t] = "sleep"] /\ then' = [then EXCEPT ![t] = "spin"]
        /\ \/ ~word.locked /\ pc' = [pc EXCEPT ![t] = "optimize"]
           \/ pc' = [pc EXCEPT ![t] = "spin"]
    <2>1. word.locked \in BOOLEAN
      BY WordsAre DEF OfThreads
    <2> QED BY <2>1 DEF Sleep, Goto, Word
  <1>6. /\ OnlyAt(t) /\ then'[t] = "spin" /\ call'[t] = "sleep" /\ pc'[t] \in {"optimize", "spin"}
        /\ ~word.locked \/ pc'[t] = "spin"
    BY <1>1, <1>5 DEF OnlyAt, OfThreads, TypeOK
  <1>7. ~Away(t)' /\ pc'[t] \notin {"kernel", "single", "removeNewest", "kernelAgain"} /\ Own(t)' = 0
    BY <1>6 DEF Away, Own
  <1>8. UNCHANGED <<owed, forgotten>>
    BY <1>1 DEF ghosts
  <1>9. Ranked(T)'
    <2>1. ASSUME NEW u \in Thread, NEW x \in T[u], Away(x)'
          PROVE  Away(x) /\ x \in T[u]
      BY <1>6, <1>7, <2>1, Alike
    <2> QED BY <2>1, RankedSame DEF Reached
  <1>10. Asked'
    <2>1. ASSUME NEW o \in Thread, pc'[o] = "removeNewest", word'.count = WakeMask
          PROVE  owed' >= 1
      <3>1. pc[o] = "removeNewest"
        BY <1>6, <1>7, <2>1, Alike
      <3> QED BY <1>5, <1>8, <2>1, <3>1 DEF Reached, Asked
    <2> QED BY <2>1 DEF Asked
  <1>11. Promised(L1, T, pos1)'
    <2>1. ASSUME NEW b \in L1, pc'[b] = "kernelAgain", word'.count # WakeMask
          PROVE  Promise(L1, T, pos1, b)'
      <3>1. b \in L /\ b # t /\ pc[b] = "kernelAgain" /\ word.count # WakeMask
        BY <1>4, <1>5, <1>6, <1>7, <2>1, Alike
      <3>2. Promise(L, T, pos, b)
        BY <3>1 DEF Reached, Promised
      <3>3. Older(L1, pos1, b) = Older(L, pos, b)
        <4>1. pos1[b] = pos[b] /\ pos1[b] \in Nat /\ pos1[t] \in Nat /\ ~(pos1[t] <= pos1[b])
          BY <3>1
        <4>2. \A x \in L : pos1[x] = pos[x]
          OBVIOUS
        <4> QED BY <1>2, <1>4, <4>1, <4>2 DEF Older
      <3>4. owed \in Nat
        BY DEF Holds, Counts
      <3>5. ASSUME NEW o \in Thread, Owner(o)'
            PROVE  owed' >= Room(T, o)' + 1 \/ owed' >= Cardinality(Older(L, pos, b))
        <4>1. CASE o = t
          <5>1. pc'[t] # "spin"
            BY <3>5, <4>1 DEF Owner
          <5>2. word.count = 0
            BY <1>6, <5>1 DEF OfThreads, OwnerInv
          <5>3. Room(T, o)' = 0
            <6>1. Room(T, t)' = word'.count + Own(t)' - Cardinality(T[t])
              BY DEF Room
            <6>2. Room(T, t)' = 0
              BY <1>2, <1>5, <1>7, <5>2, <6>1
            <6> QED BY <4>1, <6>2
          <5> QED BY <1>8, <3>2, <3>4, <5>3 DEF Promise
        <4>2. CASE o # t
          <5>1. Owner(o) /\ Own(o)' = Own(o)
            BY <1>6, <3>5, <4>2, Alike
          <5>2. Room(T, o)' = Room(T, o)
            BY <1>5, <5>1 DEF Room
          <5> QED BY <1>8, <3>2, <5>1, <5>2 DEF Promise
        <4> QED BY <4>1, <4>2
      <3>6. PICK k : k = Cardinality(Older(L, pos, b))
        OBVIOUS
      <3>7. Cardinality(Older(L1, pos1, b)) = k
        BY <3>3, <3>6
      <3> QED BY <1>8, <3>2, <3>5, <3>6, <3>7 DEF Promise, Older
    <2> QED BY <2>1 DEF Promised
  <1>12. /\ \A x \in L : On(x)' => x \in L1 \/ \E u \in Thread : x \in T[u]
         /\ \A u \in Thread : \A x \in T[u] : On(x)' => \E v \in Thread : x \in T[v]
         /\ L1 \subseteq L \cup {t} /\ t \in L1
    BY <1>4
  <1>13. Moved(L1, T, pos1)
    BY <1>4
  <1> QED BY <1>6, <1>7, <1>9, <1>10, <1>11, <1>12, <1>13, KeepsBy

LEMMA KeepsTakeOldest ==
  ASSUME OfThreads, NEW L \in SUBSET Thread, NEW T \in [Thread -> SUBSET Thread], NEW pos \in [Thread -> Nat],
         NEW r \in [Thread -> Nat], NEW m \in Block, Holds(L, T, pos, r, m), Reached(L, T, pos),
         NEW t \in Thread, TakeOldest(t)
  PROVE  SleepLeft'
  <1>1. /\ pc[t] = "waking" /\ Owner(t) /\ UNCHANGED <<word, spinning, pc, call, then>>
        /\ Count(t) < MaxWakeCount(t) /\ Owe(owed - 1, Cardinality(List) - 1)
    BY DEF TakeOldest, Waking, Owner
  <1>2. PICK o \in L : Moved(L \ {o}, [T EXCEPT ![t] = T[t] \cup {o}], pos) /\ \A x \in L : pos[o] <= pos[x]
    BY HeldTakeOldest
  <1>3. PICK L1 : L1 = L \ {o}
    OBVIOUS
  <1>4. PICK T1 : T1 = [T EXCEPT ![t] = T[t] \cup {o}]
    OBVIOUS
  <1>5. Moved(L1, T1, pos) /\ T1 \in [Thread -> SUBSET Thread]
    BY <1>2, <1>3, <1>4
  <1>6. T1[t] = T[t] \cup {o} /\ \A u \in Thread : u # t => T1[u] = T[u]
    BY <1>4
  <1>7. OnlyAt(t) /\ \A x \in Thread : (On(x)' <=> On(x)) /\ (Away(x)' <=> Away(x)) /\ (Owner(x)' <=> Owner(x)) /\ Own(x)' = Own(x)
    BY <1>1 DEF OnlyAt, On, Away, Owner, Own
  <1>8. Ranked(T1)'
    <2>1. ASSUME NEW u \in Thread, NEW x \in T1[u], Away(x)'
          PROVE  Away(x) /\ x \in T[u]
      <3>1. x \in Thread /\ Away(x)
        BY <1>5, <1>7, <2>1
      <3>2. x # o
        BY <1>2, <3>1 DEF Reached, Found, Away
      <3> QED BY <1>6, <3>1, <3>2
    <2> QED BY <1>5, <2>1, RankedSame DEF Reached
  <1>9. \A x \in Thread : Owner(x) => x = t
    BY <1>1, OnlyOwner
  <1>10. Asked'
    <2>1. \A x \in Thread : pc'[x] # "removeNewest"
      BY <1>1, <1>9 DEF Owner
    <2> QED BY <2>1 DEF Asked
  <1>11. Promised(L1, T1, pos)'
    <2>1. ASSUME NEW b \in L1, pc'[b] = "kernelAgain", word'.count # WakeMask
          PROVE  Promise(L1, T1, pos, b)'
      <3>1. b \in L \ {o} /\ Promise(L, T, pos, b)
        BY <1>1, <1>3, <2>1 DEF Reached, Promised
      <3>2. PICK k : k = Cardinality(Older(L, pos, b))
        OBVIOUS
      <3>3. Cardinality(Older(L1, pos, b)) = k - 1 /\ k \in Nat
        <4>1. k \in Nat
          BY <3>1, <3>2, OlderFew
        <4> QED BY <1>2, <1>3, <3>1, <3>2, <4>1, OlderLess
      <3>4. PICK l : l = Cardinality(L)
        OBVIOUS
      <3>5. Cardinality(L1) = l - 1 /\ l \in Nat /\ k - 1 <= l - 1 /\ 1 <= k - 1 /\ List = L
        <4>1. List = L /\ IsFiniteSet(L)
          BY ListIs DEF Holds
        <4>2. Cardinality(L1) = l - 1 /\ l \in Nat
          BY <1>2, <1>3, <3>4, <4>1, FS_RemoveElement, FS_CardinalityType
        <4>3. L1 \in SUBSET Thread
          BY <1>3
        <4>4. /\ Cardinality(Older(L1, pos, b)) <= Cardinality(L1)
              /\ Cardinality(Older(L1, pos, b)) >= 1
          BY <4>3, OlderFew
        <4> QED BY <3>3, <4>1, <4>2, <4>4
      <3>6. owed \in Nat /\ forgotten \in Nat
        BY DEF Holds, Counts
      <3>7. PICK c : c = Cardinality(T[t])
        OBVIOUS
      <3>8. c \in Nat /\ Cardinality(T1[t]) = c + 1 /\ Count(t) = c
        <4>1. IsFiniteSet(T[t]) /\ c \in Nat /\ Count(t) = c
          BY <3>7, TakenIs DEF Holds
        <4>2. o \notin T[t]
          BY <1>2 DEF Holds, Apart
        <4>3. Cardinality(T[t] \cup {o}) = c + 1
          BY <3>7, <4>1, <4>2, FS_AddElement
        <4> QED BY <1>6, <4>1, <4>3
      <3>9. /\ word.count \in Nat /\ Own(t) \in {0, 1} /\ c + 1 <= word.count + Own(t)
        <4>1. word.count \in Nat /\ Current.count \in Nat /\ Current.count <= word.count
          BY <1>1, OnlyOwner, WordsAre DEF OfThreads, OwnerInv
        <4>2. Own(t) \in {0, 1} /\ MaxWakeCount(t) = Current.count + Own(t)
          BY DEF Own, MaxWakeCount
        <4> QED BY <1>1, <3>8, <4>1, <4>2
      <3>10. Room(T, t) = word.count + Own(t) - c /\ Room(T1, t)' = word.count + Own(t) - (c + 1)
        BY <1>1, <1>7, <3>7, <3>8 DEF Room
      <3>11. owed >= Room(T, t) + 1 \/ owed >= k
        BY <1>1, <3>1, <3>2 DEF Promise
      <3>12. owed >= 2
        BY <3>3, <3>5, <3>6, <3>8, <3>9, <3>10, <3>11
      <3>13. /\ owed' \in Nat
             /\ owed - 1 <= owed' \/ l - 1 <= owed'
             /\ 1 <= owed' /\ 1 <= forgotten'
        <4>1. owed - 1 \in Int /\ l - 1 \in Nat /\ 1 <= owed - 1 /\ 1 <= l - 1 /\ 1 <= forgotten
          BY <3>1, <3>3, <3>5, <3>6, <3>12 DEF Promise
        <4>2. Owe(owed - 1, l - 1)
          BY <1>1, <3>4, <3>5
        <4>3. PICK i, n : i = owed - 1 /\ n = l - 1
          OBVIOUS
        <4>4. i \in Int /\ n \in Nat /\ Owe(i, n) /\ 1 <= i /\ 1 <= n
          BY <4>1, <4>2, <4>3
        <4>5. owed' \in Nat /\ (i <= owed' \/ n <= owed') /\ 1 <= owed' /\ 1 <= forgotten'
          BY <3>6, <4>1, <4>4, OweKeeps
        <4> QED BY <4>3, <4>5
      <3>14. owed' >= Room(T1, t)' + 1 \/ owed' >= k - 1
        <4>1. PICK a : a = Room(T, t)
          OBVIOUS
        <4>2. a \in Int /\ Room(T1, t)' = a - 1
          BY <3>8, <3>9, <3>10, <4>1
        <4>3. PICK i : i = owed'
          OBVIOUS
        <4>4. i \in Nat /\ (owed - 1 <= i \/ l - 1 <= i) /\ (owed >= a + 1 \/ owed >= k)
          BY <3>11, <3>13, <4>1, <4>3
        <4>5. i >= a \/ i >= k - 1
          BY <3>3, <3>5, <3>6, <4>2, <4>4
        <4> QED BY <4>2, <4>3, <4>5
      <3>15. ASSUME NEW x \in Thread, Owner(x)'
             PROVE  owed' >= Room(T1, x)' + 1 \/ owed' >= k - 1
        <4>1. x = t
          BY <1>7, <1>9, <3>15
        <4> QED BY <3>14, <4>1 DEF Room, Own
      <3> QED BY <3>3, <3>13, <3>15 DEF Promise, Older
    <2> QED BY <2>1 DEF Promised
  <1>12. /\ \A x \in L : On(x)' => x \in L1 \/ \E u \in Thread : x \in T1[u]
         /\ \A u \in Thread : \A x \in T[u] : On(x)' => \E v \in Thread : x \in T1[v]
         /\ L1 \subseteq L \cup {t} /\ (On(t)' => On(t) \/ t \in L1)
    <2>1. o \in T1[t] /\ \A u \in Thread : T[u] \subseteq T1[u]
      BY <1>6
    <2> QED BY <1>3, <1>7, <2>1
  <1>13. t \in L1 => then'[t] # "kernelAgain"
    BY <1>1, <1>3 DEF Reached, Found
  <1>14. pc'[t] \in {"kernel", "single", "removeNewest", "kernelAgain"} \/ Away(t)' => ~spinning'[t]
    BY <1>1, <1>7 DEF Reached, ToldSo
  <1> QED BY <1>5, <1>7, <1>8, <1>10, <1>11, <1>12, <1>13, <1>14, KeepsBy

\* t has been taken off the list, to wake others before it goes.
LEMMA KeepsLeft ==
  ASSUME NEW L \in SUBSET Thread, NEW T \in [Thread -> SUBSET Thread], NEW pos \in [Thread -> Nat],
         Reached(L, T, pos), NEW t \in Thread, OnlyAt(t), NEW L1 \in SUBSET Thread, Moved(L1, T, pos), L1 = L \ {t},
         T[t] = {}, On(t), ~spinning'[t], pc'[t] = "waking", then'[t] = IF t \in L THEN "idle" ELSE "kernelAgain",
         Promised(L1, T, pos)', \A x \in Thread : pc[x] # "removeNewest" \/ x = t
  PROVE  SleepLeft'
  <1>1. Ranked(T)'
    <2>1. CASE t \in L
      <3>1. ASSUME NEW u \in Thread, NEW x \in T[u], Away(x)'
            PROVE  Away(x) /\ x \in T[u]
        <4>1. x # t
          BY <2>1, <3>1 DEF Away
        <4> QED BY <3>1, <4>1, Alike
      <3> QED BY <3>1, RankedSame DEF Reached
    <2>2. CASE t \notin L
      BY RankedAway DEF Reached
    <2> QED BY <2>1, <2>2
  <1>2. Asked'
    <2>1. \A o \in Thread : pc'[o] # "removeNewest"
      BY Alike
    <2> QED BY <2>1 DEF Asked
  <1>3. t \in L => ~On(t)'
    BY DEF On
  <1>4. \A x \in L : On(x)' => x \in L1 \/ \E u \in Thread : x \in T[u]
    BY <1>3
  <1>5. \A u \in Thread : \A x \in T[u] : On(x)' => \E v \in Thread : x \in T[v]
    OBVIOUS
  <1>6. t \notin L1 /\ L1 \subseteq L \cup {t}
    OBVIOUS
  <1> QED BY <1>1, <1>2, <1>4, <1>5, <1>6, KeepsBy

\* What is owed falls to the number of those left at most.
LEMMA PromisedLess ==
  ASSUME NEW L \in SUBSET Thread, NEW T \in [Thread -> SUBSET Thread], NEW pos \in [Thread -> Nat],
         NEW t \in Thread, OnlyAt(t), pc'[t] # "kernelAgain", Promised(L, T, pos), word.count # WakeMask,
         NEW L1 \in SUBSET L, NEW n, n = Cardinality(L1), n \in Nat, owed \in Nat, owed' \in Nat, forgotten' \in Nat,
         owed' = owed \/ owed' = n, 1 <= forgotten /\ 1 <= owed' => 1 <= forgotten',
         \A o \in Thread : Owner(o)' => o = t,
         \/ Room(T, t)' = 0 
         \/ Owner(t) /\ Room(T, t)' = Room(T, t)
  PROVE  Promised(L1, T, pos)'
  <1>1. ASSUME NEW b \in L1, pc'[b] = "kernelAgain"
        PROVE  Promise(L1, T, pos, b)'
    <2>1. b \in L /\ pc[b] = "kernelAgain"
      BY <1>1, Alike
    <2>2. Promise(L, T, pos, b)
      BY <2>1 DEF Promised
    <2>3. PICK k : k = Cardinality(Older(L1, pos, b))
      OBVIOUS
    <2>4. PICK l : l = Cardinality(Older(L, pos, b))
      OBVIOUS
    <2>5. k \in Nat /\ l \in Nat /\ k <= l /\ k <= n /\ 1 <= n
      BY <2>3, <2>4, OlderFew
    <2>6. forgotten' >= 1 /\ owed' >= 1
      BY <2>2, <2>5 DEF Promise
    <2>7. owed' >= Room(T, t)' + 1 \/ owed' >= k
      <3>1. CASE Room(T, t)' = 0
        BY <2>6, <3>1
      <3>2. CASE Owner(t) /\ Room(T, t)' = Room(T, t)
        <4>1. owed >= Room(T, t) + 1 \/ owed >= l
          BY <2>2, <2>4, <3>2 DEF Promise
        <4> QED BY <2>5, <3>2, <4>1
      <3> QED BY <3>1, <3>2
    <2>8. ASSUME NEW o \in Thread, Owner(o)'
          PROVE  owed' >= Room(T, o)' + 1 \/ owed' >= k
      BY <2>7, <2>8
    <2> QED BY <2>3, <2>6, <2>8 DEF Promise, Older
  <1> QED BY <1>1 DEF Promised

LEMMA KeepsWakeSingle ==
  ASSUME OfThreads, NEW L \in SUBSET Thread, NEW T \in [Thread -> SUBSET Thread], NEW pos \in [Thread -> Nat],
         NEW r \in [Thread -> Nat], NEW m \in Block, Holds(L, T, pos, r, m), Reached(L, T, pos),
         NEW t \in Thread, WakeSingle(t)
  PROVE  SleepLeft'
  <1>1. pc[t] = "single" /\ UNCHANGED <<spinning, call, pWake>>
    BY DEF WakeSingle
  <1>2. call[t] = "sleep" /\ pWake[t] = Null /\ On(t) /\ ~Owner(t) /\ ~spinning[t] /\ ~spinning'[t]
    BY <1>1 DEF OfThreads, LocalInv, LocalAt, Sleeping, On, Owner, Reached, ToldSo
  <1>3. T[t] = {} /\ Cardinality(T[t]) = 0 /\ call'[t] = "sleep" /\ Own(t)' = 0
    BY <1>1, <1>2, TakenIs DEF Holds, Own
  <1>4. word.locked \in BOOLEAN /\ word.count \in Nat
    BY WordsAre DEF OfThreads
  <1>5. List = L /\ Cardinality(L) \in Nat /\ owed \in Nat /\ forgotten \in Nat
    BY ListIs DEF Holds, Counts
  <1>6. t \in L => then[t] # "kernelAgain"
    BY DEF Reached, Found
  \* The block waits for its waker.
  <1>7. CASE word = Empty \/ word.count = WakeMask
    <2>1. Moved(L, T, pos)
      BY <1>7, HeldWakeSingle
    <2>2. pc' = [pc EXCEPT ![t] = "kernelAgain"] /\ UNCHANGED <<word, links, then, Current, ghosts>>
      BY <1>7 DEF WakeSingle, Goto
    <2>3. OnlyAt(t) /\ pc'[t] = "kernelAgain" /\ ~Away(t)' /\ ~Owner(t)'
      BY <1>1, <2>2 DEF OfThreads, TypeOK, OnlyAt, Away, Owner
    <2>4. t \in L => word'.count = WakeMask
      <3>1. word = Empty => L = {}
        BY DEF Holds, Lists, ListedAt, Ordered, Empty, Word
      <3> QED BY <1>7, <2>2, <3>1
    <2>5. \A o \in Thread : Owner(o)' => Owner(o) /\ Own(o)' = Own(o) /\ T[o] = T[o] /\ word'.count = word.count
      BY <2>2, <2>3, Alike
    <2>6. /\ UNCHANGED ghosts /\ (word'.count # WakeMask => word.count # WakeMask)
          /\ t \in L => then'[t] # "kernelAgain"
      BY <1>6, <2>2
    <2> QED BY <1>2, <2>1, <2>3, <2>4, <2>5, <2>6, KeepsQuiet
  \* The owner is asked to wake everybody.
  <1>8. CASE word # Empty /\ word.count # WakeMask /\ word.locked
    <2>1. Moved(L, T, pos)
      BY <1>8, HeldWakeSingle
    <2>2. /\ pc' = [pc EXCEPT ![t] = "kernelAgain"] /\ UNCHANGED then /\ word' = [word EXCEPT !.count = WakeMask]
          /\ Owe(Cardinality(List), Cardinality(List))
      BY <1>8 DEF WakeSingle, Goto
    <2>3. OnlyAt(t) /\ pc'[t] = "kernelAgain" /\ ~Away(t)'
      BY <1>1, <2>2 DEF OfThreads, TypeOK, OnlyAt, Away
    <2>4. word'.count = WakeMask
      BY <2>2 DEF OfThreads, TypeOK, Words
    <2>5. Asked'
      <3>1. ASSUME NEW o \in Thread, pc'[o] = "removeNewest"
            PROVE  owed' >= 1
        <4>1. o \in L
          BY <2>3, <3>1, Alike DEF Holds, Proper
        <4>2. PICK n : n = Cardinality(List)
          OBVIOUS
        <4>3. n \in Nat /\ n \in Int /\ 1 <= n /\ Owe(n, n)
          BY <1>5, <2>2, <4>1, <4>2, OlderFew
        <4> QED BY <1>5, <4>3, OweKeeps
      <3> QED BY <3>1 DEF Asked
    <2>6. Promised(L, T, pos)'
      BY <2>4 DEF Promised
    <2>7. t \in L => then'[t] # "kernelAgain"
      BY <1>6, <2>2
    <2> QED BY <1>2, <2>1, <2>3, <2>5, <2>6, <2>7, KeepsMore
  \* t locks the list to take itself off.
  <1>9. CASE word # Empty /\ word.count # WakeMask /\ ~word.locked
    <2>1. word.count = 0 /\ (\A x \in Thread : ~Owner(x)) /\ Promised(L, T, pos)
      BY <1>9 DEF OfThreads, OwnerInv, Reached
    <2>2. word'.count = 0
      <3>1. word' = [word EXCEPT !.locked = TRUE]
        BY <1>9 DEF WakeSingle
      <3> QED BY <2>1, <3>1 DEF OfThreads, TypeOK, Words
    <2>3. Room(T, t)' = 0
      <3>1. Room(T, t)' = word'.count + Own(t)' - Cardinality(T[t])
        BY DEF Room
      <3> QED BY <1>3, <2>2, <3>1
    <2>4. CASE word.block = t
      <3>1. Moved(L, T, pos)
        BY <2>4, HeldWakeSingle
      <3>2. pc' = [pc EXCEPT ![t] = "removeNewest"] /\ UNCHANGED <<then, ghosts>>
        BY <1>9, <2>4 DEF WakeSingle, Goto
      <3>3. OnlyAt(t) /\ pc'[t] = "removeNewest" /\ ~Away(t)' /\ UNCHANGED <<owed, forgotten>>
        BY <1>1, <3>2 DEF OfThreads, TypeOK, OnlyAt, Away, ghosts
      <3>4. \A o \in Thread : Owner(o)' => o = t
        BY <2>1, <3>3, Alike
      <3>5. Asked'
        BY <2>2, WakeMaskPositive DEF Asked
      <3>6. Promised(L, T, pos)'
        BY <1>5, <2>1, <2>3, <3>3, <3>4, <1>9, PromisedLess
      <3>7. t \in L => then'[t] # "kernelAgain"
        BY <1>6, <3>2
      <3> QED BY <1>2, <3>1, <3>3, <3>5, <3>6, <3>7, KeepsMore
    <2>5. CASE word.block # t
      <3>1. PICK L1 : L1 = L \ {t}
        OBVIOUS
      <3>2. Moved(L1, T, pos) /\ L1 \in SUBSET L /\ L1 \in SUBSET Thread
        BY <1>9, <2>5, <3>1, HeldWakeSingle
      <3>3. LeaveAfterWaking(t, t \in L) /\ Owe(owed, Cardinality(List \ {t}))
        BY <1>5, <1>9, <2>5 DEF WakeSingle
      <3>4. /\ OnlyAt(t) /\ pc'[t] = "waking" /\ then'[t] = IF t \in L THEN "idle" ELSE "kernelAgain"
        BY <1>1, <3>3 DEF OfThreads, TypeOK, OnlyAt, LeaveAfterWaking, Goto
      <3>5. PICK n : n = Cardinality(L1)
        OBVIOUS
      <3>6. n \in Nat /\ Owe(owed, n)
        BY <1>5, <3>1, <3>3, <3>5, ListNumber DEF Holds
      <3>7. /\ owed' \in Nat /\ forgotten' \in Nat
            /\ owed' = owed \/ owed' = n
            /\ 1 <= forgotten /\ 1 <= owed' => 1 <= forgotten'
        BY <1>5, <3>6 DEF Owe, Least
      <3>8. \A o \in Thread : Owner(o)' => o = t
        BY <2>1, <3>4, Alike
      <3>9. Promised(L1, T, pos)'
        BY <1>5, <1>9, <2>1, <2>3, <3>2, <3>4, <3>5, <3>6, <3>7, <3>8, PromisedLess
      <3>10. \A x \in Thread : pc[x] # "removeNewest" \/ x = t
        BY <2>1 DEF Owner
      <3> QED BY <1>2, <1>3, <3>1, <3>2, <3>4, <3>9, <3>10, KeepsLeft
    <2> QED BY <2>4, <2>5
  <1> QED BY <1>4, <1>7, <1>8, <1>9

LEMMA KeepsRemoveNewest ==
  ASSUME OfThreads, NEW L \in SUBSET Thread, NEW T \in [Thread -> SUBSET Thread], NEW pos \in [Thread -> Nat],
         NEW r \in [Thread -> Nat], NEW m \in Block, Holds(L, T, pos, r, m), Reached(L, T, pos),
         NEW t \in Thread, RemoveNewest(t)
  PROVE  SleepLeft'
  <1>1. pc[t] = "removeNewest" /\ Owner(t) /\ On(t) /\ UNCHANGED pWake /\ ~spinning[t]
    BY DEF RemoveNewest, Owner, On, Reached, ToldSo
  <1>2. call[t] = "sleep" /\ pWake[t] = Null /\ t \in L
    BY <1>1 DEF OfThreads, LocalInv, LocalAt, Sleeping, Holds, Proper
  <1>3. T[t] = {} /\ Cardinality(T[t]) = 0 /\ Own(t) = 0
    BY <1>2, TakenIs DEF Holds, Own
  <1>4. \A x \in Thread : Owner(x) => x = t
    BY <1>1, OnlyOwner
  <1>5. List = L /\ owed \in Nat /\ forgotten \in Nat /\ word.count \in Nat
    BY ListIs, WordsAre DEF Holds, Counts, OfThreads
  <1>6. PICK L1 : L1 = L \ {t}
    OBVIOUS
  <1>7. PICK n : n = Cardinality(L1)
    OBVIOUS
  <1>8. L1 \in SUBSET L /\ L1 \in SUBSET Thread /\ n \in Nat /\ n = Cardinality(List \ {t})
    BY <1>5, <1>6, <1>7, ListNumber DEF Holds
  <1>9. \A x \in Thread : pc[x] # "removeNewest" \/ x = t
    BY <1>4 DEF Owner
  <1>10. CASE word # Current /\ word.block = t
    <2>1. Moved(L, T, pos)
      BY <1>10, HeldRemoveNewest
    <2>2. word' = word /\ UNCHANGED pc /\ UNCHANGED <<call, then, spinning, ghosts>>
      BY <1>10 DEF RemoveNewest
    <2> QED BY <1>1, <2>1, <2>2, KeepsOwner
  <1>11. CASE word # Current /\ word.block # t
    <2>1. Moved(L1, T, pos)
      BY <1>6, <1>11, HeldRemoveNewest
    <2>2. /\ word' = word /\ UNCHANGED <<spinning, call>> /\ LeaveAfterWaking(t, t \in L)
          /\ Owe(owed, n)
      BY <1>2, <1>8, <1>11 DEF RemoveNewest
    <2>3. /\ OnlyAt(t) /\ pc'[t] = "waking" /\ then'[t] = (IF t \in L THEN "idle" ELSE "kernelAgain")
          /\ call'[t] = call[t] /\ ~spinning'[t]
      BY <1>1, <2>2 DEF OfThreads, TypeOK, OnlyAt, LeaveAfterWaking, Goto
    <2>4. \A o \in Thread : Owner(o)' => o = t
      BY <1>4, <2>3, Alike
    <2>5. Promised(L1, T, pos)'
      <3>1. CASE word.count = WakeMask
        BY <2>2, <3>1 DEF Promised
      <3>2. CASE word.count # WakeMask
        <4>1. /\ owed' \in Nat /\ forgotten' \in Nat
              /\ owed' = owed \/ owed' = n
              /\ 1 <= forgotten /\ 1 <= owed' => 1 <= forgotten'
          BY <1>5, <1>8, <2>2 DEF Owe, Least
        <4>2. Room(T, t)' = Room(T, t)
          BY <2>2, <2>3 DEF Room, Own
        <4>3. Promised(L, T, pos)
          BY DEF Reached
        <4> QED BY <1>1, <1>5, <1>7, <1>8, <2>3, <2>4, <3>2, <4>1, <4>2, <4>3, PromisedLess
      <3> QED BY <3>1, <3>2
    <2> QED BY <1>1, <1>3, <1>6, <1>8, <1>9, <2>1, <2>3, <2>5, KeepsLeft
  <1>12. CASE word = Current /\ back[t] = Null
    <2>1. word' = Empty /\ Return(t)
      BY <1>12 DEF RemoveNewest
    <2>2. Moved(L1, T, pos)
      BY <1>6, <1>12, HeldRemoveNewest
    <2>3. OnlyAt(t) /\ pc'[t] = "idle" /\ ~On(t)' /\ ~Away(t)'
      BY <2>1, ReturnOnly
    <2>4. \A x \in L1 : FALSE
      <3>1. word.block = t
        BY <1>1, <1>12 DEF OfThreads, OwnerInv
      <3>2. Ordered(back, L, t, pos) /\ t # Null /\ back \in [Thread -> Block]
        BY <3>1, NullIsNoThread DEF Holds, Lists, ListedAt, LinksOK
      <3>3. Ordered(back, L \ {t}, back[t], pos)
        BY <1>2, <3>2, OrderedPop
      <3> QED BY <1>6, <1>12, <3>3 DEF Ordered
    <2>5. \A u \in Thread : T[u] \subseteq T[u] /\ T[u] \subseteq T[u] \cup L
      OBVIOUS
    <2>6. \A x \in L : On(x)' => \E u \in Thread : x \in T[u]
      BY <1>6, <2>3, <2>4
    <2> QED BY <1>8, <2>1, <2>2, <2>3, <2>4, <2>5, <2>6, KeepsNone
  <1>13. CASE word = Current /\ back[t] # Null
    <2>1. Moved(L1, T, pos)
      BY <1>6, <1>13, HeldRemoveNewest
    <2>2. /\ word' = Word(back[t], TRUE, 0) /\ UNCHANGED <<spinning, call>> /\ LeaveAfterWaking(t, TRUE)
          /\ owed' = Least(owed, n)
          /\ forgotten' = IF word.count = WakeMask THEN owed' ELSE Least(forgotten + word.count, owed')
      BY <1>8, <1>13 DEF RemoveNewest
    <2>3. /\ OnlyAt(t) /\ pc'[t] = "waking" /\ then'[t] = (IF t \in L THEN "idle" ELSE "kernelAgain")
          /\ call'[t] = call[t] /\ ~spinning'[t] /\ word'.count = 0
      BY <1>1, <1>2, <2>2 DEF OfThreads, TypeOK, OnlyAt, LeaveAfterWaking, Goto, Word
    <2>4. \A o \in Thread : Owner(o)' => o = t
      BY <1>4, <2>3, Alike
    <2>5. Room(T, t)' = 0
      <3>1. Room(T, t)' = word'.count + Own(t)' - Cardinality(T[t])
        BY DEF Room
      <3>2. Own(t)' = 0
        BY <1>2, <2>3 DEF Own
      <3> QED BY <1>3, <2>3, <3>1, <3>2
    <2>6. owed' \in Nat /\ (owed' = owed \/ owed' = n)
      BY <1>5, <1>8, <2>2 DEF Least
    <2>7. Promised(L1, T, pos)'
      <3>1. CASE word.count = WakeMask
        <4>1. owed >= 1 /\ forgotten' = owed'
          BY <1>1, <2>2, <3>1 DEF Reached, Asked
        <4>2. ASSUME NEW b \in L1
              PROVE  Promise(L1, T, pos, b)'
          <5>1. 1 <= n
            BY <1>7, <1>8, OlderFew
          <5>2. owed' >= 1
            BY <2>6, <4>1, <5>1
          <5>3. \A o \in Thread : Owner(o)' => owed' >= Room(T, o)' + 1
            BY <2>4, <2>5, <5>2
          <5> QED BY <4>1, <5>2, <5>3 DEF Promise
        <4> QED BY <4>2 DEF Promised
      <3>2. CASE word.count # WakeMask
        <4>1. forgotten' = Least(forgotten + word.count, owed')
          BY <2>2, <3>2
        <4>2. forgotten' \in Nat /\ (1 <= forgotten /\ 1 <= owed' => 1 <= forgotten')
          BY <1>5, <2>6, <4>1 DEF Least
        <4>3. Promised(L, T, pos)
          BY DEF Reached
        <4> QED BY <1>5, <1>7, <1>8, <2>3, <2>4, <2>5, <2>6, <3>2, <4>2, <4>3, PromisedLess
      <3> QED BY <3>1, <3>2
    <2> QED BY <1>1, <1>3, <1>6, <1>8, <1>9, <2>1, <2>3, <2>7, KeepsLeft
  <1> QED BY <1>10, <1>11, <1>12, <1>13

-----------------------------------------------------------------------------
(* The invariant, and that it leaves nobody asleep.                        *)

LEMMA SleepInit ==
  ASSUME Init
  PROVE  IInv /\ SleepLeft
  <1>1. IInv
    BY InitIInv
  <1>2. PICK L \in SUBSET Thread, T \in [Thread -> SUBSET Thread], pos \in [Thread -> Nat], r \in [Thread -> Nat],
             m \in Block : Holds(L, T, pos, r, m)
    BY <1>1 DEF IInv, Held
  <1>3. L = {}
    BY <1>2 DEF Init, Empty, Word, Holds, Lists, ListedAt, Ordered
  <1>4. \A u \in Thread : T[u] = {}
    BY <1>2, TakenIs DEF Init, Holds
  <1>5. Found(L, T) /\ ToldSo /\ Asked /\ Promised(L, T, pos)
    BY <1>3 DEF Init, Found, ToldSo, Asked, Promised, On, Away
  <1>6. Ranked(T)
    <2>1. PICK n : n = [u \in Thread |-> 0]
      OBVIOUS
    <2>2. n \in [Thread -> Nat] /\ \A u \in Thread : n[u] <= 0
      BY <2>1
    <2>3. Numbered(T, n, 0)
      BY <1>4, <2>2 DEF Numbered
    <2> QED BY <2>2, <2>3 DEF Ranked
  <1> QED BY <1>1, <1>2, <1>5, <1>6 DEF SleepLeft, Reached

LEMMA SleepStutters ==
  ASSUME SleepLeft, UNCHANGED vars
  PROVE  SleepLeft'
  <1>1. UNCHANGED <<word, back, notify, next, spinning, pc, call, then, Current, pWake, owed, forgotten>>
    BY DEF vars, links, ghosts
  <1>2. PICK L \in SUBSET Thread, T \in [Thread -> SUBSET Thread], pos \in [Thread -> Nat], r \in [Thread -> Nat],
             m \in Block : Holds(L, T, pos, r, m) /\ Reached(L, T, pos)
    BY DEF SleepLeft
  <1>3. Holds(L, T, pos, r, m)'
    <2>1. Lists(L, pos, m)' /\ Takes(T, r)' /\ Apart(L, T)' /\ LinksOK'
      BY <1>1, <1>2 DEF Holds, Lists, Takes, Apart, LinksOK
    <2>2. AllOn(L, T)' /\ Proper(L)' /\ Counts(T)'
      BY <1>1, <1>2 DEF Holds, AllOn, On, Proper, Counts, Owner, Own
    <2> QED BY <2>1, <2>2 DEF Holds
  <1>4. \A x \in Thread : (On(x)' <=> On(x)) /\ (Away(x)' <=> Away(x)) /\ (Owner(x)' <=> Owner(x)) /\ Room(T, x)' = Room(T, x)
    BY <1>1 DEF On, Away, Owner, Room, Own
  <1>5. Found(L, T)' /\ ToldSo' /\ Asked'
    BY <1>1, <1>2, <1>4 DEF Reached, Found, ToldSo, Asked
  <1>6. Promised(L, T, pos)'
    BY <1>1, <1>2, <1>4 DEF Reached, Promised, Promise, Older
  <1>7. Ranked(T)'
    BY <1>2, <1>4, RankedSame DEF Reached
  <1> QED BY <1>2, <1>3, <1>5, <1>6, <1>7 DEF SleepLeft, Reached

LEMMA SleepStep ==
  ASSUME OfThreads, SleepLeft, NEW t \in Thread, Acts(t)
  PROVE  SleepLeft'
  <1>1. PICK L \in SUBSET Thread, T \in [Thread -> SUBSET Thread], pos \in [Thread -> Nat], r \in [Thread -> Nat],
             m \in Block : Holds(L, T, pos, r, m) /\ Reached(L, T, pos)
    BY DEF SleepLeft
  <1>2. \/ Sleep(t) \/ WakeConditionVariable(t) \/ WakeAllConditionVariable(t)
        \/ TimeOut(t) \/ Inside(t)
    BY DEF Acts
  <1>3. CASE Sleep(t)
    <2>1. Arrived(L, T, pos, t)
      BY <1>1, <1>3, HeldSleep
    <2>2. PICK pos1 \in [Thread -> Nat] :
             Moved(L \cup {t}, T, pos1) /\ \A x \in L : pos1[x] = pos[x] /\ pos1[x] < pos1[t]
      BY <2>1 DEF Arrived
    <2> QED BY <1>1, <1>3, <2>2, KeepsSleep
  <1>4. CASE WakeConditionVariable(t)
    BY <1>1, <1>4, KeepsWake
  <1>5. CASE WakeAllConditionVariable(t)
    BY <1>1, <1>5, KeepsWakeAll
  <1>6. CASE TimeOut(t)
    BY <1>1, <1>6, KeepsTimeOut
  <1>7. CASE Optimize(t)
    BY <1>1, <1>7, KeepsOptimize
  <1>8. CASE Spin(t)
    BY <1>1, <1>8, KeepsSpin
  <1>9. CASE WakeSingle(t)
    BY <1>1, <1>9, KeepsWakeSingle
  <1>10. CASE RemoveNewest(t)
    BY <1>1, <1>10, KeepsRemoveNewest
  <1>11. CASE TakeAll(t)
    BY <1>1, <1>11, KeepsTakeAll
  <1>12. CASE TakeOldest(t)
    BY <1>1, <1>12, KeepsTakeOldest
  <1>13. CASE TakeLast(t)
    BY <1>1, <1>13, KeepsTakeLast
  <1>14. CASE Unlock(t)
    BY <1>1, <1>14, KeepsUnlock
  <1>15. CASE Release(t)
    BY <1>1, <1>15, KeepsRelease
  <1>16. CASE Released(t)
    BY <1>1, <1>16, KeepsReleased
  <1> QED BY <1>2, <1>3, <1>4, <1>5, <1>6, <1>7, <1>8, <1>9, <1>10, <1>11, <1>12, <1>13, <1>14, <1>15, <1>16 DEF
     Inside

\* At rest nobody releases: each waits for one with a higher number.
LEMMA NoneReleases ==
  ASSUME OfThreads, NEW L \in SUBSET Thread, NEW T \in [Thread -> SUBSET Thread], NEW pos \in [Thread -> Nat],
         NEW r \in [Thread -> Nat], NEW m \in Block, Holds(L, T, pos, r, m), Reached(L, T, pos),
         \A x \in Thread : Rests(x)
  PROVE  \A x \in Thread : pc[x] # "release" /\ T[x] = {}
  <1>1. PICK n \in [Thread -> Nat], N \in Nat : Numbered(T, n, N)
    BY DEF Reached, Ranked
  <1>2. PICK S : S = {k \in Nat : \E x \in Thread : pc[x] = "release" /\ k = N - n[x]}
    OBVIOUS
  <1>3. ASSUME NEW x \in Thread, pc[x] = "release"
        PROVE  \E b \in Thread : pc[b] = "release" /\ n[x] < n[b]
    <2>1. PICK b : b = pWake[x]
      OBVIOUS
    <2>2. b # Null /\ ~spinning[b] /\ pc[b] \notin Asleep
      BY <1>3, <2>1 DEF Rests, Asleep
    <2>3. b \in T[x]
      BY <2>1, <2>2, TakenIs DEF Holds
    <2>4. b \in Thread /\ On(b)
      BY <2>3 DEF Holds, AllOn
    <2>5. Rests(b)
      BY <2>4
    <2>6. pc[b] = "release" /\ Away(b)
      BY <2>2, <2>4, <2>5 DEF Rests, On, Away, Asleep
    <2>7. n[x] < n[b]
      BY <1>1, <2>3, <2>6 DEF Numbered
    <2> QED BY <2>4, <2>6, <2>7
  <1>4. ASSUME S # {}
        PROVE  FALSE
    <2>1. PICK k \in S : \A j \in S : k <= j
      <3>1. S \in SUBSET Nat
        BY <1>2
      <3> QED BY <1>4, <3>1, LeastNumber
    <2>2. PICK x \in Thread : pc[x] = "release" /\ k = N - n[x]
      BY <1>2, <2>1
    <2>3. PICK b \in Thread : pc[b] = "release" /\ n[x] < n[b]
      BY <1>3, <2>2
    <2>4. n[b] <= N /\ n[b] \in Nat /\ n[x] \in Nat
      BY <1>1 DEF Numbered
    <2>5. N - n[b] \in Nat /\ N - n[b] < k
      BY <1>1, <2>2, <2>3, <2>4
    <2>6. N - n[b] \in S
      BY <1>2, <2>3, <2>5
    <2> QED BY <1>2, <2>1, <2>5, <2>6
  <1>5. ASSUME NEW x \in Thread
        PROVE  pc[x] # "release"
    <2>1. n[x] <= N /\ n[x] \in Nat /\ N - n[x] \in Nat
      BY <1>1 DEF Numbered
    <2> QED BY <1>2, <1>4, <2>1
  <1>6. ASSUME NEW x \in Thread
        PROVE  T[x] = {}
    <2>1. pc[x] \notin {"waking", "release"}
      BY <1>5, <1>6 DEF Rests, Asleep
    <2>2. pWake[x] = Null
      BY <2>1 DEF OfThreads, LocalInv, LocalAt
    <2> QED BY <2>2, TakenIs DEF Holds
  <1> QED BY <1>5, <1>6

LEMMA LeavesNobody ==
  ASSUME OfThreads, SleepLeft
  PROVE  NobodyStuckUnlessForgotten
  <1> SUFFICES ASSUME forgotten = 0, \A x \in Thread : Rests(x)
               PROVE  /\ \A x \in Thread : pc[x] = "idle" \/ (pc[x] = "kernel" /\ x \in List)
                      /\ ~word.locked
    BY DEF NobodyStuckUnlessForgotten, NobodyStuck
  <1>1. PICK L \in SUBSET Thread, T \in [Thread -> SUBSET Thread], pos \in [Thread -> Nat], r \in [Thread -> Nat],
             m \in Block : Holds(L, T, pos, r, m) /\ Reached(L, T, pos)
    BY DEF SleepLeft
  <1>2. \A x \in Thread : pc[x] # "release" /\ T[x] = {}
    BY <1>1, NoneReleases
  <1>3. \A x \in Thread : pc[x] \in {"idle", "kernel", "kernelAgain"}
    BY <1>2 DEF Rests, Asleep
  <1>4. ~word.locked /\ word.count # WakeMask
    <2>1. ~word.locked
      BY <1>3 DEF OfThreads, OwnerInv, Owner
    <2> QED BY <2>1, WakeMaskPositive DEF OfThreads, OwnerInv
  <1>5. List = L
    BY <1>1, ListIs DEF Holds
  <1>6. ASSUME NEW x \in Thread, pc[x] # "idle"
        PROVE  pc[x] = "kernel" /\ x \in L
    <2>1. x \in L
      BY <1>1, <1>2, <1>3, <1>6 DEF Reached, Found, On
    <2>2. pc[x] # "kernelAgain"
      BY <1>1, <1>4, <2>1 DEF Reached, Promised, Promise
    <2> QED BY <1>3, <1>6, <2>1, <2>2
  <1> QED BY <1>4, <1>5, <1>6

\* Whoever sleeps on a condition variable is on its list or with a waker, and who waits for its waker although
\* no wake-up is on its way has been promised one (synch.hpp:417-653, 2431-2512), as long as no missed release
\* has met another wait (154-168, 189-190).
THEOREM SleepersLeft == SleepersSpec => [](misled \/ (IInv /\ SleepLeft))
  <1>1. SleepersInit => IInv /\ SleepLeft
    BY SleepInit DEF SleepersInit
  <1>2. (misled \/ (IInv /\ SleepLeft)) /\ [SleepersNext]_<<part, vars, late, waitVars>> => (misled \/ (IInv /\ SleepLeft))'
    <2> SUFFICES ASSUME misled \/ (IInv /\ SleepLeft), [SleepersNext]_<<part, vars, late, waitVars>>
                 PROVE  misled' \/ (IInv /\ SleepLeft)'
      OBVIOUS
    <2>1. CASE Next
      <3>1. IInv /\ SleepLeft /\ OfThreads
        BY <2>1, NextActs DEF IInv
      <3> QED BY <2>1, <3>1, NextActs, IInvStep, SleepStep
    <2>2. CASE Waits!Next /\ UNCHANGED vars
      BY <2>2, WaitsNextActs, IInvStutters, SleepStutters
    <2>3. CASE UNCHANGED <<vars, late>>
      BY <2>3, IInvStutters, SleepStutters DEF late
    <2> QED BY <2>1, <2>2, <2>3 DEF SleepersNext
  <1> QED BY <1>1, <1>2, PTL DEF SleepersSpec

\* In every behaviour of the condition variables and of the waits on addresses, for any number of threads: when no
\* thread can take a step of its own and no release has been missed (165-168, 189-190), none is left asleep but those
\* whose timeouts still run, no waker waits, and the list is unlocked (src/Thunks/api-ms-win-core-synch.hpp:417-653,
\* 858-1303).  The exception are the wake-ups that RtlpWakeSingle writes over (619, 2431-2512).
THEOREM NobodyLeftAlways == SleepersSpec => []NobodyLeft
  <1>1. misled \/ (IInv /\ SleepLeft) => NobodyStuckUnlessForgotten
    BY LeavesNobody DEF IInv, NobodyStuckUnlessForgotten, NobodyStuck, Missed
  <1>2. Waits!NobodyStuck /\ NobodyStuckUnlessForgotten => NobodyLeft
    BY DEF NobodyLeft
  <1> QED BY <1>1, <1>2, SleepersLeft, WaitsNobodyStuck, PTL
=============================================================================
