------------------------ MODULE ThreadpoolProofs ------------------------
(***************************************************************************)
(* Proofs about the thread pool's two halves, for any number of clients,   *)
(* threads and submissions.  First ThreadpoolWork, for work and I/O        *)
(* objects: the references are counted exactly, and the event is set when  *)
(* the object is idle.  Then ThreadPool, as MCThreadPool names it: the     *)
(* pool lives as long as it is used, and no task is without a runner.      *)
(***************************************************************************)
EXTENDS ThreadpoolWork, MCThreadPool, FiniteSetTheorems, TLAPS

USE WorkAssumption

-----------------------------------------------------------------------------
(* The inductive invariant.                                                *)

Typing ==
  /\ kind \in {"work", "io"} /\ mayCancel \in BOOLEAN /\ event \in BOOLEAN /\ closed \in BOOLEAN
  /\ nRef \in Int /\ pending \in Nat /\ working \in Int /\ queued \in Nat
  /\ pc \in [Thread -> {"idle", "add", "reset", "push", "take", "drop", "set", "release",
                        "cancel", "check", "blocked", "subtract"}]
  /\ running \in [Thread -> BOOLEAN]
  /\ cancelled \in [Thread -> Nat]
  /\ overdrawn \in BOOLEAN

\* What a thread's place says: only an I/O object has references to subtract, and only
\* the thread that waits for it and has cancelled them.
LocalInv ==
  \A t \in Thread :
    /\ pc[t] = "take" => ~running[t]
    /\ pc[t] = "cancel" => mayCancel
    /\ pc[t] = "subtract" => kind = "io"
    /\ cancelled[t] # 0 => kind = "io" /\ pc[t] \in {"check", "blocked", "subtract"}

\* A thread has a reference where it is about to make or to drop an entry or, for an I/O
\* object, a pending callback; in a callback it has one, and another one in such a place.
Places == IF kind = "work" THEN {"add", "reset", "push", "take", "drop", "set", "release"}
                           ELSE {"add", "set", "release"}
Holding == {t \in Thread : pc[t] \in Places \/ running[t]}
Calling == {t \in Thread : pc[t] \in Places /\ running[t]}
Entries == IF kind = "work" THEN queued ELSE pending
Handles == IF closed THEN 0 ELSE 1

CancelledFinite == IsFiniteSet(Cancelled)
RefsBalanced ==
  ~overdrawn => nRef = Handles + Entries + Cardinality(Holding) + Cardinality(Calling)
                         + Cardinality(Cancelled)

\* As long as nobody cancels, a pending callback is one that is being submitted, in the
\* queue or in flight, or just taken from there.
Submissions == {t \in Thread : pc[t] \in {"reset", "push", "take", "drop"}}
PendingCounted == ~mayCancel => pending = queued + Cardinality(Submissions)

\* Every running callback is counted.
Runners == {t \in Thread : running[t]}
WorkingCounted == working = Cardinality(Runners)

IInv ==
  /\ Typing /\ LocalInv /\ CancelledFinite /\ RefsBalanced
  /\ PendingCounted /\ WorkingCounted /\ SignalledWhenIdle

-----------------------------------------------------------------------------
(* Counting.                                                               *)

One(b) == IF b THEN 1 ELSE 0

\* Two sets of threads that differ at most in whether t is in them.
LEMMA OneMoves ==
  ASSUME NEW t \in Thread, NEW S \in SUBSET Thread, NEW T \in SUBSET Thread,
         \A u \in Thread : u # t => (u \in T <=> u \in S)
  PROVE  /\ Cardinality(S) \in Nat /\ Cardinality(T) \in Nat
         /\ Cardinality(T) = Cardinality(S) + One(t \in T) - One(t \in S)
<1>1. IsFiniteSet(S) /\ IsFiniteSet(T)
  BY FS_Subset
<1>2. Cardinality(S) \in Nat /\ Cardinality(T) \in Nat
  BY <1>1, FS_CardinalityType
<1>3. /\ Cardinality(S \cup {t}) = IF t \in S THEN Cardinality(S) ELSE Cardinality(S) + 1
      /\ Cardinality(T \cup {t}) = IF t \in T THEN Cardinality(T) ELSE Cardinality(T) + 1
  BY <1>1, FS_AddElement
<1>4. Cardinality(S \cup {t}) = Cardinality(T \cup {t})
  <2>1. S \cup {t} = T \cup {t}
    OBVIOUS
  <2> QED BY <2>1
<1>5. CASE t \in S
  BY <1>2, <1>3, <1>4, <1>5 DEF One
<1>6. CASE t \notin S
  BY <1>2, <1>3, <1>4, <1>6 DEF One
<1> QED BY <1>5, <1>6

\* A thread's references: as many as it has numbers.
Numbers(t, n) == {t} \X (1 .. n)

LEMMA NumbersCount ==
  ASSUME NEW t, NEW n \in Nat
  PROVE  IsFiniteSet(Numbers(t, n)) /\ Cardinality(Numbers(t, n)) = n
<1>1. IsFiniteSet({t}) /\ Cardinality({t}) = 1
  BY FS_Singleton
<1>2. IsFiniteSet(1 .. n) /\ Cardinality(1 .. n) = n
  BY FS_Interval
<1>3. /\ IsFiniteSet({t} \X (1 .. n))
      /\ Cardinality({t} \X (1 .. n)) = Cardinality({t}) * Cardinality(1 .. n)
  BY <1>1, <1>2, FS_Product
<1> QED BY <1>1, <1>2, <1>3 DEF Numbers

LEMMA SetsJoin ==
  ASSUME NEW S, IsFiniteSet(S), NEW C, IsFiniteSet(C), S \cap C = {}, NEW T, T = S \cup C
  PROVE  IsFiniteSet(T) /\ Cardinality(T) = Cardinality(S) + Cardinality(C)
<1>1. /\ IsFiniteSet(S \cup C)
      /\ Cardinality(S \cup C) = Cardinality(S) + Cardinality(C) - Cardinality(S \cap C)
  BY FS_Union
<1>2. Cardinality(S) \in Nat /\ Cardinality(C) \in Nat /\ Cardinality(S \cap C) = 0
  BY FS_CardinalityType, FS_EmptySet
<1> QED BY <1>1, <1>2

\* The references of the other threads, and t's.
Others(t) == UNION {{u} \X (1 .. cancelled[u]) : u \in Thread \ {t}}

LEMMA CancelledSplit ==
  ASSUME NEW t \in Thread, CancelledFinite, cancelled[t] \in Nat
  PROVE  /\ IsFiniteSet(Others(t)) /\ Cardinality(Others(t)) \in Nat
         /\ Cardinality(Cancelled) = Cardinality(Others(t)) + cancelled[t]
<1>1. Others(t) \cap Numbers(t, cancelled[t]) = {}
  BY DEF Others, Numbers
<1>2. Cancelled = Others(t) \cup Numbers(t, cancelled[t])
  BY DEF Others, Cancelled, Numbers
<1>3. IsFiniteSet(Others(t))
  BY <1>2, FS_Subset DEF CancelledFinite
<1>4. IsFiniteSet(Numbers(t, cancelled[t])) /\ Cardinality(Numbers(t, cancelled[t])) = cancelled[t]
  BY NumbersCount
<1> QED BY <1>1, <1>2, <1>3, <1>4, SetsJoin, FS_CardinalityType

\* Where only the number of t changes.
LEMMA CancelledMoves ==
  ASSUME Typing, Typing', CancelledFinite, NEW t \in Thread,
         \A u \in Thread : u # t => cancelled'[u] = cancelled[u]
  PROVE  /\ CancelledFinite' /\ Cardinality(Cancelled) \in Nat /\ Cardinality(Cancelled') \in Nat
         /\ Cardinality(Cancelled') = Cardinality(Cancelled) - cancelled[t] + cancelled'[t]
<1>1. cancelled[t] \in Nat /\ cancelled'[t] \in Nat
  BY DEF Typing
<1>2. /\ IsFiniteSet(Others(t)) /\ Cardinality(Others(t)) \in Nat
      /\ Cardinality(Cancelled) = Cardinality(Others(t)) + cancelled[t]
  BY <1>1, CancelledSplit
<1>3. Others(t)' = Others(t)
  BY DEF Others
<1>4. Others(t) \cap Numbers(t, cancelled'[t]) = {}
  BY DEF Others, Numbers
<1>5. Cancelled' = Others(t) \cup Numbers(t, cancelled'[t])
  BY <1>3 DEF Others, Cancelled, Numbers
<1>6. /\ IsFiniteSet(Numbers(t, cancelled'[t]))
      /\ Cardinality(Numbers(t, cancelled'[t])) = cancelled'[t]
  BY <1>1, NumbersCount
<1>7. IsFiniteSet(Cancelled') /\ Cardinality(Cancelled') = Cardinality(Others(t)) + cancelled'[t]
  BY <1>2, <1>4, <1>5, <1>6, SetsJoin
<1> QED BY <1>1, <1>2, <1>7 DEF CancelledFinite

\* What a step of t may change of the threads, and what the sets of threads gain by it.
Mine(t) == \A u \in Thread : u # t => pc'[u] = pc[u] /\ running'[u] = running[u]

LEMMA HoldersMove ==
  ASSUME NEW t \in Thread, Mine(t), kind' = kind
  PROVE  /\ Cardinality(Holding) \in Nat /\ Cardinality(Holding') \in Nat
         /\ Cardinality(Calling) \in Nat /\ Cardinality(Calling') \in Nat
         /\ Cardinality(Holding') = Cardinality(Holding) + One(t \in Holding') - One(t \in Holding)
         /\ Cardinality(Calling') = Cardinality(Calling) + One(t \in Calling') - One(t \in Calling)
<1>1. Places' = Places
  BY DEF Places
<1>2. \A u \in Thread : u # t => /\ u \in Holding' <=> u \in Holding
                                 /\ u \in Calling' <=> u \in Calling
  BY <1>1 DEF Mine, Holding, Calling
<1>3. /\ Holding \in SUBSET Thread /\ Calling \in SUBSET Thread /\ Holding' \in SUBSET Thread
      /\ Calling' \in SUBSET Thread
  BY DEF Holding, Calling
<1>4. /\ Cardinality(Holding) \in Nat /\ Cardinality(Holding') \in Nat
      /\ Cardinality(Holding') = Cardinality(Holding) + One(t \in Holding') - One(t \in Holding)
  BY <1>2, <1>3, OneMoves
<1>5. /\ Cardinality(Calling) \in Nat /\ Cardinality(Calling') \in Nat
      /\ Cardinality(Calling') = Cardinality(Calling) + One(t \in Calling') - One(t \in Calling)
  BY <1>2, <1>3, OneMoves
<1> QED BY <1>4, <1>5

LEMMA SubmissionsMove ==
  ASSUME NEW t \in Thread, Mine(t)
  PROVE  /\ Cardinality(Submissions) \in Nat /\ Cardinality(Submissions') \in Nat
         /\ Cardinality(Submissions')
                 = Cardinality(Submissions) + One(t \in Submissions') - One(t \in Submissions)
         /\ t \in Submissions => Cardinality(Submissions) > 0
<1>1. \A u \in Thread : u # t => (u \in Submissions' <=> u \in Submissions)
  BY DEF Mine, Submissions
<1>2. Submissions \in SUBSET Thread /\ Submissions' \in SUBSET Thread
  BY DEF Submissions
<1>3. ASSUME t \in Submissions PROVE Cardinality(Submissions) > 0
  <2>1. /\ Cardinality(Submissions \ {t}) \in Nat /\ Cardinality(Submissions) \in Nat
        /\ Cardinality(Submissions \ {t})
             = Cardinality(Submissions) + One(t \in Submissions \ {t}) - One(t \in Submissions)
    BY <1>2, OneMoves
  <2> QED BY <1>3, <2>1 DEF One
<1> QED BY <1>1, <1>2, <1>3, OneMoves

LEMMA RunnersMove ==
  ASSUME NEW t \in Thread, Mine(t)
  PROVE  /\ Cardinality(Runners) \in Nat /\ Cardinality(Runners') \in Nat
         /\ Cardinality(Runners') = Cardinality(Runners) + One(running'[t]) - One(running[t])
<1>1. \A u \in Thread : u # t => (u \in Runners' <=> u \in Runners)
  BY DEF Mine, Runners
<1>2. Runners \in SUBSET Thread /\ Runners' \in SUBSET Thread
  BY DEF Runners
<1>3. Cardinality(Runners') = Cardinality(Runners) + One(t \in Runners') - One(t \in Runners)
  BY <1>1, <1>2, OneMoves
<1>4. (t \in Runners <=> running[t]) /\ (t \in Runners' <=> running'[t])
  BY DEF Runners
<1>5. Cardinality(Runners) \in Nat /\ Cardinality(Runners') \in Nat
  BY <1>1, <1>2, OneMoves
<1> QED BY <1>3, <1>4, <1>5 DEF One

\* The references of one thread, those it has cancelled aside.
Weight(t) == One(pc[t] \in Places) + One(running[t])

LEMMA WeightMoves ==
  ASSUME NEW t \in Thread, Mine(t), kind' = kind
  PROVE  /\ Cardinality(Holding) \in Nat /\ Cardinality(Holding') \in Nat
         /\ Cardinality(Calling) \in Nat /\ Cardinality(Calling') \in Nat
         /\ Cardinality(Holding') + Cardinality(Calling')
              = Cardinality(Holding) + Cardinality(Calling) + Weight(t)' - Weight(t)
<1>1. One(t \in Holding) + One(t \in Calling) = Weight(t)
  BY DEF Holding, Calling, One, Weight
<1>2. One(t \in Holding') + One(t \in Calling') = Weight(t)'
  BY DEF Holding, Calling, One, Weight
<1>3. /\ One(t \in Holding) \in Int /\ One(t \in Calling) \in Int
      /\ One(t \in Holding') \in Int /\ One(t \in Calling') \in Int
  BY DEF One
<1>4. /\ Cardinality(Holding) \in Nat /\ Cardinality(Holding') \in Nat
      /\ Cardinality(Calling) \in Nat /\ Cardinality(Calling') \in Nat
      /\ Cardinality(Holding') = Cardinality(Holding) + One(t \in Holding') - One(t \in Holding)
      /\ Cardinality(Calling') = Cardinality(Calling) + One(t \in Calling') - One(t \in Calling)
  BY HoldersMove
<1>5. Weight(t) \in Int /\ Weight(t)' \in Int
  BY DEF Weight, One
<1> QED BY <1>1, <1>2, <1>3, <1>4, <1>5

\* A step of t keeps the balance if it keeps t's part of it.
LEMMA Balances ==
  ASSUME NEW t \in Thread, Typing, Typing', CancelledFinite, RefsBalanced, Mine(t), kind' = kind,
         \A u \in Thread : u # t => cancelled'[u] = cancelled[u],
         ~overdrawn' =>
           /\ ~overdrawn
           /\ nRef' + Handles + Entries + Weight(t) + cancelled[t]
                = nRef + Handles' + Entries' + Weight(t)' + cancelled'[t]
  PROVE  CancelledFinite' /\ RefsBalanced'
<1>1. /\ CancelledFinite' /\ Cardinality(Cancelled) \in Nat /\ Cardinality(Cancelled') \in Nat
      /\ Cardinality(Cancelled') = Cardinality(Cancelled) - cancelled[t] + cancelled'[t]
  BY CancelledMoves
<1>2. /\ Cardinality(Holding) \in Nat /\ Cardinality(Holding') \in Nat
      /\ Cardinality(Calling) \in Nat /\ Cardinality(Calling') \in Nat
      /\ Cardinality(Holding') + Cardinality(Calling')
           = Cardinality(Holding) + Cardinality(Calling) + Weight(t)' - Weight(t)
  BY WeightMoves
<1>3. /\ Weight(t) \in Int /\ Weight(t)' \in Int /\ nRef \in Int /\ nRef' \in Int
      /\ cancelled[t] \in Int /\ cancelled'[t] \in Int
      /\ Handles \in Int /\ Handles' \in Int /\ Entries \in Int /\ Entries' \in Int
  BY DEF Weight, One, Typing, Handles, Entries
<1> QED BY <1>1, <1>2, <1>3 DEF RefsBalanced

-----------------------------------------------------------------------------
(* What each action does.                                                  *)

\* t moves on; what else stays.
Moves(t, from, to) == pc[t] = from /\ pc'[t] = to /\ Mine(t) /\ running'[t] = running[t]

SubmitDoes(t) ==
  /\ Moves(t, "idle", "add")
  /\ nRef' = nRef + 1
  /\ UNCHANGED <<kind, mayCancel, pending, working, event, queued, closed, cancelled, overdrawn>>
AddPendingCountDoes(t) ==
  /\ Moves(t, "add", IF pending = 0 THEN "reset" ELSE "push")
  /\ pending' = pending + 1
  /\ UNCHANGED <<kind, mayCancel, nRef, working, event, queued, closed, cancelled, overdrawn>>
ResetDoes(t) ==
  /\ Moves(t, "reset", "push")
  /\ event' = FALSE
  /\ UNCHANGED <<kind, mayCancel, nRef, pending, working, queued, closed, cancelled, overdrawn>>
PushDoes(t) ==
  /\ Moves(t, "push", "idle")
  /\ queued' = queued + 1
  /\ UNCHANGED <<kind, mayCancel, nRef, pending, working, event, closed, cancelled, overdrawn>>
StartFailsDoes(t) ==
  /\ Moves(t, "push", "drop") /\ kind = "io"
  /\ UNCHANGED <<kind, mayCancel, nRef, pending, working, event, queued, closed, cancelled,
                 overdrawn>>
PopDoes(t) ==
  /\ Moves(t, "idle", IF t \in Worker THEN "take" ELSE "drop") /\ ~running[t]
  /\ queued > 0 /\ (kind = "work" \/ t \in Worker) /\ queued' = queued - 1
  /\ UNCHANGED <<kind, mayCancel, nRef, pending, working, event, closed, cancelled, overdrawn>>
TakeDoes(t) ==
  /\ pc[t] = "take" /\ Mine(t)
  /\ pending > 0 => /\ pc'[t] = "idle" /\ running'[t]
                    /\ pending' = pending - 1 /\ working' = working + 1
  /\ pending = 0 => /\ pc'[t] = (IF kind = "work" THEN "release" ELSE "idle")
                    /\ running'[t] = running[t] /\ UNCHANGED <<pending, working>>
  /\ UNCHANGED <<kind, mayCancel, nRef, event, queued, closed, cancelled, overdrawn>>
DropDoes(t) ==
  /\ Moves(t, "drop", IF pending = 1 /\ working = 0 THEN "set" ELSE "release")
  /\ pending' = IF pending > 0 THEN pending - 1 ELSE pending
  /\ overdrawn' = (overdrawn \/ (kind = "io" /\ pending = 0))
  /\ UNCHANGED <<kind, mayCancel, nRef, working, event, queued, closed, cancelled>>
FinishDoes(t) ==
  /\ pc[t] = "idle" /\ Mine(t) /\ running[t] /\ ~running'[t]
  /\ pc'[t] = IF pending = 0 /\ working = 1 THEN "set" ELSE "release"
  /\ working' = working - 1
  /\ UNCHANGED <<kind, mayCancel, nRef, pending, event, queued, closed, cancelled, overdrawn>>
SetDoes(t) ==
  /\ Moves(t, "set", "release")
  /\ event' = TRUE
  /\ UNCHANGED <<kind, mayCancel, nRef, pending, working, queued, closed, cancelled, overdrawn>>
ReleaseDoes(t) ==
  /\ Moves(t, "release", "idle")
  /\ nRef' = nRef - 1
  /\ UNCHANGED <<kind, mayCancel, pending, working, event, queued, closed, cancelled, overdrawn>>
WaitDoes(t) ==
  /\ Moves(t, "idle", "check") \/ (Moves(t, "idle", "cancel") /\ mayCancel)
  /\ UNCHANGED <<kind, mayCancel, nRef, pending, working, event, queued, closed, cancelled,
                 overdrawn>>
CancelDoes(t) ==
  /\ Moves(t, "cancel", "check")
  /\ pending' = 0 /\ cancelled'[t] = IF kind = "io" THEN pending ELSE 0
  /\ \A u \in Thread : u # t => cancelled'[u] = cancelled[u]
  /\ UNCHANGED <<kind, mayCancel, nRef, working, event, queued, closed, overdrawn>>
CheckDoes(t) ==
  /\ Moves(t, "check", "idle") \/ Moves(t, "check", "blocked") \/ Moves(t, "check", "subtract")
  /\ pc'[t] = "idle" => kind = "work"
  /\ pc'[t] = "subtract" => kind = "io"
  /\ UNCHANGED <<kind, mayCancel, nRef, pending, working, event, queued, closed, cancelled,
                 overdrawn>>
UnblockDoes(t) ==
  /\ Moves(t, "blocked", "idle") \/ Moves(t, "blocked", "subtract")
  /\ pc'[t] = "idle" => kind = "work"
  /\ pc'[t] = "subtract" => kind = "io"
  /\ UNCHANGED <<kind, mayCancel, nRef, pending, working, event, queued, closed, cancelled,
                 overdrawn>>
SubtractDoes(t) ==
  /\ Moves(t, "subtract", "idle")
  /\ nRef' = nRef - cancelled[t] /\ cancelled'[t] = 0
  /\ \A u \in Thread : u # t => cancelled'[u] = cancelled[u]
  /\ UNCHANGED <<kind, mayCancel, pending, working, event, queued, closed, overdrawn>>
CloseDoes(t) ==
  /\ pc' = pc /\ running' = running /\ ~closed /\ closed' = TRUE
  /\ nRef' = nRef - 1
  /\ UNCHANGED <<kind, mayCancel, pending, working, event, queued, cancelled, overdrawn>>

LEMMA SubmitEffect ==
  ASSUME Typing, NEW t \in Thread, Submit(t)
  PROVE  Typing' /\ SubmitDoes(t)
  BY DEF Typing, Submit, SubmitDoes, Moves, Mine, Goto, Count, CanCall, Waited, fixed, io, counts

LEMMA AddPendingCountEffect ==
  ASSUME Typing, NEW t \in Thread, AddPendingCount(t)
  PROVE  Typing' /\ AddPendingCountDoes(t)
  BY DEF Typing, AddPendingCount, AddPendingCountDoes, Moves, Mine, Goto, Count, CanCall, Waited,
     fixed, io, counts

LEMMA ResetEffect ==
  ASSUME Typing, NEW t \in Thread, Reset(t)
  PROVE  Typing' /\ ResetDoes(t)
  BY DEF Typing, Reset, ResetDoes, Moves, Mine, Goto, Count, CanCall, Waited, fixed, io, counts

LEMMA PushEffect ==
  ASSUME Typing, NEW t \in Thread, Push(t)
  PROVE  Typing' /\ PushDoes(t)
  BY DEF Typing, Push, PushDoes, Moves, Mine, Goto, Count, CanCall, Waited, fixed, io, counts

LEMMA StartFailsEffect ==
  ASSUME Typing, NEW t \in Thread, StartFails(t)
  PROVE  Typing' /\ StartFailsDoes(t)
  BY DEF Typing, StartFails, StartFailsDoes, Moves, Mine, Goto, Count, CanCall, Waited, fixed, io,
     counts

LEMMA PopEffect ==
  ASSUME Typing, NEW t \in Thread, Pop(t)
  PROVE  Typing' /\ PopDoes(t)
  BY DEF Typing, Pop, PopDoes, Moves, Mine, Goto, Count, CanCall, Waited, fixed, io, counts

LEMMA TakeEffect ==
  ASSUME Typing, NEW t \in Thread, Take(t)
  PROVE  Typing' /\ TakeDoes(t)
<1>1. pc[t] = "take" /\ UNCHANGED <<kind, mayCancel, nRef, event, queued, closed, cancelled,
                                    overdrawn>>
  BY DEF Take, fixed, io
<1>2. CASE pending > 0
  <2>1. /\ pc' = [pc EXCEPT ![t] = "idle"] /\ running' = [running EXCEPT ![t] = TRUE]
        /\ pending' = pending - 1 /\ working' = working + 1
    BY <1>2 DEF Take, Goto, Count
  <2>2. Typing'
    BY <1>1, <1>2, <2>1 DEF Typing
  <2>3. pc'[t] = "idle" /\ running'[t] /\ Mine(t) /\ pending # 0
    BY <1>2, <2>1 DEF Typing, Mine
  <2> QED BY <1>1, <1>2, <2>1, <2>2, <2>3 DEF TakeDoes
<1>3. CASE pending = 0
  <2>1. /\ pc' = [pc EXCEPT ![t] = IF kind = "work" THEN "release" ELSE "idle"]
        /\ UNCHANGED <<running, pending, working>>
    BY <1>3 DEF Take, Goto, counts
  <2> QED BY <1>1, <1>3, <2>1 DEF Typing, TakeDoes, Mine
<1> QED BY <1>2, <1>3 DEF Typing

LEMMA DropEffect ==
  ASSUME Typing, NEW t \in Thread, Drop(t)
  PROVE  Typing' /\ DropDoes(t)
  BY DEF Typing, Drop, DropDoes, Moves, Mine, Goto, Count, CanCall, Waited, fixed, io, counts

LEMMA FinishEffect ==
  ASSUME Typing, NEW t \in Thread, Finish(t)
  PROVE  Typing' /\ FinishDoes(t)
  BY DEF Typing, Finish, FinishDoes, Moves, Mine, Goto, Count, CanCall, Waited, fixed, io, counts

LEMMA SetEffect ==
  ASSUME Typing, NEW t \in Thread, Set(t)
  PROVE  Typing' /\ SetDoes(t)
  BY DEF Typing, Set, SetDoes, Moves, Mine, Goto, Count, CanCall, Waited, fixed, io, counts

LEMMA ReleaseEffect ==
  ASSUME Typing, NEW t \in Thread, Release(t)
  PROVE  Typing' /\ ReleaseDoes(t)
  BY DEF Typing, Release, ReleaseDoes, Moves, Mine, Goto, Count, CanCall, Waited, fixed, io, counts

LEMMA WaitEffect ==
  ASSUME Typing, NEW t \in Thread, Wait(t)
  PROVE  Typing' /\ WaitDoes(t)
<1>1. pc[t] = "idle" /\ UNCHANGED <<kind, mayCancel, nRef, pending, working, event, queued, closed,
                                    cancelled, overdrawn, running>>
  BY DEF Wait, CanCall, fixed, io
<1>2. PICK cancel \in {FALSE, mayCancel} : pc' = [pc EXCEPT ![t] = IF cancel THEN "cancel" ELSE "check"]
  BY DEF Wait, Goto
<1>3. CASE cancel
  BY <1>1, <1>2, <1>3 DEF Typing, WaitDoes, Moves, Mine
<1>4. CASE ~cancel
  BY <1>1, <1>2, <1>4 DEF Typing, WaitDoes, Moves, Mine
<1> QED BY <1>3, <1>4

LEMMA CancelEffect ==
  ASSUME Typing, NEW t \in Thread, Cancel(t)
  PROVE  Typing' /\ CancelDoes(t)
  BY DEF Typing, Cancel, CancelDoes, Moves, Mine, Goto, Count, CanCall, Waited, fixed, io, counts

LEMMA CheckEffect ==
  ASSUME Typing, NEW t \in Thread, Check(t)
  PROVE  Typing' /\ CheckDoes(t)
  BY DEF Typing, Check, CheckDoes, Moves, Mine, Goto, Count, CanCall, Waited, fixed, io, counts

LEMMA UnblockEffect ==
  ASSUME Typing, NEW t \in Thread, Unblock(t)
  PROVE  Typing' /\ UnblockDoes(t)
  BY DEF Typing, Unblock, UnblockDoes, Moves, Mine, Goto, Count, CanCall, Waited, fixed, io, counts

LEMMA SubtractEffect ==
  ASSUME Typing, NEW t \in Thread, Subtract(t)
  PROVE  Typing' /\ SubtractDoes(t)
  BY DEF Typing, Subtract, SubtractDoes, Moves, Mine, Goto, Count, CanCall, Waited, fixed, io,
     counts

LEMMA CloseEffect ==
  ASSUME Typing, NEW t \in Thread, Close(t)
  PROVE  Typing' /\ CloseDoes(t)
  BY DEF Typing, Close, CloseDoes, Moves, Mine, Goto, Count, CanCall, Waited, fixed, io, counts

-----------------------------------------------------------------------------
(* Every action keeps the places, ...                                      *)

LEMMA SubmitLocal ==
  ASSUME Typing, LocalInv, NEW t \in Thread, SubmitDoes(t)
  PROVE  LocalInv'
  BY DEF LocalInv, Typing, Moves, Mine, SubmitDoes

LEMMA AddPendingCountLocal ==
  ASSUME Typing, LocalInv, NEW t \in Thread, AddPendingCountDoes(t)
  PROVE  LocalInv'
  BY DEF LocalInv, Typing, Moves, Mine, AddPendingCountDoes

LEMMA ResetLocal ==
  ASSUME Typing, LocalInv, NEW t \in Thread, ResetDoes(t)
  PROVE  LocalInv'
  BY DEF LocalInv, Typing, Moves, Mine, ResetDoes

LEMMA PushLocal ==
  ASSUME Typing, LocalInv, NEW t \in Thread, PushDoes(t)
  PROVE  LocalInv'
  BY DEF LocalInv, Typing, Moves, Mine, PushDoes

LEMMA StartFailsLocal ==
  ASSUME Typing, LocalInv, NEW t \in Thread, StartFailsDoes(t)
  PROVE  LocalInv'
  BY DEF LocalInv, Typing, Moves, Mine, StartFailsDoes

LEMMA PopLocal ==
  ASSUME Typing, LocalInv, NEW t \in Thread, PopDoes(t)
  PROVE  LocalInv'
  BY DEF LocalInv, Typing, Moves, Mine, PopDoes

LEMMA TakeLocal ==
  ASSUME Typing, LocalInv, NEW t \in Thread, TakeDoes(t)
  PROVE  LocalInv'
  BY DEF LocalInv, Typing, Mine, TakeDoes

LEMMA DropLocal ==
  ASSUME Typing, LocalInv, NEW t \in Thread, DropDoes(t)
  PROVE  LocalInv'
  BY DEF LocalInv, Typing, Moves, Mine, DropDoes

LEMMA FinishLocal ==
  ASSUME Typing, LocalInv, NEW t \in Thread, FinishDoes(t)
  PROVE  LocalInv'
  BY DEF LocalInv, Typing, Mine, FinishDoes

LEMMA SetLocal ==
  ASSUME Typing, LocalInv, NEW t \in Thread, SetDoes(t)
  PROVE  LocalInv'
  BY DEF LocalInv, Typing, Moves, Mine, SetDoes

LEMMA ReleaseLocal ==
  ASSUME Typing, LocalInv, NEW t \in Thread, ReleaseDoes(t)
  PROVE  LocalInv'
  BY DEF LocalInv, Typing, Moves, Mine, ReleaseDoes

LEMMA WaitLocal ==
  ASSUME Typing, LocalInv, NEW t \in Thread, WaitDoes(t)
  PROVE  LocalInv'
  BY DEF LocalInv, Typing, Moves, Mine, WaitDoes

LEMMA CancelLocal ==
  ASSUME Typing, LocalInv, NEW t \in Thread, CancelDoes(t)
  PROVE  LocalInv'
  BY DEF LocalInv, Typing, Moves, Mine, CancelDoes

LEMMA CheckLocal ==
  ASSUME Typing, LocalInv, NEW t \in Thread, CheckDoes(t)
  PROVE  LocalInv'
  BY DEF LocalInv, Typing, Moves, Mine, CheckDoes

LEMMA UnblockLocal ==
  ASSUME Typing, LocalInv, NEW t \in Thread, UnblockDoes(t)
  PROVE  LocalInv'
  BY DEF LocalInv, Typing, Moves, Mine, UnblockDoes

LEMMA SubtractLocal ==
  ASSUME Typing, LocalInv, NEW t \in Thread, SubtractDoes(t)
  PROVE  LocalInv'
  BY DEF LocalInv, Typing, Moves, Mine, SubtractDoes

LEMMA CloseLocal ==
  ASSUME Typing, LocalInv, NEW t \in Thread, CloseDoes(t)
  PROVE  LocalInv'
  BY DEF LocalInv, Typing, CloseDoes

-----------------------------------------------------------------------------
(* ... the balance of the references, ...                                  *)

LEMMA SubmitRefs ==
  ASSUME Typing, Typing', LocalInv, CancelledFinite, RefsBalanced, NEW t \in Thread, SubmitDoes(t)
  PROVE  CancelledFinite' /\ RefsBalanced'
<1>1. Mine(t) /\ kind' = kind /\ (\A u \in Thread : u # t => cancelled'[u] = cancelled[u])
  BY DEF SubmitDoes, Moves
<1>2. /\ Handles' = Handles /\ Handles \in Int /\ nRef \in Int /\ nRef' \in Int
      /\ cancelled[t] \in Nat /\ cancelled'[t] \in Nat
  BY DEF SubmitDoes, Handles, Typing
<1>3. ~overdrawn' =>
        /\ ~overdrawn
        /\ nRef' + Entries + Weight(t) + cancelled[t] = nRef + Entries' + Weight(t)' + cancelled'[t]
  BY DEF SubmitDoes, Moves, Typing, LocalInv, Weight, One, Places, Entries
<1>4. Weight(t) \in Int /\ Weight(t)' \in Int /\ Entries \in Int /\ Entries' \in Int
  BY DEF Weight, One, Entries, Typing
<1> QED BY <1>1, <1>2, <1>3, <1>4, Balances

LEMMA AddPendingCountRefs ==
  ASSUME Typing, Typing', LocalInv, CancelledFinite, RefsBalanced, NEW t \in Thread, AddPendingCountDoes(t)
  PROVE  CancelledFinite' /\ RefsBalanced'
<1>1. Mine(t) /\ kind' = kind /\ (\A u \in Thread : u # t => cancelled'[u] = cancelled[u])
  BY DEF AddPendingCountDoes, Moves
<1>2. /\ Handles' = Handles /\ Handles \in Int /\ nRef \in Int /\ nRef' \in Int
      /\ cancelled[t] \in Nat /\ cancelled'[t] \in Nat
  BY DEF AddPendingCountDoes, Handles, Typing
<1>3. ~overdrawn' =>
        /\ ~overdrawn
        /\ nRef' + Entries + Weight(t) + cancelled[t] = nRef + Entries' + Weight(t)' + cancelled'[t]
  BY DEF AddPendingCountDoes, Moves, Typing, LocalInv, Weight, One, Places, Entries
<1>4. Weight(t) \in Int /\ Weight(t)' \in Int /\ Entries \in Int /\ Entries' \in Int
  BY DEF Weight, One, Entries, Typing
<1> QED BY <1>1, <1>2, <1>3, <1>4, Balances

LEMMA ResetRefs ==
  ASSUME Typing, Typing', LocalInv, CancelledFinite, RefsBalanced, NEW t \in Thread, ResetDoes(t)
  PROVE  CancelledFinite' /\ RefsBalanced'
<1>1. Mine(t) /\ kind' = kind /\ (\A u \in Thread : u # t => cancelled'[u] = cancelled[u])
  BY DEF ResetDoes, Moves
<1>2. /\ Handles' = Handles /\ Handles \in Int /\ nRef \in Int /\ nRef' \in Int
      /\ cancelled[t] \in Nat /\ cancelled'[t] \in Nat
  BY DEF ResetDoes, Handles, Typing
<1>3. ~overdrawn' =>
        /\ ~overdrawn
        /\ nRef' + Entries + Weight(t) + cancelled[t] = nRef + Entries' + Weight(t)' + cancelled'[t]
  BY DEF ResetDoes, Moves, Typing, LocalInv, Weight, One, Places, Entries
<1>4. Weight(t) \in Int /\ Weight(t)' \in Int /\ Entries \in Int /\ Entries' \in Int
  BY DEF Weight, One, Entries, Typing
<1> QED BY <1>1, <1>2, <1>3, <1>4, Balances

LEMMA PushRefs ==
  ASSUME Typing, Typing', LocalInv, CancelledFinite, RefsBalanced, NEW t \in Thread, PushDoes(t)
  PROVE  CancelledFinite' /\ RefsBalanced'
<1>1. Mine(t) /\ kind' = kind /\ (\A u \in Thread : u # t => cancelled'[u] = cancelled[u])
  BY DEF PushDoes, Moves
<1>2. /\ Handles' = Handles /\ Handles \in Int /\ nRef \in Int /\ nRef' \in Int
      /\ cancelled[t] \in Nat /\ cancelled'[t] \in Nat
  BY DEF PushDoes, Handles, Typing
<1>3. ~overdrawn' =>
        /\ ~overdrawn
        /\ nRef' + Entries + Weight(t) + cancelled[t] = nRef + Entries' + Weight(t)' + cancelled'[t]
  BY DEF PushDoes, Moves, Typing, LocalInv, Weight, One, Places, Entries
<1>4. Weight(t) \in Int /\ Weight(t)' \in Int /\ Entries \in Int /\ Entries' \in Int
  BY DEF Weight, One, Entries, Typing
<1> QED BY <1>1, <1>2, <1>3, <1>4, Balances

LEMMA StartFailsRefs ==
  ASSUME Typing, Typing', LocalInv, CancelledFinite, RefsBalanced, NEW t \in Thread, StartFailsDoes(t)
  PROVE  CancelledFinite' /\ RefsBalanced'
<1>1. Mine(t) /\ kind' = kind /\ (\A u \in Thread : u # t => cancelled'[u] = cancelled[u])
  BY DEF StartFailsDoes, Moves
<1>2. /\ Handles' = Handles /\ Handles \in Int /\ nRef \in Int /\ nRef' \in Int
      /\ cancelled[t] \in Nat /\ cancelled'[t] \in Nat
  BY DEF StartFailsDoes, Handles, Typing
<1>3. ~overdrawn' =>
        /\ ~overdrawn
        /\ nRef' + Entries + Weight(t) + cancelled[t] = nRef + Entries' + Weight(t)' + cancelled'[t]
  BY DEF StartFailsDoes, Moves, Typing, LocalInv, Weight, One, Places, Entries
<1>4. Weight(t) \in Int /\ Weight(t)' \in Int /\ Entries \in Int /\ Entries' \in Int
  BY DEF Weight, One, Entries, Typing
<1> QED BY <1>1, <1>2, <1>3, <1>4, Balances

LEMMA PopRefs ==
  ASSUME Typing, Typing', LocalInv, CancelledFinite, RefsBalanced, NEW t \in Thread, PopDoes(t)
  PROVE  CancelledFinite' /\ RefsBalanced'
<1>1. Mine(t) /\ kind' = kind /\ (\A u \in Thread : u # t => cancelled'[u] = cancelled[u])
  BY DEF PopDoes, Moves
<1>2. /\ Handles' = Handles /\ Handles \in Int /\ nRef \in Int /\ nRef' \in Int
      /\ cancelled[t] \in Nat /\ cancelled'[t] \in Nat
  BY DEF PopDoes, Handles, Typing
<1>3. ~overdrawn' =>
        /\ ~overdrawn
        /\ nRef' + Entries + Weight(t) + cancelled[t] = nRef + Entries' + Weight(t)' + cancelled'[t]
  BY DEF PopDoes, Moves, Typing, LocalInv, Weight, One, Places, Entries
<1>4. Weight(t) \in Int /\ Weight(t)' \in Int /\ Entries \in Int /\ Entries' \in Int
  BY DEF Weight, One, Entries, Typing
<1> QED BY <1>1, <1>2, <1>3, <1>4, Balances

LEMMA TakeRefs ==
  ASSUME Typing, Typing', LocalInv, CancelledFinite, RefsBalanced, NEW t \in Thread, TakeDoes(t)
  PROVE  CancelledFinite' /\ RefsBalanced'
<1>1. Mine(t) /\ kind' = kind /\ (\A u \in Thread : u # t => cancelled'[u] = cancelled[u])
  BY DEF TakeDoes
<1>2. /\ Handles' = Handles /\ Handles \in Int /\ nRef \in Int /\ nRef' \in Int
      /\ cancelled[t] \in Nat /\ cancelled'[t] \in Nat
  BY DEF TakeDoes, Handles, Typing
<1>3. ~overdrawn' =>
        /\ ~overdrawn
        /\ nRef' + Entries + Weight(t) + cancelled[t] = nRef + Entries' + Weight(t)' + cancelled'[t]
  BY DEF TakeDoes, Typing, LocalInv, Weight, One, Places, Entries
<1>4. Weight(t) \in Int /\ Weight(t)' \in Int /\ Entries \in Int /\ Entries' \in Int
  BY DEF Weight, One, Entries, Typing
<1> QED BY <1>1, <1>2, <1>3, <1>4, Balances

LEMMA DropRefs ==
  ASSUME Typing, Typing', LocalInv, CancelledFinite, RefsBalanced, NEW t \in Thread, DropDoes(t)
  PROVE  CancelledFinite' /\ RefsBalanced'
<1>1. Mine(t) /\ kind' = kind /\ (\A u \in Thread : u # t => cancelled'[u] = cancelled[u])
  BY DEF DropDoes, Moves
<1>2. /\ Handles' = Handles /\ Handles \in Int /\ nRef \in Int /\ nRef' \in Int
      /\ cancelled[t] \in Nat /\ cancelled'[t] \in Nat
  BY DEF DropDoes, Handles, Typing
<1>3. ~overdrawn' =>
        /\ ~overdrawn
        /\ nRef' + Entries + Weight(t) + cancelled[t] = nRef + Entries' + Weight(t)' + cancelled'[t]
  <2>1. /\ nRef' = nRef /\ cancelled'[t] = cancelled[t] /\ running'[t] = running[t]
        /\ running[t] \in BOOLEAN
    BY DEF DropDoes, Moves, Typing
  <2>2. pc[t] = "drop" /\ pc'[t] \in {"set", "release"} /\ kind' = kind
    BY DEF DropDoes, Moves
  <2>3. ~overdrawn' => ~overdrawn /\ (kind = "work" \/ pending > 0)
    <3>1. ~overdrawn' => ~overdrawn /\ ~(kind = "io" /\ pending = 0)
      BY Zenon DEF DropDoes
    <3>2. kind \in {"work", "io"} /\ pending \in Nat
      BY DEF Typing
    <3> QED BY <3>1, <3>2
  <2>4. CASE kind = "work"
    <3>1. Entries' = Entries /\ Weight(t)' = Weight(t)
      BY <2>1, <2>2, <2>4 DEF DropDoes, Entries, Weight, One, Places
    <3> QED BY <2>1, <2>3, <3>1
  <2>5. CASE kind = "io" /\ pending > 0
    <3>1. Weight(t)' = Weight(t) + 1
      BY <2>1, <2>2, <2>5 DEF Weight, One, Places
    <3>2. Entries' = Entries - 1 /\ Entries \in Int /\ Weight(t) \in Int
      BY <2>5 DEF DropDoes, Entries, Weight, One, Typing
    <3> QED BY <1>2, <2>1, <2>3, <3>1, <3>2
  <2> QED BY <2>3, <2>4, <2>5 DEF Typing
<1>4. Weight(t) \in Int /\ Weight(t)' \in Int /\ Entries \in Int /\ Entries' \in Int
  BY DEF Weight, One, Entries, Typing
<1> QED BY <1>1, <1>2, <1>3, <1>4, Balances

LEMMA FinishRefs ==
  ASSUME Typing, Typing', LocalInv, CancelledFinite, RefsBalanced, NEW t \in Thread, FinishDoes(t)
  PROVE  CancelledFinite' /\ RefsBalanced'
<1>1. Mine(t) /\ kind' = kind /\ (\A u \in Thread : u # t => cancelled'[u] = cancelled[u])
  BY DEF FinishDoes
<1>2. /\ Handles' = Handles /\ Handles \in Int /\ nRef \in Int /\ nRef' \in Int
      /\ cancelled[t] \in Nat /\ cancelled'[t] \in Nat
  BY DEF FinishDoes, Handles, Typing
<1>3. ~overdrawn' =>
        /\ ~overdrawn
        /\ nRef' + Entries + Weight(t) + cancelled[t] = nRef + Entries' + Weight(t)' + cancelled'[t]
  BY DEF FinishDoes, Typing, LocalInv, Weight, One, Places, Entries
<1>4. Weight(t) \in Int /\ Weight(t)' \in Int /\ Entries \in Int /\ Entries' \in Int
  BY DEF Weight, One, Entries, Typing
<1> QED BY <1>1, <1>2, <1>3, <1>4, Balances

LEMMA SetRefs ==
  ASSUME Typing, Typing', LocalInv, CancelledFinite, RefsBalanced, NEW t \in Thread, SetDoes(t)
  PROVE  CancelledFinite' /\ RefsBalanced'
<1>1. Mine(t) /\ kind' = kind /\ (\A u \in Thread : u # t => cancelled'[u] = cancelled[u])
  BY DEF SetDoes, Moves
<1>2. /\ Handles' = Handles /\ Handles \in Int /\ nRef \in Int /\ nRef' \in Int
      /\ cancelled[t] \in Nat /\ cancelled'[t] \in Nat
  BY DEF SetDoes, Handles, Typing
<1>3. ~overdrawn' =>
        /\ ~overdrawn
        /\ nRef' + Entries + Weight(t) + cancelled[t] = nRef + Entries' + Weight(t)' + cancelled'[t]
  BY DEF SetDoes, Moves, Typing, LocalInv, Weight, One, Places, Entries
<1>4. Weight(t) \in Int /\ Weight(t)' \in Int /\ Entries \in Int /\ Entries' \in Int
  BY DEF Weight, One, Entries, Typing
<1> QED BY <1>1, <1>2, <1>3, <1>4, Balances

LEMMA ReleaseRefs ==
  ASSUME Typing, Typing', LocalInv, CancelledFinite, RefsBalanced, NEW t \in Thread, ReleaseDoes(t)
  PROVE  CancelledFinite' /\ RefsBalanced'
<1>1. Mine(t) /\ kind' = kind /\ (\A u \in Thread : u # t => cancelled'[u] = cancelled[u])
  BY DEF ReleaseDoes, Moves
<1>2. /\ Handles' = Handles /\ Handles \in Int /\ nRef \in Int /\ nRef' \in Int
      /\ cancelled[t] \in Nat /\ cancelled'[t] \in Nat
  BY DEF ReleaseDoes, Handles, Typing
<1>3. ~overdrawn' =>
        /\ ~overdrawn
        /\ nRef' + Entries + Weight(t) + cancelled[t] = nRef + Entries' + Weight(t)' + cancelled'[t]
  BY DEF ReleaseDoes, Moves, Typing, LocalInv, Weight, One, Places, Entries
<1>4. Weight(t) \in Int /\ Weight(t)' \in Int /\ Entries \in Int /\ Entries' \in Int
  BY DEF Weight, One, Entries, Typing
<1> QED BY <1>1, <1>2, <1>3, <1>4, Balances

LEMMA WaitRefs ==
  ASSUME Typing, Typing', LocalInv, CancelledFinite, RefsBalanced, NEW t \in Thread, WaitDoes(t)
  PROVE  CancelledFinite' /\ RefsBalanced'
<1>1. Mine(t) /\ kind' = kind /\ (\A u \in Thread : u # t => cancelled'[u] = cancelled[u])
  BY DEF WaitDoes, Moves
<1>2. /\ Handles' = Handles /\ Handles \in Int /\ nRef \in Int /\ nRef' \in Int
      /\ cancelled[t] \in Nat /\ cancelled'[t] \in Nat
  BY DEF WaitDoes, Handles, Typing
<1>3. ~overdrawn' =>
        /\ ~overdrawn
        /\ nRef' + Entries + Weight(t) + cancelled[t] = nRef + Entries' + Weight(t)' + cancelled'[t]
  BY DEF WaitDoes, Moves, Typing, LocalInv, Weight, One, Places, Entries
<1>4. Weight(t) \in Int /\ Weight(t)' \in Int /\ Entries \in Int /\ Entries' \in Int
  BY DEF Weight, One, Entries, Typing
<1> QED BY <1>1, <1>2, <1>3, <1>4, Balances

LEMMA CancelRefs ==
  ASSUME Typing, Typing', LocalInv, CancelledFinite, RefsBalanced, NEW t \in Thread, CancelDoes(t)
  PROVE  CancelledFinite' /\ RefsBalanced'
<1>1. Mine(t) /\ kind' = kind /\ (\A u \in Thread : u # t => cancelled'[u] = cancelled[u])
  BY DEF CancelDoes, Moves
<1>2. /\ Handles' = Handles /\ Handles \in Int /\ nRef \in Int /\ nRef' \in Int
      /\ cancelled[t] \in Nat /\ cancelled'[t] \in Nat
  BY DEF CancelDoes, Handles, Typing
<1>3. ~overdrawn' =>
        /\ ~overdrawn
        /\ nRef' + Entries + Weight(t) + cancelled[t] = nRef + Entries' + Weight(t)' + cancelled'[t]
  BY DEF CancelDoes, Moves, Typing, LocalInv, Weight, One, Places, Entries
<1>4. Weight(t) \in Int /\ Weight(t)' \in Int /\ Entries \in Int /\ Entries' \in Int
  BY DEF Weight, One, Entries, Typing
<1> QED BY <1>1, <1>2, <1>3, <1>4, Balances

LEMMA CheckRefs ==
  ASSUME Typing, Typing', LocalInv, CancelledFinite, RefsBalanced, NEW t \in Thread, CheckDoes(t)
  PROVE  CancelledFinite' /\ RefsBalanced'
<1>1. Mine(t) /\ kind' = kind /\ (\A u \in Thread : u # t => cancelled'[u] = cancelled[u])
  BY DEF CheckDoes, Moves
<1>2. /\ Handles' = Handles /\ Handles \in Int /\ nRef \in Int /\ nRef' \in Int
      /\ cancelled[t] \in Nat /\ cancelled'[t] \in Nat
  BY DEF CheckDoes, Handles, Typing
<1>3. ~overdrawn' =>
        /\ ~overdrawn
        /\ nRef' + Entries + Weight(t) + cancelled[t] = nRef + Entries' + Weight(t)' + cancelled'[t]
  BY DEF CheckDoes, Moves, Typing, LocalInv, Weight, One, Places, Entries
<1>4. Weight(t) \in Int /\ Weight(t)' \in Int /\ Entries \in Int /\ Entries' \in Int
  BY DEF Weight, One, Entries, Typing
<1> QED BY <1>1, <1>2, <1>3, <1>4, Balances

LEMMA UnblockRefs ==
  ASSUME Typing, Typing', LocalInv, CancelledFinite, RefsBalanced, NEW t \in Thread, UnblockDoes(t)
  PROVE  CancelledFinite' /\ RefsBalanced'
<1>1. Mine(t) /\ kind' = kind /\ (\A u \in Thread : u # t => cancelled'[u] = cancelled[u])
  BY DEF UnblockDoes, Moves
<1>2. /\ Handles' = Handles /\ Handles \in Int /\ nRef \in Int /\ nRef' \in Int
      /\ cancelled[t] \in Nat /\ cancelled'[t] \in Nat
  BY DEF UnblockDoes, Handles, Typing
<1>3. ~overdrawn' =>
        /\ ~overdrawn
        /\ nRef' + Entries + Weight(t) + cancelled[t] = nRef + Entries' + Weight(t)' + cancelled'[t]
  BY DEF UnblockDoes, Moves, Typing, LocalInv, Weight, One, Places, Entries
<1>4. Weight(t) \in Int /\ Weight(t)' \in Int /\ Entries \in Int /\ Entries' \in Int
  BY DEF Weight, One, Entries, Typing
<1> QED BY <1>1, <1>2, <1>3, <1>4, Balances

LEMMA SubtractRefs ==
  ASSUME Typing, Typing', LocalInv, CancelledFinite, RefsBalanced, NEW t \in Thread, SubtractDoes(t)
  PROVE  CancelledFinite' /\ RefsBalanced'
<1>1. Mine(t) /\ kind' = kind /\ (\A u \in Thread : u # t => cancelled'[u] = cancelled[u])
  BY DEF SubtractDoes, Moves
<1>2. /\ Handles' = Handles /\ Handles \in Int /\ nRef \in Int /\ nRef' \in Int
      /\ cancelled[t] \in Nat /\ cancelled'[t] \in Nat
  BY DEF SubtractDoes, Handles, Typing
<1>3. ~overdrawn' =>
        /\ ~overdrawn
        /\ nRef' + Entries + Weight(t) + cancelled[t] = nRef + Entries' + Weight(t)' + cancelled'[t]
  BY DEF SubtractDoes, Moves, Typing, LocalInv, Weight, One, Places, Entries
<1>4. Weight(t) \in Int /\ Weight(t)' \in Int /\ Entries \in Int /\ Entries' \in Int
  BY DEF Weight, One, Entries, Typing
<1> QED BY <1>1, <1>2, <1>3, <1>4, Balances

LEMMA CloseRefs ==
  ASSUME Typing, Typing', LocalInv, CancelledFinite, RefsBalanced, NEW t \in Thread, CloseDoes(t)
  PROVE  CancelledFinite' /\ RefsBalanced'
<1>1. Mine(t) /\ kind' = kind /\ (\A u \in Thread : u # t => cancelled'[u] = cancelled[u])
  BY DEF CloseDoes, Mine
<1>2. /\ overdrawn' = overdrawn /\ Weight(t)' = Weight(t) /\ Entries' = Entries
      /\ cancelled'[t] = cancelled[t]
      /\ nRef' = nRef - 1 /\ Handles = 1 /\ Handles' = 0
  BY DEF CloseDoes, Weight, One, Places, Entries, Handles
<1>3. Weight(t) \in Int /\ nRef \in Int /\ cancelled[t] \in Int /\ Entries \in Int
  BY DEF Weight, One, Typing, Entries
<1> QED BY <1>1, <1>2, <1>3, Balances

-----------------------------------------------------------------------------
(* ... the counts of the callbacks, and the event.                         *)

LEMMA SubmitCounts ==
  ASSUME Typing, Typing', LocalInv, PendingCounted, WorkingCounted, SignalledWhenIdle,
         NEW t \in Thread, SubmitDoes(t)
  PROVE  PendingCounted' /\ WorkingCounted' /\ SignalledWhenIdle'
<1>1. Mine(t)
  BY DEF SubmitDoes, Moves
<1>2. /\ Cardinality(Submissions) \in Nat /\ Cardinality(Submissions') \in Nat
      /\ Cardinality(Submissions')
              = Cardinality(Submissions) + One(t \in Submissions') - One(t \in Submissions)
  BY <1>1, SubmissionsMove
<1>3. /\ Cardinality(Runners) \in Nat /\ Cardinality(Runners') \in Nat
      /\ Cardinality(Runners') = Cardinality(Runners) + One(running'[t]) - One(running[t])
  BY <1>1, RunnersMove
<1>4. WorkingCounted' /\ working \in Nat /\ working' \in Nat
  BY <1>3 DEF SubmitDoes, Moves, LocalInv, Typing, One, WorkingCounted
<1>5. ~mayCancel =>
        /\ pending = queued + Cardinality(Submissions)
        /\ pending' = queued' + Cardinality(Submissions')
        /\ t \in Submissions => pending > 0
  <2>1. t \in Submissions => Cardinality(Submissions) > 0
    BY <1>1, SubmissionsMove
  <2> QED BY <1>2, <2>1 DEF SubmitDoes, Moves, LocalInv, Typing, One, Submissions, PendingCounted
<1>6. PendingCounted'
  BY <1>5 DEF SubmitDoes, PendingCounted
<1>7. SignalledWhenIdle'
  BY <1>1, <1>4, <1>5 DEF SubmitDoes, Moves, Mine, Typing, LocalInv, Submissions, At,
     SignalledWhenIdle, SignalledWhenIdleAlways
<1> QED BY <1>4, <1>6, <1>7

LEMMA AddPendingCountCounts ==
  ASSUME Typing, Typing', LocalInv, PendingCounted, WorkingCounted, SignalledWhenIdle,
         NEW t \in Thread, AddPendingCountDoes(t)
  PROVE  PendingCounted' /\ WorkingCounted' /\ SignalledWhenIdle'
<1>1. Mine(t)
  BY DEF AddPendingCountDoes, Moves
<1>2. /\ Cardinality(Submissions) \in Nat /\ Cardinality(Submissions') \in Nat
      /\ Cardinality(Submissions')
              = Cardinality(Submissions) + One(t \in Submissions') - One(t \in Submissions)
  BY <1>1, SubmissionsMove
<1>3. /\ Cardinality(Runners) \in Nat /\ Cardinality(Runners') \in Nat
      /\ Cardinality(Runners') = Cardinality(Runners) + One(running'[t]) - One(running[t])
  BY <1>1, RunnersMove
<1>4. WorkingCounted' /\ working \in Nat /\ working' \in Nat
  BY <1>3 DEF AddPendingCountDoes, Moves, LocalInv, Typing, One, WorkingCounted
<1>5. ~mayCancel =>
        /\ pending = queued + Cardinality(Submissions)
        /\ pending' = queued' + Cardinality(Submissions')
        /\ t \in Submissions => pending > 0
  <2>1. t \in Submissions => Cardinality(Submissions) > 0
    BY <1>1, SubmissionsMove
  <2> QED BY <1>2, <2>1 DEF AddPendingCountDoes, Moves, LocalInv, Typing, One, Submissions,
             PendingCounted
<1>6. PendingCounted'
  BY <1>5 DEF AddPendingCountDoes, PendingCounted
<1>7. SignalledWhenIdle'
  BY <1>1, <1>4, <1>5 DEF AddPendingCountDoes, Moves, Mine, Typing, LocalInv, Submissions, At,
     SignalledWhenIdle, SignalledWhenIdleAlways
<1> QED BY <1>4, <1>6, <1>7

LEMMA ResetCounts ==
  ASSUME Typing, Typing', LocalInv, PendingCounted, WorkingCounted, SignalledWhenIdle,
         NEW t \in Thread, ResetDoes(t)
  PROVE  PendingCounted' /\ WorkingCounted' /\ SignalledWhenIdle'
<1>1. Mine(t)
  BY DEF ResetDoes, Moves
<1>2. /\ Cardinality(Submissions) \in Nat /\ Cardinality(Submissions') \in Nat
      /\ Cardinality(Submissions')
              = Cardinality(Submissions) + One(t \in Submissions') - One(t \in Submissions)
  BY <1>1, SubmissionsMove
<1>3. /\ Cardinality(Runners) \in Nat /\ Cardinality(Runners') \in Nat
      /\ Cardinality(Runners') = Cardinality(Runners) + One(running'[t]) - One(running[t])
  BY <1>1, RunnersMove
<1>4. WorkingCounted' /\ working \in Nat /\ working' \in Nat
  BY <1>3 DEF ResetDoes, Moves, LocalInv, Typing, One, WorkingCounted
<1>5. ~mayCancel =>
        /\ pending = queued + Cardinality(Submissions)
        /\ pending' = queued' + Cardinality(Submissions')
        /\ t \in Submissions => pending > 0
  <2>1. t \in Submissions => Cardinality(Submissions) > 0
    BY <1>1, SubmissionsMove
  <2> QED BY <1>2, <2>1 DEF ResetDoes, Moves, LocalInv, Typing, One, Submissions, PendingCounted
<1>6. PendingCounted'
  BY <1>5 DEF ResetDoes, PendingCounted
<1>7. SignalledWhenIdle'
  BY <1>1, <1>4, <1>5 DEF ResetDoes, Moves, Mine, Typing, LocalInv, Submissions, At,
     SignalledWhenIdle, SignalledWhenIdleAlways
<1> QED BY <1>4, <1>6, <1>7

LEMMA PushCounts ==
  ASSUME Typing, Typing', LocalInv, PendingCounted, WorkingCounted, SignalledWhenIdle,
         NEW t \in Thread, PushDoes(t)
  PROVE  PendingCounted' /\ WorkingCounted' /\ SignalledWhenIdle'
<1>1. Mine(t)
  BY DEF PushDoes, Moves
<1>2. /\ Cardinality(Submissions) \in Nat /\ Cardinality(Submissions') \in Nat
      /\ Cardinality(Submissions')
              = Cardinality(Submissions) + One(t \in Submissions') - One(t \in Submissions)
  BY <1>1, SubmissionsMove
<1>3. /\ Cardinality(Runners) \in Nat /\ Cardinality(Runners') \in Nat
      /\ Cardinality(Runners') = Cardinality(Runners) + One(running'[t]) - One(running[t])
  BY <1>1, RunnersMove
<1>4. WorkingCounted' /\ working \in Nat /\ working' \in Nat
  BY <1>3 DEF PushDoes, Moves, LocalInv, Typing, One, WorkingCounted
<1>5. ~mayCancel =>
        /\ pending = queued + Cardinality(Submissions)
        /\ pending' = queued' + Cardinality(Submissions')
        /\ t \in Submissions => pending > 0
  <2>1. t \in Submissions => Cardinality(Submissions) > 0
    BY <1>1, SubmissionsMove
  <2> QED BY <1>2, <2>1 DEF PushDoes, Moves, LocalInv, Typing, One, Submissions, PendingCounted
<1>6. PendingCounted'
  BY <1>5 DEF PushDoes, PendingCounted
<1>7. SignalledWhenIdle'
  BY <1>1, <1>4, <1>5 DEF PushDoes, Moves, Mine, Typing, LocalInv, Submissions, At,
     SignalledWhenIdle, SignalledWhenIdleAlways
<1> QED BY <1>4, <1>6, <1>7

LEMMA StartFailsCounts ==
  ASSUME Typing, Typing', LocalInv, PendingCounted, WorkingCounted, SignalledWhenIdle,
         NEW t \in Thread, StartFailsDoes(t)
  PROVE  PendingCounted' /\ WorkingCounted' /\ SignalledWhenIdle'
<1>1. Mine(t)
  BY DEF StartFailsDoes, Moves
<1>2. /\ Cardinality(Submissions) \in Nat /\ Cardinality(Submissions') \in Nat
      /\ Cardinality(Submissions')
              = Cardinality(Submissions) + One(t \in Submissions') - One(t \in Submissions)
  BY <1>1, SubmissionsMove
<1>3. /\ Cardinality(Runners) \in Nat /\ Cardinality(Runners') \in Nat
      /\ Cardinality(Runners') = Cardinality(Runners) + One(running'[t]) - One(running[t])
  BY <1>1, RunnersMove
<1>4. WorkingCounted' /\ working \in Nat /\ working' \in Nat
  BY <1>3 DEF StartFailsDoes, Moves, LocalInv, Typing, One, WorkingCounted
<1>5. ~mayCancel =>
        /\ pending = queued + Cardinality(Submissions)
        /\ pending' = queued' + Cardinality(Submissions')
        /\ t \in Submissions => pending > 0
  <2>1. t \in Submissions => Cardinality(Submissions) > 0
    BY <1>1, SubmissionsMove
  <2> QED BY <1>2, <2>1 DEF StartFailsDoes, Moves, LocalInv, Typing, One, Submissions,
             PendingCounted
<1>6. PendingCounted'
  BY <1>5 DEF StartFailsDoes, PendingCounted
<1>7. SignalledWhenIdle'
  BY <1>1, <1>4, <1>5 DEF StartFailsDoes, Moves, Mine, Typing, LocalInv, Submissions, At,
     SignalledWhenIdle, SignalledWhenIdleAlways
<1> QED BY <1>4, <1>6, <1>7

LEMMA PopCounts ==
  ASSUME Typing, Typing', LocalInv, PendingCounted, WorkingCounted, SignalledWhenIdle,
         NEW t \in Thread, PopDoes(t)
  PROVE  PendingCounted' /\ WorkingCounted' /\ SignalledWhenIdle'
<1>1. Mine(t)
  BY DEF PopDoes, Moves
<1>2. /\ Cardinality(Submissions) \in Nat /\ Cardinality(Submissions') \in Nat
      /\ Cardinality(Submissions')
              = Cardinality(Submissions) + One(t \in Submissions') - One(t \in Submissions)
  BY <1>1, SubmissionsMove
<1>3. /\ Cardinality(Runners) \in Nat /\ Cardinality(Runners') \in Nat
      /\ Cardinality(Runners') = Cardinality(Runners) + One(running'[t]) - One(running[t])
  BY <1>1, RunnersMove
<1>4. WorkingCounted' /\ working \in Nat /\ working' \in Nat
  BY <1>3 DEF PopDoes, Moves, LocalInv, Typing, One, WorkingCounted
<1>5. ~mayCancel =>
        /\ pending = queued + Cardinality(Submissions)
        /\ pending' = queued' + Cardinality(Submissions')
        /\ t \in Submissions => pending > 0
  <2>1. t \in Submissions => Cardinality(Submissions) > 0
    BY <1>1, SubmissionsMove
  <2> QED BY <1>2, <2>1 DEF PopDoes, Moves, LocalInv, Typing, One, Submissions, PendingCounted
<1>6. PendingCounted'
  BY <1>5 DEF PopDoes, PendingCounted
<1>7. SignalledWhenIdle'
  BY <1>1, <1>4, <1>5 DEF PopDoes, Moves, Mine, Typing, LocalInv, Submissions, At,
     SignalledWhenIdle, SignalledWhenIdleAlways
<1> QED BY <1>4, <1>6, <1>7

LEMMA TakeCounts ==
  ASSUME Typing, Typing', LocalInv, PendingCounted, WorkingCounted, SignalledWhenIdle,
         NEW t \in Thread, TakeDoes(t)
  PROVE  PendingCounted' /\ WorkingCounted' /\ SignalledWhenIdle'
<1>1. Mine(t)
  BY DEF TakeDoes
<1>2. /\ Cardinality(Submissions) \in Nat /\ Cardinality(Submissions') \in Nat
      /\ Cardinality(Submissions')
              = Cardinality(Submissions) + One(t \in Submissions') - One(t \in Submissions)
  BY <1>1, SubmissionsMove
<1>3. /\ Cardinality(Runners) \in Nat /\ Cardinality(Runners') \in Nat
      /\ Cardinality(Runners') = Cardinality(Runners) + One(running'[t]) - One(running[t])
  BY <1>1, RunnersMove
<1>4. WorkingCounted' /\ working \in Nat /\ working' \in Nat
  BY <1>3 DEF TakeDoes, LocalInv, Typing, One, WorkingCounted
<1>5. ~mayCancel =>
        /\ pending = queued + Cardinality(Submissions)
        /\ pending' = queued' + Cardinality(Submissions')
        /\ t \in Submissions => pending > 0
  <2>1. t \in Submissions => Cardinality(Submissions) > 0
    BY <1>1, SubmissionsMove
  <2> QED BY <1>2, <2>1 DEF TakeDoes, LocalInv, Typing, One, Submissions, PendingCounted
<1>6. PendingCounted'
  BY <1>5 DEF TakeDoes, PendingCounted
<1>7. SignalledWhenIdle'
  BY <1>1, <1>4, <1>5 DEF TakeDoes, Mine, Typing, LocalInv, Submissions, At, SignalledWhenIdle,
     SignalledWhenIdleAlways
<1> QED BY <1>4, <1>6, <1>7

LEMMA DropCounts ==
  ASSUME Typing, Typing', LocalInv, PendingCounted, WorkingCounted, SignalledWhenIdle,
         NEW t \in Thread, DropDoes(t)
  PROVE  PendingCounted' /\ WorkingCounted' /\ SignalledWhenIdle'
<1>1. Mine(t)
  BY DEF DropDoes, Moves
<1>2. /\ Cardinality(Submissions) \in Nat /\ Cardinality(Submissions') \in Nat
      /\ Cardinality(Submissions')
              = Cardinality(Submissions) + One(t \in Submissions') - One(t \in Submissions)
  BY <1>1, SubmissionsMove
<1>3. /\ Cardinality(Runners) \in Nat /\ Cardinality(Runners') \in Nat
      /\ Cardinality(Runners') = Cardinality(Runners) + One(running'[t]) - One(running[t])
  BY <1>1, RunnersMove
<1>4. WorkingCounted' /\ working \in Nat /\ working' \in Nat
  BY <1>3 DEF DropDoes, Moves, LocalInv, Typing, One, WorkingCounted
<1>5. ~mayCancel =>
        /\ pending = queued + Cardinality(Submissions)
        /\ pending' = queued' + Cardinality(Submissions')
        /\ t \in Submissions => pending > 0
  <2>1. t \in Submissions => Cardinality(Submissions) > 0
    BY <1>1, SubmissionsMove
  <2> QED BY <1>2, <2>1 DEF DropDoes, Moves, LocalInv, Typing, One, Submissions, PendingCounted
<1>6. PendingCounted'
  BY <1>5 DEF DropDoes, PendingCounted
<1>7. SignalledWhenIdle'
  BY <1>1, <1>4, <1>5 DEF DropDoes, Moves, Mine, Typing, LocalInv, Submissions, At,
     SignalledWhenIdle, SignalledWhenIdleAlways
<1> QED BY <1>4, <1>6, <1>7

LEMMA FinishCounts ==
  ASSUME Typing, Typing', LocalInv, PendingCounted, WorkingCounted, SignalledWhenIdle,
         NEW t \in Thread, FinishDoes(t)
  PROVE  PendingCounted' /\ WorkingCounted' /\ SignalledWhenIdle'
<1>1. Mine(t)
  BY DEF FinishDoes
<1>2. /\ Cardinality(Submissions) \in Nat /\ Cardinality(Submissions') \in Nat
      /\ Cardinality(Submissions')
              = Cardinality(Submissions) + One(t \in Submissions') - One(t \in Submissions)
  BY <1>1, SubmissionsMove
<1>3. /\ Cardinality(Runners) \in Nat /\ Cardinality(Runners') \in Nat
      /\ Cardinality(Runners') = Cardinality(Runners) + One(running'[t]) - One(running[t])
  BY <1>1, RunnersMove
<1>4. WorkingCounted' /\ working \in Nat /\ working' \in Nat
  BY <1>3 DEF FinishDoes, LocalInv, Typing, One, WorkingCounted
<1>5. ~mayCancel =>
        /\ pending = queued + Cardinality(Submissions)
        /\ pending' = queued' + Cardinality(Submissions')
        /\ t \in Submissions => pending > 0
  <2>1. t \in Submissions => Cardinality(Submissions) > 0
    BY <1>1, SubmissionsMove
  <2> QED BY <1>2, <2>1 DEF FinishDoes, LocalInv, Typing, One, Submissions, PendingCounted
<1>6. PendingCounted'
  BY <1>5 DEF FinishDoes, PendingCounted
<1>7. SignalledWhenIdle'
  BY <1>1, <1>4, <1>5 DEF FinishDoes, Mine, Typing, LocalInv, Submissions, At, SignalledWhenIdle,
     SignalledWhenIdleAlways
<1> QED BY <1>4, <1>6, <1>7

LEMMA SetCounts ==
  ASSUME Typing, Typing', LocalInv, PendingCounted, WorkingCounted, SignalledWhenIdle,
         NEW t \in Thread, SetDoes(t)
  PROVE  PendingCounted' /\ WorkingCounted' /\ SignalledWhenIdle'
<1>1. Mine(t)
  BY DEF SetDoes, Moves
<1>2. /\ Cardinality(Submissions) \in Nat /\ Cardinality(Submissions') \in Nat
      /\ Cardinality(Submissions')
              = Cardinality(Submissions) + One(t \in Submissions') - One(t \in Submissions)
  BY <1>1, SubmissionsMove
<1>3. /\ Cardinality(Runners) \in Nat /\ Cardinality(Runners') \in Nat
      /\ Cardinality(Runners') = Cardinality(Runners) + One(running'[t]) - One(running[t])
  BY <1>1, RunnersMove
<1>4. WorkingCounted' /\ working \in Nat /\ working' \in Nat
  BY <1>3 DEF SetDoes, Moves, LocalInv, Typing, One, WorkingCounted
<1>5. ~mayCancel =>
        /\ pending = queued + Cardinality(Submissions)
        /\ pending' = queued' + Cardinality(Submissions')
        /\ t \in Submissions => pending > 0
  <2>1. t \in Submissions => Cardinality(Submissions) > 0
    BY <1>1, SubmissionsMove
  <2> QED BY <1>2, <2>1 DEF SetDoes, Moves, LocalInv, Typing, One, Submissions, PendingCounted
<1>6. PendingCounted'
  BY <1>5 DEF SetDoes, PendingCounted
<1>7. SignalledWhenIdle'
  BY <1>1, <1>4, <1>5 DEF SetDoes, Moves, Mine, Typing, LocalInv, Submissions, At,
     SignalledWhenIdle, SignalledWhenIdleAlways
<1> QED BY <1>4, <1>6, <1>7

LEMMA ReleaseCounts ==
  ASSUME Typing, Typing', LocalInv, PendingCounted, WorkingCounted, SignalledWhenIdle,
         NEW t \in Thread, ReleaseDoes(t)
  PROVE  PendingCounted' /\ WorkingCounted' /\ SignalledWhenIdle'
<1>1. Mine(t)
  BY DEF ReleaseDoes, Moves
<1>2. /\ Cardinality(Submissions) \in Nat /\ Cardinality(Submissions') \in Nat
      /\ Cardinality(Submissions')
              = Cardinality(Submissions) + One(t \in Submissions') - One(t \in Submissions)
  BY <1>1, SubmissionsMove
<1>3. /\ Cardinality(Runners) \in Nat /\ Cardinality(Runners') \in Nat
      /\ Cardinality(Runners') = Cardinality(Runners) + One(running'[t]) - One(running[t])
  BY <1>1, RunnersMove
<1>4. WorkingCounted' /\ working \in Nat /\ working' \in Nat
  BY <1>3 DEF ReleaseDoes, Moves, LocalInv, Typing, One, WorkingCounted
<1>5. ~mayCancel =>
        /\ pending = queued + Cardinality(Submissions)
        /\ pending' = queued' + Cardinality(Submissions')
        /\ t \in Submissions => pending > 0
  <2>1. t \in Submissions => Cardinality(Submissions) > 0
    BY <1>1, SubmissionsMove
  <2> QED BY <1>2, <2>1 DEF ReleaseDoes, Moves, LocalInv, Typing, One, Submissions, PendingCounted
<1>6. PendingCounted'
  BY <1>5 DEF ReleaseDoes, PendingCounted
<1>7. SignalledWhenIdle'
  BY <1>1, <1>4, <1>5 DEF ReleaseDoes, Moves, Mine, Typing, LocalInv, Submissions, At,
     SignalledWhenIdle, SignalledWhenIdleAlways
<1> QED BY <1>4, <1>6, <1>7

LEMMA WaitCounts ==
  ASSUME Typing, Typing', LocalInv, PendingCounted, WorkingCounted, SignalledWhenIdle,
         NEW t \in Thread, WaitDoes(t)
  PROVE  PendingCounted' /\ WorkingCounted' /\ SignalledWhenIdle'
<1>1. Mine(t)
  BY DEF WaitDoes, Moves
<1>2. /\ Cardinality(Submissions) \in Nat /\ Cardinality(Submissions') \in Nat
      /\ Cardinality(Submissions')
              = Cardinality(Submissions) + One(t \in Submissions') - One(t \in Submissions)
  BY <1>1, SubmissionsMove
<1>3. /\ Cardinality(Runners) \in Nat /\ Cardinality(Runners') \in Nat
      /\ Cardinality(Runners') = Cardinality(Runners) + One(running'[t]) - One(running[t])
  BY <1>1, RunnersMove
<1>4. WorkingCounted' /\ working \in Nat /\ working' \in Nat
  BY <1>3 DEF WaitDoes, Moves, LocalInv, Typing, One, WorkingCounted
<1>5. ~mayCancel =>
        /\ pending = queued + Cardinality(Submissions)
        /\ pending' = queued' + Cardinality(Submissions')
        /\ t \in Submissions => pending > 0
  <2>1. t \in Submissions => Cardinality(Submissions) > 0
    BY <1>1, SubmissionsMove
  <2> QED BY <1>2, <2>1 DEF WaitDoes, Moves, LocalInv, Typing, One, Submissions, PendingCounted
<1>6. PendingCounted'
  BY <1>5 DEF WaitDoes, PendingCounted
<1>7. SignalledWhenIdle'
  BY <1>1, <1>4, <1>5 DEF WaitDoes, Moves, Mine, Typing, LocalInv, Submissions, At,
     SignalledWhenIdle, SignalledWhenIdleAlways
<1> QED BY <1>4, <1>6, <1>7

LEMMA CancelCounts ==
  ASSUME Typing, Typing', LocalInv, PendingCounted, WorkingCounted, SignalledWhenIdle,
         NEW t \in Thread, CancelDoes(t)
  PROVE  PendingCounted' /\ WorkingCounted' /\ SignalledWhenIdle'
<1>1. Mine(t)
  BY DEF CancelDoes, Moves
<1>2. /\ Cardinality(Submissions) \in Nat /\ Cardinality(Submissions') \in Nat
      /\ Cardinality(Submissions')
              = Cardinality(Submissions) + One(t \in Submissions') - One(t \in Submissions)
  BY <1>1, SubmissionsMove
<1>3. /\ Cardinality(Runners) \in Nat /\ Cardinality(Runners') \in Nat
      /\ Cardinality(Runners') = Cardinality(Runners) + One(running'[t]) - One(running[t])
  BY <1>1, RunnersMove
<1>4. WorkingCounted' /\ working \in Nat /\ working' \in Nat
  BY <1>3 DEF CancelDoes, Moves, LocalInv, Typing, One, WorkingCounted
<1>5. ~mayCancel =>
        /\ pending = queued + Cardinality(Submissions)
        /\ pending' = queued' + Cardinality(Submissions')
        /\ t \in Submissions => pending > 0
  <2>1. t \in Submissions => Cardinality(Submissions) > 0
    BY <1>1, SubmissionsMove
  <2> QED BY <1>2, <2>1 DEF CancelDoes, Moves, LocalInv, Typing, One, Submissions, PendingCounted
<1>6. PendingCounted'
  BY <1>5 DEF CancelDoes, PendingCounted
<1>7. SignalledWhenIdle'
  BY <1>1, <1>4, <1>5 DEF CancelDoes, Moves, Mine, Typing, LocalInv, Submissions, At,
     SignalledWhenIdle, SignalledWhenIdleAlways
<1> QED BY <1>4, <1>6, <1>7

LEMMA CheckCounts ==
  ASSUME Typing, Typing', LocalInv, PendingCounted, WorkingCounted, SignalledWhenIdle,
         NEW t \in Thread, CheckDoes(t)
  PROVE  PendingCounted' /\ WorkingCounted' /\ SignalledWhenIdle'
<1>1. Mine(t)
  BY DEF CheckDoes, Moves
<1>2. /\ Cardinality(Submissions) \in Nat /\ Cardinality(Submissions') \in Nat
      /\ Cardinality(Submissions')
              = Cardinality(Submissions) + One(t \in Submissions') - One(t \in Submissions)
  BY <1>1, SubmissionsMove
<1>3. /\ Cardinality(Runners) \in Nat /\ Cardinality(Runners') \in Nat
      /\ Cardinality(Runners') = Cardinality(Runners) + One(running'[t]) - One(running[t])
  BY <1>1, RunnersMove
<1>4. WorkingCounted' /\ working \in Nat /\ working' \in Nat
  BY <1>3 DEF CheckDoes, Moves, LocalInv, Typing, One, WorkingCounted
<1>5. ~mayCancel =>
        /\ pending = queued + Cardinality(Submissions)
        /\ pending' = queued' + Cardinality(Submissions')
        /\ t \in Submissions => pending > 0
  <2>1. t \in Submissions => Cardinality(Submissions) > 0
    BY <1>1, SubmissionsMove
  <2> QED BY <1>2, <2>1 DEF CheckDoes, Moves, LocalInv, Typing, One, Submissions, PendingCounted
<1>6. PendingCounted'
  BY <1>5 DEF CheckDoes, PendingCounted
<1>7. SignalledWhenIdle'
  BY <1>1, <1>4, <1>5 DEF CheckDoes, Moves, Mine, Typing, LocalInv, Submissions, At,
     SignalledWhenIdle, SignalledWhenIdleAlways
<1> QED BY <1>4, <1>6, <1>7

LEMMA UnblockCounts ==
  ASSUME Typing, Typing', LocalInv, PendingCounted, WorkingCounted, SignalledWhenIdle,
         NEW t \in Thread, UnblockDoes(t)
  PROVE  PendingCounted' /\ WorkingCounted' /\ SignalledWhenIdle'
<1>1. Mine(t)
  BY DEF UnblockDoes, Moves
<1>2. /\ Cardinality(Submissions) \in Nat /\ Cardinality(Submissions') \in Nat
      /\ Cardinality(Submissions')
              = Cardinality(Submissions) + One(t \in Submissions') - One(t \in Submissions)
  BY <1>1, SubmissionsMove
<1>3. /\ Cardinality(Runners) \in Nat /\ Cardinality(Runners') \in Nat
      /\ Cardinality(Runners') = Cardinality(Runners) + One(running'[t]) - One(running[t])
  BY <1>1, RunnersMove
<1>4. WorkingCounted' /\ working \in Nat /\ working' \in Nat
  BY <1>3 DEF UnblockDoes, Moves, LocalInv, Typing, One, WorkingCounted
<1>5. ~mayCancel =>
        /\ pending = queued + Cardinality(Submissions)
        /\ pending' = queued' + Cardinality(Submissions')
        /\ t \in Submissions => pending > 0
  <2>1. t \in Submissions => Cardinality(Submissions) > 0
    BY <1>1, SubmissionsMove
  <2> QED BY <1>2, <2>1 DEF UnblockDoes, Moves, LocalInv, Typing, One, Submissions, PendingCounted
<1>6. PendingCounted'
  BY <1>5 DEF UnblockDoes, PendingCounted
<1>7. SignalledWhenIdle'
  BY <1>1, <1>4, <1>5 DEF UnblockDoes, Moves, Mine, Typing, LocalInv, Submissions, At,
     SignalledWhenIdle, SignalledWhenIdleAlways
<1> QED BY <1>4, <1>6, <1>7

LEMMA SubtractCounts ==
  ASSUME Typing, Typing', LocalInv, PendingCounted, WorkingCounted, SignalledWhenIdle,
         NEW t \in Thread, SubtractDoes(t)
  PROVE  PendingCounted' /\ WorkingCounted' /\ SignalledWhenIdle'
<1>1. Mine(t)
  BY DEF SubtractDoes, Moves
<1>2. /\ Cardinality(Submissions) \in Nat /\ Cardinality(Submissions') \in Nat
      /\ Cardinality(Submissions')
              = Cardinality(Submissions) + One(t \in Submissions') - One(t \in Submissions)
  BY <1>1, SubmissionsMove
<1>3. /\ Cardinality(Runners) \in Nat /\ Cardinality(Runners') \in Nat
      /\ Cardinality(Runners') = Cardinality(Runners) + One(running'[t]) - One(running[t])
  BY <1>1, RunnersMove
<1>4. WorkingCounted' /\ working \in Nat /\ working' \in Nat
  BY <1>3 DEF SubtractDoes, Moves, LocalInv, Typing, One, WorkingCounted
<1>5. ~mayCancel =>
        /\ pending = queued + Cardinality(Submissions)
        /\ pending' = queued' + Cardinality(Submissions')
        /\ t \in Submissions => pending > 0
  <2>1. t \in Submissions => Cardinality(Submissions) > 0
    BY <1>1, SubmissionsMove
  <2> QED BY <1>2, <2>1 DEF SubtractDoes, Moves, LocalInv, Typing, One, Submissions, PendingCounted
<1>6. PendingCounted'
  BY <1>5 DEF SubtractDoes, PendingCounted
<1>7. SignalledWhenIdle'
  BY <1>1, <1>4, <1>5 DEF SubtractDoes, Moves, Mine, Typing, LocalInv, Submissions, At,
     SignalledWhenIdle, SignalledWhenIdleAlways
<1> QED BY <1>4, <1>6, <1>7

LEMMA CloseCounts ==
  ASSUME Typing, PendingCounted, WorkingCounted, SignalledWhenIdle, NEW t \in Thread, CloseDoes(t)
  PROVE  PendingCounted' /\ WorkingCounted' /\ SignalledWhenIdle'
<1>1. Submissions' = Submissions /\ Runners' = Runners /\ At({"set"})' = At({"set"})
  BY DEF CloseDoes, Submissions, Runners, At
<1> QED BY <1>1 DEF CloseDoes, PendingCounted, WorkingCounted, SignalledWhenIdle,
           SignalledWhenIdleAlways

-----------------------------------------------------------------------------
(* The theorems.                                                           *)

LEMMA InitInv == Init => IInv
<1> SUFFICES ASSUME Init PROVE IInv
  OBVIOUS
<1>1. Typing /\ LocalInv
  <2>1. nRef \in Int /\ pending \in Nat /\ working \in Int /\ queued \in Nat
    BY DEF Init
  <2>2. /\ pc \in [Thread -> {"idle", "add", "reset", "push", "take", "drop", "set", "release",
                              "cancel", "check", "blocked", "subtract"}]
        /\ cancelled \in [Thread -> Nat]
    BY DEF Init
  <2>3. /\ kind \in {"work", "io"} /\ mayCancel \in BOOLEAN /\ event \in BOOLEAN
        /\ closed \in BOOLEAN
        /\ running \in [Thread -> BOOLEAN] /\ overdrawn \in BOOLEAN
    BY Zenon DEF Init
  <2>4. LocalInv
    BY DEF Init, LocalInv
  <2> QED BY <2>1, <2>2, <2>3, <2>4 DEF Typing
<1>2. Holding = {} /\ Calling = {} /\ Submissions = {} /\ Runners = {}
  BY DEF Init, Holding, Calling, Submissions, Runners, Places
<1>3. Cancelled = {}
  BY DEF Init, Cancelled
<1>4. IsFiniteSet({}) /\ Cardinality({}) = 0
  BY FS_EmptySet
<1> QED BY <1>1, <1>2, <1>3, <1>4 DEF Init, IInv, CancelledFinite, RefsBalanced, PendingCounted,
           WorkingCounted,
     Handles, Entries, SignalledWhenIdle, SignalledWhenIdleAlways

LEMMA StepInv == IInv /\ [Next]_vars => IInv'
<1> SUFFICES ASSUME IInv, [Next]_vars PROVE IInv'
  OBVIOUS
<1>0. /\ Typing /\ LocalInv /\ CancelledFinite /\ RefsBalanced
      /\ PendingCounted /\ WorkingCounted /\ SignalledWhenIdle
  BY DEF IInv
<1>1. ASSUME NEW t \in Thread, Submit(t) PROVE IInv'
  BY <1>0, <1>1, SubmitEffect, SubmitLocal, SubmitRefs, SubmitCounts DEF IInv
<1>2. ASSUME NEW t \in Thread, AddPendingCount(t) PROVE IInv'
  BY <1>0, <1>2, AddPendingCountEffect, AddPendingCountLocal, AddPendingCountRefs,
     AddPendingCountCounts DEF IInv
<1>3. ASSUME NEW t \in Thread, Reset(t) PROVE IInv'
  BY <1>0, <1>3, ResetEffect, ResetLocal, ResetRefs, ResetCounts DEF IInv
<1>4. ASSUME NEW t \in Thread, Push(t) PROVE IInv'
  BY <1>0, <1>4, PushEffect, PushLocal, PushRefs, PushCounts DEF IInv
<1>5. ASSUME NEW t \in Thread, StartFails(t) PROVE IInv'
  BY <1>0, <1>5, StartFailsEffect, StartFailsLocal, StartFailsRefs, StartFailsCounts DEF IInv
<1>6. ASSUME NEW t \in Thread, Pop(t) PROVE IInv'
  BY <1>0, <1>6, PopEffect, PopLocal, PopRefs, PopCounts DEF IInv
<1>7. ASSUME NEW t \in Thread, Take(t) PROVE IInv'
  BY <1>0, <1>7, TakeEffect, TakeLocal, TakeRefs, TakeCounts DEF IInv
<1>8. ASSUME NEW t \in Thread, Drop(t) PROVE IInv'
  BY <1>0, <1>8, DropEffect, DropLocal, DropRefs, DropCounts DEF IInv
<1>9. ASSUME NEW t \in Thread, Finish(t) PROVE IInv'
  BY <1>0, <1>9, FinishEffect, FinishLocal, FinishRefs, FinishCounts DEF IInv
<1>10. ASSUME NEW t \in Thread, Set(t) PROVE IInv'
  BY <1>0, <1>10, SetEffect, SetLocal, SetRefs, SetCounts DEF IInv
<1>11. ASSUME NEW t \in Thread, Release(t) PROVE IInv'
  BY <1>0, <1>11, ReleaseEffect, ReleaseLocal, ReleaseRefs, ReleaseCounts DEF IInv
<1>12. ASSUME NEW t \in Thread, Wait(t) PROVE IInv'
  BY <1>0, <1>12, WaitEffect, WaitLocal, WaitRefs, WaitCounts DEF IInv
<1>13. ASSUME NEW t \in Thread, Cancel(t) PROVE IInv'
  BY <1>0, <1>13, CancelEffect, CancelLocal, CancelRefs, CancelCounts DEF IInv
<1>14. ASSUME NEW t \in Thread, Check(t) PROVE IInv'
  BY <1>0, <1>14, CheckEffect, CheckLocal, CheckRefs, CheckCounts DEF IInv
<1>15. ASSUME NEW t \in Thread, Unblock(t) PROVE IInv'
  BY <1>0, <1>15, UnblockEffect, UnblockLocal, UnblockRefs, UnblockCounts DEF IInv
<1>16. ASSUME NEW t \in Thread, Subtract(t) PROVE IInv'
  BY <1>0, <1>16, SubtractEffect, SubtractLocal, SubtractRefs, SubtractCounts DEF IInv
<1>17. ASSUME NEW t \in Thread, Close(t) PROVE IInv'
  BY <1>0, <1>17, CloseEffect, CloseLocal, CloseRefs, CloseCounts DEF IInv
<1>18. CASE UNCHANGED vars
  <2>1. Holding' = Holding /\ Calling' = Calling /\ Submissions' = Submissions /\ Runners' = Runners
    BY <1>18 DEF vars, Holding, Calling, Submissions, Runners, Places
  <2>2. Cancelled' = Cancelled
    BY <1>18 DEF vars, Cancelled
  <2>3. At({"set"})' = At({"set"})
    BY <1>18 DEF vars, At
  <2> QED BY <1>0, <1>18, <2>1, <2>2, <2>3 DEF vars, IInv, Typing, LocalInv, CancelledFinite,
             RefsBalanced,
       PendingCounted, WorkingCounted, Handles, Entries, SignalledWhenIdle, SignalledWhenIdleAlways
<1> QED BY <1>1, <1>2, <1>3, <1>4, <1>5, <1>6, <1>7, <1>8, <1>9, <1>10, <1>11, <1>12, <1>13, <1>14,
           <1>15, <1>16, <1>17, <1>18 DEF Next, Inside

\* For any number of clients, workers and submissions the balance of the references, the
\* counts of pending and of running callbacks, and the event keep to the inductive invariant.
THEOREM WorkInvariance == Spec => []IInv
<1> QED BY InitInv, StepInv, PTL DEF Spec

\* The two forms in which the balance is stated.
LEMMA BalanceIsRefs == IInv => RefsCounted
<1> SUFFICES ASSUME IInv PROVE RefsCounted
  OBVIOUS
<1>0. Typing /\ LocalInv /\ RefsBalanced
  BY DEF IInv
<1>1. kind \in {"work", "io"}
  BY <1>0 DEF Typing
<1>2. Cardinality(Holding) \in Nat /\ Cardinality(Calling) \in Nat
  <2>1. IsFiniteSet(Holding) /\ IsFiniteSet(Calling)
    BY FS_Subset DEF Holding, Calling
  <2> QED BY <2>1, FS_CardinalityType
<1>3. CASE kind = "work"
  <2>1. At({"add", "reset", "push", "take", "drop", "set", "release"}) \cup {t \in Thread : running[t]} = Holding
    BY <1>3 DEF At, Holding, Places
  <2>2. Callers = Calling
    BY <1>0, <1>3 DEF LocalInv, Callers, Calling, Places
  <2>3. Cancelled = {}
    <3>1. \A t \in Thread : cancelled[t] = 0
      BY <1>0, <1>3 DEF LocalInv
    <3>2. \A t \in Thread : 1 .. cancelled[t] = {}
      BY <3>1
    <3> QED BY <3>2 DEF Cancelled
  <2>4. Cardinality(Cancelled) = 0
    BY <2>3, FS_EmptySet
  <2>5. WorkRefs = queued + Cardinality(Holding) + Cardinality(Calling)
    BY <2>1, <2>2 DEF WorkRefs
  <2> QED BY <1>0, <1>2, <1>3, <2>4, <2>5 DEF RefsCounted, RefsBalanced, Handles, Entries, Typing
<1>4. CASE kind = "io"
  <2>1. At({"add", "set", "release"}) \cup {t \in Thread : running[t]} = Holding
    BY <1>4 DEF At, Holding, Places
  <2>2. Callers \cap At({"add", "set", "release"}) = Calling
    BY <1>4 DEF At, Callers, Calling, Places
  <2>3. IoRefs = pending + Cardinality(Holding) + Cardinality(Calling) + Cardinality(Cancelled)
    BY <2>1, <2>2 DEF IoRefs
  <2>4. Cardinality(Cancelled) \in Nat
    BY FS_CardinalityType DEF IInv, CancelledFinite
  <2> QED BY <1>0, <1>2, <1>4, <2>3, <2>4 DEF RefsCounted, RefsBalanced, Handles, Entries, Typing
<1> QED BY <1>1, <1>3, <1>4

\* The reference count of a work or I/O object is exact: the handle, the entries of the
\* queue or the pending operations, and the threads on their way to make or to drop one.
THEOREM RefsCountedAlways == Spec => []RefsCounted
<1> QED BY WorkInvariance, BalanceIsRefs, PTL

\* As long as nobody cancels, the event is set, or about to be set, whenever no callback
\* is pending or running.
THEOREM SignalledWhenIdleInv == Spec => []SignalledWhenIdle
<1>1. IInv => SignalledWhenIdle
  BY DEF IInv
<1> QED BY <1>1, WorkInvariance, PTL

-----------------------------------------------------------------------------
(* ThreadPool, for any number of clients, system threads, runners and      *)
(* posts: the pool is not freed while it is used, runners are counted, and *)
(* no task is left without one.                                            *)
(*                                                                         *)
(* Where QueueUserWorkItem may fail nothing is counted right; but there    *)
(* the pool is the default one, which is never freed.                      *)
HIDE WorkAssumption

USE PoolAssumption

\* The steps where QueueUserWorkItem does not fail.
Step(t) ==
  \/ Pool!Post(t) \/ Pool!Close(t) \/ Pool!CheckStop(t) \/ Pool!AddRef(t) \/ Pool!CountTask(t) \/ Pool!Push(t) \/ Pool!RefRunners(t)
  \/ Pool!Start(t) \/ Pool!Begin(t) \/ Pool!Pop(t) \/ Pool!Popped(t) \/ Pool!Finish(t) \/ Pool!Release(t) \/ Pool!Exit(t) \/ Pool!Drained(t)

PoolTyping ==
  /\ isDefault \in BOOLEAN /\ mayFail \in BOOLEAN /\ bStopWakeup \in BOOLEAN
  /\ uRef \in Int /\ uWakeupCount \in Int /\ uParallelCurrent \in Int
  /\ queue \in Nat /\ items \in Nat /\ poolPosts \in Nat
  /\ poolPc \in [Pool!Thread -> {"idle", "check", "addref", "count", "push", "refRunners", "start", "pop",
                        "popped", "release", "exit", "drain", "drained", "releaseDrained",
                        "releaseLast"}]
  /\ poolRunning \in [Pool!Thread -> BOOLEAN]
  /\ raised \in [Pool!Thread -> {"no", "first", "more"}]
  /\ got \in [Pool!Thread -> BOOLEAN]

\* The places inside PostWork, and those of a runner between its callbacks.
Posting == {"check", "addref", "count", "push", "refRunners", "start"}
Between == {"pop", "popped", "release", "exit"}

\* What a thread is, by its place; who posts has a pool that is open or that calls it back.
PoolLocal ==
  \A t \in Pool!Thread :
    /\ poolRunning[t] => t \in Runner
    /\ poolPc[t] \in Between => t \in Runner /\ ~poolRunning[t]
    /\ poolPc[t] \in Posting => poolRunning[t] \/ (t \in PoolClient /\ ~bStopWakeup)
    /\ raised[t] # "no" => poolPc[t] \in {"push", "refRunners", "start"}
    /\ poolPc[t] = "refRunners" => raised[t] = "first"
    /\ poolPc[t] = "start" => raised[t] # "no"
    /\ got[t] => poolPc[t] \in {"popped", "drained"}

\* The default pool's count never moves.
FixedInv == (mayFail => isDefault) /\ (isDefault => uRef = 1)

\* Tasks are counted from before they enter the queue until after they have left it.
Pushing == {t \in Pool!Thread : poolPc[t] = "push"}
Got == {t \in Pool!Thread : got[t]}
WakeupsCounted == uWakeupCount = queue + Cardinality(Pushing) + Cardinality(Got)

\* While a task is counted there is a runner: the first is counted with its task, and the last leaves
\* only when no task is.
WakeupsServed == uWakeupCount > 0 => uParallelCurrent > 0

ParallelCounted == uParallelCurrent = items + Cardinality(Pool!Running) + Cardinality(Pool!Starting)

\* One thread at most has counted the first runner and not yet started it.
First == {t \in Pool!Thread : raised[t] = "first"}
OneFirst == \A s, t \in First : s = t

\* Who has the references: tasks in the queue, threads that carry a task's, callbacks, threads that give
\* up the handle's or the runners', the handle, and the runners once the first has taken theirs.
Tasks == {t \in Pool!Thread : got[t] \/ poolPc[t] \in {"count", "push", "release", "releaseDrained"}}
CallingBack == {t \in Pool!Thread : poolRunning[t]}
Leaving == {t \in Pool!Thread : poolPc[t] \in {"drain", "drained", "releaseDrained", "releaseLast"}}
Unreferenced == {t \in Pool!Thread : raised[t] = "first" /\ poolPc[t] \in {"push", "refRunners"}}
PoolBalanced ==
  uRef + Cardinality(Unreferenced)
    = queue + Cardinality(Tasks) + Cardinality(CallingBack) + Cardinality(Leaving)
      + (IF bStopWakeup THEN 0 ELSE 1) + (IF uParallelCurrent > 0 THEN 1 ELSE 0)

CountsInv ==
  /\ WakeupsCounted /\ WakeupsServed /\ ParallelCounted /\ OneFirst
  /\ ~isDefault => PoolBalanced

PoolInv == PoolTyping /\ PoolLocal /\ FixedInv /\ (~mayFail => CountsInv)

-----------------------------------------------------------------------------
(* Cardinality.                                                            *)

LEMMA CardinalityInPool == \A S : Pool!Cardinality(S) = Cardinality(S)
  BY Zenon DEF Pool!Cardinality, Cardinality

LEMMA RunnersAre == Pool!Runners = items + Cardinality(Pool!Running) + Cardinality(Pool!Starting)
  BY CardinalityInPool DEF Pool!Runners

LEMMA OneJoins ==
  ASSUME NEW S, IsFiniteSet(S), NEW e, e \notin S, NEW T, T = S \cup {e}
  PROVE  Cardinality(T) = Cardinality(S) + 1
<1>1. Cardinality(S \cup {e}) = Cardinality(S) + 1
  BY FS_AddElement
<1> QED BY <1>1, Zenon

LEMMA OneLeaves ==
  ASSUME NEW S, IsFiniteSet(S), NEW e, e \in S, NEW T, T = S \ {e}
  PROVE  Cardinality(T) = Cardinality(S) - 1
<1>1. Cardinality(S \ {e}) = Cardinality(S) - 1
  BY FS_RemoveElement
<1> QED BY <1>1, Zenon

LEMMA SomebodyCounts ==
  ASSUME NEW S, IsFiniteSet(S), NEW e, e \in S
  PROVE  Cardinality(S) \in Nat \ {0}
  BY FS_EmptySet, FS_CardinalityType

\* All that is counted are threads, which are finitely many.
LEMMA ThreadsFinite ==
  ASSUME NEW S, S \subseteq Pool!Thread
  PROVE  IsFiniteSet(S) /\ Cardinality(S) \in Nat
<1>1. IsFiniteSet(S)
  BY FS_Subset
<1> QED BY <1>1, FS_CardinalityType

LEMMA SetsFinite ==
  /\ IsFiniteSet(Pushing) /\ IsFiniteSet(Got) /\ IsFiniteSet(Pool!Running) /\ IsFiniteSet(Pool!Starting)
  /\ IsFiniteSet(Tasks) /\ IsFiniteSet(CallingBack) /\ IsFiniteSet(Leaving) /\ IsFiniteSet(Unreferenced)
  /\ Cardinality(Pushing) \in Nat /\ Cardinality(Got) \in Nat
  /\ Cardinality(Pool!Running) \in Nat /\ Cardinality(Pool!Starting) \in Nat
  /\ Cardinality(Tasks) \in Nat /\ Cardinality(CallingBack) \in Nat
  /\ Cardinality(Leaving) \in Nat /\ Cardinality(Unreferenced) \in Nat
<1>1. /\ Pushing \subseteq Pool!Thread /\ Got \subseteq Pool!Thread /\ Pool!Running \subseteq Pool!Thread
      /\ Pool!Starting \subseteq Pool!Thread /\ Tasks \subseteq Pool!Thread /\ CallingBack \subseteq Pool!Thread
      /\ Leaving \subseteq Pool!Thread /\ Unreferenced \subseteq Pool!Thread
  BY DEF Pushing, Got, Pool!Running, Pool!Starting, Tasks, CallingBack, Leaving, Unreferenced, Pool!Thread
<1> QED BY <1>1, ThreadsFinite

-----------------------------------------------------------------------------
(* What does not count.                                                    *)

LEMMA PoolTypingStep ==
  ASSUME PoolTyping, PoolLocal, NEW t \in Pool!Thread, Step(t)
  PROVE  PoolTyping'
<1> USE DEF PoolTyping, Pool!Goto, Pool!fixed, Pool!flags, Pool!locks, Pool!locals
<1>1. CASE Pool!Post(t)
  BY <1>1 DEF Pool!Post
<1>2. CASE Pool!Close(t)
  BY <1>2 DEF Pool!Close
<1>3. CASE Pool!CheckStop(t)
  BY <1>3 DEF Pool!CheckStop
<1>4. CASE Pool!AddRef(t)
  BY <1>4 DEF Pool!AddRef, Pool!Count
<1>5. CASE Pool!CountTask(t)
  BY <1>5 DEF Pool!CountTask
<1>6. CASE Pool!Push(t)
  BY <1>6 DEF Pool!Push
<1>7. CASE Pool!RefRunners(t)
  BY <1>7 DEF Pool!RefRunners, Pool!Count
<1>8. CASE Pool!Start(t)
  BY <1>8 DEF Pool!Start
<1>9. CASE Pool!Begin(t)
  BY <1>9 DEF Pool!Begin
<1>10. CASE Pool!Pop(t)
  BY <1>10 DEF Pool!Pop
<1>11. CASE Pool!Popped(t)
  <2>1. CASE got[t]
    BY <1>11, <2>1 DEF Pool!Popped, Pool!Unlock
  <2>2. CASE ~got[t]
    BY <1>11, <2>2 DEF Pool!Popped, Pool!Unlock
  <2> QED BY <2>1, <2>2
<1>12. CASE Pool!Finish(t)
  BY <1>12 DEF Pool!Finish
<1>13. CASE Pool!Release(t)
  BY <1>13 DEF Pool!Release, Pool!Count
<1>14. CASE Pool!Exit(t)
  BY <1>14 DEF Pool!Exit
<1>15. CASE Pool!Drained(t)
  <2>1. CASE got[t]
    BY <1>15, <2>1 DEF Pool!Drained, Pool!Unlock
  <2>2. CASE ~got[t]
    BY <1>15, <2>2 DEF Pool!Drained, Pool!Unlock
  <2> QED BY <2>1, <2>2
<1> QED
  BY <1>1, <1>2, <1>3, <1>4, <1>5, <1>6, <1>7, <1>8,
     <1>9, <1>10, <1>11, <1>12, <1>13, <1>14, <1>15 DEF Step

LEMMA PoolLocalStep ==
  ASSUME PoolTyping, PoolLocal, NEW t \in Pool!Thread, Step(t)
  PROVE  PoolLocal'
<1> USE DEF PoolTyping, PoolLocal, Posting, Between, Pool!Thread, Pool!Goto, Pool!fixed, Pool!flags, Pool!locks, Pool!locals
<1>1. CASE Pool!Post(t)
  BY <1>1 DEF Pool!Post
<1>2. CASE Pool!Close(t)
  BY <1>2 DEF Pool!Close
<1>3. CASE Pool!CheckStop(t)
  BY <1>3 DEF Pool!CheckStop
<1>4. CASE Pool!AddRef(t)
  BY <1>4 DEF Pool!AddRef, Pool!Count
<1>5. CASE Pool!CountTask(t)
  BY <1>5 DEF Pool!CountTask
<1>6. CASE Pool!Push(t)
  BY <1>6 DEF Pool!Push
<1>7. CASE Pool!RefRunners(t)
  BY <1>7 DEF Pool!RefRunners, Pool!Count
<1>8. CASE Pool!Start(t)
  BY <1>8 DEF Pool!Start
<1>9. CASE Pool!Begin(t)
  BY <1>9 DEF Pool!Begin
<1>10. CASE Pool!Pop(t)
  BY <1>10 DEF Pool!Pop
<1>11. CASE Pool!Popped(t)
  BY <1>11 DEF Pool!Popped, Pool!Unlock
<1>12. CASE Pool!Finish(t)
  BY <1>12 DEF Pool!Finish
<1>13. CASE Pool!Release(t)
  BY <1>13 DEF Pool!Release, Pool!Count
<1>14. CASE Pool!Exit(t)
  BY <1>14 DEF Pool!Exit
<1>15. CASE Pool!Drained(t)
  BY <1>15 DEF Pool!Drained, Pool!Unlock
<1> QED
  BY <1>1, <1>2, <1>3, <1>4, <1>5, <1>6, <1>7, <1>8,
     <1>9, <1>10, <1>11, <1>12, <1>13, <1>14, <1>15 DEF Step

-----------------------------------------------------------------------------
(* Counts of tasks and runners.                                            *)

LEMMA WakeupsStep ==
  ASSUME PoolTyping, PoolLocal, WakeupsCounted, NEW t \in Pool!Thread, Step(t)
  PROVE  WakeupsCounted'
<1> USE DEF PoolTyping, PoolLocal, WakeupsCounted, Pool!Goto, Pool!fixed, Pool!flags, Pool!locks, Pool!locals
<1>1. CASE Pool!CountTask(t)
  <2>1. Pushing' = Pushing \cup {t} /\ t \notin Pushing /\ Got' = Got
    BY <1>1 DEF Pool!CountTask, Pushing, Got
  <2>2. Cardinality(Pushing') = Cardinality(Pushing) + 1
    BY <2>1, SetsFinite, OneJoins
  <2>3. uWakeupCount' = uWakeupCount + 1 /\ queue' = queue
    BY <1>1 DEF Pool!CountTask
  <2> QED BY <2>1, <2>2, <2>3, SetsFinite
<1>2. CASE Pool!Push(t)
  <2>1. Pushing' = Pushing \ {t} /\ t \in Pushing /\ Got' = Got
    BY <1>2 DEF Pool!Push, Pushing, Got
  <2>2. Cardinality(Pushing') = Cardinality(Pushing) - 1
    BY <2>1, SetsFinite, OneLeaves
  <2>3. uWakeupCount' = uWakeupCount /\ queue' = queue + 1
    BY <1>2 DEF Pool!Push
  <2> QED BY <2>1, <2>2, <2>3, SetsFinite
<1>3. CASE Pool!Pop(t)
  <2>1. Pushing' = Pushing /\ ~got[t] /\ uWakeupCount' = uWakeupCount
    BY <1>3 DEF Pool!Pop, Pushing
  <2>2. CASE queue > 0
    <3>1. Got' = Got \cup {t} /\ t \notin Got
      BY <1>3, <2>1, <2>2 DEF Pool!Pop, Got
    <3>2. Cardinality(Got') = Cardinality(Got) + 1
      BY <3>1, SetsFinite, OneJoins
    <3>3. queue' = queue - 1
      BY <1>3, <2>2 DEF Pool!Pop
    <3> QED BY <2>1, <3>2, <3>3, SetsFinite
  <2>3. CASE ~(queue > 0)
    <3>1. Got' = Got /\ queue' = queue
      BY <1>3, <2>1, <2>3 DEF Pool!Pop, Got
    <3> QED BY <2>1, <3>1
  <2> QED BY <2>2, <2>3
<1>4. CASE Pool!Popped(t) \/ Pool!Drained(t)
  <2>1. Pushing' = Pushing /\ queue' = queue /\ got' = [got EXCEPT ![t] = FALSE]
    BY <1>4 DEF Pool!Popped, Pool!Drained, Pool!Unlock, Pushing
  <2>2. CASE got[t]
    <3>1. Got' = Got \ {t} /\ t \in Got
      BY <2>1, <2>2 DEF Got
    <3>2. Cardinality(Got') = Cardinality(Got) - 1
      BY <3>1, SetsFinite, OneLeaves
    <3>3. uWakeupCount' = uWakeupCount - 1
      BY <1>4, <2>2 DEF Pool!Popped, Pool!Drained, Pool!Unlock
    <3> QED BY <2>1, <3>2, <3>3, SetsFinite
  <2>3. CASE ~got[t]
    <3>1. Got' = Got
      BY <2>1, <2>3 DEF Got
    <3>2. uWakeupCount' = uWakeupCount
      BY <1>4, <2>3 DEF Pool!Popped, Pool!Drained, Pool!Unlock
    <3> QED BY <2>1, <3>1, <3>2
  <2> QED BY <2>2, <2>3
<1>5. CASE Pool!Post(t) \/ Pool!Close(t) \/ Pool!CheckStop(t) \/ Pool!AddRef(t) \/ Pool!RefRunners(t)
  <2>1. Pushing' = Pushing /\ Got' = Got /\ UNCHANGED <<uWakeupCount, queue>>
    BY <1>5 DEF Pool!Post, Pool!Close, Pool!CheckStop, Pool!AddRef, Pool!RefRunners, Pushing, Got
  <2> QED BY <2>1
<1>6. CASE Pool!Start(t) \/ Pool!Begin(t) \/ Pool!Finish(t) \/ Pool!Release(t) \/ Pool!Exit(t)
  <2>1. Pushing' = Pushing /\ Got' = Got /\ UNCHANGED <<uWakeupCount, queue>>
    BY <1>6 DEF Pool!Start, Pool!Begin, Pool!Finish, Pool!Release, Pool!Exit, Pushing, Got
  <2> QED BY <2>1
<1> QED BY <1>1, <1>2, <1>3, <1>4, <1>5, <1>6 DEF Step

LEMMA CountsPositive ==
  ASSUME PoolTyping
  PROVE  /\ WakeupsCounted => uWakeupCount \in Nat
         /\ ParallelCounted => uParallelCurrent \in Nat
  BY SetsFinite DEF PoolTyping, WakeupsCounted, ParallelCounted

LEMMA ServedStep ==
  ASSUME PoolTyping, WakeupsCounted, ParallelCounted, WakeupsServed, NEW t \in Pool!Thread, Step(t)
  PROVE  WakeupsServed'
<1> USE CountsPositive DEF PoolTyping, WakeupsServed, Pool!fixed, Pool!flags, Pool!locks, Pool!locals
<1>1. CASE Pool!CountTask(t)
  BY <1>1 DEF Pool!CountTask
<1>2. CASE Pool!Exit(t)
  BY <1>2 DEF Pool!Exit
<1>3. CASE Pool!Popped(t) \/ Pool!Drained(t)
  <2>1. uParallelCurrent' = uParallelCurrent /\ (uWakeupCount' = uWakeupCount \/ uWakeupCount' = uWakeupCount - 1)
    BY <1>3 DEF Pool!Popped, Pool!Drained, Pool!Unlock
  <2> QED BY <2>1
<1>4. CASE UNCHANGED <<uWakeupCount, uParallelCurrent>>
  BY <1>4
<1> QED
  BY <1>1, <1>2, <1>3, <1>4
  DEF Step, Pool!Post, Pool!Close, Pool!CheckStop, Pool!AddRef, Pool!Push, Pool!RefRunners, Pool!Start, Pool!Begin, Pool!Pop, Pool!Finish, Pool!Release

LEMMA ParallelUnmoved ==
  ASSUME ParallelCounted, UNCHANGED <<uParallelCurrent, items>>, Pool!Running' = Pool!Running, Pool!Starting' = Pool!Starting
  PROVE  ParallelCounted'
  BY DEF ParallelCounted

LEMMA ParallelStep ==
  ASSUME PoolTyping, PoolLocal, ParallelCounted, NEW t \in Pool!Thread, Step(t)
  PROVE  ParallelCounted'
<1> USE DEF PoolTyping, PoolLocal, Between, Pool!Thread, Pool!Goto, Pool!fixed, Pool!flags, Pool!locks, Pool!locals
<1>1. CASE Pool!CountTask(t)
  <2>1. Pool!Running' = Pool!Running /\ items' = items
    BY <1>1 DEF Pool!CountTask, Pool!Running
  <2>2. t \notin Pool!Starting
    BY <1>1 DEF Pool!CountTask, Pool!Starting
  <2>3. CASE uParallelCurrent < Maximum /\ uWakeupCount + 1 >= uParallelCurrent
    <3>1. Pool!Starting' = Pool!Starting \cup {t}
      BY <1>1, <2>3 DEF Pool!CountTask, Pool!Starting
    <3>2. Cardinality(Pool!Starting') = Cardinality(Pool!Starting) + 1
      BY <2>2, <3>1, SetsFinite, OneJoins
    <3>3. uParallelCurrent' = uParallelCurrent + 1
      BY <1>1, <2>3 DEF Pool!CountTask
    <3> QED BY <2>1, <3>2, <3>3, SetsFinite DEF ParallelCounted
  <2>4. CASE ~(uParallelCurrent < Maximum /\ uWakeupCount + 1 >= uParallelCurrent)
    <3>1. Pool!Starting' = Pool!Starting
      BY <1>1, <2>2, <2>4 DEF Pool!CountTask, Pool!Starting
    <3>2. uParallelCurrent' = uParallelCurrent
      BY <1>1, <2>4 DEF Pool!CountTask
    <3> QED BY <2>1, <3>1, <3>2, ParallelUnmoved
  <2> QED BY <2>3, <2>4
<1>2. CASE Pool!Start(t)
  <2>1. Pool!Running' = Pool!Running /\ items' = items + 1 /\ uParallelCurrent' = uParallelCurrent
    BY <1>2 DEF Pool!Start, Pool!Running
  <2>2. Pool!Starting' = Pool!Starting \ {t} /\ t \in Pool!Starting
    BY <1>2 DEF Pool!Start, Pool!Starting
  <2>3. Cardinality(Pool!Starting') = Cardinality(Pool!Starting) - 1
    BY <2>2, SetsFinite, OneLeaves
  <2> QED BY <2>1, <2>3, SetsFinite DEF ParallelCounted
<1>3. CASE Pool!Begin(t)
  <2>1. Pool!Starting' = Pool!Starting /\ items' = items - 1 /\ uParallelCurrent' = uParallelCurrent
    BY <1>3 DEF Pool!Begin, Pool!Starting
  <2>2. Pool!Running' = Pool!Running \cup {t} /\ t \notin Pool!Running
    BY <1>3 DEF Pool!Begin, Pool!Running
  <2>3. Cardinality(Pool!Running') = Cardinality(Pool!Running) + 1
    BY <2>2, SetsFinite, OneJoins
  <2> QED BY <2>1, <2>3, SetsFinite DEF ParallelCounted
<1>4. CASE Pool!Exit(t)
  <2>1. Pool!Starting' = Pool!Starting /\ items' = items /\ t \in Pool!Running
    BY <1>4 DEF Pool!Exit, Pool!Starting, Pool!Running
  <2>2. CASE uWakeupCount > 0
    <3>1. Pool!Running' = Pool!Running /\ uParallelCurrent' = uParallelCurrent
      BY <1>4, <2>2 DEF Pool!Exit, Pool!Running
    <3> QED BY <2>1, <3>1, ParallelUnmoved
  <2>3. CASE ~(uWakeupCount > 0)
    <3>1. Pool!Running' = Pool!Running \ {t} /\ uParallelCurrent' = uParallelCurrent - 1
      BY <1>4, <2>3 DEF Pool!Exit, Pool!Running
    <3>2. Cardinality(Pool!Running') = Cardinality(Pool!Running) - 1
      BY <2>1, <3>1, SetsFinite, OneLeaves
    <3> QED BY <2>1, <3>1, <3>2, SetsFinite DEF ParallelCounted
  <2> QED BY <2>2, <2>3
<1>5. CASE Pool!Popped(t)
  <2>1. Pool!Starting' = Pool!Starting /\ UNCHANGED <<items, uParallelCurrent>>
    BY <1>5 DEF Pool!Popped, Pool!Starting
  <2>2. Pool!Running' = Pool!Running
    BY <1>5 DEF Pool!Popped, Pool!Running
  <2> QED BY <2>1, <2>2, ParallelUnmoved
<1>6. CASE Pool!Finish(t) \/ Pool!Release(t) \/ Pool!Pop(t) \/ Pool!Drained(t)
  <2>1. Pool!Starting' = Pool!Starting /\ UNCHANGED <<items, uParallelCurrent>>
    BY <1>6 DEF Pool!Finish, Pool!Release, Pool!Pop, Pool!Drained, Pool!Starting
  <2>2. Pool!Running' = Pool!Running
    BY <1>6 DEF Pool!Finish, Pool!Release, Pool!Pop, Pool!Drained, Pool!Running
  <2> QED BY <2>1, <2>2, ParallelUnmoved
<1>7. CASE Pool!Post(t) \/ Pool!Close(t) \/ Pool!CheckStop(t) \/ Pool!AddRef(t) \/ Pool!Push(t) \/ Pool!RefRunners(t)
  <2>1. Pool!Starting' = Pool!Starting /\ UNCHANGED <<items, uParallelCurrent>>
    BY <1>7 DEF Pool!Post, Pool!Close, Pool!CheckStop, Pool!AddRef, Pool!Push, Pool!RefRunners, Pool!Starting
  <2>2. Pool!Running' = Pool!Running
    BY <1>7 DEF Pool!Post, Pool!Close, Pool!CheckStop, Pool!AddRef, Pool!Push, Pool!RefRunners, Pool!Running
  <2> QED BY <2>1, <2>2, ParallelUnmoved
<1> QED BY <1>1, <1>2, <1>3, <1>4, <1>5, <1>6, <1>7 DEF Step

\* Whoever counts a runner as the first finds nobody else starting one.
LEMMA NobodyStarts ==
  ASSUME PoolTyping, ParallelCounted, uParallelCurrent = 0
  PROVE  Pool!Starting = {} /\ First = {} /\ Pool!Running = {} /\ items = 0
<1>1. Cardinality(Pool!Starting) = 0 /\ Cardinality(Pool!Running) = 0 /\ items = 0
  BY SetsFinite DEF PoolTyping, ParallelCounted
<1>2. Pool!Starting = {} /\ Pool!Running = {}
  BY <1>1, SetsFinite, FS_EmptySet
<1> QED BY <1>1, <1>2 DEF Pool!Starting, First

LEMMA FirstStep ==
  ASSUME PoolTyping, PoolLocal, ParallelCounted, OneFirst, NEW t \in Pool!Thread, Step(t)
  PROVE  OneFirst'
<1> USE DEF PoolTyping, OneFirst, First, Pool!fixed, Pool!flags, Pool!locks, Pool!locals
<1>1. CASE Pool!CountTask(t)
  <2>1. CASE uParallelCurrent = 0
    BY <1>1, <2>1, NobodyStarts DEF Pool!CountTask
  <2>2. CASE uParallelCurrent # 0
    BY <1>1, <2>2 DEF Pool!CountTask
  <2> QED BY <2>1, <2>2
<1>2. CASE Pool!Start(t)
  BY <1>2 DEF Pool!Start
<1>3. CASE UNCHANGED raised
  BY <1>3
<1> QED
  BY <1>1, <1>2, <1>3
  DEF Step, Pool!Post, Pool!Close, Pool!CheckStop, Pool!AddRef, Pool!Push, Pool!RefRunners, Pool!Begin, Pool!Pop, Pool!Popped, Pool!Finish, Pool!Release, Pool!Exit,
      Pool!Drained

-----------------------------------------------------------------------------
(* Who has the references of a pool that is counted.                       *)

LEMMA RefsUnmoved ==
  ASSUME PoolBalanced, Unreferenced' = Unreferenced, Tasks' = Tasks, CallingBack' = CallingBack,
         Leaving' = Leaving, UNCHANGED <<uRef, queue, bStopWakeup, uParallelCurrent>>
  PROVE  PoolBalanced'
  BY DEF PoolBalanced

LEMMA RefsStep ==
  ASSUME PoolTyping, PoolLocal, WakeupsCounted, ParallelCounted, PoolBalanced, ~isDefault,
         NEW t \in Pool!Thread, Step(t)
  PROVE  PoolBalanced'
<1> USE DEF PoolTyping, PoolLocal, Posting, Between, Pool!Goto, Pool!Count, Pool!fixed, Pool!flags, Pool!locks, Pool!locals
<1> DEFINE SetsKept == /\ Unreferenced' = Unreferenced /\ Tasks' = Tasks
                       /\ CallingBack' = CallingBack /\ Leaving' = Leaving
<1>0. uParallelCurrent \in Nat /\ uWakeupCount \in Nat
  BY CountsPositive
<1>1. CASE Pool!Post(t) \/ Pool!CheckStop(t)
  <2>1. SetsKept
    BY <1>1 DEF Pool!Post, Pool!CheckStop, Unreferenced, Tasks, CallingBack, Leaving
  <2>2. UNCHANGED <<uRef, queue, bStopWakeup, uParallelCurrent>>
    BY <1>1 DEF Pool!Post, Pool!CheckStop
  <2> QED BY <2>1, <2>2, RefsUnmoved
<1>2. CASE Pool!AddRef(t)
  <2>1. /\ Tasks' = Tasks \cup {t} /\ t \notin Tasks
        /\ Unreferenced' = Unreferenced /\ CallingBack' = CallingBack /\ Leaving' = Leaving
    BY <1>2 DEF Pool!AddRef, Unreferenced, Tasks, CallingBack, Leaving
  <2>2. Cardinality(Tasks') = Cardinality(Tasks) + 1
    BY <2>1, SetsFinite, OneJoins
  <2>3. uRef' = uRef + 1 /\ UNCHANGED <<queue, bStopWakeup, uParallelCurrent>>
    BY <1>2 DEF Pool!AddRef
  <2> QED BY <2>1, <2>2, <2>3, SetsFinite DEF PoolBalanced
<1>3. CASE Pool!CountTask(t)
  <2>1. /\ Tasks' = Tasks /\ CallingBack' = CallingBack /\ Leaving' = Leaving
        /\ t \notin Unreferenced
    BY <1>3 DEF Pool!CountTask, Unreferenced, Tasks, CallingBack, Leaving
  <2>2. UNCHANGED <<uRef, queue, bStopWakeup>>
    BY <1>3 DEF Pool!CountTask
  <2>3. CASE uParallelCurrent = 0
    <3>1. uParallelCurrent' = 1 /\ Unreferenced' = Unreferenced \cup {t}
      BY <1>0, <1>3, <2>3 DEF Pool!CountTask, Unreferenced
    <3>2. Cardinality(Unreferenced') = Cardinality(Unreferenced) + 1
      BY <2>1, <3>1, SetsFinite, OneJoins
    <3> QED BY <2>1, <2>2, <2>3, <3>1, <3>2, SetsFinite DEF PoolBalanced
  <2>4. CASE uParallelCurrent # 0
    <3>1. uParallelCurrent' > 0 /\ Unreferenced' = Unreferenced
      BY <1>0, <1>3, <2>1, <2>4 DEF Pool!CountTask, Unreferenced
    <3> QED BY <1>0, <2>1, <2>2, <2>4, <3>1, SetsFinite DEF PoolBalanced
  <2> QED BY <2>3, <2>4
<1>4. CASE Pool!Push(t)
  <2>1. Tasks' = Tasks \ {t} /\ t \in Tasks /\ CallingBack' = CallingBack /\ Leaving' = Leaving
    BY <1>4 DEF Pool!Push, Tasks, CallingBack, Leaving
  <2>2. Unreferenced' = Unreferenced
    BY <1>4 DEF Pool!Push, Unreferenced
  <2>3. Cardinality(Tasks') = Cardinality(Tasks) - 1
    BY <2>1, SetsFinite, OneLeaves
  <2>4. queue' = queue + 1 /\ UNCHANGED <<uRef, bStopWakeup, uParallelCurrent>>
    BY <1>4 DEF Pool!Push
  <2> QED BY <2>1, <2>2, <2>3, <2>4, SetsFinite DEF PoolBalanced
<1>5. CASE Pool!RefRunners(t)
  <2>1. /\ Unreferenced' = Unreferenced \ {t} /\ t \in Unreferenced
        /\ Tasks' = Tasks /\ CallingBack' = CallingBack /\ Leaving' = Leaving
    BY <1>5 DEF Pool!RefRunners, Unreferenced, Tasks, CallingBack, Leaving
  <2>2. Cardinality(Unreferenced') = Cardinality(Unreferenced) - 1
    BY <2>1, SetsFinite, OneLeaves
  <2>3. uRef' = uRef + 1 /\ UNCHANGED <<queue, bStopWakeup, uParallelCurrent>>
    BY <1>5 DEF Pool!RefRunners
  <2> QED BY <2>1, <2>2, <2>3, SetsFinite DEF PoolBalanced
<1>6. CASE Pool!Start(t) \/ Pool!Begin(t)
  <2>1. SetsKept
    BY <1>6 DEF Pool!Start, Pool!Begin, Unreferenced, Tasks, CallingBack, Leaving
  <2>2. UNCHANGED <<uRef, queue, bStopWakeup, uParallelCurrent>>
    BY <1>6 DEF Pool!Start, Pool!Begin
  <2> QED BY <2>1, <2>2, RefsUnmoved
<1>7. CASE Pool!Pop(t)
  <2>1. Unreferenced' = Unreferenced /\ CallingBack' = CallingBack /\ Leaving' = Leaving
    BY <1>7 DEF Pool!Pop, Unreferenced, CallingBack, Leaving
  <2>2. UNCHANGED <<uRef, bStopWakeup, uParallelCurrent>>
    BY <1>7 DEF Pool!Pop
  <2>3. CASE queue > 0
    <3>1. Tasks' = Tasks \cup {t} /\ t \notin Tasks /\ queue' = queue - 1
      BY <1>7, <2>3 DEF Pool!Pop, Tasks
    <3>2. Cardinality(Tasks') = Cardinality(Tasks) + 1
      BY <3>1, SetsFinite, OneJoins
    <3> QED BY <2>1, <2>2, <3>1, <3>2, SetsFinite DEF PoolBalanced
  <2>4. CASE ~(queue > 0)
    <3>1. Tasks' = Tasks /\ queue' = queue
      BY <1>7, <2>4 DEF Pool!Pop, Tasks
    <3> QED BY <2>1, <2>2, <3>1, RefsUnmoved
  <2> QED BY <2>3, <2>4
<1>8. CASE Pool!Popped(t)
  <2>1. Unreferenced' = Unreferenced /\ Leaving' = Leaving
    BY <1>8 DEF Pool!Popped, Pool!Unlock, Unreferenced, Leaving
  <2>2. UNCHANGED <<uRef, queue, bStopWakeup, uParallelCurrent>>
    BY <1>8 DEF Pool!Popped
  <2>3. CASE got[t]
    <3>1. Tasks' = Tasks \ {t} /\ t \in Tasks
      BY <1>8, <2>3 DEF Pool!Popped, Pool!Unlock, Tasks
    <3>2. CallingBack' = CallingBack \cup {t} /\ t \notin CallingBack
      BY <1>8, <2>3 DEF Pool!Popped, CallingBack
    <3>3. /\ Cardinality(Tasks') = Cardinality(Tasks) - 1
          /\ Cardinality(CallingBack') = Cardinality(CallingBack) + 1
      BY <3>1, <3>2, SetsFinite, OneJoins, OneLeaves
    <3> QED BY <2>1, <2>2, <3>3, SetsFinite DEF PoolBalanced
  <2>4. CASE ~got[t]
    <3>1. Tasks' = Tasks /\ CallingBack' = CallingBack
      BY <1>8, <2>4 DEF Pool!Popped, Pool!Unlock, Tasks, CallingBack
    <3> QED BY <2>1, <2>2, <3>1, RefsUnmoved
  <2> QED BY <2>3, <2>4
<1>9. CASE Pool!Finish(t)
  <2>1. /\ Unreferenced' = Unreferenced /\ Leaving' = Leaving
        /\ Tasks' = Tasks \cup {t} /\ t \notin Tasks
    BY <1>9 DEF Pool!Finish, Unreferenced, Leaving, Tasks
  <2>2. CallingBack' = CallingBack \ {t} /\ t \in CallingBack
    BY <1>9 DEF Pool!Finish, CallingBack
  <2>3. /\ Cardinality(Tasks') = Cardinality(Tasks) + 1
        /\ Cardinality(CallingBack') = Cardinality(CallingBack) - 1
    BY <2>1, <2>2, SetsFinite, OneJoins, OneLeaves
  <2>4. UNCHANGED <<uRef, queue, bStopWakeup, uParallelCurrent>>
    BY <1>9 DEF Pool!Finish
  <2> QED BY <2>1, <2>3, <2>4, SetsFinite DEF PoolBalanced
<1>10. CASE Pool!Release(t)
  <2>1. Unreferenced' = Unreferenced /\ CallingBack' = CallingBack
    BY <1>10 DEF Pool!Release, Unreferenced, CallingBack
  <2>2. uRef' = uRef - 1 /\ UNCHANGED <<queue, bStopWakeup, uParallelCurrent>>
    BY <1>10 DEF Pool!Release
  <2>3. CASE poolPc[t] \in {"release", "releaseDrained"}
    <3>1. Tasks' = Tasks \ {t} /\ t \in Tasks /\ Leaving' = Leaving
      BY <1>10, <2>3 DEF Pool!Release, Tasks, Leaving
    <3>2. Cardinality(Tasks') = Cardinality(Tasks) - 1
      BY <3>1, SetsFinite, OneLeaves
    <3> QED BY <2>1, <2>2, <3>1, <3>2, SetsFinite DEF PoolBalanced
  <2>4. CASE poolPc[t] = "releaseLast"
    <3>1. Leaving' = Leaving \ {t} /\ t \in Leaving /\ Tasks' = Tasks
      BY <1>10, <2>4 DEF Pool!Release, Tasks, Leaving
    <3>2. Cardinality(Leaving') = Cardinality(Leaving) - 1
      BY <3>1, SetsFinite, OneLeaves
    <3> QED BY <2>1, <2>2, <3>1, <3>2, SetsFinite DEF PoolBalanced
  <2> QED BY <1>10, <2>3, <2>4 DEF Pool!Release
<1>11. CASE Pool!Exit(t)
  <2>1. Unreferenced' = Unreferenced /\ CallingBack' = CallingBack /\ Tasks' = Tasks
    BY <1>11 DEF Pool!Exit, Unreferenced, CallingBack, Tasks
  <2>2. UNCHANGED <<uRef, queue, bStopWakeup>>
    BY <1>11 DEF Pool!Exit
  <2>3. CASE uWakeupCount > 0 \/ uParallelCurrent > 1
    <3>1. Leaving' = Leaving /\ (uParallelCurrent' > 0 <=> uParallelCurrent > 0)
      BY <1>0, <1>11, <2>3 DEF Pool!Exit, Leaving
    <3> QED BY <2>1, <2>2, <3>1 DEF PoolBalanced
  <2>4. CASE ~(uWakeupCount > 0) /\ ~(uParallelCurrent > 1)
    <3>1. uParallelCurrent = 1
      <4>1. t \in Pool!Running
        BY <1>11 DEF Pool!Exit, Pool!Running
      <4>2. Cardinality(Pool!Running) \in Nat \ {0}
        BY <4>1, SetsFinite, SomebodyCounts
      <4>3. uParallelCurrent = items + Cardinality(Pool!Running) + Cardinality(Pool!Starting)
        BY DEF ParallelCounted
      <4>4. items \in Nat /\ Cardinality(Pool!Starting) \in Nat
        BY SetsFinite
      <4> HIDE DEF PoolTyping, PoolLocal
      <4>5. uParallelCurrent > 0
        BY <4>2, <4>3, <4>4
      <4> QED BY <1>0, <2>4, <4>5
    <3>2. Leaving' = Leaving \cup {t} /\ t \notin Leaving /\ uParallelCurrent' = 0
      BY <1>11, <2>4, <3>1 DEF Pool!Exit, Leaving
    <3>3. Cardinality(Leaving') = Cardinality(Leaving) + 1
      BY <3>2, SetsFinite, OneJoins
    <3> QED BY <2>1, <2>2, <3>1, <3>2, <3>3, SetsFinite DEF PoolBalanced
  <2> QED BY <2>3, <2>4
<1>12. CASE Pool!Close(t)
  <2>1. /\ Leaving' = Leaving \cup {t} /\ t \notin Leaving
        /\ Unreferenced' = Unreferenced /\ CallingBack' = CallingBack /\ Tasks' = Tasks
    BY <1>12 DEF Pool!Close, Leaving, Unreferenced, CallingBack, Tasks
  <2>2. Cardinality(Leaving') = Cardinality(Leaving) + 1
    BY <2>1, SetsFinite, OneJoins
  <2>3. ~bStopWakeup /\ bStopWakeup' /\ UNCHANGED <<uRef, queue, uParallelCurrent>>
    BY <1>12 DEF Pool!Close
  <2> QED BY <2>1, <2>2, <2>3, SetsFinite DEF PoolBalanced
<1>13. CASE Pool!Drained(t)
  <2>1. SetsKept
    BY <1>13 DEF Pool!Drained, Pool!Unlock, Unreferenced, Tasks, CallingBack, Leaving
  <2>2. UNCHANGED <<uRef, queue, bStopWakeup, uParallelCurrent>>
    BY <1>13 DEF Pool!Drained
  <2> QED BY <2>1, <2>2, RefsUnmoved
<1> QED
  BY <1>1, <1>2, <1>3, <1>4, <1>5, <1>6, <1>7, <1>8, <1>9, <1>10, <1>11, <1>12, <1>13 DEF Step

-----------------------------------------------------------------------------
(* The default pool, and failures of QueueUserWorkItem.                    *)

LEMMA FixedStep ==
  ASSUME PoolTyping, FixedInv, NEW t \in Pool!Thread, Step(t) \/ Pool!StartFails(t)
  PROVE  FixedInv' /\ UNCHANGED Pool!fixed
<1>1. UNCHANGED Pool!fixed
  BY DEF Step, Pool!StartFails, Pool!Post, Pool!Close, Pool!CheckStop, Pool!AddRef, Pool!CountTask, Pool!Push, Pool!RefRunners, Pool!Start, Pool!Begin, Pool!Pop,
         Pool!Popped, Pool!Finish, Pool!Release, Pool!Exit, Pool!Drained
<1>2. isDefault => uRef' = uRef
  BY DEF PoolTyping, Pool!Count, Step, Pool!StartFails, Pool!Post, Pool!Close, Pool!CheckStop, Pool!AddRef, Pool!CountTask, Pool!Push, Pool!RefRunners,
         Pool!Start, Pool!Begin, Pool!Pop, Pool!Popped, Pool!Finish, Pool!Release, Pool!Exit, Pool!Drained
<1> QED BY <1>1, <1>2 DEF FixedInv, Pool!fixed

LEMMA FailureStep ==
  ASSUME PoolTyping, PoolLocal, NEW t \in Pool!Thread, Pool!StartFails(t)
  PROVE  mayFail /\ PoolTyping' /\ PoolLocal'
<1>1. PoolTyping'
  BY DEF PoolTyping, Pool!StartFails, Pool!Goto, Pool!Count, Pool!fixed, Pool!flags, Pool!locks
<1>2. PoolLocal'
  BY DEF PoolTyping, PoolLocal, Posting, Between, Pool!StartFails, Pool!Goto, Pool!fixed, Pool!flags, Pool!locks
<1> QED BY <1>1, <1>2 DEF Pool!StartFails

-----------------------------------------------------------------------------
(* The invariant and what it says.                                         *)

LEMMA PoolInvInit == Pool!Init => PoolInv
<1> SUFFICES ASSUME Pool!Init
             PROVE  PoolInv
  OBVIOUS
<1>1. PoolTyping /\ PoolLocal /\ FixedInv
  <2>1. isDefault \in BOOLEAN /\ mayFail \in BOOLEAN /\ (mayFail => isDefault)
    <3>1. isDefault \in BOOLEAN /\ mayFail \in {FALSE, isDefault}
      BY DEF Pool!Init
    <3>2. CASE isDefault = TRUE
      BY <3>1, <3>2
    <3>3. CASE isDefault = FALSE
      BY <3>1, <3>3
    <3> QED BY <3>1, <3>2, <3>3
  <2>2. bStopWakeup \in BOOLEAN
    BY DEF Pool!Init
  <2>3. PoolTyping
    BY <2>1, <2>2 DEF Pool!Init, PoolTyping
  <2>4. PoolLocal
    BY DEF Pool!Init, PoolLocal, Posting, Between
  <2>5. FixedInv
    BY <2>1 DEF Pool!Init, FixedInv
  <2> QED BY <2>3, <2>4, <2>5
<1>2. /\ Pushing = {} /\ Got = {} /\ Pool!Running = {} /\ Pool!Starting = {} /\ First = {}
      /\ Tasks = {} /\ CallingBack = {} /\ Leaving = {} /\ Unreferenced = {}
  BY DEF Pool!Init, Pushing, Got, Pool!Running, Pool!Starting, First, Tasks, CallingBack, Leaving, Unreferenced, Pool!Thread
<1>3. Cardinality({}) = 0
  BY FS_EmptySet
<1>4. CountsInv
  BY <1>2, <1>3 DEF Pool!Init, CountsInv, WakeupsCounted, WakeupsServed, ParallelCounted, OneFirst, PoolBalanced
<1> QED BY <1>1, <1>4 DEF PoolInv

LEMMA PoolInvNext == PoolInv /\ [Pool!Next]_(Pool!vars) => PoolInv'
<1> SUFFICES ASSUME PoolInv, [Pool!Next]_(Pool!vars)
             PROVE  PoolInv'
  OBVIOUS
<1>1. CASE UNCHANGED Pool!vars
  BY <1>1
  DEF Pool!vars, PoolInv, PoolTyping, PoolLocal, FixedInv, CountsInv, WakeupsCounted, WakeupsServed, ParallelCounted,
      OneFirst, PoolBalanced, Pushing, Got, Pool!Running, Pool!Starting, First, Tasks, CallingBack,
      Leaving, Unreferenced
<1>2. CASE Pool!Next
  <2>1. PICK t \in Pool!Thread : Step(t) \/ Pool!StartFails(t)
    BY <1>2 DEF Pool!Next, Pool!Inside, Step
  <2>2. FixedInv' /\ mayFail' = mayFail /\ isDefault' = isDefault
    BY <2>1, FixedStep DEF PoolInv, Pool!fixed
  <2>3. CASE Pool!StartFails(t)
    BY <2>2, <2>3, FailureStep DEF PoolInv
  <2>4. CASE Step(t)
    <3>1. PoolTyping' /\ PoolLocal'
      BY <2>4, PoolTypingStep, PoolLocalStep DEF PoolInv
    <3>2. ASSUME ~mayFail
          PROVE  CountsInv'
      <4>1. WakeupsCounted' /\ WakeupsServed' /\ ParallelCounted' /\ OneFirst'
        BY <2>4, <3>2, WakeupsStep, ServedStep, ParallelStep, FirstStep DEF PoolInv, CountsInv
      <4>2. ~isDefault' => PoolBalanced'
        BY <2>2, <2>4, <3>2, RefsStep DEF PoolInv, CountsInv
      <4> QED BY <4>1, <4>2 DEF CountsInv
    <3> QED BY <2>2, <3>1, <3>2 DEF PoolInv
  <2> QED BY <2>1, <2>3, <2>4
<1> QED BY <1>1, <1>2

\* The pool's counters mean what the code takes them to mean, whatever threads post, run, leave and
\* close in between (threadpool.hpp:366-425, 448-552).
THEOREM PoolInvariance == PoolSpec => []PoolInv
<1>1. Pool!Init => PoolInv
  BY PoolInvInit
<1>2. PoolInv /\ [Pool!Next]_(Pool!vars) => PoolInv'
  BY PoolInvNext
<1> QED BY <1>1, <1>2, PTL DEF PoolSpec, Pool!Spec

\* At most one reference is yet to be taken: the first runner's, by the thread that posted its task.
LEMMA OneUnreferenced ==
  ASSUME PoolTyping, ParallelCounted, OneFirst
  PROVE  \/ Cardinality(Unreferenced) = 0
         \/ Cardinality(Unreferenced) = 1 /\ uParallelCurrent > 0
<1>1. CASE Unreferenced = {}
  BY <1>1, FS_EmptySet
<1>2. CASE Unreferenced # {}
  <2>1. PICK t : t \in Unreferenced
    BY <1>2
  <2>2. t \in Pool!Thread /\ t \in First /\ t \in Pool!Starting /\ Unreferenced \subseteq First
    BY <2>1 DEF Unreferenced, First, Pool!Starting, PoolTyping
  <2>3. Unreferenced = {t}
    BY <2>1, <2>2 DEF OneFirst
  <2>4. Cardinality(Unreferenced) = 1
    BY <2>3, FS_Singleton
  <2>5. Cardinality(Pool!Starting) \in Nat \ {0}
    BY <2>2, SetsFinite, SomebodyCounts
  <2>6. uParallelCurrent > 0
    BY <2>5, SetsFinite DEF PoolTyping, ParallelCounted
  <2> QED BY <2>4, <2>6
<1> QED BY <1>1, <1>2

LEMMA RefsSuffice ==
  ASSUME PoolInv, ~isDefault
  PROVE  Pool!AliveWhileUsed
<1>1. CountsInv /\ PoolBalanced
  BY DEF PoolInv, FixedInv, CountsInv
<1>2. /\ uParallelCurrent \in Nat /\ uRef \in Int /\ queue \in Nat /\ items \in Nat
      /\ bStopWakeup \in BOOLEAN
  BY <1>1, CountsPositive DEF PoolInv, PoolTyping, CountsInv
<1> DEFINE Runs == IF uParallelCurrent > 0 THEN 1 ELSE 0
           Open == IF bStopWakeup THEN 0 ELSE 1
<1>3. uRef >= queue + Cardinality(Tasks) + Cardinality(CallingBack) + Cardinality(Leaving) + Open
  BY <1>1, <1>2, OneUnreferenced, SetsFinite DEF PoolInv, CountsInv, PoolBalanced
<1>4. CASE queue > 0 \/ ~bStopWakeup
  BY <1>2, <1>3, <1>4, SetsFinite DEF Pool!AliveWhileUsed
<1>5. CASE Leaving # {} \/ CallingBack # {}
  <2>1. Cardinality(Leaving) \in Nat \ {0} \/ Cardinality(CallingBack) \in Nat \ {0}
    BY <1>5, SetsFinite, SomebodyCounts
  <2> QED BY <1>2, <1>3, <2>1, SetsFinite DEF Pool!AliveWhileUsed
<1>6. CASE queue = 0 /\ bStopWakeup /\ Leaving = {} /\ CallingBack = {}
  <2>1. Pool!Draining = {} /\ Pool!At({"releaseLast"}) = {}
    BY <1>6 DEF Pool!Draining, Pool!At, Leaving
  <2>2. \A t \in Pool!Thread : poolPc[t] \notin Posting
    BY <1>6 DEF PoolInv, PoolLocal, CallingBack
  <2>3. Pool!At({"check", "addref", "count", "push", "refRunners", "start", "releaseLast"}) = {}
    BY <2>1, <2>2 DEF Pool!At, Posting
  <2>4. Unreferenced = {}
    BY <2>2 DEF Unreferenced, Posting
  <2>5. Cardinality(Unreferenced) = 0
    BY <2>4, FS_EmptySet
  <2>6. uRef >= Runs
    BY <1>1, <1>2, <2>5, SetsFinite DEF PoolBalanced
  <2>7. Pool!Running # {} \/ items > 0 => uParallelCurrent > 0
    <3>1. Pool!Running # {} => Cardinality(Pool!Running) \in Nat \ {0}
      BY SetsFinite, SomebodyCounts
    <3> QED BY <1>1, <1>2, <3>1, SetsFinite DEF CountsInv, ParallelCounted
  <2> QED BY <1>2, <1>6, <2>1, <2>3, <2>6, <2>7 DEF Pool!AliveWhileUsed
<1> QED BY <1>2, <1>4, <1>5, <1>6

LEMMA PoolInvKept == PoolInv => PoolKept
<1> SUFFICES ASSUME PoolInv
             PROVE  PoolKept
  OBVIOUS
<1>1. Pool!AliveWhileUsed
  <2>1. CASE isDefault
    BY <2>1 DEF PoolInv, FixedInv, Pool!AliveWhileUsed
  <2>2. CASE ~isDefault
    BY <2>2, RefsSuffice
  <2> QED BY <2>1, <2>2
<1>2. Pool!RunnersCounted
  BY RunnersAre DEF PoolInv, CountsInv, Pool!RunnersCounted, ParallelCounted
<1>3. Pool!NoTaskStranded
  <2> SUFFICES ASSUME ~mayFail, queue > 0
               PROVE  Pool!Runners > 0
    BY DEF Pool!NoTaskStranded
  <2>1. CountsInv /\ queue \in Nat
    BY DEF PoolInv, PoolTyping
  <2>2. uWakeupCount > 0
    BY <2>1, SetsFinite DEF CountsInv, WakeupsCounted
  <2> QED BY <2>1, <2>2, RunnersAre DEF CountsInv, WakeupsServed, ParallelCounted
<1> QED BY <1>1, <1>2, <1>3 DEF PoolKept, Pool!PoolKept

\* The pool is not freed while it is used, uParallelCurrent is the number of runners, and no task in the
\* queue is without one (threadpool.hpp:366-425, 527-552).
THEOREM PoolSafe == PoolSpec => []PoolKept
<1>1. PoolSpec => []PoolInv
  BY PoolInvariance
<1> QED BY <1>1, PoolInvKept, PTL
=============================================================================
