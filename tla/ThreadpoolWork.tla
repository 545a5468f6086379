--------------------------- MODULE ThreadpoolWork ---------------------------
(***************************************************************************)
(* One thread pool work or I/O object (TP_Work or TP_Io) of                *)
(* src/Thunks/api-ms-win-core-threadpool.hpp: its reference count, the     *)
(* packed counters of pending and running callbacks, and the event on      *)
(* which the functions that wait for callbacks block.                      *)
(*                                                                         *)
(* A work object has entries in the pool's queue (ThreadPool.tla models    *)
(* the queue and its runners), an I/O object has operations in flight.     *)
(* Here both are a number, for which callbacks are due.  A step is one     *)
(* interlocked operation or one operation on the event; the loops around a *)
(* compare-exchange are one step, that of the round that succeeds.         *)
(*                                                                         *)
(* Callbacks may submit and close the object, clients may also wait on it. *)
(* Nobody calls after, or closes during, somebody else's call.             *)
(***************************************************************************)
EXTENDS Integers, FiniteSets

CONSTANTS
  Client,      \* threads of the program
  Worker,      \* threads that execute callbacks
  MaxPost      \* bound on the number of submissions

Thread == Client \cup Worker

ASSUME WorkAssumption ==
  /\ IsFiniteSet(Thread)
  /\ Client \cap Worker = {}
  /\ MaxPost \in Nat

VARIABLES
  kind,        \* "work" or "io"
  mayCancel,   \* whether this program ever has a wait cancel callbacks
  nRef,        \* the reference count; the object is freed when it reaches 0
  pending,     \* uPendingCount
  working,     \* uWorkingCount
  event,       \* hEvent: a manual-reset event, initially set
  queued,      \* entries of the pool's queue, or operations in flight
  closed,      \* the object was closed: bit 0x10000 of uFlags1
  pc,
  running,     \* the thread is inside a callback
  posts,       \* submissions so far
  cancelled,   \* references that a waiting thread has cancelled and has to subtract
  overdrawn,   \* CancelThreadpoolIo came after a wait had cancelled its operation
  owed         \* callbacks a waiting thread still waits for: those that were
               \* outstanding, their submission returned, when its wait began

vars == <<kind, mayCancel, nRef, pending, working, event, queued, closed, pc, running, posts,
          cancelled, overdrawn, owed>>
fixed == <<kind, mayCancel>>
io == <<cancelled, overdrawn>>
counts == <<pending, working, owed>>

Init ==
  /\ kind \in {"work", "io"}
  /\ mayCancel \in BOOLEAN
  /\ nRef = 1 /\ pending = 0 /\ working = 0
  /\ event = TRUE
  /\ queued = 0
  /\ closed = FALSE
  /\ pc = [t \in Thread |-> "idle"]
  /\ running = [t \in Thread |-> FALSE]
  /\ posts = 0
  /\ cancelled = [t \in Thread |-> 0]
  /\ overdrawn = FALSE
  /\ owed = [t \in Thread |-> 0]

Goto(t, where) == pc' = [pc EXCEPT ![t] = where]

Waiting(t) == pc[t] \in {"cancel", "check", "blocked", "subtract"}

Least(a, b) == IF a < b THEN a ELSE b

\* New values of the packed counters.  A callback that ends or is cancelled is
\* taken for one that the waiting threads wait for, if there is any left.
Count(pend, work) ==
  LET ended == (pending + working) - (pend + work) IN
  /\ pending' = pend
  /\ working' = work
  /\ owed' = [t \in Thread |-> IF ended > 0 THEN owed[t] - Least(owed[t], ended) ELSE owed[t]]

\* A thread is free to call: a client, or a worker from inside a callback.
CanCall(t) == pc[t] = "idle" /\ (t \in Client \/ running[t]) /\ ~closed

-----------------------------------------------------------------------------
(* SubmitThreadpoolWork and StartThreadpoolIo: AddRef, AddPendingCount,    *)
(* then the entry, or the program's operation.                             *)

Submit(t) ==
  /\ CanCall(t) /\ posts < MaxPost
  /\ posts' = posts + 1
  /\ nRef' = nRef + 1
  /\ Goto(t, "add")
  /\ UNCHANGED <<fixed, io, counts, event, queued, closed, running>>

AddPendingCount(t) ==
  /\ pc[t] = "add"
  /\ Count(pending + 1, working)
  /\ Goto(t, IF pending = 0 THEN "reset" ELSE "push")
  /\ UNCHANGED <<fixed, io, nRef, event, queued, closed, running, posts>>

Reset(t) ==
  /\ pc[t] = "reset"
  /\ event' = FALSE
  /\ Goto(t, "push")
  /\ UNCHANGED <<fixed, io, nRef, counts, queued, closed, running, posts>>

Push(t) ==
  /\ pc[t] = "push"
  /\ queued' = queued + 1
  /\ Goto(t, "idle")
  /\ UNCHANGED <<fixed, io, nRef, counts, event, closed, running, posts>>

\* The program's operation did not start: CancelThreadpoolIo.
StartFails(t) ==
  /\ pc[t] = "push" /\ kind = "io"
  /\ Goto(t, "drop")
  /\ UNCHANGED <<fixed, io, nRef, counts, event, queued, closed, running, posts>>

-----------------------------------------------------------------------------
(* A runner of the pool (ExecuteTaskRunner) and CloseThreadpool (Close), or *)
(* an operation that completes (TppIopExecuteCallback).                    *)

Pop(t) ==
  /\ pc[t] = "idle" /\ ~running[t]
  /\ queued > 0 /\ (kind = "work" \/ t \in Worker)
  /\ queued' = queued - 1
  /\ Goto(t, IF t \in Worker THEN "take" ELSE "drop")
  /\ UNCHANGED <<fixed, io, nRef, counts, event, closed, running, posts>>

\* Mutant: an entry whose callback was cancelled keeps its reference.
TakeForgets(t) ==
  /\ pc[t] = "take"
  /\ IF pending > 0
       THEN /\ Count(pending - 1, working + 1)
            /\ running' = [running EXCEPT ![t] = TRUE]
       ELSE UNCHANGED <<counts, running>>
  /\ Goto(t, "idle")
  /\ UNCHANGED <<fixed, io, nRef, event, queued, closed, posts>>

\* TryReleaseWorkingCountAddWorkingCount: a cancelled callback is not run.  That of
\* an operation has no reference left: the wait that cancelled it subtracts it.
Take(t) ==
  /\ pc[t] = "take"
  /\ IF pending > 0
       THEN /\ Count(pending - 1, working + 1)
            /\ running' = [running EXCEPT ![t] = TRUE]
            /\ Goto(t, "idle")
       ELSE /\ Goto(t, IF kind = "work" THEN "release" ELSE "idle")
            /\ UNCHANGED <<counts, running>>
  /\ UNCHANGED <<fixed, io, nRef, event, queued, closed, posts>>

\* TryReleasePendingount, for what CloseThreadpool removes from the queue and for
\* CancelThreadpoolIo.
Drop(t) ==
  /\ pc[t] = "drop"
  /\ IF pending > 0 THEN Count(pending - 1, working) ELSE UNCHANGED counts
  /\ overdrawn' = (overdrawn \/ (kind = "io" /\ pending = 0))
  /\ Goto(t, IF pending = 1 /\ working = 0 THEN "set" ELSE "release")
  /\ UNCHANGED <<fixed, cancelled, nRef, event, queued, closed, running, posts>>

\* Mutant: does not look at the pending callbacks.
FinishIdle(t) ==
  /\ pc[t] = "idle" /\ running[t]
  /\ Count(pending, working - 1)
  /\ running' = [running EXCEPT ![t] = FALSE]
  /\ Goto(t, "release")
  /\ UNCHANGED <<fixed, io, nRef, event, queued, closed, posts>>

\* The callback returns: ReleaseWorkingCount.
Finish(t) ==
  /\ pc[t] = "idle" /\ running[t]
  /\ Count(pending, working - 1)
  /\ running' = [running EXCEPT ![t] = FALSE]
  /\ Goto(t, IF pending = 0 /\ working = 1 THEN "set" ELSE "release")
  /\ UNCHANGED <<fixed, io, nRef, event, queued, closed, posts>>

Set(t) ==
  /\ pc[t] = "set"
  /\ event' = TRUE
  /\ Goto(t, "release")
  /\ UNCHANGED <<fixed, io, nRef, counts, queued, closed, running, posts>>

Release(t) ==
  /\ pc[t] = "release"
  /\ nRef' = nRef - 1
  /\ Goto(t, "idle")
  /\ UNCHANGED <<fixed, io, counts, event, queued, closed, running, posts>>

-----------------------------------------------------------------------------
(* WaitForThreadpoolWorkCallbacks and WaitForThreadpoolIoCallbacks:        *)
(* TppWorkWait.                                                            *)

\* Submissions that are counted but have not returned.
Submitting == {t \in Thread : pc[t] \in {"reset", "push"}}

Wait(t) ==
  /\ CanCall(t) /\ t \in Client
  /\ \E cancel \in {FALSE, mayCancel} : Goto(t, IF cancel THEN "cancel" ELSE "check")
  /\ LET all == pending + working
     IN  owed' = [owed EXCEPT ![t] = all - Least(all, Cardinality(Submitting))]
  /\ UNCHANGED <<fixed, io, nRef, pending, working, event, queued, closed, running, posts>>

Cancel(t) ==
  /\ pc[t] = "cancel"
  /\ Count(0, working)
  /\ cancelled' = [cancelled EXCEPT ![t] = IF kind = "io" THEN pending ELSE 0]
  /\ Goto(t, "check")
  /\ UNCHANGED <<fixed, overdrawn, nRef, event, queued, closed, running, posts>>

Waited == IF kind = "io" THEN "subtract" ELSE "idle"

Check(t) ==
  /\ pc[t] = "check"
  /\ Goto(t, IF pending = 0 /\ working = 0 THEN Waited ELSE "blocked")
  /\ UNCHANGED <<fixed, io, nRef, counts, event, queued, closed, running, posts>>

Unblock(t) ==
  /\ pc[t] = "blocked"
  /\ event
  /\ Goto(t, Waited)
  /\ owed' = [owed EXCEPT ![t] = 0]
  /\ UNCHANGED <<fixed, io, nRef, pending, working, event, queued, closed, running, posts>>

\* bReleaseRef: the references of the operations that were cancelled.
Subtract(t) ==
  /\ pc[t] = "subtract"
  /\ nRef' = nRef - cancelled[t]
  /\ cancelled' = [cancelled EXCEPT ![t] = 0]
  /\ Goto(t, "idle")
  /\ UNCHANGED <<fixed, overdrawn, counts, event, queued, closed, running, posts>>

-----------------------------------------------------------------------------
(* CloseThreadpoolWork and CloseThreadpoolIo: nobody is in a call, running *)
(* callbacks go on.                                                        *)

\* In a call, CancelThreadpoolIo included, or about to start an operation.
InCall(t) ==
  \/ pc[t] \in {"add", "reset", "push"} \/ Waiting(t)
  \/ kind = "io" /\ (t \in Client \/ running[t]) /\ pc[t] \in {"drop", "set", "release"}

Close(t) ==
  /\ CanCall(t)
  /\ \A u \in Thread : ~InCall(u)
  /\ closed' = TRUE
  /\ nRef' = nRef - 1
  /\ UNCHANGED <<fixed, io, counts, event, queued, pc, running, posts>>

-----------------------------------------------------------------------------
Inside(t) ==
  \/ AddPendingCount(t) \/ Reset(t) \/ Push(t) \/ StartFails(t)
  \/ Take(t) \/ Drop(t) \/ Finish(t) \/ Set(t) \/ Release(t)
  \/ Cancel(t) \/ Check(t) \/ Unblock(t) \/ Subtract(t)

Next == \E t \in Thread : Submit(t) \/ Wait(t) \/ Close(t) \/ Pop(t) \/ Inside(t)

Spec == Init /\ [][Next]_vars

-----------------------------------------------------------------------------
(* Properties.                                                             *)

At(places) == {t \in Thread : pc[t] \in places}

\* Every variable keeps to its range; no count goes below zero or above the
\* number of submissions.
TypeOK ==
  /\ kind \in {"work", "io"} /\ mayCancel \in BOOLEAN
  /\ nRef \in -MaxPost .. MaxPost + 1
  /\ pending \in 0 .. MaxPost /\ working \in 0 .. Cardinality(Worker)
  /\ event \in BOOLEAN /\ closed \in BOOLEAN
  /\ queued \in 0 .. MaxPost /\ posts \in 0 .. MaxPost
  /\ pc \in [Thread -> {"idle", "add", "reset", "push", "take", "drop", "set", "release",
                        "cancel", "check", "blocked", "subtract"}]
  /\ running \in [Thread -> BOOLEAN]
  /\ cancelled \in [Thread -> 0 .. MaxPost] /\ overdrawn \in BOOLEAN
  /\ owed \in [Thread -> 0 .. MaxPost]

Callers == {t \in Thread : running[t] /\ pc[t] \in {"add", "reset", "push", "drop", "set", "release"}}

\* The count of references is exact: the handle, until it is closed, each entry
\* of the queue, and each thread that is on the way to make or to drop an entry.
\* So the object lives as long as somebody may touch it, and no longer.
WorkRefs ==
  queued + Cardinality(At({"add", "reset", "push", "take", "drop", "set", "release"})
                       \cup {t \in Thread : running[t]})
         + Cardinality(Callers)

\* The references that waits have cancelled and not subtracted yet, numbered for each thread.
Cancelled == UNION {{t} \X (1 .. cancelled[t]) : t \in Thread}

\* An I/O object counts pending callbacks instead of entries, and what a wait has
\* cancelled until it subtracts that.
IoRefs ==
  pending + Cardinality(At({"add", "set", "release"}) \cup {t \in Thread : running[t]})
          + Cardinality(Callers \cap At({"add", "set", "release"}))
          + Cardinality(Cancelled)

\* The exception: a wait cancels the callback of an operation that did not start,
\* and CancelThreadpoolIo releases the same reference.
RefsCounted ==
  ~overdrawn => nRef = (IF closed THEN 0 ELSE 1) + (IF kind = "work" THEN WorkRefs ELSE IoRefs)

\* The member comment: the handle is signalled when there is no task.  Whoever
\* took the last one may still be on the way to SetEvent.
SignalledWhenIdleAlways == pending = 0 /\ working = 0 => event \/ At({"set"}) # {}

\* So it is as long as nobody cancels.
SignalledWhenIdle == ~mayCancel => SignalledWhenIdleAlways

\* WaitForThreadpoolWorkCallbacks outlasts the callbacks submitted before it:
\* it does not return before as many have ended as were outstanding.
WaitOutlasts == [][\A t \in Client : pc[t] \in {"check", "blocked"} /\ pc'[t] \in {"idle", "subtract"}
                               => owed[t] = 0]_vars

\* Fair threads; callbacks return.
FairSpec == Spec /\ \A t \in Thread : WF_vars(Inside(t)) /\ WF_vars(t \in Worker /\ Pop(t))

\* Every wait ends, the number of submissions being bounded, if nobody cancels.
WaitsEnd == \A t \in Client : ~mayCancel /\ Waiting(t) ~> ~Waiting(t)
=============================================================================
