------------------------------ MODULE Barrier ------------------------------
(***************************************************************************)
(* The synchronization barrier for systems before Windows 8: Initialize-,  *)
(* Enter- and DeleteSynchronizationBarrier of                              *)
(* src/Thunks/api-ms-win-core-synch.hpp.                                   *)
(*                                                                         *)
(* lRemainderThreads is a count under a sign bit that flips with every     *)
(* round; each sign has its event.  Bit 0 of an event's handle says that   *)
(* somebody may sleep on it: the sleeper sets it and then looks at the     *)
(* sign; the last thread flips the sign and then looks at the bit.  Both   *)
(* are plain accesses, so unless inOrder a processor may let the look      *)
(* overtake the store (its store buffer); interlocked operations and       *)
(* system calls are not overtaken.                                         *)
(*                                                                         *)
(* The threads are exactly those the barrier was initialised for, and all  *)
(* of them pass the same SYNCHRONIZATION_BARRIER_FLAGS_NO_DELETE.          *)
(***************************************************************************)
EXTENDS Naturals, FiniteSets

CONSTANTS Thread, Nobody

ThreadsApart == IsFiniteSet(Thread) /\ Nobody \notin Thread

VARIABLES
  sign, count,   \* lRemainderThreads: its top bit and the rest
  total,         \* lTotalThreads
  marked,        \* bit 0 of hEvent[0] and hEvent[1]
  signalled,     \* the state of the two events
  open,          \* FALSE once DeleteSynchronizationBarrier returned
  inOrder,       \* the processor keeps a store and a later load in order
  noDelete,      \* SYNCHRONIZATION_BARRIER_FLAGS_NO_DELETE
  pc,
  group,         \* GroupStatus
  seen,          \* what the look found: the marker, or a flipped sign
  result         \* what the last call returned

vars == <<sign, count, total, marked, signalled, open, noDelete, inOrder, pc, group, seen, result>>
events == <<marked, signalled>>
fixed == <<open, noDelete, inOrder>>

N == Cardinality(Thread)

\* EventIndex: the sign of a fresh barrier, 0, belongs to event 1.
Event(s) == 1 - s

Init ==
  /\ sign = 0 /\ count = N /\ total = N
  /\ marked = [e \in 0 .. 1 |-> FALSE]
  /\ signalled = [e \in 0 .. 1 |-> FALSE]
  /\ open = TRUE
  /\ noDelete \in BOOLEAN /\ inOrder \in BOOLEAN
  /\ pc = [t \in Thread |-> "out"]
  /\ group = [t \in Thread |-> 0]
  /\ seen = [t \in Thread |-> FALSE]
  /\ result = [t \in Thread |-> FALSE]

Goto(t, where) == pc' = [pc EXCEPT ![t] = where]

\* Return to the caller: the locals are dead.
Return(t, value) ==
  /\ Goto(t, "out")
  /\ result' = [result EXCEPT ![t] = value]
  /\ group' = [group EXCEPT ![t] = 0]
  /\ seen' = [seen EXCEPT ![t] = FALSE]

-----------------------------------------------------------------------------
(* EnterSynchronizationBarrier.                                            *)

\* Nobody enters a barrier that is being deleted.
Usable == open /\ \A t \in Thread : pc[t] # "deleting"

\* The interlocked decrement.  Who is not last spins or blocks, as the flags,
\* the spin count and the number of processors have it.
Enter(t) ==
  /\ pc[t] = "out" /\ Usable
  /\ count' = count - 1
  /\ group' = [group EXCEPT ![t] = sign]
  /\ IF count = 1 THEN Goto(t, "prepare")
                  ELSE \E how \in {"spinOnly", "spin", "mark"} : Goto(t, how)
  /\ UNCHANGED <<sign, total, events, fixed, seen, result>>

\* The last thread makes the next round's event ready.
Prepare(t) ==
  /\ pc[t] = "prepare"
  /\ LET e == Event(1 - group[t]) IN
       /\ marked' = [marked EXCEPT ![e] = FALSE]
       /\ signalled' = [signalled EXCEPT ![e] = @ /\ ~marked[e]]
  /\ Goto(t, "publish")
  /\ UNCHANGED <<sign, count, total, fixed, group, seen, result>>

\* Opens the round: the stores to lTotalThreads and lRemainderThreads, which
\* nobody tells apart.  Unless NO_DELETE, those who leave count lTotalThreads
\* up again from one.
Flip(t) ==
  /\ count' = total
  /\ sign' = 1 - group[t]
  /\ total' = IF noDelete THEN total ELSE 1

\* The look at the marker, before or after the store.
LookEarly(t) ==
  /\ pc[t] = "publish" /\ ~inOrder
  /\ seen' = [seen EXCEPT ![t] = marked[Event(group[t])]]
  /\ Goto(t, "publishLate")
  /\ UNCHANGED <<sign, count, total, events, fixed, group, result>>

Publish(t) ==
  /\ pc[t] \in {"publish", "publishLate"}
  /\ Flip(t)
  /\ Goto(t, IF pc[t] = "publish" THEN "look" ELSE "set")
  /\ UNCHANGED <<events, fixed, group, seen, result>>

\* Mutant: looks at the marker of the round to come.
LookNext(t) ==
  /\ pc[t] = "look"
  /\ seen' = [seen EXCEPT ![t] = marked[Event(sign)]]
  /\ Goto(t, "set")
  /\ UNCHANGED <<sign, count, total, events, fixed, group, result>>

Look(t) ==
  /\ pc[t] = "look"
  /\ seen' = [seen EXCEPT ![t] = marked[Event(group[t])]]
  /\ Goto(t, "set")
  /\ UNCHANGED <<sign, count, total, events, fixed, group, result>>

\* Mutant: the last thread is not told that it was the last.
SetFalse(t) ==
  /\ pc[t] = "set"
  /\ signalled' = [signalled EXCEPT ![Event(group[t])] = @ \/ seen[t]]
  /\ Return(t, FALSE)
  /\ UNCHANGED <<sign, count, total, marked, fixed>>

Set(t) ==
  /\ pc[t] = "set"
  /\ signalled' = [signalled EXCEPT ![Event(group[t])] = @ \/ seen[t]]
  /\ Return(t, TRUE)
  /\ UNCHANGED <<sign, count, total, marked, fixed>>

\* One look of the spin loop, and its end after dwSpinCount turns.
Spin(t) ==
  /\ pc[t] \in {"spin", "spinOnly"}
  /\ sign # group[t]
  /\ Goto(t, "leave")
  /\ UNCHANGED <<sign, count, total, events, fixed, group, seen, result>>

GiveUp(t) ==
  /\ pc[t] = "spin"
  /\ sign = group[t]
  /\ Goto(t, "mark")
  /\ UNCHANGED <<sign, count, total, events, fixed, group, seen, result>>

\* The look at the sign, before or after the marker is stored.
CheckEarly(t) ==
  /\ pc[t] = "mark" /\ ~inOrder
  /\ ~marked[Event(group[t])]
  /\ seen' = [seen EXCEPT ![t] = sign # group[t]]
  /\ Goto(t, "markLate")
  /\ UNCHANGED <<sign, count, total, events, fixed, group, result>>

Mark(t) ==
  /\ pc[t] \in {"mark", "markLate"}
  /\ marked' = [marked EXCEPT ![Event(group[t])] = TRUE]
  /\ Goto(t, IF pc[t] = "mark" THEN "check" ELSE IF seen[t] THEN "leave" ELSE "wait")
  /\ seen' = [seen EXCEPT ![t] = FALSE]
  /\ UNCHANGED <<sign, count, total, signalled, fixed, group, result>>

Check(t) ==
  /\ pc[t] = "check"
  /\ Goto(t, IF sign = group[t] THEN "wait" ELSE "leave")
  /\ UNCHANGED <<sign, count, total, events, fixed, group, seen, result>>

Wait(t) ==
  /\ pc[t] = "wait"
  /\ signalled[Event(group[t])]
  /\ Goto(t, "leave")
  /\ UNCHANGED <<sign, count, total, events, fixed, group, seen, result>>

Leave(t) ==
  /\ pc[t] = "leave"
  /\ total' = IF noDelete THEN total ELSE total + 1
  /\ Return(t, FALSE)
  /\ UNCHANGED <<sign, count, events, fixed>>

-----------------------------------------------------------------------------
(* DeleteSynchronizationBarrier, by a thread that is back from the round;  *)
(* nobody is waiting for another one.                                      *)

Delete(t) ==
  /\ pc[t] = "out" /\ Usable /\ ~noDelete
  /\ \A u \in Thread : pc[u] # "out" => sign # group[u]
  /\ Goto(t, "deleting")
  /\ UNCHANGED <<sign, count, total, events, fixed, group, seen, result>>

\* Mutant: does not wait for the others to leave.
CloseNow(t) ==
  /\ pc[t] = "deleting"
  /\ open' = FALSE
  /\ Goto(t, "out")
  /\ UNCHANGED <<sign, count, total, events, noDelete, inOrder, group, seen, result>>

Close(t) ==
  /\ pc[t] = "deleting"
  /\ total = count
  /\ open' = FALSE
  /\ Goto(t, "out")
  /\ UNCHANGED <<sign, count, total, events, noDelete, inOrder, group, seen, result>>

-----------------------------------------------------------------------------
Inside(t) ==
  \/ Prepare(t) \/ LookEarly(t) \/ Publish(t) \/ Look(t) \/ Set(t)
  \/ Spin(t) \/ GiveUp(t) \/ CheckEarly(t) \/ Mark(t) \/ Check(t) \/ Wait(t) \/ Leave(t)
  \/ Close(t)

Next == \E t \in Thread : Enter(t) \/ Inside(t) \/ Delete(t)

Spec == Init /\ [][Next]_vars

-----------------------------------------------------------------------------
(* Properties.                                                             *)

Entered(t) == pc[t] \notin {"out", "deleting"}
Through(t) == Entered(t) /\ sign # group[t]
Leader(t) == pc[t] \in {"look", "set"}

\* Every variable keeps to its range; the count never wraps below its sign.
TypeOK ==
  /\ sign \in 0 .. 1 /\ count \in 0 .. N /\ total \in 1 .. N
  /\ marked \in [0 .. 1 -> BOOLEAN] /\ signalled \in [0 .. 1 -> BOOLEAN]
  /\ open \in BOOLEAN /\ noDelete \in BOOLEAN /\ inOrder \in BOOLEAN
  /\ pc \in [Thread -> {"out", "prepare", "publish", "publishLate", "look", "set", "spin",
                        "spinOnly", "mark", "markLate", "check", "wait", "leave", "deleting"}]
  /\ group \in [Thread -> 0 .. 1]
  /\ seen \in [Thread -> BOOLEAN]
  /\ result \in [Thread -> BOOLEAN]

\* A thread asleep on the event of a round that is over is about to be woken:
\* the event is set, or the last thread of that round is still to set it.
SleepersWokenAnyOrder ==
  \A t \in Thread : pc[t] = "wait" /\ Through(t) =>
    \/ signalled[Event(group[t])]
    \/ \E u \in Thread : Leader(u) /\ group[u] = group[t]

\* While a round fills, its event is not set: SetEvent of the round before the
\* last is undone before anybody can sleep on it again.
RoundsKeptApart == \A t \in Thread : Entered(t) /\ ~Through(t) => ~signalled[Event(group[t])]

\* DeleteSynchronizationBarrier returns only when everybody else is out of
\* EnterSynchronizationBarrier, except perhaps the last thread of the round,
\* which nothing counts.
LeaversWaitedFor == ~open => \A t \in Thread : Entered(t) => Leader(t)

\* The comment on its loop says it waits for all of them.
DeleteWaitsForAll == ~open => \A t \in Thread : ~Entered(t)

\* Seen from outside, threads come, wait for each other, and one returns TRUE.
Place == [t \in Thread |-> IF ~Entered(t) THEN "out" ELSE IF Through(t) THEN "through" ELSE "in"]
TheLeader == IF \E t \in Thread : Leader(t) THEN CHOOSE t \in Thread : Leader(t) ELSE Nobody

Promise == INSTANCE Rendezvous WITH at <- Place, leader <- TheLeader

ImplementsRendezvous == Promise!Spec

\* The scheduler is fair; the barrier's own steps need no more.
Fairness == \A t \in Thread : WF_vars(Inside(t))

FairSpec == Spec /\ Fairness

\* Once a round has opened, everybody in it returns, accesses being in order.
RoundEnds == \A t \in Thread : inOrder /\ Through(t) ~> ~Entered(t)
=============================================================================
