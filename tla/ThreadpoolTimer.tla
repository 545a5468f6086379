--------------------------- MODULE ThreadpoolTimer ---------------------------
(***************************************************************************)
(* One thread pool timer (TP_Timer) or one thread pool wait (TP_Wait) of   *)
(* src/Thunks/api-ms-win-core-threadpool.hpp.  Both keep one registration  *)
(* with the system, a timer-queue timer or a registered wait, of which a   *)
(* thread of the system calls back; setting the object replaces it.  They  *)
(* differ in one thing: CloseThreadpoolTimer waits for the callback of the *)
(* registration it deletes, CloseThreadpoolWait does not.                  *)
(*                                                                         *)
(* A registration is also the thread that calls back for it.  A step is    *)
(* one interlocked operation, one operation on the lock or the event, or   *)
(* one call of the system.  A program may set, cancel and wait from        *)
(* several threads at once; nobody calls after, or while another thread    *)
(* calls, the close.                                                       *)
(***************************************************************************)
EXTENDS Integers, FiniteSets

CONSTANTS
  Client,        \* threads of the program
  Registration,  \* what the object may register in its life: a bound
  Null

Actor == Client \cup Registration

VARIABLES
  kind,        \* "timer" or "wait"
  reentrant,   \* whether callbacks of this program call functions of this object
  nRef,        \* the reference count; the object is freed when it reaches 0
  closed,      \* bit 0x10000 of uFlags1
  handle,      \* hQueueTimer or hWaitObject: the current registration
  event,       \* hEvent: a manual-reset event, initially set
  lock,        \* who holds QueueTimerLock or WaitObjectLock
  state,       \* of each registration, in the system: "unused", "armed", "spent" or "gone"
  periodic,    \* the registrations with a period
  pc,
  call,        \* the function each thread is in
  hand,        \* the registration each thread has taken out of handle
  crossed      \* the event was set for one registration under another one

system == <<state, periodic>>
vars == <<kind, reentrant, nRef, closed, handle, event, lock, system, pc, call, hand, crossed>>

Init ==
  /\ kind \in {"timer", "wait"} /\ reentrant \in BOOLEAN
  /\ nRef = 1 /\ closed = FALSE
  /\ handle = Null /\ event = TRUE /\ lock = Null
  /\ state = [r \in Registration |-> "unused"] /\ periodic = {}
  /\ pc = [t \in Actor |-> IF t \in Client THEN "idle" ELSE "off"]
  /\ call = [t \in Actor |-> "none"]
  /\ hand = [t \in Actor |-> Null]
  /\ crossed = FALSE

\* SetEvent, for registration r if there is one.
SignalFor(r) ==
  /\ event' = TRUE
  /\ crossed' = (crossed \/ lock # Null \/ handle \notin {r, Null})

Goto(t, where) == pc' = [pc EXCEPT ![t] = where]

\* A client, or a callback, is free to call.
CanCall(t) == pc[t] = "idle" /\ ~closed /\ (t \in Client \/ reentrant)

Begin(t, function, where) ==
  /\ CanCall(t)
  /\ call' = [call EXCEPT ![t] = function]
  /\ Goto(t, where)

-----------------------------------------------------------------------------
(* SetThreadpoolTimer and SetThreadpoolWait, with a time or a handle.      *)

\* Bound: the calls that set are as many as there are registrations.
Unused == {r \in Registration : state[r] = "unused"}
Setting == {t \in Actor : pc[t] \in {"lock", "take", "delete", "outlast", "deleted", "reset", "create"}
                           /\ call[t] = "set"}

Set(t) ==
  /\ Begin(t, "set", "lock")
  /\ Cardinality(Setting) < Cardinality(Unused)
  /\ nRef' = nRef + 1
  /\ UNCHANGED <<kind, reentrant, closed, handle, event, lock, system, hand, crossed>>

Lock(t) ==
  /\ pc[t] = "lock"
  /\ lock = Null /\ lock' = t
  /\ Goto(t, "take")
  /\ UNCHANGED <<kind, reentrant, nRef, closed, handle, event, system, call, hand, crossed>>

\* Mutant: keeps the event as the last registration left it.
ResetNot(t) ==
  /\ pc[t] = "reset"
  /\ Goto(t, "create")
  /\ UNCHANGED <<kind, reentrant, nRef, closed, handle, event, lock, system, call, hand, crossed>>

Reset(t) ==
  /\ pc[t] = "reset"
  /\ event' = FALSE /\ crossed' = FALSE
  /\ Goto(t, "create")
  /\ UNCHANGED <<kind, reentrant, nRef, closed, handle, lock, system, call, hand>>

\* CreateTimerQueueTimer or RegisterWaitForSingleObject, and release the lock.
Create(t) ==
  /\ pc[t] = "create"
  /\ \E r \in Unused :
       /\ state' = [state EXCEPT ![r] = "armed"]
       /\ handle' = r
       /\ periodic' \in {periodic} \cup (IF kind = "timer" THEN {periodic \cup {r}} ELSE {})
  /\ lock' = Null
  /\ Goto(t, "idle")
  /\ UNCHANGED <<kind, reentrant, nRef, closed, event, call, hand, crossed>>

CreateFails(t) ==
  /\ pc[t] = "create"
  /\ \E r \in Unused : state' = [state EXCEPT ![r] = "gone"]
  /\ lock' = Null
  /\ Goto(t, "signal")
  /\ UNCHANGED <<kind, reentrant, nRef, closed, handle, event, periodic, call, hand, crossed>>

-----------------------------------------------------------------------------
(* Set with neither time nor handle, and Wait...Callbacks that cancels.    *)

Cancel(t) ==
  /\ Begin(t, "cancel", "take")
  /\ UNCHANGED <<kind, reentrant, nRef, closed, handle, event, lock, system, hand, crossed>>

\* Wait...Callbacks that does not.
WaitFor(t) ==
  /\ Begin(t, "wait", IF handle = Null THEN "idle" ELSE "blocked")
  /\ UNCHANGED <<kind, reentrant, nRef, closed, handle, event, lock, system, hand, crossed>>

Unblock(t) ==
  /\ pc[t] = "blocked"
  /\ event
  /\ Goto(t, "idle")
  /\ UNCHANGED <<kind, reentrant, nRef, closed, handle, event, lock, system, call, hand, crossed>>

\* CloseThreadpoolTimer and CloseThreadpoolWait.
Close(t) ==
  /\ \A u \in Actor \ {t} : pc[u] \in {"idle", "off", "return"}
  /\ Begin(t, "close", "take")
  /\ closed' = TRUE
  /\ UNCHANGED <<kind, reentrant, nRef, handle, event, lock, system, hand, crossed>>

-----------------------------------------------------------------------------
(* What these functions share: take the registration and get rid of it.    *)

Take(t) ==
  /\ pc[t] = "take"
  /\ hand' = [hand EXCEPT ![t] = handle]
  /\ handle' = Null
  /\ Goto(t, CASE handle # Null -> "delete"
               [] handle = Null /\ call[t] = "set" -> "reset"
               [] handle = Null /\ call[t] = "cancel" -> "idle"
               [] handle = Null /\ call[t] = "close" -> "release")
  /\ UNCHANGED <<kind, reentrant, nRef, closed, event, lock, system, call, crossed>>

\* DeleteTimerQueueTimer, UnregisterWaitEx or UnregisterWait: no callback begins any more.
Delete(t) ==
  /\ pc[t] = "delete"
  /\ state' = [state EXCEPT ![hand[t]] = "gone"]
  /\ Goto(t, IF kind = "wait" /\ call[t] = "close" THEN "deleted" ELSE "outlast")
  /\ UNCHANGED <<kind, reentrant, nRef, closed, handle, event, lock, periodic, call, hand, crossed>>

\* INVALID_HANDLE_VALUE: and the one that runs has returned.
Outlast(t) ==
  /\ pc[t] = "outlast"
  /\ pc[hand[t]] = "off"
  /\ Goto(t, IF call[t] = "set" THEN "deleted" ELSE "signal")
  /\ UNCHANGED <<kind, reentrant, nRef, closed, handle, event, lock, system, call, hand, crossed>>

\* Mutant: leaves those who wait for the registration waiting.
SignalNot(t) ==
  /\ pc[t] = "signal"
  /\ Goto(t, IF hand[t] = Null THEN "release" ELSE "deleted")
  /\ UNCHANGED <<kind, reentrant, nRef, closed, handle, event, lock, system, call, hand, crossed>>

\* SetEvent, for those who wait for the registration.
Signal(t) ==
  /\ pc[t] = "signal"
  /\ SignalFor(hand[t])
  /\ Goto(t, IF hand[t] = Null THEN "release" ELSE "deleted")
  /\ UNCHANGED <<kind, reentrant, nRef, closed, handle, lock, system, call, hand>>

\* Release of the registration's reference.
Deleted(t) ==
  /\ pc[t] = "deleted"
  /\ nRef' = nRef - 1
  /\ hand' = [hand EXCEPT ![t] = Null]
  /\ Goto(t, CASE call[t] = "set" -> "reset"
               [] call[t] = "cancel" -> "idle"
               [] call[t] = "close" -> "release")
  /\ UNCHANGED <<kind, reentrant, closed, handle, event, lock, system, call, crossed>>

\* Release of the caller's own reference: the close, and a set that failed.
Release(t) ==
  /\ pc[t] = "release"
  /\ nRef' = nRef - 1
  /\ Goto(t, "idle")
  /\ UNCHANGED <<kind, reentrant, closed, handle, event, lock, system, call, hand, crossed>>

-----------------------------------------------------------------------------
(* The system calls back; then the callback routine sets the event.        *)

Fire(r) ==
  /\ state[r] = "armed" /\ pc[r] = "off"
  /\ state' = [state EXCEPT ![r] = IF r \in periodic THEN "armed" ELSE "spent"]
  /\ Goto(r, "idle")
  /\ UNCHANGED <<kind, reentrant, nRef, closed, handle, event, lock, periodic, call, hand, crossed>>

Return(r) ==
  /\ r \in Registration /\ pc[r] = "idle"
  /\ Goto(r, "return")
  /\ UNCHANGED <<kind, reentrant, nRef, closed, handle, event, lock, system, call, hand, crossed>>

Returned(r) ==
  /\ pc[r] = "return"
  /\ SignalFor(r)
  /\ Goto(r, "off")
  /\ UNCHANGED <<kind, reentrant, nRef, closed, handle, lock, system, call, hand>>

-----------------------------------------------------------------------------
Inside(t) ==
  \/ Lock(t) \/ Reset(t) \/ Create(t) \/ CreateFails(t) \/ Unblock(t)
  \/ Take(t) \/ Delete(t) \/ Outlast(t) \/ Signal(t) \/ Deleted(t) \/ Release(t)
  \/ Return(t) \/ Returned(t)

Next ==
  \/ \E t \in Actor : Set(t) \/ Cancel(t) \/ WaitFor(t) \/ Close(t) \/ Inside(t)
  \/ \E r \in Registration : Fire(r)

Spec == Init /\ [][Next]_vars

\* Fair threads; callbacks return and timers come due, but a wait may be for ever.
Fairness ==
  /\ \A t \in Actor : WF_vars(Inside(t))
  /\ \A r \in Registration : WF_vars(kind = "timer" /\ Fire(r))

FairSpec == Spec /\ Fairness

-----------------------------------------------------------------------------
(* Properties.                                                             *)

At(places) == {t \in Actor : pc[t] \in places}

\* A registration may call back, or does.
Live(r) == state[r] = "armed" \/ pc[r] # "off"

\* References are counted exactly: the handle until it is closed, the current
\* registration, and each thread that gets rid of one or is about to make one.
\* So no callback begins or runs on freed memory, unless a wait was closed:
\* CloseThreadpoolWait does not wait for the callback that is running.
RefsCounted ==
  /\ nRef = (IF closed THEN 0 ELSE 1) + (IF handle = Null THEN 0 ELSE 1)
            + Cardinality({t \in Actor : hand[t] # Null})
            + Cardinality({t \in Actor : pc[t] \notin {"idle", "off", "return", "blocked"}
                                          /\ call[t] \in {"set", "close"}})
  /\ (\E r \in Registration : Live(r)) /\ ~(kind = "wait" /\ closed) => nRef > 0

\* Without the exception.
AliveWhileFiring == (\E r \in Registration : Live(r)) => nRef > 0

\* WaitForThreadpoolTimerCallbacks and WaitForThreadpoolWaitCallbacks outlast the
\* callback: when one that blocked returns, none is outstanding, if nobody else
\* is in a call and no timer has a period.
WaitOutlasts ==
  [][\A t \in Actor :
       /\ pc[t] = "blocked" /\ pc'[t] = "idle"
       /\ \A u \in Client \ {t} : pc[u] = "idle"
       /\ periodic = {} /\ ~reentrant /\ ~crossed
       => \A r \in Registration : pc[r] = "off" /\ state[r] # "armed"]_vars

\* Every call returns, unless a callback makes one: it would wait for itself.
\* That a wait for ever is waited for ends is not promised.
CallsEnd ==
  \A t \in Client : ~reentrant /\ pc[t] # "idle" ~> pc[t] = "idle" \/ (kind = "wait" /\ pc[t] = "blocked")
=============================================================================
