----------------------------- MODULE ThreadPool -----------------------------
(***************************************************************************)
(* The pool object (TP_Pool) of src/Thunks/api-ms-win-core-threadpool.hpp: *)
(* PostWork, the runners that QueueUserWorkItem starts to execute          *)
(* ExecuteTaskRunner, and Close.                                           *)
(*                                                                         *)
(* One 64-bit word holds two spin locks for the ends of the task queue, a  *)
(* stop bit, the number of tasks that want a runner and the number of      *)
(* runners; every change of it is one interlocked operation, a step here.  *)
(* The work objects and their counters are ThreadpoolWork.tla, the queue's *)
(* memory is InterlockedQueue.tla; here the queue is a number of tasks.    *)
(*                                                                         *)
(* Clients call before the pool is closed, callbacks call at any time.     *)
(***************************************************************************)
EXTENDS Integers, FiniteSets

CONSTANTS
  Client,     \* threads of the program; the one that closes the pool is one
  Runner,     \* threads of the system pool behind QueueUserWorkItem
  Maximum,    \* uParallelMaximum, set before the first task
  MaxPost     \* bound on the number of calls of PostWork

Thread == Client \cup Runner

VARIABLES
  isDefault,            \* the process-wide pool: its reference count never moves
  mayFail,              \* QueueUserWorkItem may fail, studied for the default pool
  uRef,                 \* the pool is freed when it reaches 0
  bPushLock, bPopLock, bStopWakeup,
  uWakeupCount,
  uParallelCurrent,
  queue,                \* tasks in oTaskQueue
  items,                \* calls of ExecuteTaskRunner the system pool has yet to make
  pc,
  running,              \* the thread is inside a callback
  raised,               \* this PostWork counts a new runner; "first": from none
  got,                  \* PopTask found a task
  posts                 \* calls of PostWork so far

vars == <<isDefault, mayFail, uRef, bPushLock, bPopLock, bStopWakeup, uWakeupCount,
          uParallelCurrent, queue, items, pc, running, raised, got, posts>>
locks == <<bPushLock, bPopLock, bStopWakeup>>
flags == <<locks, uWakeupCount, uParallelCurrent>>
fixed == <<isDefault, mayFail>>
locals == <<running, raised, got>>

Init ==
  /\ isDefault \in BOOLEAN
  /\ mayFail \in {FALSE, isDefault}
  /\ uRef = 1
  /\ bPushLock = FALSE /\ bPopLock = FALSE /\ bStopWakeup = FALSE
  /\ uWakeupCount = 0 /\ uParallelCurrent = 0
  /\ queue = 0 /\ items = 0
  /\ pc = [t \in Thread |-> "idle"]
  /\ running = [t \in Thread |-> FALSE]
  /\ raised = [t \in Thread |-> "no"]
  /\ got = [t \in Thread |-> FALSE]
  /\ posts = 0

Goto(t, where) == pc' = [pc EXCEPT ![t] = where]

\* TP_Pool::AddRef and Release: the default pool is not counted.
Count(change) == uRef' = uRef + (IF isDefault THEN 0 ELSE change)

-----------------------------------------------------------------------------
(* PostWork.                                                               *)

\* A client before the pool is closed, or a callback.
Post(t) ==
  /\ pc[t] = "idle" /\ posts < MaxPost
  /\ running[t] \/ (t \in Client /\ ~bStopWakeup)
  /\ posts' = posts + 1
  /\ Goto(t, "check")
  /\ UNCHANGED <<fixed, uRef, flags, queue, items, locals>>

CheckStop(t) ==
  /\ pc[t] = "check"
  /\ Goto(t, IF bStopWakeup THEN "idle" ELSE "addref")
  /\ UNCHANGED <<fixed, uRef, flags, queue, items, locals, posts>>

\* Mutant: a task in the queue holds no reference.
AddNoRef(t) ==
  /\ pc[t] = "addref"
  /\ Goto(t, "count")
  /\ UNCHANGED <<fixed, uRef, flags, queue, items, locals, posts>>

AddRef(t) ==
  /\ pc[t] = "addref"
  /\ Count(1)
  /\ Goto(t, "count")
  /\ UNCHANGED <<fixed, flags, queue, items, locals, posts>>

\* Takes the push lock, counts the task and, below the limit and if there are
\* no more runners than tasks that want one, a new runner.
CountTask(t) ==
  /\ pc[t] = "count" /\ ~bPushLock
  /\ bPushLock' = TRUE
  /\ uWakeupCount' = uWakeupCount + 1
  /\ LET raise == uParallelCurrent < Maximum /\ uWakeupCount + 1 >= uParallelCurrent IN
       /\ uParallelCurrent' = uParallelCurrent + (IF raise THEN 1 ELSE 0)
       /\ raised' = [raised EXCEPT ![t] = IF ~raise THEN "no"
                                          ELSE IF uParallelCurrent = 0 THEN "first" ELSE "more"]
  /\ Goto(t, "push")
  /\ UNCHANGED <<fixed, uRef, bPopLock, bStopWakeup, queue, running, got, items, posts>>

Push(t) ==
  /\ pc[t] = "push"
  /\ queue' = queue + 1
  /\ bPushLock' = FALSE
  /\ Goto(t, CASE raised[t] = "no" -> "idle" [] raised[t] = "first" -> "refRunners"
               [] raised[t] = "more" -> "start")
  /\ UNCHANGED <<fixed, uRef, bPopLock, bStopWakeup, uWakeupCount, uParallelCurrent, locals,
                 items, posts>>

\* The runners together hold one reference, from the first to the last.
RefRunners(t) ==
  /\ pc[t] = "refRunners"
  /\ Count(1)
  /\ Goto(t, "start")
  /\ UNCHANGED <<fixed, flags, queue, items, locals, posts>>

\* QueueUserWorkItem: some system thread will call ExecuteTaskRunner.
Start(t) ==
  /\ pc[t] = "start"
  /\ items' = items + 1
  /\ raised' = [raised EXCEPT ![t] = "no"]
  /\ Goto(t, "idle")
  /\ UNCHANGED <<fixed, uRef, flags, queue, running, got, posts>>

StartFails(t) ==
  /\ mayFail
  /\ pc[t] = "start"
  /\ Count(-1)
  /\ raised' = [raised EXCEPT ![t] = "no"]
  /\ Goto(t, "idle")
  /\ UNCHANGED <<fixed, flags, queue, items, running, got, posts>>

-----------------------------------------------------------------------------
(* PopTask, for runners and for Close.                                     *)

\* A system thread enters ExecuteTaskRunner.
Begin(r) ==
  /\ r \in Runner /\ pc[r] = "idle" /\ ~running[r]
  /\ items > 0
  /\ items' = items - 1
  /\ Goto(r, "pop")
  /\ UNCHANGED <<fixed, uRef, flags, queue, locals, posts>>

Pop(t) ==
  /\ pc[t] \in {"pop", "drain"} /\ ~bPopLock
  /\ bPopLock' = TRUE
  /\ got' = [got EXCEPT ![t] = queue > 0]
  /\ queue' = queue - (IF queue > 0 THEN 1 ELSE 0)
  /\ Goto(t, IF pc[t] = "pop" THEN "popped" ELSE "drained")
  /\ UNCHANGED <<fixed, uRef, bPushLock, bStopWakeup, uWakeupCount, uParallelCurrent, running,
                 raised, items, posts>>

\* Gives the lock back and, with it, takes the task off the count.
Unlock(t) ==
  /\ bPopLock' = FALSE
  /\ uWakeupCount' = uWakeupCount - (IF got[t] THEN 1 ELSE 0)
  /\ got' = [got EXCEPT ![t] = FALSE]

Popped(t) ==
  /\ pc[t] = "popped"
  /\ Unlock(t)
  /\ running' = [running EXCEPT ![t] = got[t]]
  /\ Goto(t, IF got[t] THEN "idle" ELSE "exit")
  /\ UNCHANGED <<fixed, uRef, bPushLock, bStopWakeup, uParallelCurrent, queue, raised, items,
                 posts>>

-----------------------------------------------------------------------------
(* ExecuteTaskRunner.                                                      *)

\* The callback returns.
Finish(t) ==
  /\ pc[t] = "idle" /\ running[t]
  /\ running' = [running EXCEPT ![t] = FALSE]
  /\ Goto(t, "release")
  /\ UNCHANGED <<fixed, uRef, flags, queue, items, raised, got, posts>>

Release(t) ==
  /\ pc[t] \in {"release", "releaseDrained", "releaseLast"}
  /\ Count(-1)
  /\ Goto(t, CASE pc[t] = "release" -> "pop" [] pc[t] = "releaseDrained" -> "drain"
               [] pc[t] = "releaseLast" -> "idle")
  /\ UNCHANGED <<fixed, flags, queue, items, locals, posts>>

\* Mutant: leaves without another look at the count of tasks.
ExitBlind(t) ==
  /\ pc[t] = "exit"
  /\ uParallelCurrent' = uParallelCurrent - 1
  /\ Goto(t, IF uParallelCurrent = 1 THEN "releaseLast" ELSE "idle")
  /\ UNCHANGED <<fixed, uRef, locks, uWakeupCount, queue, locals, items, posts>>

\* No task found: leave, unless a task was counted since.
Exit(t) ==
  /\ pc[t] = "exit"
  /\ IF uWakeupCount > 0
       THEN Goto(t, "pop") /\ UNCHANGED uParallelCurrent
       ELSE /\ uParallelCurrent' = uParallelCurrent - 1
            /\ Goto(t, IF uParallelCurrent = 1 THEN "releaseLast" ELSE "idle")
  /\ UNCHANGED <<fixed, uRef, locks, uWakeupCount, queue, locals, items, posts>>

-----------------------------------------------------------------------------
(* Close, by a client or a callback: stop new tasks, drop those in the     *)
(* queue, drop the handle's reference.  No client is inside PostWork.      *)

Close(t) ==
  /\ ~isDefault /\ ~bStopWakeup
  /\ pc[t] = "idle" /\ (t \in Client \/ running[t])
  /\ \A c \in Client : pc[c] = "idle"
  /\ bStopWakeup' = TRUE
  /\ Goto(t, "drain")
  /\ UNCHANGED <<fixed, uRef, bPushLock, bPopLock, uWakeupCount, uParallelCurrent, queue, locals,
                 items, posts>>

Drained(t) ==
  /\ pc[t] = "drained"
  /\ Unlock(t)
  /\ Goto(t, IF got[t] THEN "releaseDrained" ELSE "releaseLast")
  /\ UNCHANGED <<fixed, uRef, bPushLock, bStopWakeup, uParallelCurrent, queue, running, raised,
                 items, posts>>

-----------------------------------------------------------------------------
Inside(t) ==
  \/ CheckStop(t) \/ AddRef(t) \/ CountTask(t) \/ Push(t) \/ RefRunners(t)
  \/ Start(t) \/ StartFails(t) \/ Begin(t)
  \/ Pop(t) \/ Popped(t) \/ Finish(t) \/ Release(t) \/ Exit(t) \/ Drained(t)

Next == \E t \in Thread : Post(t) \/ Close(t) \/ Inside(t)

Spec == Init /\ [][Next]_vars

-----------------------------------------------------------------------------
(* Properties.                                                             *)

At(places) == {t \in Thread : pc[t] \in places}

Draining == At({"drain", "drained", "releaseDrained"})
Running == {r \in Runner : running[r] \/ pc[r] \in {"pop", "popped", "release", "exit"}}
Starting == {t \in Thread : raised[t] # "no"}
Runners == items + Cardinality(Running) + Cardinality(Starting)

\* Every variable keeps to its range; the unsigned counts never wrap.
TypeOK ==
  /\ isDefault \in BOOLEAN /\ mayFail \in BOOLEAN
  /\ uRef \in 0 .. MaxPost + 2
  /\ bPushLock \in BOOLEAN /\ bPopLock \in BOOLEAN /\ bStopWakeup \in BOOLEAN
  /\ uWakeupCount \in 0 .. MaxPost
  /\ uParallelCurrent \in 0 .. Cardinality(Thread)
  /\ queue \in 0 .. MaxPost /\ items \in 0 .. Maximum /\ posts \in 0 .. MaxPost
  /\ pc \in [Thread -> {"idle", "check", "addref", "count", "push", "refRunners", "start", "pop",
                        "popped", "release", "exit", "drain", "drained", "releaseDrained",
                        "releaseLast"}]
  /\ running \in [Thread -> BOOLEAN]
  /\ raised \in [Thread -> {"no", "first", "more"}]
  /\ got \in [Thread -> BOOLEAN]

\* The pool is not freed under anybody's feet, nor with tasks in its queue.
AliveWhileUsed ==
  At({"check", "addref", "count", "push", "refRunners", "start", "releaseLast"}) # {}
    \/ Draining # {} \/ Running # {} \/ items > 0 \/ queue > 0
  => uRef > 0

\* uParallelCurrent is the number of threads started, or about to be: a runner
\* that comes or goes with tasks posted at the same time is counted once.
RunnersCounted == ~mayFail => uParallelCurrent = Runners

\* A task in the queue has a runner, or somebody about to start one, or Close
\* is removing it: it cannot be left behind by a runner that leaves meanwhile.
NoTaskStranded == ~mayFail /\ queue > 0 => Runners > 0 \/ Draining # {}

\* The pool lives as long as it is used, and its count of runners decides rightly when to start one
\* and which of them gives up their reference (threadpool.hpp:366-425, 527-552).
PoolKept == AliveWhileUsed /\ RunnersCounted /\ NoTaskStranded

\* Fair threads; callbacks return; the system pool has threads.
FairSpec == Spec /\ \A t \in Thread : WF_vars(Inside(t)) /\ SF_vars(CountTask(t)) /\ SF_vars(Pop(t))

\* Every task leaves the queue, to be executed or dropped by Close.
QueueEmpties == ~mayFail /\ queue > 0 ~> queue = 0

\* A closed pool is freed once its last runner has left.
ClosedIsFreed == bStopWakeup ~> uRef = 0
=============================================================================
