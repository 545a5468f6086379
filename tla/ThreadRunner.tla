---------------------------- MODULE ThreadRunner ----------------------------
(***************************************************************************)
(* ThreadRunner: one hidden window, on a thread of its own, for all that   *)
(* want to be called with the messages it receives.  uRef counts the tasks *)
(* and the window; the first task starts the window's thread and the last  *)
(* one to go asks it to end.  uRef is also the lock of both transitions.   *)
(*                                                                         *)
(* Tasks are pushed on pPendingCallbackList; the window's thread alone     *)
(* moves them to pCallbackList, calls them, and removes and frees those    *)
(* whose pfnCallback has been reset.  A list is written as a sequence.     *)
(***************************************************************************)
EXTENDS Integers, Sequences, FiniteSets, SequencesExt

CONSTANTS
  Client, Window, Task,
  Null

VARIABLES
  uRef,
  hWnd,
  pCallbackList, pPendingCallbackList,
  pfnCallback,   \* the tasks whose callback is set
  live,          \* the tasks that are allocated
  registered,    \* those whose AddTask has returned, and RemoveTask not begun
  pc, pWork,     \* where each client is, and its task
  window,        \* where each window's thread is
  starter,       \* who waits for it to start
  pData,         \* the windows that have the runner for their GWLP_USERDATA
  close,         \* the windows with a WM_CLOSE in their queue
  pLast,         \* _pLastCallbackPrev: a task, or Null for the list itself
  called,        \* the tasks called with the message in hand
  again,         \* one was called twice
  over           \* the process exits, or memory that is gone has been used, or a window is
                 \* believed in that is not there: behaviours end

lists == <<pCallbackList, pPendingCallbackList>>
tasks == <<pfnCallback, live, registered>>
clients == <<pc, pWork>>
windows == <<window, starter, pData, close>>
round == <<pLast, called, again>>
vars == <<uRef, hWnd, lists, tasks, clients, windows, round, over>>

Locked == -1   \* MAXUINT32

Init ==
  /\ uRef = 0 /\ hWnd = Null
  /\ pCallbackList = <<>> /\ pPendingCallbackList = <<>>
  /\ pfnCallback = {} /\ live = {} /\ registered = {}
  /\ pc = [t \in Client |-> "idle"] /\ pWork = [t \in Client |-> Null]
  /\ window = [w \in Window |-> "none"] /\ starter = [w \in Window |-> Null]
  /\ pData = {} /\ close = {}
  /\ pLast = Null /\ called = {} /\ again = FALSE
  /\ over = FALSE

Goto(t, where) == pc' = [pc EXCEPT ![t] = where]
Return(t) == Goto(t, "idle") /\ pWork' = [pWork EXCEPT ![t] = Null]
At(w, where) == window' = [window EXCEPT ![w] = where]

-----------------------------------------------------------------------------
(* AddTask, with AddRef.                                                   *)

\* The caller has allocated the task.  Who finds the lock taken spins.
AddTask(t) ==
  /\ pc[t] = "idle" /\ uRef # Locked
  /\ \E k \in Task \ live :
       /\ live' = live \cup {k} /\ pfnCallback' = pfnCallback \cup {k}
       /\ pWork' = [pWork EXCEPT ![t] = k]
  /\ uRef' = IF uRef = 0 THEN Locked ELSE uRef + 1
  /\ Goto(t, IF uRef = 0 THEN "start" ELSE "push")
  /\ UNCHANGED <<hWnd, lists, registered, windows, round, over>>

\* The event and the thread.
Start(t) ==
  /\ pc[t] = "start"
  /\ \E w \in {v \in Window : window[v] = "none"} :
       At(w, "starting") /\ starter' = [starter EXCEPT ![w] = t]
  /\ Goto(t, "wait")
  /\ UNCHANGED <<uRef, hWnd, lists, tasks, pWork, pData, close, round, over>>

\* AddRef fails; the caller frees the task.
Fails(t) ==
  /\ uRef' = 0
  /\ live' = live \ {pWork[t]} /\ pfnCallback' = pfnCallback \ {pWork[t]}
  /\ Return(t)

StartFails(t) ==
  /\ pc[t] = "start"
  /\ Fails(t)
  /\ UNCHANGED <<hWnd, lists, registered, windows, round, over>>

\* The window's thread: it registers the class, makes the window, and sets the event.
MakeWindow(w) ==
  /\ window[w] = "starting"
  /\ \/ At(w, "idle") /\ hWnd' = w /\ pData' = pData \cup {w}
     \/ \E end \in {"noWindow", "noClass"} : At(w, end) /\ UNCHANGED <<hWnd, pData>>
  /\ UNCHANGED <<uRef, lists, tasks, clients, starter, close, round, over>>

\* Mutant: the window's own reference is forgotten.
StartedAlone(t, w) ==
  /\ pc[t] = "wait" /\ starter[w] = t /\ window[w] = "idle"
  /\ starter' = [starter EXCEPT ![w] = Null]
  /\ uRef' = 1 /\ Goto(t, "push")
  /\ UNCHANGED <<hWnd, lists, tasks, pWork, window, pData, close, round, over>>

\* A thread that could not register the class ends with FALSE, which AddRef takes for
\* ERROR_SUCCESS.
Started(t, w) ==
  /\ pc[t] = "wait" /\ starter[w] = t
  /\ starter' = [starter EXCEPT ![w] = Null]
  /\ \/ /\ window[w] = "idle"
        /\ uRef' = 2 /\ Goto(t, "push")
        /\ UNCHANGED <<pfnCallback, live, pWork, window, over>>
     \/ /\ window[w] = "noWindow"
        /\ Fails(t) /\ At(w, "none")
        /\ UNCHANGED over
     \/ /\ window[w] = "noClass"
        /\ uRef' = 2 /\ over' = TRUE
        /\ UNCHANGED <<pfnCallback, live, clients, window>>
  /\ UNCHANGED <<hWnd, lists, registered, pData, close, round>>

\* After 15 seconds.  A window that is made later is told of by way of a stack frame that is gone.
TimeOut(t, w) ==
  /\ pc[t] = "wait" /\ starter[w] = t /\ window[w] = "starting"
  /\ Fails(t)
  /\ over' = TRUE
  /\ UNCHANGED <<hWnd, lists, registered, windows, round>>

Push(t) ==
  /\ pc[t] = "push"
  /\ pPendingCallbackList' = <<pWork[t]>> \o pPendingCallbackList
  /\ registered' = registered \cup {pWork[t]}
  /\ Return(t)
  /\ UNCHANGED <<uRef, hWnd, pCallbackList, pfnCallback, live, windows, round, over>>

-----------------------------------------------------------------------------
(* RemoveTask, with Release.                                               *)

RemoveTask(t) ==
  /\ pc[t] = "idle"
  /\ \E k \in registered :
       /\ registered' = registered \ {k} /\ pfnCallback' = pfnCallback \ {k}
       /\ pWork' = [pWork EXCEPT ![t] = k]
  /\ Goto(t, "release")
  /\ UNCHANGED <<uRef, hWnd, lists, live, windows, round, over>>

\* Mutant: the window is asked to end when its own reference has gone.
ReleaseLate(t) ==
  /\ pc[t] = "release" /\ uRef # Locked
  /\ uRef' = uRef - 1
  /\ IF uRef = 1 THEN Goto(t, "post") /\ UNCHANGED pWork ELSE Return(t)
  /\ UNCHANGED <<hWnd, lists, tasks, windows, round, over>>

Release(t) ==
  /\ pc[t] = "release" /\ uRef # Locked
  /\ uRef' = IF uRef \in {0, 1} THEN uRef ELSE uRef - 1
  /\ IF uRef = 2 THEN Goto(t, "post") /\ UNCHANGED pWork ELSE Return(t)
  /\ UNCHANGED <<hWnd, lists, tasks, windows, round, over>>

\* A WM_CLOSE for whatever window there is by now.  Several in a queue are one here: those
\* after the first find nothing more to do than a window that is in use again.
Post(t) ==
  /\ pc[t] = "post"
  /\ close' = IF hWnd = Null THEN close ELSE close \cup {hWnd}
  /\ Return(t)
  /\ UNCHANGED <<uRef, hWnd, lists, tasks, window, starter, pData, round, over>>

-----------------------------------------------------------------------------
(* WindowProcW: WM_CLOSE, with TryClean.                                   *)

\* What is on the lists has been removed, and is freed.
TryClean(w) ==
  /\ uRef' = Locked /\ hWnd' = Null /\ pData' = pData \ {w}
  /\ pCallbackList' = <<>> /\ pPendingCallbackList' = <<>>
  /\ live' = live \ (ToSet(pCallbackList) \cup ToSet(pPendingCallbackList))

\* Mutant: no look at the count.
CloseUnchecked(w) ==
  /\ window[w] = "idle" /\ w \in close
  /\ close' = close \ {w}
  /\ TryClean(w) /\ At(w, "closing")
  /\ UNCHANGED <<pfnCallback, registered, clients, starter, round, over>>

Close(w) ==
  /\ window[w] = "idle" /\ w \in close
  /\ close' = close \ {w}
  /\ IF uRef = 1
     THEN TryClean(w) /\ At(w, "closing")
     ELSE UNCHANGED <<uRef, hWnd, lists, live, window, pData>>
  /\ UNCHANGED <<pfnCallback, registered, clients, starter, round, over>>

\* TryClean gives up the lock, the window is destroyed and its thread ends.
Closed(w) ==
  /\ window[w] = "closing"
  /\ uRef' = 0
  /\ At(w, "none") /\ close' = close \ {w}
  /\ UNCHANGED <<hWnd, lists, tasks, clients, starter, pData, round, over>>

\* At the end of the process the window is destroyed whether or not there are tasks.
Exit(w) ==
  /\ window[w] = "idle" /\ hWnd = w
  /\ IF uRef = 1 THEN TryClean(w) ELSE hWnd' = Null /\ UNCHANGED <<uRef, pData, lists, live>>
  /\ over' = TRUE
  /\ UNCHANGED <<pfnCallback, registered, clients, window, starter, close, round>>

-----------------------------------------------------------------------------
(* WindowProcW: any other message.                                         *)

Message(w) ==
  /\ window[w] = "idle" /\ w \in pData
  /\ pCallbackList \o pPendingCallbackList # <<>>
  /\ At(w, "first")
  /\ UNCHANGED <<uRef, hWnd, lists, tasks, clients, starter, pData, close, round, over>>

RoundReset == pLast' = Null /\ called' = {} /\ again' = FALSE

\* Mutant: a task that has been removed is freed and stays on the list.
VisitKeeps ==
  /\ pCallbackList # <<>>
  /\ LET k == Head(pCallbackList) IN
       IF k \in pfnCallback
       THEN /\ pLast' = k /\ called' = called \cup {k} /\ again' = (again \/ k \in called)
            /\ UNCHANGED <<pCallbackList, live>>
       ELSE live' = live \ {k} /\ UNCHANGED <<pCallbackList, round>>

\* One turn of a loop over pCallbackList.  It looks at the first task whatever it did before.
Visit ==
  /\ pCallbackList # <<>>
  /\ LET k == Head(pCallbackList) IN
       IF k \in pfnCallback
       THEN /\ pLast' = k /\ called' = called \cup {k} /\ again' = (again \/ k \in called)
            /\ UNCHANGED <<pCallbackList, live>>
       ELSE /\ pCallbackList' = Tail(pCallbackList) /\ live' = live \ {k}
            /\ UNCHANGED round

Turn(w) ==
  /\ window[w] \in {"first", "second"}
  /\ Visit
  /\ UNCHANGED <<uRef, hWnd, pPendingCallbackList, pfnCallback, registered, clients, windows, over>>

\* Of the pending tasks the oldest, at the end of the list, is put behind the task called last.
\* If there is one, it is no longer on the list, or the loop would not have ended, and is freed.
Merge(w) ==
  /\ window[w] = "first" /\ pCallbackList = <<>>
  /\ pPendingCallbackList' = <<>>
  /\ IF pPendingCallbackList = <<>>
     THEN At(w, "idle") /\ RoundReset /\ UNCHANGED <<pCallbackList, over>>
     ELSE /\ At(w, "second")
          /\ pCallbackList' = IF pLast = Null THEN <<Last(pPendingCallbackList)>> ELSE <<>>
          /\ over' = (pLast # Null)
          /\ UNCHANGED round
  /\ UNCHANGED <<uRef, hWnd, tasks, clients, starter, pData, close>>

RoundOver(w) ==
  /\ window[w] = "second" /\ pCallbackList = <<>>
  /\ At(w, "idle") /\ RoundReset
  /\ UNCHANGED <<uRef, hWnd, lists, tasks, clients, starter, pData, close, over>>

Begin(t) == AddTask(t) \/ RemoveTask(t)
Inside(t) ==
  \/ Start(t) \/ StartFails(t) \/ Push(t) \/ Release(t) \/ Post(t)
  \/ \E w \in Window : Started(t, w) \/ TimeOut(t, w)
Run(w) == MakeWindow(w) \/ Close(w) \/ Closed(w) \/ Turn(w) \/ Merge(w) \/ RoundOver(w)
Outside(w) == Message(w) \/ Exit(w)

Next == ~over /\ ((\E t \in Client : Begin(t) \/ Inside(t)) \/ (\E w \in Window : Run(w) \/ Outside(w)))

Spec == Init /\ [][Next]_vars

Fairness ==
  /\ \A t \in Client : WF_vars(~over /\ Inside(t))
  /\ \A w \in Window : WF_vars(~over /\ Run(w))

FairSpec == Spec /\ Fairness

-----------------------------------------------------------------------------
(* Properties.                                                             *)

TypeOK ==
  /\ uRef \in Nat \cup {Locked} /\ hWnd \in Window \cup {Null}
  /\ pCallbackList \in Seq(Task) /\ pPendingCallbackList \in Seq(Task)
  /\ pfnCallback \subseteq Task /\ live \subseteq Task /\ registered \subseteq Task
  /\ pc \in [Client -> {"idle", "start", "wait", "push", "release", "post"}]
  /\ pWork \in [Client -> Task \cup {Null}]
  /\ window \in [Window -> {"none", "starting", "noWindow", "noClass", "idle", "first", "second", "closing"}]
  /\ starter \in [Window -> Client \cup {Null}]
  /\ pData \subseteq Window /\ close \subseteq Window
  /\ pLast \in Task \cup {Null} /\ called \subseteq Task /\ again \in BOOLEAN /\ over \in BOOLEAN

\* While a task is registered the window it counts on is there and has the runner's data: a
\* window that is asked to end by the last task to go does not end under the next one to come
\* (ThreadRunner.h:324, 374-382).
Served ==
  ~over /\ registered # {} =>
    /\ hWnd \in pData
    /\ window[hWnd] \in {"idle", "first", "second"}

Counting(t) == pc[t] \in {"push", "release"}

\* The count is one for each task and one for the window; without a window it is zero, and
\* the lock has one owner (ThreadRunner.h:277, 324).
RefsCounted ==
  ~over =>
    IF uRef = Locked
    THEN Cardinality({t \in Client : pc[t] \in {"start", "wait"}})
         + Cardinality({w \in Window : window[w] = "closing"}) = 1
    ELSE uRef = Cardinality(registered) + Cardinality({t \in Client : Counting(t)})
                + Cardinality({w \in Window : w \in pData})

\* No task is freed that a client still has, is on a list twice, or is on one after it has
\* been freed (ThreadRunner.h:88-90, 394-405).
TasksAlive ==
  ~over =>
    /\ registered \subseteq live
    /\ ToSet(pCallbackList) \cup ToSet(pPendingCallbackList) \subseteq live
    /\ IsInjective(pCallbackList \o pPendingCallbackList)

\* When the last task has gone, the window goes, unless another task comes
\* (ThreadRunner.h:326-327).
WindowGoes == (uRef = 1) ~> (uRef # 1 \/ over)

\* A task that has been added is merged into the list of the window's thread and stays there
\* until it is removed (the comments at ThreadRunner.h:94, 98, 342).
AllMerged == ~over => registered \subseteq ToSet(pCallbackList) \cup ToSet(pPendingCallbackList)

\* A message is passed to the tasks one after the other: the loops walk over the list (the
\* comments at ThreadRunner.h:94, 109).
CalledOnce == ~again
=============================================================================
