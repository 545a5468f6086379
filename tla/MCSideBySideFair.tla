--------------------------- MODULE MCSideBySideFair ---------------------------
(***************************************************************************)
(* Three more components that share nothing, each on its own: the data     *)
(* that images share, the window for tasks, and the timers and waits of a  *)
(* thread pool.  The initial state says which one runs.  The fairness of a *)
(* component asks nothing while another one runs, for none of its threads  *)
(* is in a call.                                                           *)
(***************************************************************************)
EXTENDS SharedData

CONSTANTS Client, Window, Task, Registration

ASSUME NullAssumption == Null \notin Window \cup Task \cup Client \cup Registration
ASSUME ThreadsAssumption ==
  /\ IsFiniteSet(Client) /\ IsFiniteSet(Registration)
  /\ Client \cap Registration = {}

VARIABLES
  part,
  uRef, hWnd, pCallbackList, pPendingCallbackList, pfnCallback, live, registered, runnerPc,
  pWork, window, starter, shown, close, pLast, called, again, over,
  kind, reentrant, nRef, closed, handle, done, lock, state, periodic, timerPc, call, hand,
  crossed

runnerVars == <<uRef, hWnd, pCallbackList, pPendingCallbackList, pfnCallback, live, registered,
                runnerPc, pWork, window, starter, shown, close, pLast, called, again, over>>
timerVars == <<kind, reentrant, nRef, closed, handle, done, lock, state, periodic, timerPc, call,
               hand, crossed>>

Runner == INSTANCE ThreadRunner WITH pc <- runnerPc, pData <- shown
Timer == INSTANCE ThreadpoolTimer WITH pc <- timerPc, event <- done

SideInit ==
  /\ part \in {"data", "runner", "timer"}
  /\ Init /\ Runner!Init /\ Timer!Init
  /\ part # "timer" => kind = "timer" /\ ~reentrant

SideNext ==
  \/ part = "data" /\ Next /\ UNCHANGED <<part, runnerVars, timerVars>>
  \/ part = "runner" /\ Runner!Next /\ UNCHANGED <<part, vars, timerVars>>
  \/ part = "timer" /\ Timer!Next /\ UNCHANGED <<part, vars, runnerVars>>

SideSpec ==
  /\ SideInit /\ [][SideNext]_<<part, vars, runnerVars, timerVars>>
  /\ Runner!Fairness /\ Timer!Fairness

\* The properties of ThreadRunner.tla and ThreadpoolTimer.tla, each while its part runs.
RefsCounted ==
  /\ part = "runner" => Runner!RefsCounted
  /\ part = "timer" => Timer!RefsCounted
Served == part = "runner" => Runner!Served
TasksAlive == part = "runner" => Runner!TasksAlive
WindowGoes == Runner!WindowGoes
WaitOutlasts == Timer!WaitOutlasts
CallsEnd == Timer!CallsEnd
=============================================================================
