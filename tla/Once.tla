-------------------------------- MODULE Once --------------------------------
(***************************************************************************)
(* What an INIT_ONCE promises, without words, waiters or wake-ups: at most *)
(* one synchronous initialiser at a time, any number of asynchronous ones  *)
(* of which the first to finish wins, one value for ever after.            *)
(***************************************************************************)
CONSTANTS Thread, Value, NoValue

VARIABLES phase,    \* "none", "sync", "async" or "done"
          value,    \* the value, once done
          running,  \* the threads told to initialise that have not finished
          told      \* <<v>> while v is the answer of the thread's last call

onceVars == <<phase, value, running, told>>

Init ==
  /\ phase = "none"
  /\ value = NoValue
  /\ running = {}
  /\ told = [t \in Thread |-> <<>>]

\* The first caller begins a synchronous or an asynchronous initialisation.
Start(t) ==
  /\ phase = "none"
  /\ phase' \in {"sync", "async"}
  /\ running' = {t}
  /\ UNCHANGED <<value, told>>

Join(t) ==
  /\ phase = "async"
  /\ running' = running \cup {t}
  /\ UNCHANGED <<phase, value, told>>

\* The first completion decides the value; it may be answered at once or later.
Decide(t, v) ==
  /\ phase \in {"sync", "async"}
  /\ t \in running
  /\ phase' = "done"
  /\ value' = v
  /\ running' = running \ {t}
  /\ told' \in {told, [told EXCEPT ![t] = <<v>>]}

\* A synchronous initialisation failed: the next caller starts afresh.
Fail(t) ==
  /\ phase = "sync"
  /\ t \in running
  /\ phase' = "none"
  /\ running' = running \ {t}
  /\ UNCHANGED <<value, told>>

\* Too late (async), or stopped by an exception (sync: nobody takes over).
Leave(t) ==
  /\ t \in running
  /\ running' = running \ {t}
  /\ UNCHANGED <<phase, value, told>>

Tell(t) ==
  /\ phase = "done"
  /\ told' = [told EXCEPT ![t] = <<value>>]
  /\ UNCHANGED <<phase, value, running>>

CallAgain(t) ==
  /\ told' = [told EXCEPT ![t] = <<>>]
  /\ UNCHANGED <<phase, value, running>>

Next ==
  \E t \in Thread :
    \/ Start(t) \/ Join(t) \/ Fail(t) \/ Leave(t) \/ Tell(t) \/ CallAgain(t)
    \/ \E v \in Value : Decide(t, v)

Spec == Init /\ [][Next]_onceVars
=============================================================================
