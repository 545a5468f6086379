---------------------------- MODULE MCOnceAndLock ----------------------------
(***************************************************************************)
(* One-time initialisation and the reader/writer lock, each on its own,    *)
(* for what they promise of progress and against their abstract            *)
(* specifications.  The initial state says which one runs; the fairness of *)
(* the other asks nothing, for none of its threads is in a call.           *)
(***************************************************************************)
EXTENDS SRWLock

CONSTANTS Context, BadContext

VARIABLES part, once, oncePc, api, flags, cur, onceNext, wake, ctx, ret

onceVars == <<once, oncePc, api, flags, cur, onceNext, wake, ctx, ret>>

Once == INSTANCE InitOnce WITH word <- once, pc <- oncePc, next <- onceNext

ASSUME ContextAssumption == Once!ContextsApart

BothInit == part \in {"once", "lock"} /\ Init /\ Once!Init

BothNext ==
  \/ part = "lock" /\ Next /\ UNCHANGED <<part, onceVars>>
  \/ part = "once" /\ Once!Next /\ UNCHANGED <<part, vars>>

BothSpec == BothInit /\ [][BothNext]_<<part, vars, onceVars>> /\ Fairness /\ Once!Fairness

\* The properties of InitOnce.tla.
WaitersReachableOnce == Once!WaitersReachableOnce
ImplementsOnce == Once!ImplementsOnce
WaitersWoken == Once!WaitersWoken
=============================================================================
