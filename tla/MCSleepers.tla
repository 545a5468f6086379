------------------------------ MODULE MCSleepers ------------------------------
(***************************************************************************)
(* Condition variables and waits on addresses, each on its own: both put   *)
(* stack blocks on a list, and let a wait time out.  The initial state     *)
(* says which one runs.  The releases that were missed are those of the    *)
(* one that runs.                                                          *)
(***************************************************************************)
EXTENDS ConditionVariable, TLC

CONSTANTS Address, BelowVista

VARIABLES part, bucket, waitBack, waitNotify, waitNext, flag, waitPc, waitCall, waitCurrent, pBlock,
          pItem, inHand, LastWake, changed, unreached

waitVars == <<bucket, waitBack, waitNotify, waitNext, flag, waitPc, waitCall, waitCurrent, pBlock,
              pItem, inHand, LastWake, changed, unreached>>

Waits == INSTANCE WaitOnAddress
  WITH word <- bucket, back <- waitBack, notify <- waitNotify, next <- waitNext, pc <- waitPc,
       call <- waitCall, Current <- waitCurrent

SleepersInit == part \in {"address", "condition"} /\ Init /\ Waits!Init

SleepersNext ==
  \/ part = "condition" /\ Next /\ UNCHANGED <<part, waitVars>>
  \/ part = "address" /\ Waits!Next /\ UNCHANGED <<part, vars>>

SleepersSpec == SleepersInit /\ [][SleepersNext]_<<part, vars, late, waitVars>>

Sym == Permutations(Thread) \cup Permutations(Address)

\* The properties of WaitOnAddress.tla, from Windows Vista on without exception; when
\* all is at rest, those of both modules.
NoBlockDead == (BelowVista /\ misled) \/ Waits!NoDeadBlock
WakeReaches == Waits!WakeReaches
NobodyLeft == IF part = "address" THEN Waits!NobodyStuck ELSE NobodyStuckUnlessForgotten
=============================================================================
