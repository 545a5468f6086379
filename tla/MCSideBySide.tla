----------------------------- MODULE MCSideBySide -----------------------------
(***************************************************************************)
(* Three components that share nothing, each on its own: the ids of pipe   *)
(* peers, the task queue, and fiber-local storage.  The initial state says *)
(* which one runs.                                                         *)
(***************************************************************************)
EXTENDS PipePeers

CONSTANTS kMaxBlockSize, MaxPush, Thread, Root

ASSUME QueueAssumption == kMaxBlockSize \in Nat \ {0} /\ MaxPush \in Nat
ASSUME RootAssumption == Root \notin Thread /\ Null \notin Thread /\ Null # Root

VARIABLES
  part,
  pFirstReadBlock, pLastWriteBlock, block, freed, pusher, popper, pushed, tmp, taken,
  wasEmpty, null,
  used, locked, pfnCallback, allocated, node, hasBlock, uRef, pc, item, owed, broken

queueVars == <<pFirstReadBlock, pLastWriteBlock, block, freed, pusher, popper, pushed, tmp, taken,
               wasEmpty, null>>
storageVars == <<used, locked, pfnCallback, allocated, node, hasBlock, uRef, pc, item, owed, broken>>

Queue == INSTANCE InterlockedQueue
Storage == INSTANCE Fls WITH block <- hasBlock

SideInit ==
  /\ part \in {"pipes", "queue", "storage"}
  /\ Init /\ Queue!Init /\ Storage!Init

SideNext ==
  \/ part = "pipes" /\ Next /\ UNCHANGED <<part, queueVars, storageVars>>
  \/ part = "queue" /\ Queue!Next /\ UNCHANGED <<part, vars, storageVars>>
  \/ part = "storage" /\ Storage!Next /\ UNCHANGED <<part, vars, queueVars>>

SideSpec == SideInit /\ [][SideNext]_<<part, vars, queueVars, storageVars>>

\* The properties of InterlockedQueue.tla and Fls.tla, each while its part runs.
NullOnlyWhenEmpty == part = "queue" => Queue!NullOnlyWhenEmpty
ImplementsFifo == Queue!ImplementsFifo
BlocksCounted == part = "storage" => Storage!BlocksCounted
CalledBackOnce == part = "storage" => Storage!CalledBackOnce
=============================================================================
