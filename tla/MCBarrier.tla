------------------------------ MODULE MCBarrier ------------------------------
(***************************************************************************)
(* The synchronization barrier beside the other two synchronization        *)
(* objects, which stay as they are: MCOnceAndLock runs those.              *)
(***************************************************************************)
EXTENDS MCOnceAndLock

VARIABLES sign, count, total, marked, signalled, open, inOrder, noDelete, barrierPc, group, seen, result

Barrier == INSTANCE Barrier WITH pc <- barrierPc, Nobody <- Null

ASSUME BarrierAssumption == Barrier!ThreadsApart

others == <<part, vars, onceVars>>

BarrierInit == part = "barrier" /\ Init /\ Once!Init /\ Barrier!Init

BarrierSpec == BarrierInit /\ [][Barrier!Next /\ UNCHANGED others]_<<others, Barrier!vars>>

BarrierFairSpec == BarrierSpec /\ Barrier!Fairness

\* The properties of Barrier.tla.
LeaversWaitedFor == Barrier!LeaversWaitedFor
ImplementsRendezvous == Barrier!ImplementsRendezvous
RoundEnds == Barrier!RoundEnds
DeleteWaitsForAll == Barrier!DeleteWaitsForAll
SleepersWokenAnyOrder == Barrier!SleepersWokenAnyOrder
=============================================================================
