---------------------------- MODULE MCThreadPool ----------------------------
(***************************************************************************)
(* The thread pool under names of its own, so that what is proved of it    *)
(* may stand beside ThreadpoolWork.                                        *)
(***************************************************************************)
EXTENDS Integers, FiniteSets

CONSTANTS PoolClient, Runner, Maximum, PoolMaxPost

VARIABLES isDefault, mayFail, uRef, bPushLock, bPopLock, bStopWakeup, uWakeupCount, uParallelCurrent,
          queue, items, poolPc, poolRunning, raised, got, poolPosts

Pool == INSTANCE ThreadPool
  WITH Client <- PoolClient, MaxPost <- PoolMaxPost, pc <- poolPc, running <- poolRunning, posts <- poolPosts

ASSUME PoolAssumption ==
  /\ IsFiniteSet(Pool!Thread)
  /\ PoolClient \cap Runner = {}
  /\ Maximum \in Nat \ {0}
  /\ PoolMaxPost \in Nat

PoolSpec == Pool!Spec
PoolFairSpec == Pool!FairSpec

\* The properties of ThreadPool.tla.
PoolKept == Pool!PoolKept
QueueEmpties == Pool!QueueEmpties
ClosedIsFreed == Pool!ClosedIsFreed
=============================================================================
