----------------------------- MODULE Rendezvous -----------------------------
(***************************************************************************)
(* What a synchronization barrier promises: nobody leaves a round before   *)
(* everybody has come, and exactly one thread of the round is told so.     *)
(***************************************************************************)
EXTENDS FiniteSets

CONSTANTS Thread, Nobody

VARIABLES
  at,       \* where each thread is: outside, waiting inside, let through
  leader,   \* the one that will return TRUE, until it does
  result    \* what each thread's last call returned

vars == <<at, leader, result>>

Init ==
  /\ at = [t \in Thread |-> "out"]
  /\ leader = Nobody
  /\ result = [t \in Thread |-> FALSE]

Enter(t) ==
  /\ at[t] = "out"
  /\ at' = [at EXCEPT ![t] = "in"]
  /\ UNCHANGED <<leader, result>>

Open(t) ==
  /\ \A u \in Thread : at[u] = "in"
  /\ at' = [u \in Thread |-> "through"]
  /\ leader' = t
  /\ UNCHANGED result

Leave(t) ==
  /\ at[t] = "through"
  /\ at' = [at EXCEPT ![t] = "out"]
  /\ result' = [result EXCEPT ![t] = t = leader]
  /\ leader' = IF t = leader THEN Nobody ELSE leader

Next == \E t \in Thread : Enter(t) \/ Open(t) \/ Leave(t)

Spec == Init /\ [][Next]_vars
=============================================================================
