---------------------------- MODULE MCThreadRunner ----------------------------
(***************************************************************************)
(* Instances of ThreadRunner.  Clients and tasks are alike; only the       *)
(* configurations without a temporal property use that.                    *)
(***************************************************************************)
EXTENDS ThreadRunner

Sym == Permutations(Client) \cup Permutations(Task)
=============================================================================
