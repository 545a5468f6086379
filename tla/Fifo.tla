-------------------------------- MODULE Fifo --------------------------------
(***************************************************************************)
(* What InterlockedQueue promises: what is taken out is what was put in,   *)
(* in that order, each entry once; and what it does not promise.  A taker  *)
(* that finds nothing takes a second look, and if a block full of entries  *)
(* was put in between, it throws these away.                               *)
(***************************************************************************)
EXTENDS Sequences, Naturals

CONSTANTS Entry, BlockSize

VARIABLES
  queue,     \* entries put in and not taken out
  taken,     \* the last entry taken out, or none, as <<e>> or <<>>
  found      \* the taker has found nothing, and has not looked again

Init == queue = <<>> /\ taken = <<>> /\ found = FALSE

\* An entry put where the taker will look next does it no harm.
Put(e) == queue' = Append(queue, e) /\ (found' => found) /\ UNCHANGED taken

Take ==
  /\ queue # <<>> /\ ~found
  /\ taken' = <<Head(queue)>>
  /\ queue' = Tail(queue)
  /\ UNCHANGED found

FindNothing == queue = <<>> /\ found' = TRUE /\ UNCHANGED <<queue, taken>>

LookAgain == found' = FALSE /\ UNCHANGED <<queue, taken>>

\* All that is in the queue was put in since the taker found nothing.
Lose ==
  /\ found /\ Len(queue) >= BlockSize
  /\ queue' = SubSeq(queue, BlockSize + 1, Len(queue))
  /\ found' = FALSE
  /\ UNCHANGED taken

Next == Take \/ FindNothing \/ LookAgain \/ Lose \/ \E e \in Entry : Put(e)

Spec == Init /\ [][Next]_<<queue, taken, found>>
=============================================================================
