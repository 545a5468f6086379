------------------------------- MODULE RWLock -------------------------------
(***************************************************************************)
(* What a reader/writer lock promises: one writer, or any number of        *)
(* readers.                                                                *)
(***************************************************************************)
CONSTANT Thread

VARIABLES writers, readers

rwVars == <<writers, readers>>

Init == writers = {} /\ readers = {}

LockX(t) == /\ writers = {} /\ readers = {}
            /\ writers' = {t}
            /\ UNCHANGED readers

LockS(t) == /\ writers = {} /\ t \notin readers
            /\ readers' = readers \cup {t}
            /\ UNCHANGED writers

UnlockX(t) == /\ t \in writers
              /\ writers' = {}
              /\ UNCHANGED readers

UnlockS(t) == /\ t \in readers
              /\ readers' = readers \ {t}
              /\ UNCHANGED writers

Next == \E t \in Thread : LockX(t) \/ LockS(t) \/ UnlockX(t) \/ UnlockS(t)

Spec == Init /\ [][Next]_rwVars
=============================================================================
