--------------------------------- MODULE Fls ---------------------------------
(***************************************************************************)
(* Fiber-local storage as YY-Thunks supplies it to Windows XP: one index,  *)
(* the threads that set a value for it and exit, and a library that        *)
(* allocates and frees the index.                                          *)
(*                                                                         *)
(* A thread's FlsDataBlock holds a node per index; nodes with a value are  *)
(* on the index's list, a doubly linked one behind Root, and each one on   *)
(* the list holds a reference to its block.  The list's lock is a bit next *)
(* to the one that says the index is in use.  A step is one access to      *)
(* those bits, or what a thread does between two of them.  A program does  *)
(* not begin to set a value of an index that it has begun to free.         *)
(***************************************************************************)
EXTENDS Naturals, FiniteSets

CONSTANTS Thread, Root, Null   \* Root stands for the index's Root, and Null for no node

VARIABLES
  used, locked,   \* fFlags of the index: TlsUsedBitIndex and DataLockBitIndex
  pfnCallback,    \* whether FlsAlloc was given a callback
  allocated,      \* the bit of the index in s_FlsIndexArrayBitMap
  node,           \* FlsData of each thread and, at Root, the head of the list
  block,          \* s_pFlsDataBlock: whether the thread has an FlsDataBlock
  uRef,           \* references to it
  pc,             \* where each thread is, and the library at Root
  item,           \* the node FlsFree has reached
  owed,           \* what the value a thread set last is owed: a call of the callback
  broken          \* the lock was reset under a thread that held it, or the index
                  \* allocated anew under an exiting thread that had chosen it

bits == <<used, locked, pfnCallback, allocated>>
refs == <<block, uRef>>
vars == <<bits, node, refs, pc, item, owed, broken>>

Free == [next |-> Null, prev |-> Null, data |-> FALSE]

Init ==
  /\ used = FALSE /\ locked = FALSE /\ pfnCallback = FALSE /\ allocated = FALSE
  /\ node = [t \in Thread \cup {Root} |-> Free]
  /\ block = [t \in Thread |-> FALSE]
  /\ uRef = [t \in Thread |-> 0]
  /\ pc = [t \in Thread \cup {Root} |-> IF t = Root THEN "idle" ELSE "running"]
  /\ item = Null
  /\ owed = [t \in Thread |-> "nothing"]
  /\ broken = FALSE

Goto(t, where) == pc' = [pc EXCEPT ![t] = where]
Release(t) == uRef' = [uRef EXCEPT ![t] = @ - 1] /\ UNCHANGED block

\* The callback, if there is one and the thread has a value to call it with.
CallBack(t, pfn) ==
  owed' = [owed EXCEPT ![t] = CASE ~node[t].data -> @
                                [] node[t].data /\ ~pfn -> "nothing"
                                [] node[t].data /\ pfn -> IF @ = "call" THEN "nothing" ELSE "called twice"]

-----------------------------------------------------------------------------
(* FlsAlloc.                                                               *)

FlsAlloc ==
  /\ pc[Root] = "idle" /\ ~allocated
  /\ allocated' = TRUE /\ used' = TRUE /\ locked' = FALSE
  /\ pfnCallback' \in BOOLEAN
  /\ node' = [node EXCEPT ![Root].next = Null]
  /\ broken' = (broken \/ \E t \in Thread : pc[t] = "exitLock")
  /\ UNCHANGED <<refs, pc, item, owed>>

-----------------------------------------------------------------------------
(* FlsSetValue.                                                            *)

\* A node that is on the list: the value is exchanged.
SetAgain(t) ==
  /\ pc[t] = "running" /\ used /\ node[t].prev # Null
  /\ \E data \in BOOLEAN :
       /\ node' = [node EXCEPT ![t].data = data]
       /\ owed' = [owed EXCEPT ![t] = IF data THEN "call" ELSE "nothing"]
  /\ UNCHANGED <<bits, refs, pc, item, broken>>

\* The first value: the block, if there is none yet, and a reference for the list.
SetFirst(t) ==
  /\ pc[t] = "running" /\ used /\ node[t].prev = Null
  /\ uRef' = [uRef EXCEPT ![t] = IF block[t] THEN @ + 1 ELSE 2]
  /\ block' = [block EXCEPT ![t] = TRUE]
  /\ Goto(t, "setLock")
  /\ UNCHANGED <<bits, node, item, owed, broken>>

\* Take the lock, unless the index is not in use any more.
Lock(t, at, then, otherwise) ==
  /\ pc[t] = at
  /\ IF used THEN ~locked /\ locked' = TRUE /\ Goto(t, then)
             ELSE UNCHANGED locked /\ Goto(t, otherwise)
  /\ UNCHANGED <<used, pfnCallback, allocated, node, item, owed, broken>>

SetLock(t) ==
  /\ Lock(t, "setLock", "setLink", "running")
  /\ IF used THEN UNCHANGED refs ELSE Release(t)

\* Root <--> t <--> the first so far.
SetLink(t) ==
  /\ pc[t] = "setLink"
  /\ LET next == node[Root].next IN
       node' = [n \in DOMAIN node |->
         [next |-> CASE n = Root -> t [] n = t -> next [] n \notin {Root, t} -> node[n].next,
          prev |-> CASE n = t -> Root [] n = next -> t [] n \notin {t, next} -> node[n].prev,
          data |-> IF n = t THEN TRUE ELSE node[n].data]]
  /\ owed' = [owed EXCEPT ![t] = "call"]
  /\ Goto(t, "setUnlock")
  /\ UNCHANGED <<bits, refs, item, broken>>

Unlock(t, at, then) ==
  /\ pc[t] = at
  /\ locked' = FALSE
  /\ Goto(t, then)
  /\ UNCHANGED <<used, pfnCallback, allocated, node, refs, item, owed, broken>>

SetUnlock(t) == Unlock(t, "setUnlock", "running")

-----------------------------------------------------------------------------
(* ThreadDetachCallback.                                                   *)

\* A node without a value is left on the list.
Exit(t) ==
  /\ pc[t] = "running"
  /\ Goto(t, CASE ~block[t] -> "gone"
               [] block[t] /\ node[t].data /\ pfnCallback -> "exitLock"
               [] block[t] /\ ~(node[t].data /\ pfnCallback) -> "exitRelease")
  /\ UNCHANGED <<bits, node, refs, item, owed, broken>>

ExitLock(t) == Lock(t, "exitLock", "exitUnlink", "exitRelease") /\ UNCHANGED refs

ExitUnlink(t) ==
  /\ pc[t] = "exitUnlink"
  /\ node' = [n \in DOMAIN node |->
       [node[n] EXCEPT !.next = IF n = t THEN Null ELSE IF n = node[t].prev THEN node[t].next ELSE @,
                       !.prev = IF n = t THEN Null ELSE IF n = node[t].next THEN node[t].prev ELSE @]]
  /\ Goto(t, "exitUnlock")
  /\ UNCHANGED <<bits, refs, item, owed, broken>>

ExitUnlock(t) == Unlock(t, "exitUnlock", "exitCall")

\* The value is exchanged for none, so that nobody else calls back with it.
ExitCall(t) ==
  /\ pc[t] = "exitCall"
  /\ CallBack(t, TRUE)
  /\ node' = [node EXCEPT ![t].data = FALSE]
  /\ Release(t)
  /\ Goto(t, "exitRelease")
  /\ UNCHANGED <<bits, item, broken>>

ExitRelease(t) ==
  /\ pc[t] = "exitRelease"
  /\ uRef' = [uRef EXCEPT ![t] = @ - 1]
  /\ block' = [block EXCEPT ![t] = FALSE]
  /\ Goto(t, "gone")
  /\ UNCHANGED <<bits, node, item, owed, broken>>

-----------------------------------------------------------------------------
(* FlsFree.                                                                *)

\* Mutant: does not mark the index first.
FlsFreeUnmarked ==
  /\ pc[Root] = "idle" /\ used
  /\ Goto(Root, "freeLock")
  /\ UNCHANGED <<bits, node, refs, item, owed, broken>>

FlsFree ==
  /\ pc[Root] = "idle" /\ used
  /\ used' = FALSE
  /\ Goto(Root, "freeLock")
  /\ UNCHANGED <<locked, pfnCallback, allocated, node, refs, item, owed, broken>>

\* Wait for the lock by resetting it, under the thread that holds it if there is one.
FreeLock ==
  /\ pc[Root] = "freeLock"
  /\ locked' = FALSE
  /\ broken' = (broken \/ locked)
  /\ Goto(Root, IF locked THEN "freeLock" ELSE "freeTake")
  /\ UNCHANGED <<used, pfnCallback, allocated, node, refs, item, owed>>

FreeTake ==
  /\ pc[Root] = "freeTake"
  /\ item' = node[Root].next
  /\ node' = [node EXCEPT ![Root].next = Null]
  /\ Goto(Root, "freeCall")
  /\ UNCHANGED <<bits, refs, owed, broken>>

\* Mutant: releases the block of a node only if it has a value.
FreeCallIfSet ==
  /\ pc[Root] = "freeCall" /\ item # Null
  /\ item' = node[item].next
  /\ CallBack(item, pfnCallback)
  /\ node' = [node EXCEPT ![item] = Free]
  /\ IF node[item].data THEN Release(item) ELSE UNCHANGED refs
  /\ UNCHANGED <<bits, pc, broken>>

\* The next node: unlink it, call back with its value, clear that, release its block.
FreeCall ==
  /\ pc[Root] = "freeCall" /\ item # Null
  /\ item' = node[item].next
  /\ CallBack(item, pfnCallback)
  /\ node' = [node EXCEPT ![item] = Free]
  /\ Release(item)
  /\ UNCHANGED <<bits, pc, broken>>

FreeDone ==
  /\ pc[Root] = "freeCall" /\ item = Null
  /\ allocated' = FALSE
  /\ Goto(Root, "idle")
  /\ UNCHANGED <<used, locked, pfnCallback, node, refs, item, owed, broken>>

-----------------------------------------------------------------------------
Next ==
  \/ FlsAlloc \/ FlsFree \/ FreeLock \/ FreeTake \/ FreeCall \/ FreeDone
  \/ \E t \in Thread :
       \/ SetAgain(t) \/ SetFirst(t) \/ SetLock(t) \/ SetLink(t) \/ SetUnlock(t)
       \/ Exit(t) \/ ExitLock(t) \/ ExitUnlink(t) \/ ExitUnlock(t) \/ ExitCall(t) \/ ExitRelease(t)

Spec == Init /\ [][Next]_vars

-----------------------------------------------------------------------------
(* Properties.                                                             *)

\* Who holds a reference to a thread's block: the thread itself, and the list, or
\* the caller that is about to link the node or has unlinked it.
Linking == {"setLock", "setLink", "exitUnlock", "exitCall"}
Holders(t) == {h \in {"self", "list"} :
                IF h = "self" THEN block[t] ELSE node[t].prev # Null \/ pc[t] \in Linking}

\* A thread's block lives as long as the thread or the list of an index still
\* refers to it, and no longer, whoever comes first, the exit of the thread or
\* FlsFree (FlsDataBlock::AddRef and Release).
BlocksCounted == ~broken => \A t \in Thread : uRef[t] = Cardinality(Holders(t))

\* FlsFree and an exiting thread together call back with each value once: never
\* twice, and once when the index is free and no thread is in a call about it.
CalledBackOnce ==
  ~broken =>
    /\ \A t \in Thread : owed[t] # "called twice"
    /\ ~allocated => \A t \in Thread : owed[t] = "call" => pc[t] \in {"exitUnlock", "exitCall"}
=============================================================================
