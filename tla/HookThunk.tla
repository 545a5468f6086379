------------------------------ MODULE HookThunk ------------------------------
(***************************************************************************)
(* HookThunkData: blocks of memory for small pieces of code, cut from      *)
(* buffers of 64K.  Each image has a list of free blocks, a stack without  *)
(* a lock.  A block goes to the list of the image that gives it back,      *)
(* which may be another than the one it came from, so that the blocks of a *)
(* buffer are spread over the images; the count in the first block says    *)
(* when the last of them is gone.                                          *)
(*                                                                         *)
(* A step is one access to a list's head, to the link of a block that      *)
(* others can reach, or to a count.  The stack has an ABA hazard: between  *)
(* a pop's look at the link of the first block and its compare-exchange,   *)
(* the block may be taken, given back, and be the first again; or its      *)
(* buffer may be gone before the look.  Behaviours end there (broken).     *)
(***************************************************************************)
EXTENDS Naturals, FiniteSets

CONSTANTS
  Image, Thread, Buffer,
  Blocks,     \* kAllocBufferBytesCount / sizeof(HookThunkData)
  Code,       \* what a link reads as while there is code in its place
  Null

ASSUME BufferAssumption ==
  /\ IsFiniteSet(Thread)
  /\ Blocks \in Nat /\ Blocks > 1
  /\ {Null, Code} \cap (Buffer \X (0 .. Blocks - 1)) = {} /\ Null # Code

VARIABLES
  pFreeRoot,   \* of each image
  pNext, uRef, \* of each block; the link is in the place of the code
  mapped,      \* the buffers there are
  used,        \* the blocks the program has
  pc, at,      \* where each thread is, and in which image
  pLast,       \* what it has read of pFreeRoot
  pLink,       \* and of the link there
  pBlock,      \* the block it allocates, frees or releases
  touched,     \* a link or a count of a buffer that is gone has been used
  broken

memory == <<pNext, uRef, mapped>>
locals == <<pc, at, pLast, pLink, pBlock>>
vars == <<pFreeRoot, memory, used, locals, touched, broken>>

Block == Buffer \X (0 .. Blocks - 1)
First(b) == <<b[1], 0>>

Init ==
  /\ pFreeRoot = [i \in Image |-> Null]
  /\ pNext = [b \in Block |-> Null] /\ uRef = [b \in Block |-> 0]
  /\ mapped = {} /\ used = {}
  /\ pc = [t \in Thread |-> "idle"]
  /\ at = [t \in Thread |-> Null]
  /\ pLast = [t \in Thread |-> Null] /\ pLink = pLast /\ pBlock = pLast
  /\ touched = FALSE /\ broken = FALSE

Set(f, t, v) == [f EXCEPT ![t] = v]
Goto(t, where) == pc' = Set(pc, t, where)
Return(t) ==
  /\ Goto(t, "idle") /\ at' = Set(at, t, Null)
  /\ pLast' = Set(pLast, t, Null) /\ pLink' = Set(pLink, t, Null) /\ pBlock' = Set(pBlock, t, Null)
Touch(b) == touched' = (touched \/ b[1] \notin mapped)

-----------------------------------------------------------------------------
(* Alloc.                                                                  *)

\* Nobody is inside an image that is being unloaded.
Loaded(i) == \A t \in Thread : at[t] = i => pc[t] \notin {"freeAll", "releaseFirst"}

Look(t, i) ==
  /\ pLast' = Set(pLast, t, pFreeRoot[i]) /\ pLink' = Set(pLink, t, Null)
  /\ Goto(t, IF pFreeRoot[i] = Null THEN "grow" ELSE "link")

Alloc(t, i) ==
  /\ pc[t] = "idle" /\ Loaded(i)
  /\ at' = Set(at, t, i)
  /\ Look(t, i)
  /\ UNCHANGED <<pFreeRoot, memory, used, pBlock, touched, broken>>

ReadLink(t) ==
  /\ pc[t] = "link"
  /\ pLink' = Set(pLink, t, pNext[pLast[t]])
  /\ broken' = (pLast[t][1] \notin mapped)
  /\ Goto(t, "pop")
  /\ UNCHANGED <<pFreeRoot, memory, used, at, pLast, pBlock, touched>>

\* Mutant: the new head is stored.
PopPlain(t) ==
  /\ pc[t] = "pop"
  /\ LET b == pLast[t] IN
       /\ pFreeRoot' = Set(pFreeRoot, at[t], pLink[t])
       /\ pNext' = Set(pNext, b, Code)
       /\ uRef' = [uRef EXCEPT ![b] = @ + 1]
       /\ used' = used \cup {b}
       /\ Touch(b)
  /\ Return(t)
  /\ UNCHANGED <<mapped, broken>>

\* The compare-exchange; with a success the block is this thread's alone, and the program's code goes there.
Pop(t) ==
  /\ pc[t] = "pop"
  /\ IF pFreeRoot[at[t]] = pLast[t]
     THEN LET b == pLast[t] IN
            /\ pFreeRoot' = Set(pFreeRoot, at[t], pLink[t])
            /\ broken' = (pLink[t] # pNext[b])
            /\ pNext' = Set(pNext, b, Code)
            /\ uRef' = [uRef EXCEPT ![b] = @ + 1]
            /\ used' = used \cup {b}
            /\ Touch(b)
            /\ Return(t)
     ELSE Look(t, at[t]) /\ UNCHANGED <<pFreeRoot, pNext, uRef, used, at, pBlock, touched, broken>>
  /\ UNCHANGED mapped

\* A new buffer: its first block is the caller's, the others a list of their own.  VirtualAlloc may fail.
Grow(t) ==
  /\ pc[t] = "grow"
  /\ \/ \E u \in Buffer \ mapped :
          /\ mapped' = mapped \cup {u}
          /\ uRef' = [b \in Block |-> IF b[1] # u THEN uRef[b] ELSE IF b[2] = 0 THEN Blocks + 1 ELSE 1]
          /\ pNext' = [b \in Block |-> CASE b = <<u, 0>> -> Code
                                        [] b[1] = u /\ b[2] \in 1 .. Blocks - 2 -> <<u, b[2] + 1>>
                                        [] OTHER -> pNext[b]]
          /\ pBlock' = Set(pBlock, t, <<u, 0>>)
          /\ Goto(t, "pushRest")
          /\ UNCHANGED <<at, pLast, pLink>>
     \/ Return(t) /\ UNCHANGED memory
  /\ UNCHANGED <<pFreeRoot, used, touched, broken>>

\* Put what begins with b and ends with e before an image's list.
Push(i, b, e) ==
  /\ pNext' = Set(pNext, e, pFreeRoot[i])
  /\ pFreeRoot' = Set(pFreeRoot, i, b)

PushRest(t) ==
  /\ pc[t] = "pushRest"
  /\ LET u == pBlock[t][1] IN Push(at[t], <<u, 1>>, <<u, Blocks - 1>>)
  /\ used' = used \cup {pBlock[t]}
  /\ Return(t)
  /\ UNCHANGED <<uRef, mapped, touched, broken>>

-----------------------------------------------------------------------------
(* Free, called by whoever has the block, in any image.                    *)

\* Take one from a block's count; the first block's last one is the buffer's.
Decrement(b) ==
  /\ uRef' = [uRef EXCEPT ![b] = @ - 1]
  /\ mapped' = IF b = First(b) /\ uRef[b] = 1 THEN mapped \ {b[1]} ELSE mapped
  /\ Touch(b)

Release(t, b, then) ==
  /\ Decrement(b)
  /\ Goto(t, IF uRef[b] = 1 /\ b # First(b) THEN "releaseFirst" ELSE then)

\* The code is overwritten, and with it the link.
Free(t, i) ==
  /\ pc[t] = "idle" /\ Loaded(i)
  /\ \E b \in used :
       /\ used' = used \ {b}
       /\ pBlock' = Set(pBlock, t, b)
       /\ pNext' = Set(pNext, b, Null)
       /\ Release(t, b, IF uRef[b] > 1 THEN "push" ELSE "freeAll")
  /\ at' = Set(at, t, i)
  /\ UNCHANGED <<pFreeRoot, pLast, pLink, broken>>

PushFreed(t) ==
  /\ pc[t] = "push"
  /\ Push(at[t], pBlock[t], pBlock[t])
  /\ Touch(pBlock[t])
  /\ Return(t)
  /\ UNCHANGED <<uRef, mapped, used, broken>>

-----------------------------------------------------------------------------
(* FreeAll, when an image is unloaded with nobody in it.  Unloading goes   *)
(* under the loader's lock.  The image may be loaded again.                *)

FreeAll(t, i) ==
  /\ \A s \in Thread : pc[s] # "idle" => at[s] # i /\ pc[s] \notin {"freeAll", "releaseFirst"}
  /\ pc[t] = "idle"
  /\ pLast' = Set(pLast, t, pFreeRoot[i])
  /\ pFreeRoot' = Set(pFreeRoot, i, Null)
  /\ at' = Set(at, t, i)
  /\ Goto(t, "freeAll")
  /\ UNCHANGED <<memory, used, pLink, pBlock, touched, broken>>

FreeItem(t) ==
  /\ pc[t] = "freeAll" /\ pLast[t] # Null
  /\ pBlock' = Set(pBlock, t, pLast[t])
  /\ pLast' = Set(pLast, t, pNext[pLast[t]])
  /\ Release(t, pLast[t], "freeAll")
  /\ UNCHANGED <<pFreeRoot, pNext, used, at, pLink, broken>>

\* Mutant: the last reference of a block is given up, and the buffer's kept.
ReleaseFirstNever(t) ==
  /\ pc[t] = "releaseFirst"
  /\ Goto(t, "freeAll")
  /\ UNCHANGED <<pFreeRoot, memory, used, at, pLast, pLink, pBlock, touched, broken>>

\* The last reference of a block is one to its buffer.
ReleaseFirst(t) ==
  /\ pc[t] = "releaseFirst"
  /\ Decrement(First(pBlock[t]))
  /\ Goto(t, "freeAll")
  /\ UNCHANGED <<pFreeRoot, pNext, used, at, pLast, pLink, pBlock, broken>>

Done(t) ==
  /\ pc[t] = "freeAll" /\ pLast[t] = Null
  /\ Return(t)
  /\ UNCHANGED <<pFreeRoot, memory, used, touched, broken>>

Begin(t) == \E i \in Image : Alloc(t, i) \/ Free(t, i) \/ FreeAll(t, i)
Go(t) ==
  \/ ReadLink(t) \/ Pop(t) \/ Grow(t) \/ PushRest(t)
  \/ PushFreed(t)
  \/ FreeItem(t) \/ ReleaseFirst(t) \/ Done(t)

Next == ~broken /\ \E t \in Thread : Begin(t) \/ Go(t)

Spec == Init /\ [][Next]_vars

-----------------------------------------------------------------------------
(* Properties.                                                             *)

TypeOK ==
  /\ pFreeRoot \in [Image -> Block \cup {Null, Code}]
  /\ pNext \in [Block -> Block \cup {Null, Code}] /\ uRef \in [Block -> Nat]
  /\ mapped \subseteq Buffer /\ used \subseteq Block
  /\ pc \in [Thread -> {"idle", "link", "pop", "grow", "pushRest", "push",
                        "freeAll", "releaseFirst"}]
  /\ at \in [Thread -> Image \cup {Null}]
  /\ pLast \in [Thread -> Block \cup {Null}] /\ pLink \in [Thread -> Block \cup {Null, Code}]
  /\ pBlock \in [Thread -> Block \cup {Null}]
  /\ touched \in BOOLEAN /\ broken \in BOOLEAN

\* The blocks of a list: the least set that has its first and, with a block, the one its link names.
Closed(link, S) == \A c \in S : link[c] \in Block => link[c] \in S
Chain(link, b) == {c \in Block : \A S \in SUBSET Block : (b \in Block => b \in S) /\ Closed(link, S) => c \in S}
Listed(b) == Chain(pNext, b)

\* The blocks a thread has taken out of everybody's reach.
Held(t) ==
  CASE pc[t] = "pushRest" -> {b \in Block : b[1] = pBlock[t][1]}
    [] pc[t] = "push" -> {pBlock[t]}
    [] pc[t] \in {"freeAll", "releaseFirst"} -> Listed(pLast[t])
    [] OTHER -> {}

Living ==
  {b \in Block : \/ b \in used
                 \/ \E i \in Image : b \in Listed(pFreeRoot[i])
                 \/ \E t \in Thread : b \in Held(t)}

\* The hazard itself: it does happen.
NoAba == ~broken

\* A block is in one place: given out, free in one image, or in the hands of one thread; and its
\* buffer is there.  Two images, two threads and an unloading at a time do not change that
\* (HookThunk.h:35-48, 94-104).
OnePlace ==
  ~broken =>
    /\ \A i, j \in Image : i # j => Listed(pFreeRoot[i]) \cap Listed(pFreeRoot[j]) = {}
    /\ \A i \in Image, t \in Thread : Listed(pFreeRoot[i]) \cap (Held(t) \cup used) = {}
    /\ \A s, t \in Thread : s # t => Held(s) \cap Held(t) = {}
    /\ \A t \in Thread : Held(t) \cap used = {}
    /\ \A b \in Living : b[1] \in mapped

\* A buffer is given back with the last of its blocks: neither before, while one is given out,
\* free in some image or about to be, nor never; and nothing is done with one that is gone,
\* FreeAll's walk over its list included (HookThunk.h:56, 108-138).
BuffersKept ==
  ~broken =>
    /\ ~touched
    /\ \A u \in mapped :
         uRef[<<u, 0>>] =
           Cardinality({b \in Living : b[1] = u})
           + Cardinality({b \in used : b = <<u, 0>>})
           + Cardinality({t \in Thread : pc[t] = "pushRest" /\ pBlock[t] = <<u, 0>>})
           + Cardinality({t \in Thread : pc[t] = "releaseFirst" /\ pBlock[t][1] = u})
=============================================================================
