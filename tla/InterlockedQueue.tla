-------------------------- MODULE InterlockedQueue --------------------------
(***************************************************************************)
(* InterlockedQueue of src/Shared/InterlockedQueue.h: a list of blocks,    *)
(* each a ring of kMaxBlockSize entries.  TP_Pool lets one thread at a     *)
(* time push and one at a time pop, but a Push and a Pop run side by side  *)
(* with no lock between them.                                              *)
(*                                                                         *)
(* A step is one access to what the two share.  Entries are the numbers 1, *)
(* 2, ... in the order they are pushed, blocks are numbered as allocated.  *)
(* Accesses happen in program order, as on x86 (the members are plain).    *)
(***************************************************************************)
EXTENDS Integers, Sequences

CONSTANTS
  kMaxBlockSize,
  MaxPush      \* bound on the number of calls of Push

None == 0

VARIABLES
  pFirstReadBlock, pLastWriteBlock,
  block,       \* every block allocated so far, in order
  freed,       \* those that were deleted
  pusher, popper,
  pushed,      \* calls of Push so far: the entry being pushed
  tmp,         \* _pTmp, or _pPendingDelete
  taken,       \* the last entry returned by Pop, as <<e>>
  wasEmpty,    \* no entry was in the queue when this Pop began
  null         \* the last Pop returned nullptr

vars == <<pFirstReadBlock, pLastWriteBlock, block, freed, pusher, popper, pushed, tmp, taken,
          wasEmpty, null>>
popLocals == <<popper, tmp, taken, null, freed, pFirstReadBlock>>
pushLocals == <<pusher, pushed, pLastWriteBlock>>

\* A new block.  The last field is a ghost: the entries pushed into the blocks before it.
Block(n) == [uLastReadIndex |-> 0, uLastWriteIndex |-> 0, pNextBlock |-> None,
             arrLoopBuffer |-> [i \in 0 .. kMaxBlockSize - 1 |-> None],
             before |-> n]

\* The entries that were ever counted; and those that were in what Pop has come past.
Last == IF block = <<>> THEN 0 ELSE block[Len(block)].before + block[Len(block)].uLastWriteIndex
First == IF pFirstReadBlock = None THEN Last
         ELSE block[pFirstReadBlock].before + block[pFirstReadBlock].uLastReadIndex

Init ==
  /\ pFirstReadBlock = None /\ pLastWriteBlock = None
  /\ block = <<>> /\ freed = {}
  /\ pusher = "idle" /\ popper = "idle"
  /\ pushed = 0 /\ tmp = None /\ taken = <<>>
  /\ wasEmpty = TRUE /\ null = FALSE

IsEmpty(b) == block[b].uLastReadIndex = block[b].uLastWriteIndex

\* Mutant: one entry too late.
IsFullLate(b) == block[b].uLastReadIndex + kMaxBlockSize < block[b].uLastWriteIndex

IsFull(b) == block[b].uLastReadIndex + kMaxBlockSize = block[b].uLastWriteIndex

\* What is in the queue: the unread entries of the blocks that Pop will visit.
Holds(b, n) == block[b].before < n /\ n <= block[b].before + block[b].uLastWriteIndex

Value(n) ==
  LET b == CHOOSE c \in pFirstReadBlock .. Len(block) : Holds(c, n)
  IN  block[b].arrLoopBuffer[(n - 1 - block[b].before) % kMaxBlockSize]

Contents == [i \in 1 .. Last - First |-> Value(First + i)]

-----------------------------------------------------------------------------
(* Push.                                                                   *)

BeginPush ==
  /\ pusher = "idle" /\ pushed < MaxPush
  /\ pushed' = pushed + 1
  /\ pusher' = IF pLastWriteBlock = None THEN "new" ELSE "full"
  /\ UNCHANGED <<pLastWriteBlock, block, popLocals, wasEmpty>>

NewFirst ==
  /\ pusher = "new"
  /\ block' = Append(block, Block(0))
  /\ pLastWriteBlock' = Len(block) + 1
  /\ pusher' = "publish"
  /\ UNCHANGED <<pushed, popLocals, wasEmpty>>

PublishFirst ==
  /\ pusher = "publish"
  /\ pFirstReadBlock' = pLastWriteBlock
  /\ pusher' = "full"
  /\ UNCHANGED <<pLastWriteBlock, block, freed, pushed, popper, tmp, taken, wasEmpty, null>>

TestFull ==
  /\ pusher = "full"
  /\ pusher' = IF IsFull(pLastWriteBlock) THEN "link" ELSE "write"
  /\ UNCHANGED <<pLastWriteBlock, block, pushed, popLocals, wasEmpty>>

Link ==
  /\ pusher = "link"
  /\ block' = Append([block EXCEPT ![pLastWriteBlock].pNextBlock = Len(block) + 1],
                      Block(Last))
  /\ pusher' = "move"
  /\ UNCHANGED <<pLastWriteBlock, pushed, popLocals, wasEmpty>>

\* pLastWriteBlock = _pNextBlock
MoveOn ==
  /\ pusher = "move"
  /\ pLastWriteBlock' = Len(block)
  /\ pusher' = "write"
  /\ UNCHANGED <<block, pushed, popLocals, wasEmpty>>

Write ==
  /\ pusher = "write"
  /\ LET b == pLastWriteBlock IN
       block' = [block EXCEPT ![b].arrLoopBuffer[block[b].uLastWriteIndex % kMaxBlockSize] = pushed]
  /\ pusher' = "count"
  /\ UNCHANGED <<pLastWriteBlock, pushed, popLocals, wasEmpty>>

CountEntry ==
  /\ pusher = "count"
  /\ block' = [block EXCEPT ![pLastWriteBlock].uLastWriteIndex = @ + 1]
  /\ pusher' = "idle"
  /\ UNCHANGED <<pLastWriteBlock, pushed, popLocals, wasEmpty>>

-----------------------------------------------------------------------------
(* Pop.                                                                    *)

BeginPop ==
  /\ popper = "idle"
  /\ null' = (pFirstReadBlock = None)
  /\ popper' = IF pFirstReadBlock = None THEN "idle" ELSE "empty"
  /\ wasEmpty' = (Contents = <<>>)
  /\ UNCHANGED <<pushLocals, block, freed, tmp, taken, pFirstReadBlock>>

TestEmpty ==
  /\ popper = "empty"
  /\ popper' = IF IsEmpty(pFirstReadBlock) THEN "next" ELSE "read"
  /\ UNCHANGED <<pushLocals, block, freed, tmp, taken, wasEmpty, null, pFirstReadBlock>>

Read ==
  /\ popper = "read"
  /\ LET b == block[pFirstReadBlock] IN tmp' = b.arrLoopBuffer[b.uLastReadIndex % kMaxBlockSize]
  /\ popper' = "advance"
  /\ UNCHANGED <<pushLocals, block, freed, taken, wasEmpty, null, pFirstReadBlock>>

Advance ==
  /\ popper = "advance"
  /\ block' = [block EXCEPT ![pFirstReadBlock].uLastReadIndex = @ + 1]
  /\ taken' = <<tmp>>
  /\ tmp' = None
  /\ popper' = "idle"
  /\ UNCHANGED <<pushLocals, freed, wasEmpty, null, pFirstReadBlock>>

\* Mutant: an empty block is taken for an empty queue.
TestNextNever ==
  /\ popper = "next"
  /\ null' = TRUE
  /\ popper' = "idle"
  /\ UNCHANGED <<pushLocals, block, freed, tmp, taken, wasEmpty, pFirstReadBlock>>

\* No next block: the queue is empty.  Otherwise go on with the next block, and
\* delete this one even if Push has filled it since TestEmpty.
TestNext ==
  /\ popper = "next"
  /\ LET next == block[pFirstReadBlock].pNextBlock IN
       IF next = None
         THEN /\ popper' = "idle" /\ null' = TRUE
              /\ UNCHANGED <<tmp, pFirstReadBlock>>
         ELSE /\ popper' = "delete"
              /\ tmp' = pFirstReadBlock
              /\ pFirstReadBlock' = next
              /\ UNCHANGED null
  /\ UNCHANGED <<pushLocals, block, freed, taken, wasEmpty>>

Delete ==
  /\ popper = "delete"
  /\ freed' = freed \cup {tmp}
  /\ tmp' = None
  /\ popper' = "empty"
  /\ UNCHANGED <<pushLocals, block, taken, wasEmpty, null, pFirstReadBlock>>

-----------------------------------------------------------------------------
Push == BeginPush \/ NewFirst \/ PublishFirst \/ TestFull \/ Link \/ MoveOn \/ Write \/ CountEntry

Pop == BeginPop \/ TestEmpty \/ Read \/ Advance \/ TestNext \/ Delete

Next == Push \/ Pop

Spec == Init /\ [][Next]_vars

-----------------------------------------------------------------------------
(* Properties.                                                             *)

\* Every variable keeps to its range; no block holds more than its buffer.
TypeOK ==
  /\ pFirstReadBlock \in 0 .. Len(block) /\ pLastWriteBlock \in 0 .. Len(block)
  /\ \A b \in 1 .. Len(block) :
       /\ block[b].uLastReadIndex \in Nat
       /\ block[b].uLastWriteIndex - block[b].uLastReadIndex \in 0 .. kMaxBlockSize
       /\ block[b].pNextBlock \in {None, b + 1}
       /\ block[b].arrLoopBuffer \in [0 .. kMaxBlockSize - 1 -> 0 .. MaxPush]
  /\ freed \subseteq 1 .. Len(block)
  /\ pusher \in {"idle", "new", "publish", "full", "link", "move", "write", "count"}
  /\ popper \in {"idle", "empty", "read", "advance", "next", "delete"}
  /\ pushed \in 0 .. MaxPush /\ tmp \in 0 .. MaxPush
  /\ wasEmpty \in BOOLEAN /\ null \in BOOLEAN

\* Neither thread uses a block that Pop has deleted, though Pop may delete the
\* very block to which Push has just linked the next one.
BlocksLive ==
  /\ pFirstReadBlock \notin freed
  /\ pusher \in {"full", "link", "write", "count"} => pLastWriteBlock \notin freed

\* Pop returns nullptr only if the queue was empty when the call began: it does
\* not overlook an entry in a later block, as a runner that leaves relies on.
NullOnlyWhenEmpty == null => wasEmpty

\* Pop found its block empty and no other block has an entry; or had none, and Push
\* has put some into the block that Pop is about to leave.
FoundNothing == popper = "next" /\ (First = Last \/ ~IsEmpty(pFirstReadBlock))

\* When Push and Pop meet at the ends of a block, every entry comes out once, in
\* order: none is repeated or overtaken, and none is lost but a whole block of them
\* that arrived while one Pop stood between finding nothing and looking further.
F == INSTANCE Fifo WITH Entry <- 1 .. MaxPush, BlockSize <- kMaxBlockSize,
                        queue <- Contents, found <- FoundNothing
ImplementsFifo == F!Spec
=============================================================================
