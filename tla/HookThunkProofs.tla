--------------------------- MODULE HookThunkProofs ---------------------------
(***************************************************************************)
(* Proofs about HookThunk, for any number of images, threads and buffers,  *)
(* and buffers of any size: until an ABA a block is in one place, and a    *)
(* buffer is kept exactly as long as a block of it is.                     *)
(***************************************************************************)
EXTENDS HookThunk, Integers, FiniteSetTheorems, WellFoundedInduction, TLAPS

USE BufferAssumption

-----------------------------------------------------------------------------
(* The inductive invariant.                                                *)

Typing ==
  /\ pFreeRoot \in [Image -> Block \cup {Null}]
  /\ pNext \in [Block -> Block \cup {Null, Code}] /\ uRef \in [Block -> Int]
  /\ mapped \subseteq Buffer /\ used \subseteq Block
  /\ pc \in [Thread -> {"idle", "link", "pop", "grow", "pushRest", "push",
                        "freeAll", "releaseFirst"}]
  /\ at \in [Thread -> Image \cup {Null}]
  /\ pLast \in [Thread -> Block \cup {Null}] /\ pLink \in [Thread -> Block \cup {Null, Code}]
  /\ pBlock \in [Thread -> Block \cup {Null}]
  /\ touched = FALSE

\* What a thread holds, by its place; the rest of a new buffer is a list, but for its end.
LocalInv ==
  \A t \in Thread :
    /\ pc[t] # "idle" => at[t] \in Image
    /\ pc[t] \in {"link", "pop"} => pLast[t] \in Block
    /\ pc[t] \in {"pushRest", "push", "releaseFirst"} => pBlock[t] \in Block
    /\ pc[t] = "pushRest" =>
         /\ pBlock[t] = First(pBlock[t])
         /\ \A k \in 1 .. Blocks - 2 : pNext[<<pBlock[t][1], k>>] = <<pBlock[t][1], k + 1>>
    /\ pc[t] = "releaseFirst" => pBlock[t][1] \in mapped

\* A list ends with Null and never comes back to a block.
Proper(link, b) ==
  \A c \in Chain(link, b) : link[c] \in Block \cup {Null} /\ c \notin Chain(link, link[c])
ListsProper ==
  /\ \A i \in Image : Proper(pNext, pFreeRoot[i])
  /\ \A t \in Thread : pc[t] \in {"freeAll", "releaseFirst"} => Proper(pNext, pLast[t])

Apart ==
  /\ \A i, j \in Image : i # j => Listed(pFreeRoot[i]) \cap Listed(pFreeRoot[j]) = {}
  /\ \A i \in Image, t \in Thread : Listed(pFreeRoot[i]) \cap (Held(t) \cup used) = {}
  /\ \A s, t \in Thread : s # t => Held(s) \cap Held(t) = {}
  /\ \A t \in Thread : Held(t) \cap used = {}

LivingMapped == \A b \in Living : b[1] \in mapped

\* The count of a block that is not the first: one for the list, one for the program.
BlocksCounted == \A b \in Living : b # First(b) => uRef[b] = IF b \in used THEN 2 ELSE 1

\* The count of a buffer: its living blocks, its first block's use, and who is in between.
Of(u) == {b \in Living : b[1] = u}
FirstUsed(u) == {b \in used : b = <<u, 0>>}
Pushing(u) == {t \in Thread : pc[t] = "pushRest" /\ pBlock[t] = <<u, 0>>}
Releasing(u) == {t \in Thread : pc[t] = "releaseFirst" /\ pBlock[t][1] = u}
BuffersCounted ==
  \A u \in mapped :
    uRef[<<u, 0>>] = Cardinality(Of(u)) + Cardinality(FirstUsed(u))
                     + Cardinality(Pushing(u)) + Cardinality(Releasing(u))

Inv == Typing /\ LocalInv /\ ListsProper /\ Apart /\ LivingMapped /\ BlocksCounted /\ BuffersCounted

IInv == ~broken => Inv

-----------------------------------------------------------------------------
(* Chains.                                                                 *)

LEMMA ChainFirst ==
  ASSUME NEW link, NEW b \in Block
  PROVE  b \in Chain(link, b)
BY DEF Chain

LEMMA ChainClosed ==
  ASSUME NEW link, NEW b
  PROVE  Closed(link, Chain(link, b))
BY DEF Chain, Closed

LEMMA ChainLeast ==
  ASSUME NEW link, NEW b, NEW S \in SUBSET Block, b \in Block => b \in S, Closed(link, S)
  PROVE  Chain(link, b) \subseteq S
BY DEF Chain

LEMMA ChainNone ==
  ASSUME NEW link, NEW b, b \notin Block
  PROVE  Chain(link, b) = {}
<1>1. Closed(link, {})
  BY DEF Closed
<1> QED BY <1>1 DEF Chain

LEMMA ChainTail ==
  ASSUME NEW link, NEW b, NEW c \in Chain(link, b)
  PROVE  /\ Chain(link, c) \subseteq Chain(link, b)
         /\ Chain(link, link[c]) \subseteq Chain(link, b)
<1>1. Chain(link, b) \in SUBSET Block
  BY DEF Chain
<1>2. link[c] \in Block => link[c] \in Chain(link, b)
  BY ChainClosed DEF Closed
<1> QED BY <1>1, <1>2, ChainClosed, ChainLeast

LEMMA ChainUnfold ==
  ASSUME NEW link, NEW b \in Block
  PROVE  Chain(link, b) = {b} \cup Chain(link, link[b])
<1> DEFINE S == {b} \cup Chain(link, link[b])
<1>1. S \in SUBSET Block
  BY DEF Chain
<1>2. Closed(link, S)
  <2>1. link[b] \in Block => link[b] \in S
    BY ChainFirst
  <2> QED BY <2>1, ChainClosed DEF Closed
<1>3. Chain(link, b) \subseteq S
  <2> HIDE DEF S
  <2> QED BY <1>1, <1>2, ChainLeast DEF S
<1>4. S \subseteq Chain(link, b)
  BY ChainFirst, ChainTail
<1> QED BY <1>3, <1>4

\* What is not linked from a list can be linked anew.
LEMMA ChainSame ==
  ASSUME NEW link, NEW new, NEW b, \A c \in Chain(link, b) : new[c] = link[c]
  PROVE  Chain(new, b) = Chain(link, b)
<1>1. Chain(link, b) \in SUBSET Block /\ Chain(new, b) \in SUBSET Block
  BY DEF Chain
<1>2. Closed(new, Chain(link, b))
  BY ChainClosed DEF Closed
<1>3. Chain(new, b) \subseteq Chain(link, b)
  BY <1>1, <1>2, ChainFirst, ChainLeast
<1>4. Closed(link, Chain(new, b))
  BY <1>3, ChainClosed DEF Closed
<1> QED BY <1>1, <1>3, <1>4, ChainFirst, ChainLeast

LEMMA ProperSame ==
  ASSUME NEW link, NEW new, NEW b, \A c \in Chain(link, b) : new[c] = link[c], Proper(link, b)
  PROVE  Proper(new, b)
<1>1. Chain(new, b) = Chain(link, b)
  BY ChainSame
<1>2. ASSUME NEW c \in Chain(link, b)
      PROVE  Chain(new, new[c]) = Chain(link, link[c])
  <2>1. Chain(link, link[c]) \subseteq Chain(link, b)
    BY ChainTail
  <2>2. new[c] = link[c]
    OBVIOUS
  <2>3. Chain(new, link[c]) = Chain(link, link[c])
    BY <2>1, ChainSame
  <2> QED BY <2>2, <2>3
<1> QED BY <1>1, <1>2 DEF Proper

LEMMA ProperTail ==
  ASSUME NEW link, NEW b \in Block, Proper(link, b)
  PROVE  /\ Proper(link, link[b]) /\ link[b] \in Block \cup {Null}
         /\ b \notin Chain(link, link[b])
BY ChainUnfold DEF Proper

LEMMA ProperNone ==
  ASSUME NEW link, NEW b, b \notin Block
  PROVE  Proper(link, b)
BY ChainNone DEF Proper

\* One block before a list.
LEMMA ProperJoin ==
  ASSUME NEW link, NEW new, NEW b \in Block, NEW top \in Block \cup {Null}, Proper(link, top),
         b \notin Chain(link, top), new[b] = top, \A c \in Block : c # b => new[c] = link[c]
  PROVE  /\ Chain(new, b) = {b} \cup Chain(link, top)
         /\ Proper(new, b)
<1>1. \A c \in Chain(link, top) : new[c] = link[c]
  BY DEF Chain
<1>2. Chain(new, top) = Chain(link, top) /\ Proper(new, top)
  BY <1>1, ChainSame, ProperSame
<1>3. Chain(new, b) = {b} \cup Chain(new, top)
  BY ChainUnfold
<1> QED BY <1>2, <1>3 DEF Proper

\* A set of numbers has a least one; this stands in for induction.
LEMMA LeastNumber ==
  ASSUME NEW T \in SUBSET Nat, T # {}
  PROVE  \E n \in T : \A m \in T : n <= m
<1>1. PICK n \in T : \A m \in T : ~ (<<m, n>> \in OpToRel(<, Nat))
  BY NatLessThanWellFounded, WFMin
<1>2. \A m \in T : ~ (m < n)
  BY <1>1 DEF OpToRel
<1> QED BY <1>2

\* The rest of a buffer before a list.
From(u, k) == {<<u, j>> : j \in k .. Blocks - 1}

LEMMA ProperRest ==
  ASSUME NEW link, NEW new, NEW u \in Buffer, NEW top \in Block \cup {Null}, Proper(link, top),
         From(u, 1) \cap Chain(link, top) = {},
         \A k \in 1 .. Blocks - 2 : new[<<u, k>>] = <<u, k + 1>>,
         new[<<u, Blocks - 1>>] = top,
         \A c \in Block \ From(u, 1) : new[c] = link[c]
  PROVE  /\ Chain(new, <<u, 1>>) = From(u, 1) \cup Chain(link, top)
         /\ Proper(new, <<u, 1>>)
<1> DEFINE Fine(k) == /\ Chain(new, <<u, k>>) = From(u, k) \cup Chain(link, top)
                      /\ Proper(new, <<u, k>>)
           Bad == {n \in 0 .. Blocks - 2 : ~Fine(Blocks - 1 - n)}
<1>1. Chain(new, top) = Chain(link, top) /\ Proper(new, top)
  <2>1. \A c \in Chain(link, top) : new[c] = link[c]
    BY DEF Chain
  <2> QED BY <2>1, ChainSame, ProperSame
<1>2. ASSUME NEW k \in 1 .. Blocks - 1
      PROVE  <<u, k>> \in Block /\ <<u, k>> \notin Chain(link, top)
  BY DEF From, Block
<1>3. Fine(Blocks - 1)
  <2>1. Blocks - 1 \in 1 .. Blocks - 1
    OBVIOUS
  <2>2. From(u, Blocks - 1) = {<<u, Blocks - 1>>}
    BY <2>1 DEF From
  <2>3. Chain(new, <<u, Blocks - 1>>) = {<<u, Blocks - 1>>} \cup Chain(new, top)
    BY <2>1, <1>2, ChainUnfold
  <2>4. Proper(new, <<u, Blocks - 1>>)
    BY <2>1, <2>3, <1>1, <1>2 DEF Proper
  <2> QED BY <2>2, <2>3, <2>4, <1>1
<1>4. ASSUME NEW k \in 1 .. Blocks - 2, Fine(k + 1)
      PROVE  Fine(k)
  <2>1. <<u, k>> \in Block /\ <<u, k + 1>> \in Block
    BY <1>2
  <2>2. Chain(new, <<u, k>>) = {<<u, k>>} \cup Chain(new, <<u, k + 1>>)
    BY <2>1, ChainUnfold
  <2>3. From(u, k) = {<<u, k>>} \cup From(u, k + 1)
    BY DEF From
  <2>4. <<u, k>> \notin From(u, k + 1)
    BY DEF From
  <2>5. <<u, k>> \notin Chain(link, top)
    BY <1>2
  <2>6. Proper(new, <<u, k>>)
    BY <2>1, <2>2, <2>4, <2>5, <1>4 DEF Proper
  <2> QED BY <2>2, <2>3, <2>6, <1>4
<1>5. Bad = {}
  <2>1. ASSUME NEW n \in Bad, \A m \in Bad : n <= m
        PROVE  FALSE
    <3> DEFINE k == Blocks - 1 - n
    <3>1. n # 0
      BY <1>3
    <3>2. k \in 1 .. Blocks - 2 /\ n - 1 \in 0 .. Blocks - 2 /\ Blocks - 1 - (n - 1) = k + 1
      BY <3>1
    <3>3. n - 1 \notin Bad
      BY <2>1, <3>2
    <3>4. Fine(k + 1)
      BY <3>2, <3>3
    <3> QED BY <3>2, <3>4, <1>4
  <2>2. Bad \in SUBSET Nat
    OBVIOUS
  <2> HIDE DEF Bad
  <2> QED BY <2>1, <2>2, LeastNumber
<1>6. Fine(Blocks - 1 - (Blocks - 2))
  BY <1>5
<1>7. Blocks - 1 - (Blocks - 2) = 1
  OBVIOUS
<1> QED BY <1>6, <1>7

-----------------------------------------------------------------------------
(* What the steps have in common.                                          *)

\* The steps of one thread leave the others where they are.
Others(t) ==
  \A s \in Thread \ {t} :
    /\ pc'[s] = pc[s] /\ at'[s] = at[s]
    /\ pLast'[s] = pLast[s] /\ pLink'[s] = pLink[s] /\ pBlock'[s] = pBlock[s]

LEMMA ListedBlocks ==
  ASSUME Typing, LocalInv
  PROVE  /\ \A b : Listed(b) \subseteq Block
         /\ \A t \in Thread : Held(t) \subseteq Block
         /\ Living \subseteq Block
<1>1. \A b : Listed(b) \subseteq Block
  BY DEF Listed, Chain
<1>2. \A t \in Thread : Held(t) \subseteq Block
  BY <1>1 DEF Held, LocalInv
<1> QED BY <1>1, <1>2 DEF Living

LEMMA OfFinite ==
  ASSUME Typing, LocalInv, NEW u \in Buffer
  PROVE  /\ IsFiniteSet(Of(u)) /\ Cardinality(Of(u)) \in Nat
         /\ IsFiniteSet(FirstUsed(u)) /\ Cardinality(FirstUsed(u)) \in Nat
         /\ IsFiniteSet(Pushing(u)) /\ Cardinality(Pushing(u)) \in Nat
         /\ IsFiniteSet(Releasing(u)) /\ Cardinality(Releasing(u)) \in Nat
<1>1. IsFiniteSet({u} \X (0 .. Blocks - 1))
  <2>1. IsFiniteSet({u}) /\ IsFiniteSet(0 .. Blocks - 1)
    <3>1. 0 \in Int /\ Blocks - 1 \in Int
      OBVIOUS
    <3>2. IsFiniteSet(0 .. Blocks - 1)
      BY <3>1, FS_Interval
    <3> QED BY <3>2, FS_Singleton
  <2> QED BY <2>1, FS_Product
<1>2. Of(u) \subseteq {u} \X (0 .. Blocks - 1) /\ FirstUsed(u) \subseteq {u} \X (0 .. Blocks - 1)
  <2>1. \A b \in Block : b[1] = u => b \in {u} \X (0 .. Blocks - 1)
    BY DEF Block
  <2>2. Of(u) \subseteq Block /\ FirstUsed(u) \subseteq Block
    BY DEF Of, FirstUsed, Living, Typing
  <2> QED BY <2>1, <2>2 DEF Of, FirstUsed
<1>3. Pushing(u) \subseteq Thread /\ Releasing(u) \subseteq Thread
  BY DEF Pushing, Releasing
<1>4. IsFiniteSet(Of(u)) /\ IsFiniteSet(FirstUsed(u)) /\ IsFiniteSet(Pushing(u)) /\ IsFiniteSet(Releasing(u))
  BY <1>1, <1>2, <1>3, FS_Subset
<1> QED BY <1>4, FS_CardinalityType

LEMMA OneJoins ==
  ASSUME NEW S, IsFiniteSet(S), NEW e, e \notin S, NEW T, T = S \cup {e}
  PROVE  Cardinality(T) = Cardinality(S) + 1
<1>1. Cardinality(S \cup {e}) = Cardinality(S) + 1
  BY FS_AddElement
<1> QED BY <1>1, Zenon

LEMMA OneLeaves ==
  ASSUME NEW S, IsFiniteSet(S), NEW e, e \in S, NEW T, T = S \ {e}
  PROVE  Cardinality(T) = Cardinality(S) - 1
<1>1. Cardinality(S \ {e}) = Cardinality(S) - 1
  BY FS_RemoveElement
<1> QED BY <1>1, Zenon

LEMMA SomebodyCounts ==
  ASSUME NEW S, IsFiniteSet(S), NEW e, e \in S
  PROVE  Cardinality(S) \in Nat \ {0}
  BY FS_EmptySet, FS_CardinalityType

\* Blocks change places, and none comes or goes.
LEMMA LivingSame ==
  ASSUME Living' = Living, LivingMapped, mapped' = mapped,
         \A b \in Living : b # First(b) => uRef'[b] = uRef[b] /\ (b \in used' <=> b \in used),
         BlocksCounted
  PROVE  LivingMapped' /\ BlocksCounted' /\ \A u : Of(u)' = Of(u)
BY DEF LivingMapped, BlocksCounted, Of

LEMMA HeldStays ==
  ASSUME NEW s \in Thread, pc'[s] = pc[s], pLast'[s] = pLast[s], pBlock'[s] = pBlock[s],
         pc[s] \in {"freeAll", "releaseFirst"} => Chain(pNext', pLast[s]) = Chain(pNext, pLast[s])
  PROVE  Held(s)' = Held(s)
<1>1. CASE pc[s] \in {"freeAll", "releaseFirst"}
  BY <1>1 DEF Held, Listed
<1>2. CASE pc[s] = "pushRest"
  BY <1>2 DEF Held
<1>3. CASE pc[s] = "push"
  BY <1>3 DEF Held
<1>4. CASE pc[s] \notin {"freeAll", "releaseFirst", "pushRest", "push"}
  BY <1>4 DEF Held
<1> QED BY <1>1, <1>2, <1>3, <1>4

\* A list without any of the blocks that are linked anew.
LEMMA ListKept ==
  ASSUME NEW S, \A c \in Block \ S : pNext'[c] = pNext[c],
         NEW d, Chain(pNext, d) \cap S = {}
  PROVE  /\ Chain(pNext', d) = Chain(pNext, d)
         /\ Proper(pNext, d) => Proper(pNext', d)
<1>1. \A c \in Chain(pNext, d) : pNext'[c] = pNext[c]
  BY DEF Chain
<1> QED BY <1>1, ChainSame, ProperSame

\* And a thread without any of them.
LEMMA ThreadKept ==
  ASSUME Inv, NEW t \in Thread, Others(t), NEW S, \A c \in Block \ S : pNext'[c] = pNext[c],
         NEW s \in Thread, s # t, Held(s) \cap S = {}
  PROVE  /\ Held(s)' = Held(s)
         /\ pc'[s] \in {"freeAll", "releaseFirst"} => Proper(pNext', pLast'[s])
         /\ pc'[s] = "pushRest" =>
              /\ pBlock'[s] = First(pBlock'[s])
              /\ \A k \in 1 .. Blocks - 2 : pNext'[<<pBlock'[s][1], k>>] = <<pBlock'[s][1], k + 1>>
<1>1. pc'[s] = pc[s] /\ pLast'[s] = pLast[s] /\ pBlock'[s] = pBlock[s]
  BY DEF Others
<1>2. pc[s] \in {"freeAll", "releaseFirst"} =>
        Chain(pNext', pLast[s]) = Chain(pNext, pLast[s]) /\ Proper(pNext', pLast[s])
  <2> SUFFICES ASSUME pc[s] \in {"freeAll", "releaseFirst"}
               PROVE  Chain(pNext', pLast[s]) = Chain(pNext, pLast[s]) /\ Proper(pNext', pLast[s])
    OBVIOUS
  <2>1. Chain(pNext, pLast[s]) \cap S = {}
    BY DEF Held, Listed
  <2> QED BY <2>1, ListKept DEF Inv, ListsProper
<1>3. Held(s)' = Held(s)
  BY <1>1, <1>2, HeldStays
<1>4. ASSUME pc[s] = "pushRest", NEW k \in 1 .. Blocks - 2
      PROVE  pNext'[<<pBlock[s][1], k>>] = <<pBlock[s][1], k + 1>>
  <2>1. pBlock[s] \in Block
    BY <1>4 DEF Inv, LocalInv
  <2>2. <<pBlock[s][1], k>> \in Block
    BY <2>1 DEF Block
  <2>3. <<pBlock[s][1], k>> \in Held(s)
    BY <2>2, <1>4 DEF Held
  <2> QED BY <2>2, <2>3, <1>4 DEF Inv, LocalInv
<1> QED BY <1>1, <1>2, <1>3, <1>4 DEF Inv, LocalInv

\* Steps that do nothing to any block.
LEMMA Quiet ==
  ASSUME Inv, Typing', LocalInv', NEW t \in Thread, Others(t),
         UNCHANGED <<pFreeRoot, memory, used>>,
         Held(t) = {}, Held(t)' = {},
         pc[t] \notin {"pushRest", "releaseFirst"}, pc'[t] \notin {"pushRest", "freeAll", "releaseFirst"}
  PROVE  Inv'
<1> USE DEF memory
<1>1. \A b : Listed(b)' = Listed(b)
  BY DEF Listed
<1>2. \A s \in Thread : Held(s)' = Held(s)
  BY <1>1 DEF Held, Others
<1>3. Living' = Living
  BY <1>1, <1>2 DEF Living, Listed
<1>4. ListsProper'
  BY DEF Inv, ListsProper, Others
<1>5. Apart'
  BY <1>1, <1>2 DEF Inv, Apart
<1>6. LivingMapped' /\ BlocksCounted' /\ \A u : Of(u)' = Of(u)
  BY <1>3, LivingSame DEF Inv
<1>7. \A u : FirstUsed(u)' = FirstUsed(u) /\ Pushing(u)' = Pushing(u) /\ Releasing(u)' = Releasing(u)
  BY DEF FirstUsed, Pushing, Releasing, Others
<1>8. BuffersCounted'
  BY <1>6, <1>7 DEF Inv, BuffersCounted
<1> QED BY <1>4, <1>5, <1>6, <1>8 DEF Inv

-----------------------------------------------------------------------------
(* Alloc.                                                                  *)

LEMMA AllocStep ==
  ASSUME Inv, NEW t \in Thread, NEW i \in Image, Alloc(t, i)
  PROVE  Inv'
<1> USE DEF Alloc, Look, Set, Goto, memory
<1>1. Typing' /\ LocalInv'
  BY DEF Inv, Typing, LocalInv
<1>2. Others(t) /\ Held(t) = {} /\ Held(t)' = {}
  BY DEF Inv, Typing, Others, Held
<1> QED BY <1>1, <1>2, Quiet DEF Inv, Typing

LEMMA ReadLinkStep ==
  ASSUME Inv, NEW t \in Thread, ReadLink(t)
  PROVE  Inv'
<1> USE DEF ReadLink, Set, Goto, memory
<1>1. Typing' /\ LocalInv'
  BY DEF Inv, Typing, LocalInv
<1>2. Others(t) /\ Held(t) = {} /\ Held(t)' = {}
  BY DEF Inv, Typing, Others, Held
<1> QED BY <1>1, <1>2, Quiet DEF Inv, Typing

LEMMA PopStep ==
  ASSUME Inv, NEW t \in Thread, Pop(t), ~broken'
  PROVE  Inv'
<1> USE DEF Pop, Set, Goto, Return, memory
<1>1. CASE pFreeRoot[at[t]] # pLast[t]
  <2> USE <1>1 DEF Look
  <2>1. Typing' /\ LocalInv'
    BY DEF Inv, Typing, LocalInv
  <2>2. Others(t) /\ Held(t) = {} /\ Held(t)' = {}
    BY DEF Inv, Typing, Others, Held
  <2> QED BY <2>1, <2>2, Quiet DEF Inv, Typing
<1>2. CASE pFreeRoot[at[t]] = pLast[t]
  <2>1. PICK b \in Block, i \in Image :
          /\ b = pLast[t] /\ i = at[t] /\ pFreeRoot[i] = b
          /\ pFreeRoot' = [pFreeRoot EXCEPT ![i] = pNext[b]]
          /\ pNext' = [pNext EXCEPT ![b] = Code]
          /\ uRef' = [uRef EXCEPT ![b] = @ + 1]
          /\ used' = used \cup {b} /\ mapped' = mapped
          /\ touched' = (touched \/ b[1] \notin mapped)
          /\ pc[t] = "pop" /\ pc'[t] = "idle" /\ Others(t)
    BY <1>2 DEF Inv, Typing, LocalInv, Touch, Others
  <2>2. b \in Listed(pFreeRoot[i]) /\ b \in Living
    BY <2>1, ChainFirst DEF Listed, Living
  <2>3. b[1] \in mapped /\ b \notin used /\ (b # First(b) => uRef[b] = 1)
    BY <2>1, <2>2 DEF Inv, LivingMapped, BlocksCounted, Apart
  <2>4. /\ Proper(pNext, pNext[b]) /\ pNext[b] \in Block \cup {Null}
        /\ b \notin Listed(pNext[b]) /\ Listed(b) = {b} \cup Listed(pNext[b])
    BY <2>1, ProperTail, ChainUnfold DEF Inv, ListsProper, Listed
  <2>5. Typing'
    <3>1. pNext' \in [Block -> Block \cup {Null, Code}] /\ uRef' \in [Block -> Int]
      BY <2>1 DEF Inv, Typing
    <3>2. pFreeRoot' \in [Image -> Block \cup {Null}] /\ used' \subseteq Block /\ touched' = FALSE
      BY <2>1, <2>3, <2>4 DEF Inv, Typing
    <3> QED BY <1>2, <3>1, <3>2 DEF Inv, Typing
  <2>6. LocalInv'
    <3>1. \A s \in Thread : pc[s] = "pushRest" => b \notin Held(s)
      BY <2>1, <2>2 DEF Inv, Apart
    <3>2. ASSUME NEW s \in Thread, pc[s] = "pushRest", NEW k \in 1 .. Blocks - 2
          PROVE  pNext'[<<pBlock[s][1], k>>] = pNext[<<pBlock[s][1], k>>]
      <4>1. pBlock[s] \in Block
        BY <3>2 DEF Inv, LocalInv
      <4>2. <<pBlock[s][1], k>> \in Block
        BY <4>1 DEF Block
      <4>3. <<pBlock[s][1], k>> \in Held(s)
        BY <4>2, <3>2 DEF Held
      <4> QED BY <2>1, <4>2, <4>3, <3>1, <3>2 DEF Inv, Typing
    <3> QED BY <2>1, <3>2 DEF Inv, LocalInv, Others
  <2>7. \A c \in Block : c # b => pNext'[c] = pNext[c]
    BY <2>1 DEF Inv, Typing
  <2>8. \A d : b \notin Chain(pNext, d) => Chain(pNext', d) = Chain(pNext, d)
    <3>1. \A d : Chain(pNext, d) \subseteq Block
      BY DEF Chain
    <3> QED BY <2>7, <3>1, ChainSame
  <2>9. \A j \in Image : Listed(pFreeRoot[j])' = Listed(pFreeRoot[j]) \ {b}
    <3>2. Listed(pFreeRoot[i])' = Listed(pFreeRoot[i]) \ {b}
      BY <2>1, <2>4, <2>8 DEF Inv, Typing, Listed
    <3>3. ASSUME NEW j \in Image, j # i
          PROVE  Listed(pFreeRoot[j])' = Listed(pFreeRoot[j]) /\ b \notin Listed(pFreeRoot[j])
      <4>1. b \notin Listed(pFreeRoot[j]) /\ pFreeRoot'[j] = pFreeRoot[j]
        BY <2>1, <2>2, <3>3 DEF Inv, Apart, Typing
      <4> QED BY <4>1, <2>8 DEF Listed
    <3> QED BY <3>2, <3>3
  <2>10. \A s \in Thread : Held(s)' = Held(s)
    <3>1. ASSUME NEW s \in Thread
          PROVE  b \notin Held(s)
      BY <2>1, <2>2 DEF Inv, Apart
    <3>2. Held(t) = {} /\ Held(t)' = {}
      BY <2>1 DEF Held
    <3>3. ASSUME NEW s \in Thread, s # t
          PROVE  Held(s)' = Held(s)
      <4>1. pc'[s] = pc[s] /\ pLast'[s] = pLast[s] /\ pBlock'[s] = pBlock[s]
        BY <2>1, <3>3 DEF Others
      <4>2. pc[s] \in {"freeAll", "releaseFirst"} => b \notin Chain(pNext, pLast[s])
        BY <3>1 DEF Held, Listed
      <4> QED BY <2>8, <4>1, <4>2, HeldStays
    <3> QED BY <3>2, <3>3
  <2>11. Living' = Living
    <3>1. ASSUME NEW c \in Block, c # b
          PROVE  c \in Living' <=> c \in Living
      BY <2>1, <2>9, <2>10, <3>1 DEF Living, Listed
    <3>2. b \in Living'
      BY <2>1 DEF Living
    <3> QED BY <2>2, <3>1, <3>2 DEF Living
  <2>12. ListsProper'
    <3>1. \A j \in Image : j # i => Proper(pNext', pFreeRoot'[j])
      <4> SUFFICES ASSUME NEW j \in Image, j # i
                   PROVE  Proper(pNext', pFreeRoot'[j])
        OBVIOUS
      <4>1. b \notin Chain(pNext, pFreeRoot[j]) /\ pFreeRoot'[j] = pFreeRoot[j]
        BY <2>1, <2>2 DEF Inv, Apart, Typing, Listed
      <4>2. \A c \in Chain(pNext, pFreeRoot[j]) : pNext'[c] = pNext[c]
        BY <4>1, <2>7 DEF Chain
      <4> QED BY <4>1, <4>2, ProperSame DEF Inv, ListsProper
    <3>2. Proper(pNext', pFreeRoot'[i])
      <4>1. \A c \in Chain(pNext, pNext[b]) : pNext'[c] = pNext[c]
        BY <2>4, <2>7 DEF Chain, Listed
      <4>2. pFreeRoot'[i] = pNext[b]
        BY <2>1 DEF Inv, Typing
      <4> QED BY <4>1, <4>2, <2>4, ProperSame
    <3>3. ASSUME NEW s \in Thread, pc'[s] \in {"freeAll", "releaseFirst"}
          PROVE  Proper(pNext', pLast'[s])
      <4>1. s # t /\ pc[s] = pc'[s] /\ pLast'[s] = pLast[s]
        BY <2>1, <3>3 DEF Others
      <4>2. b \notin Held(s)
        BY <2>1, <2>2 DEF Inv, Apart
      <4>3. b \notin Chain(pNext, pLast[s])
        BY <3>3, <4>1, <4>2 DEF Held, Listed
      <4>4. \A c \in Chain(pNext, pLast[s]) : pNext'[c] = pNext[c]
        BY <4>3, <2>7 DEF Chain
      <4> QED BY <3>3, <4>1, <4>4, ProperSame DEF Inv, ListsProper
    <3> QED BY <3>1, <3>2, <3>3 DEF ListsProper
  <2>13. Apart'
    <3>1. \A s \in Thread : b \notin Held(s)
      BY <2>1, <2>2 DEF Inv, Apart
    <3>3. \A j \in Image, s \in Thread : Listed(pFreeRoot[j]) \cap (Held(s) \cup used) = {}
      BY DEF Inv, Apart
    <3>4. \A j, k \in Image : j # k => Listed(pFreeRoot[j])' \cap Listed(pFreeRoot[k])' = {}
      BY <2>9 DEF Inv, Apart
    <3>5. \A j \in Image, s \in Thread : Listed(pFreeRoot[j])' \cap (Held(s)' \cup used') = {}
      BY <2>1, <2>9, <2>10, <3>3
    <3>6. \A s, r \in Thread : s # r => Held(s)' \cap Held(r)' = {}
      BY <2>10 DEF Inv, Apart
    <3>7. \A s \in Thread : Held(s)' \cap used' = {}
      BY <2>1, <2>10, <3>1 DEF Inv, Apart
    <3> QED BY <3>4, <3>5, <3>6, <3>7 DEF Apart
  <2>14. LivingMapped'
    BY <2>1, <2>11 DEF Inv, LivingMapped
  <2>15. BlocksCounted'
    BY <2>1, <2>3, <2>11, ListedBlocks DEF Inv, BlocksCounted, Typing
  <2>16. \A u : Of(u)' = Of(u) /\ Pushing(u)' = Pushing(u) /\ Releasing(u)' = Releasing(u)
    BY <2>1, <2>11 DEF Of, Pushing, Releasing, Others
  <2>17. BuffersCounted'
    <3> SUFFICES ASSUME NEW u \in mapped
                 PROVE  uRef'[<<u, 0>>] = Cardinality(Of(u)) + Cardinality(FirstUsed(u)')
                                         + Cardinality(Pushing(u)) + Cardinality(Releasing(u))
      BY <2>1, <2>16 DEF BuffersCounted
    <3>0. u \in Buffer /\ <<u, 0>> \in Block
      BY DEF Inv, Typing, Block
    <3>1. CASE b = <<u, 0>>
      <4>1. FirstUsed(u)' = FirstUsed(u) \cup {b} /\ b \notin FirstUsed(u)
        BY <2>1, <2>3, <3>1 DEF FirstUsed
      <4>2. Cardinality(FirstUsed(u)') = Cardinality(FirstUsed(u)) + 1
        BY <3>0, <4>1, OfFinite, OneJoins DEF Inv
      <4>3. uRef'[<<u, 0>>] = uRef[<<u, 0>>] + 1
        BY <2>1, <3>0, <3>1 DEF Inv, Typing
      <4> QED BY <4>2, <4>3, <3>0, OfFinite DEF Inv, BuffersCounted
    <3>2. CASE b # <<u, 0>>
      <4>1. FirstUsed(u)' = FirstUsed(u)
        BY <2>1, <3>2 DEF FirstUsed
      <4>2. uRef'[<<u, 0>>] = uRef[<<u, 0>>]
        BY <2>1, <3>0, <3>2 DEF Inv, Typing
      <4> QED BY <4>1, <4>2 DEF Inv, BuffersCounted
    <3> QED BY <3>1, <3>2
  <2> QED BY <2>5, <2>6, <2>12, <2>13, <2>14, <2>15, <2>17 DEF Inv
<1> QED BY <1>1, <1>2

\* A buffer.
Whole(u) == {b \in Block : b[1] = u}

LEMMA WholeCounted ==
  ASSUME NEW u \in Buffer
  PROVE  IsFiniteSet(Whole(u)) /\ Cardinality(Whole(u)) = Blocks
<1>1. IsFiniteSet({u}) /\ Cardinality({u}) = 1
  BY FS_Singleton
<1>2. IsFiniteSet(0 .. Blocks - 1) /\ Cardinality(0 .. Blocks - 1) = Blocks
  <2>1. 0 \in Int /\ Blocks - 1 \in Int
    OBVIOUS
  <2>2. /\ IsFiniteSet(0 .. Blocks - 1)
        /\ Cardinality(0 .. Blocks - 1) = IF 0 > Blocks - 1 THEN 0 ELSE Blocks - 1 - 0 + 1
    BY <2>1, FS_Interval
  <2> QED BY <2>2
<1>3. Whole(u) = {u} \X (0 .. Blocks - 1)
  BY DEF Whole, Block
<1>4. /\ IsFiniteSet({u} \X (0 .. Blocks - 1))
      /\ Cardinality({u} \X (0 .. Blocks - 1)) = Cardinality({u}) * Cardinality(0 .. Blocks - 1)
  BY <1>1, <1>2, FS_Product
<1> QED BY <1>1, <1>2, <1>3, <1>4

LEMMA GrowStep ==
  ASSUME Inv, NEW t \in Thread, Grow(t)
  PROVE  Inv'
<1>1. CASE Return(t) /\ UNCHANGED memory
  <2> USE <1>1 DEF Grow, Set, Goto, Return, memory
  <2>1. Typing' /\ LocalInv'
    BY DEF Inv, Typing, LocalInv
  <2>2. Others(t) /\ Held(t) = {} /\ Held(t)' = {}
    BY DEF Inv, Typing, Others, Held
  <2> QED BY <2>1, <2>2, Quiet DEF Inv, Typing
<1>2. CASE ~(Return(t) /\ UNCHANGED memory)
  <2>1. PICK u \in Buffer \ mapped :
          /\ mapped' = mapped \cup {u}
          /\ uRef' = [b \in Block |-> IF b[1] # u THEN uRef[b] ELSE IF b[2] = 0 THEN Blocks + 1 ELSE 1]
          /\ pNext' = [b \in Block |-> CASE b = <<u, 0>> -> Code
                                        [] b[1] = u /\ b[2] \in 1 .. Blocks - 2 -> <<u, b[2] + 1>>
                                        [] OTHER -> pNext[b]]
          /\ pBlock' = [pBlock EXCEPT ![t] = <<u, 0>>]
          /\ pc' = [pc EXCEPT ![t] = "pushRest"]
          /\ UNCHANGED <<at, pLast, pLink, pFreeRoot, used, touched>> /\ pc[t] = "grow"
    BY <1>2 DEF Grow, Set, Goto
  <2>2. <<u, 0>> \in Block /\ \A k \in 1 .. Blocks - 1 : <<u, k>> \in Block
    BY DEF Block
  <2>3. Others(t)
    BY <2>1 DEF Others, Inv, Typing
  <2>4. \A c \in Block : /\ c \notin Whole(u) => pNext'[c] = pNext[c] /\ uRef'[c] = uRef[c]
                         /\ c \in Whole(u) => uRef'[c] = IF c = <<u, 0>> THEN Blocks + 1 ELSE 1
    <3> SUFFICES ASSUME NEW c \in Block
                 PROVE  /\ c \notin Whole(u) => pNext'[c] = pNext[c] /\ uRef'[c] = uRef[c]
                        /\ c \in Whole(u) => uRef'[c] = IF c = <<u, 0>> THEN Blocks + 1 ELSE 1
      OBVIOUS
    <3>1. c[1] = u /\ c[2] = 0 <=> c = <<u, 0>>
      BY DEF Block
    <3> QED BY <2>1, <3>1 DEF Whole
  <2>5. Living \cap Whole(u) = {}
    BY DEF Inv, LivingMapped, Whole
  <2>6. ASSUME NEW s \in Thread, s # t
        PROVE  /\ Held(s)' = Held(s)
               /\ pc'[s] \in {"freeAll", "releaseFirst"} => Proper(pNext', pLast'[s])
               /\ pc'[s] = "pushRest" =>
                    /\ pBlock'[s] = First(pBlock'[s])
                    /\ \A k \in 1 .. Blocks - 2 : pNext'[<<pBlock'[s][1], k>>] = <<pBlock'[s][1], k + 1>>
    <3>1. Held(s) \cap Whole(u) = {}
      BY <2>5, ListedBlocks DEF Living, Inv
    <3> QED BY <2>3, <2>4, <2>6, <3>1, ThreadKept
  <2>7. \A i \in Image : Listed(pFreeRoot[i])' = Listed(pFreeRoot[i]) /\ Proper(pNext', pFreeRoot[i])
    <3> SUFFICES ASSUME NEW i \in Image
                 PROVE  Listed(pFreeRoot[i])' = Listed(pFreeRoot[i]) /\ Proper(pNext', pFreeRoot[i])
      OBVIOUS
    <3>1. Chain(pNext, pFreeRoot[i]) \cap Whole(u) = {}
      BY <2>5, ListedBlocks DEF Living, Inv, Listed
    <3> QED BY <2>1, <2>4, <3>1, ListKept DEF Inv, ListsProper, Listed
  <2>8. Held(t) = {} /\ Held(t)' = Whole(u)
    BY <2>1 DEF Held, Whole, Inv, Typing
  <2>9. Living' = Living \cup Whole(u)
    <3>1. ASSUME NEW c \in Block, c \notin Whole(u)
          PROVE  c \in Living' <=> c \in Living
      BY <2>1, <2>6, <2>7, <2>8, <3>1 DEF Living, Listed
    <3>2. ASSUME NEW c \in Whole(u)
          PROVE  c \in Living'
      BY <2>8 DEF Living, Whole
    <3> QED BY <3>1, <3>2 DEF Living, Whole
  <2>10. Typing'
    <3>1. uRef' \in [Block -> Int]
      BY <2>1 DEF Inv, Typing
    <3>2. pNext' \in [Block -> Block \cup {Null, Code}]
      <4>1. ASSUME NEW b \in Block
            PROVE  (CASE b = <<u, 0>> -> Code
                      [] b[1] = u /\ b[2] \in 1 .. Blocks - 2 -> <<u, b[2] + 1>>
                      [] OTHER -> pNext[b]) \in Block \cup {Null, Code}
        <5>1. pNext[b] \in Block \cup {Null, Code}
          BY DEF Inv, Typing
        <5>2. b[2] \in 1 .. Blocks - 2 => <<u, b[2] + 1>> \in Block
          BY <2>2
        <5>3. b = <<u, 0>> => ~(b[1] = u /\ b[2] \in 1 .. Blocks - 2)
          OBVIOUS
        <5> QED BY <5>1, <5>2, <5>3
      <4> QED BY <2>1, <4>1
    <3> QED BY <2>1, <2>2, <3>1, <3>2 DEF Inv, Typing
  <2>11. LocalInv'
    <3>1. \A k \in 1 .. Blocks - 2 : pNext'[<<u, k>>] = <<u, k + 1>>
      BY <2>1, <2>2
    <3>2. pBlock'[t] = <<u, 0>> /\ pc'[t] = "pushRest"
      BY <2>1 DEF Inv, Typing
    <3>3. ASSUME NEW s \in Thread, s # t
          PROVE  /\ pc'[s] # "idle" => at'[s] \in Image
                 /\ pc'[s] \in {"link", "pop"} => pLast'[s] \in Block
                 /\ pc'[s] \in {"pushRest", "push", "releaseFirst"} => pBlock'[s] \in Block
                 /\ pc'[s] = "releaseFirst" => pBlock'[s][1] \in mapped'
      BY <2>1, <2>3, <3>3 DEF Inv, LocalInv, Others
    <3>4. at'[t] \in Image
      BY <2>1 DEF Inv, LocalInv
    <3> QED BY <2>2, <2>6, <3>1, <3>2, <3>3, <3>4 DEF LocalInv, First
  <2>12. ListsProper'
    <3>1. pc'[t] = "pushRest" /\ pFreeRoot' = pFreeRoot
      BY <2>1 DEF Inv, Typing
    <3> QED BY <2>6, <2>7, <3>1 DEF ListsProper
  <2>13. Apart'
    <3>1. \A i \in Image : Listed(pFreeRoot[i]) \cap Whole(u) = {}
      BY <2>5, ListedBlocks DEF Living, Inv
    <3>2. \A s \in Thread : Held(s) \cap Whole(u) = {}
      BY <2>5, ListedBlocks DEF Living, Inv
    <3>3. used \cap Whole(u) = {}
      BY <2>5 DEF Living, Inv, Typing
    <3>4. \A j, k \in Image : j # k => Listed(pFreeRoot[j])' \cap Listed(pFreeRoot[k])' = {}
      BY <2>7 DEF Inv, Apart
    <3>5. \A j \in Image, s \in Thread : Listed(pFreeRoot[j])' \cap (Held(s)' \cup used') = {}
      <4>1. \A j \in Image, s \in Thread : Listed(pFreeRoot[j]) \cap (Held(s) \cup used) = {}
        BY DEF Inv, Apart
      <4> QED BY <2>1, <2>6, <2>7, <2>8, <3>1, <4>1
    <3>6. \A s, r \in Thread : s # r => Held(s)' \cap Held(r)' = {}
      BY <2>6, <2>8, <3>2 DEF Inv, Apart
    <3>7. \A s \in Thread : Held(s)' \cap used' = {}
      BY <2>1, <2>6, <2>8, <3>3 DEF Inv, Apart
    <3> QED BY <3>4, <3>5, <3>6, <3>7 DEF Apart
  <2>14. LivingMapped'
    BY <2>1, <2>9 DEF Inv, LivingMapped, Whole
  <2>15. BlocksCounted'
    <3>1. ASSUME NEW b \in Living, b # First(b)
          PROVE  uRef'[b] = IF b \in used THEN 2 ELSE 1
      <4>1. b \in Block /\ b \notin Whole(u)
        BY <2>5, ListedBlocks DEF Inv
      <4> QED BY <2>4, <3>1, <4>1 DEF Inv, BlocksCounted
    <3>2. ASSUME NEW b \in Whole(u), b # First(b)
          PROVE  uRef'[b] = 1 /\ b \notin used
      <4>1. b \in Block /\ b # <<u, 0>>
        BY <3>2 DEF Whole, First
      <4>2. b \notin Living
        BY <2>5
      <4> QED BY <2>4, <4>1, <4>2 DEF Living
    <3> QED BY <2>1, <2>9, <3>1, <3>2 DEF BlocksCounted
  <2>16. BuffersCounted'
    <3>1. ASSUME NEW v \in mapped
          PROVE  /\ v # u /\ uRef'[<<v, 0>>] = uRef[<<v, 0>>]
                 /\ Of(v)' = Of(v) /\ FirstUsed(v)' = FirstUsed(v)
                 /\ Pushing(v)' = Pushing(v) /\ Releasing(v)' = Releasing(v)
      <4>1. v # u /\ <<v, 0>> \in Block /\ <<v, 0>> \notin Whole(u)
        BY DEF Inv, Typing, Block, Whole
      <4>2. Of(v)' = Of(v)
        BY <2>9, <4>1 DEF Of, Whole
      <4>3. FirstUsed(v)' = FirstUsed(v)
        BY <2>1 DEF FirstUsed
      <4>4. Pushing(v)' = Pushing(v) /\ Releasing(v)' = Releasing(v)
        <5>1. pBlock'[t] = <<u, 0>> /\ pc'[t] = "pushRest" /\ pc[t] = "grow"
          BY <2>1 DEF Inv, Typing
        <5> QED BY <2>3, <4>1, <5>1 DEF Pushing, Releasing, Others
      <4> QED BY <2>4, <4>1, <4>2, <4>3, <4>4
    <3>2. /\ Of(u)' = Whole(u) /\ FirstUsed(u)' = {} /\ Pushing(u)' = {t} /\ Releasing(u)' = {}
      <4>1. Of(u)' = Whole(u)
        BY <2>5, <2>9, ListedBlocks DEF Of, Whole, Inv
      <4>2. FirstUsed(u)' = {}
        BY <2>1, <2>2, <2>5 DEF FirstUsed, Living, Whole
      <4>3. pBlock'[t] = <<u, 0>> /\ pc'[t] = "pushRest"
        BY <2>1 DEF Inv, Typing
      <4>4. ASSUME NEW s \in Thread, s # t
            PROVE  /\ ~(pc'[s] = "pushRest" /\ pBlock'[s] = <<u, 0>>)
                   /\ ~(pc'[s] = "releaseFirst" /\ pBlock'[s][1] = u)
        <5>1. pc'[s] = pc[s] /\ pBlock'[s] = pBlock[s]
          BY <2>3, <4>4 DEF Others
        <5>2. ~(pc[s] = "releaseFirst" /\ pBlock[s][1] = u)
          BY <2>1 DEF Inv, LocalInv
        <5>3. ASSUME pc[s] = "pushRest", pBlock[s] = <<u, 0>>
              PROVE  FALSE
          <6>1. <<u, 0>> \in Held(s)
            BY <2>2, <5>3 DEF Held
          <6>2. <<u, 0>> \in Living /\ <<u, 0>> \in Whole(u)
            BY <2>2, <6>1 DEF Living, Whole
          <6> QED BY <2>5, <6>2
        <5> QED BY <5>1, <5>2, <5>3
      <4> QED BY <4>1, <4>2, <4>3, <4>4 DEF Pushing, Releasing
    <3>3. uRef'[<<u, 0>>] = Blocks + 1
      BY <2>1, <2>2
    <3>4. /\ Cardinality(Whole(u)) = Blocks /\ Cardinality({t}) = 1
          /\ Cardinality(FirstUsed(u)') = 0 /\ Cardinality(Releasing(u)') = 0
      BY <3>2, WholeCounted, FS_Singleton, FS_EmptySet
    <3>5. uRef'[<<u, 0>>] = Cardinality(Of(u)') + Cardinality(FirstUsed(u)')
                            + Cardinality(Pushing(u)') + Cardinality(Releasing(u)')
      BY <3>2, <3>3, <3>4
    <3>6. ASSUME NEW v \in mapped
          PROVE  uRef'[<<v, 0>>] = Cardinality(Of(v)') + Cardinality(FirstUsed(v)')
                                   + Cardinality(Pushing(v)') + Cardinality(Releasing(v)')
      BY <3>1 DEF Inv, BuffersCounted
    <3> QED BY <2>1, <3>5, <3>6 DEF BuffersCounted
  <2> QED BY <2>10, <2>11, <2>12, <2>13, <2>14, <2>15, <2>16 DEF Inv
<1> QED BY <1>1, <1>2

\* A thread puts what it holds before a list, but for the first block of a buffer.
LEMMA Pushed ==
  ASSUME Inv, NEW t \in Thread, NEW i \in Image, NEW G \in SUBSET Block, NEW U \in SUBSET Block,
         Others(t), \A c \in Block \ G : pNext'[c] = pNext[c],
         \A j \in Image \ {i} : pFreeRoot'[j] = pFreeRoot[j],
         Chain(pNext', pFreeRoot'[i]) = G \cup Chain(pNext, pFreeRoot[i]), Proper(pNext', pFreeRoot'[i]),
         Held(t) = G \cup U, G \cap U = {}, \A b \in U : b = First(b),
         pc'[t] = "idle", used' = used \cup U, uRef' = uRef, mapped' = mapped
  PROVE  /\ LocalInv' /\ ListsProper' /\ Apart' /\ LivingMapped' /\ BlocksCounted'
         /\ \A u : Of(u)' = Of(u)
<1>1. \A s \in Thread \ {t} : Held(s) \cap (G \cup U) = {}
  BY DEF Inv, Apart
<1>2. ASSUME NEW s \in Thread, s # t
      PROVE  /\ Held(s)' = Held(s)
             /\ pc'[s] \in {"freeAll", "releaseFirst"} => Proper(pNext', pLast'[s])
             /\ pc'[s] = "pushRest" =>
                  /\ pBlock'[s] = First(pBlock'[s])
                  /\ \A k \in 1 .. Blocks - 2 : pNext'[<<pBlock'[s][1], k>>] = <<pBlock'[s][1], k + 1>>
  <2>1. Held(s) \cap G = {}
    BY <1>1, <1>2
  <2> QED BY <2>1, <1>2, ThreadKept
<1>3. \A j \in Image : Listed(pFreeRoot[j]) \cap (G \cup U) = {}
  BY DEF Inv, Apart
<1>4. ASSUME NEW j \in Image, j # i
      PROVE  Listed(pFreeRoot[j])' = Listed(pFreeRoot[j]) /\ Proper(pNext', pFreeRoot'[j])
  <2>1. Chain(pNext, pFreeRoot[j]) \cap G = {}
    BY <1>3 DEF Listed
  <2>2. pFreeRoot'[j] = pFreeRoot[j]
    BY <1>4
  <2> QED BY <2>1, <2>2, ListKept DEF Inv, ListsProper, Listed
<1>5. Listed(pFreeRoot[i])' = G \cup Listed(pFreeRoot[i])
  BY DEF Listed
<1>6. Held(t)' = {}
  BY DEF Held
<1>7. Living' = Living
  <2>1. ASSUME NEW c \in Block, c \notin G \cup U
        PROVE  c \in Living' <=> c \in Living
    BY <1>2, <1>4, <1>5, <1>6, <2>1 DEF Living, Listed
  <2>2. ASSUME NEW c \in G \cup U
        PROVE  c \in Living' /\ c \in Living
    <3>1. c \in Living
      BY DEF Living
    <3>2. c \in Living'
      BY <1>5 DEF Living, Listed
    <3> QED BY <3>1, <3>2
  <2> QED BY <2>1, <2>2 DEF Living
<1>8. LocalInv'
  BY <1>2 DEF Inv, LocalInv, Others
<1>9. ListsProper'
  BY <1>2, <1>4 DEF ListsProper
<1>10. Apart'
  <2>1. \A j \in Image, s \in Thread : Listed(pFreeRoot[j]) \cap (Held(s) \cup used) = {}
    BY DEF Inv, Apart
  <2>2. \A j, k \in Image : j # k => Listed(pFreeRoot[j]) \cap Listed(pFreeRoot[k]) = {}
    BY DEF Inv, Apart
  <2>3. (G \cup U) \cap used = {}
    BY DEF Inv, Apart
  <2>4. \A j, k \in Image : j # k => Listed(pFreeRoot[j])' \cap Listed(pFreeRoot[k])' = {}
    BY <1>3, <1>4, <1>5, <2>2
  <2>5. \A j \in Image, s \in Thread : Listed(pFreeRoot[j])' \cap (Held(s)' \cup used') = {}
    BY <1>1, <1>2, <1>3, <1>4, <1>5, <1>6, <2>1, <2>3
  <2>6. \A s, r \in Thread : s # r => Held(s)' \cap Held(r)' = {}
    BY <1>2, <1>6 DEF Inv, Apart
  <2>7. \A s \in Thread : Held(s)' \cap used' = {}
    BY <1>1, <1>2, <1>6 DEF Inv, Apart
  <2> QED BY <2>4, <2>5, <2>6, <2>7 DEF Apart
<1>11. \A b \in Living : b # First(b) => uRef'[b] = uRef[b] /\ (b \in used' <=> b \in used)
  OBVIOUS
<1>12. LivingMapped' /\ BlocksCounted' /\ \A u : Of(u)' = Of(u)
  BY <1>7, <1>11, LivingSame DEF Inv
<1> QED BY <1>8, <1>9, <1>10, <1>12

LEMMA PushRestStep ==
  ASSUME Inv, NEW t \in Thread, PushRest(t)
  PROVE  Inv'
<1>1. PICK u \in Buffer, i \in Image :
        /\ pBlock[t] = <<u, 0>> /\ at[t] = i
        /\ pNext' = [pNext EXCEPT ![<<u, Blocks - 1>>] = pFreeRoot[i]]
        /\ pFreeRoot' = [pFreeRoot EXCEPT ![i] = <<u, 1>>]
        /\ used' = used \cup {<<u, 0>>}
        /\ pc[t] = "pushRest" /\ pc'[t] = "idle" /\ pBlock'[t] = Null /\ Others(t)
        /\ UNCHANGED <<uRef, mapped, touched>>
  <2>1. pc[t] = "pushRest" /\ pBlock[t] \in Block /\ pBlock[t] = <<pBlock[t][1], 0>> /\ at[t] \in Image
    BY DEF PushRest, Inv, LocalInv, First
  <2>2. pBlock[t][1] \in Buffer
    BY <2>1 DEF Block
  <2>3. Others(t) /\ pc'[t] = "idle" /\ pBlock'[t] = Null
    BY DEF PushRest, Return, Goto, Set, Others, Inv, Typing
  <2>4. LET v == pBlock[t][1] IN
          /\ pNext' = [pNext EXCEPT ![<<v, Blocks - 1>>] = pFreeRoot[at[t]]]
          /\ pFreeRoot' = [pFreeRoot EXCEPT ![at[t]] = <<v, 1>>]
          /\ used' = used \cup {pBlock[t]} /\ UNCHANGED <<uRef, mapped, touched>>
    BY DEF PushRest, Push, Set
  <2> QED BY <2>1, <2>2, <2>3, <2>4
<1>2. /\ <<u, 0>> \in Block /\ <<u, 0>> \notin From(u, 1) /\ From(u, 1) \in SUBSET Block
      /\ \A k \in 1 .. Blocks - 1 : <<u, k>> \in From(u, 1)
  BY DEF Block, From
<1>3. Held(t) = From(u, 1) \cup {<<u, 0>>}
  <2>1. \A b \in Block : b[1] = u <=> b = <<u, 0>> \/ b \in From(u, 1)
    BY DEF Block, From
  <2>2. Held(t) = {b \in Block : b[1] = u}
    BY <1>1 DEF Held
  <2> QED BY <1>2, <2>1, <2>2
<1>4. \A c \in Block : c # <<u, Blocks - 1>> => pNext'[c] = pNext[c]
  BY <1>1 DEF Inv, Typing
<1>5. /\ Chain(pNext', <<u, 1>>) = From(u, 1) \cup Chain(pNext, pFreeRoot[i])
      /\ Proper(pNext', <<u, 1>>)
  <2>1. pFreeRoot[i] \in Block \cup {Null} /\ Proper(pNext, pFreeRoot[i])
    BY DEF Inv, Typing, ListsProper
  <2>2. From(u, 1) \cap Chain(pNext, pFreeRoot[i]) = {}
    BY <1>3 DEF Inv, Apart, Listed
  <2>3. \A k \in 1 .. Blocks - 2 : pNext'[<<u, k>>] = <<u, k + 1>>
    <3>1. \A k \in 1 .. Blocks - 2 : pNext[<<u, k>>] = <<u, k + 1>>
      BY <1>1 DEF Inv, LocalInv
    <3>2. \A k \in 1 .. Blocks - 2 : k # Blocks - 1 /\ <<u, k>> \in Block
      BY <1>2
    <3> QED BY <3>1, <3>2, <1>4
  <2>4. pNext'[<<u, Blocks - 1>>] = pFreeRoot[i]
    BY <1>1, <1>2 DEF Inv, Typing
  <2>5. \A c \in Block \ From(u, 1) : pNext'[c] = pNext[c]
    BY <1>2, <1>4
  <2> QED BY <2>1, <2>2, <2>3, <2>4, <2>5, ProperRest
<1>6. pFreeRoot'[i] = <<u, 1>> /\ \A j \in Image \ {i} : pFreeRoot'[j] = pFreeRoot[j]
  BY <1>1 DEF Inv, Typing
<1>7. /\ LocalInv' /\ ListsProper' /\ Apart' /\ LivingMapped' /\ BlocksCounted'
      /\ \A v : Of(v)' = Of(v)
  <2>1. \A c \in Block \ From(u, 1) : pNext'[c] = pNext[c]
    BY <1>2, <1>4
  <2>2. \A b \in {<<u, 0>>} : b = First(b)
    BY DEF First
  <2>3. {<<u, 0>>} \in SUBSET Block /\ From(u, 1) \cap {<<u, 0>>} = {}
    BY <1>2
  <2>4. /\ Chain(pNext', pFreeRoot'[i]) = From(u, 1) \cup Chain(pNext, pFreeRoot[i])
        /\ Proper(pNext', pFreeRoot'[i])
    BY <1>5, <1>6
  <2>5. pc'[t] = "idle" /\ used' = used \cup {<<u, 0>>} /\ uRef' = uRef /\ mapped' = mapped /\ Others(t)
    BY <1>1
  <2>6. \A j \in Image \ {i} : pFreeRoot'[j] = pFreeRoot[j]
    BY <1>6
  <2> QED BY <1>2, <1>3, <2>1, <2>2, <2>3, <2>4, <2>5, <2>6, Pushed
<1>8. Typing'
  <2>1. pNext' \in [Block -> Block \cup {Null, Code}] /\ pFreeRoot' \in [Image -> Block \cup {Null}]
    BY <1>1, <1>2 DEF Inv, Typing
  <2>2. /\ pc' \in [Thread -> {"idle", "link", "pop", "grow", "pushRest", "push",
                               "freeAll", "releaseFirst"}]
        /\ at' \in [Thread -> Image \cup {Null}]
        /\ pLast' \in [Thread -> Block \cup {Null}] /\ pLink' \in [Thread -> Block \cup {Null, Code}]
        /\ pBlock' \in [Thread -> Block \cup {Null}]
    BY DEF PushRest, Return, Goto, Set, Inv, Typing
  <2> QED BY <1>1, <1>2, <2>1, <2>2 DEF Inv, Typing
<1>9. BuffersCounted'
  <2> SUFFICES ASSUME NEW v \in mapped
               PROVE  uRef[<<v, 0>>] = Cardinality(Of(v)) + Cardinality(FirstUsed(v)')
                                       + Cardinality(Pushing(v)') + Cardinality(Releasing(v)')
    BY <1>1, <1>7 DEF BuffersCounted
  <2>1. v \in Buffer
    BY DEF Inv, Typing
  <2>2. Releasing(v)' = Releasing(v)
    BY <1>1 DEF Releasing, Others
  <2>3. CASE v = u
    <3>1. Pushing(v)' = Pushing(v) \ {t} /\ t \in Pushing(v)
      BY <1>1, <2>3 DEF Pushing, Others
    <3>2. FirstUsed(v)' = FirstUsed(v) \cup {<<u, 0>>} /\ <<u, 0>> \notin FirstUsed(v)
      <4>1. <<u, 0>> \notin used
        BY <1>3 DEF Inv, Apart
      <4> QED BY <1>1, <2>3, <4>1 DEF FirstUsed
    <3>3. Cardinality(Pushing(v)') = Cardinality(Pushing(v)) - 1
      BY <2>1, <3>1, OfFinite, OneLeaves DEF Inv
    <3>4. Cardinality(FirstUsed(v)') = Cardinality(FirstUsed(v)) + 1
      BY <2>1, <3>2, OfFinite, OneJoins DEF Inv
    <3> QED BY <2>1, <2>2, <3>3, <3>4, OfFinite DEF Inv, BuffersCounted
  <2>4. CASE v # u
    <3>1. Pushing(v)' = Pushing(v)
      BY <1>1, <2>4 DEF Pushing, Others
    <3>2. FirstUsed(v)' = FirstUsed(v)
      BY <1>1, <2>4 DEF FirstUsed
    <3> QED BY <2>2, <3>1, <3>2 DEF Inv, BuffersCounted
  <2> QED BY <2>3, <2>4
<1> QED BY <1>7, <1>8, <1>9 DEF Inv

-----------------------------------------------------------------------------
(* Free.                                                                   *)

LEMMA PushFreedStep ==
  ASSUME Inv, NEW t \in Thread, PushFreed(t)
  PROVE  Inv'
<1>1. PICK b \in Block, i \in Image :
        /\ pBlock[t] = b /\ at[t] = i
        /\ pNext' = [pNext EXCEPT ![b] = pFreeRoot[i]]
        /\ pFreeRoot' = [pFreeRoot EXCEPT ![i] = b]
        /\ touched' = (touched \/ b[1] \notin mapped)
        /\ pc[t] = "push" /\ pc'[t] = "idle" /\ Others(t)
        /\ UNCHANGED <<used, uRef, mapped>>
  BY DEF PushFreed, Push, Touch, Return, Goto, Set, Others, Inv, Typing, LocalInv
<1>2. Held(t) = {b}
  BY <1>1 DEF Held
<1>3. b[1] \in mapped
  BY <1>2 DEF Inv, LivingMapped, Living
<1>4. Typing'
  <2>1. pNext' \in [Block -> Block \cup {Null, Code}] /\ pFreeRoot' \in [Image -> Block \cup {Null}]
    BY <1>1 DEF Inv, Typing
  <2>2. /\ pc' \in [Thread -> {"idle", "link", "pop", "grow", "pushRest", "push",
                               "freeAll", "releaseFirst"}]
        /\ at' \in [Thread -> Image \cup {Null}]
        /\ pLast' \in [Thread -> Block \cup {Null}] /\ pLink' \in [Thread -> Block \cup {Null, Code}]
        /\ pBlock' \in [Thread -> Block \cup {Null}]
    BY DEF PushFreed, Return, Goto, Set, Inv, Typing
  <2> QED BY <1>1, <1>3, <2>1, <2>2 DEF Inv, Typing
<1>5. \A c \in Block \ {b} : pNext'[c] = pNext[c]
  BY <1>1 DEF Inv, Typing
<1>6. pFreeRoot'[i] = b /\ \A j \in Image \ {i} : pFreeRoot'[j] = pFreeRoot[j]
  BY <1>1 DEF Inv, Typing
<1>7. Chain(pNext', b) = {b} \cup Chain(pNext, pFreeRoot[i]) /\ Proper(pNext', b)
  <2>1. pFreeRoot[i] \in Block \cup {Null} /\ Proper(pNext, pFreeRoot[i])
    BY DEF Inv, Typing, ListsProper
  <2>2. b \notin Chain(pNext, pFreeRoot[i])
    BY <1>2 DEF Inv, Apart, Listed
  <2>3. pNext'[b] = pFreeRoot[i]
    BY <1>1 DEF Inv, Typing
  <2> QED BY <1>5, <2>1, <2>2, <2>3, ProperJoin
<1>8. /\ LocalInv' /\ ListsProper' /\ Apart' /\ LivingMapped' /\ BlocksCounted'
      /\ \A v : Of(v)' = Of(v)
  <2>1. {b} \in SUBSET Block /\ {} \in SUBSET Block /\ Held(t) = {b} \cup {} /\ {b} \cap {} = {}
        /\ (\A c \in {} : c = First(c)) /\ used' = used \cup {}
    BY <1>1, <1>2
  <2>2. Chain(pNext', pFreeRoot'[i]) = {b} \cup Chain(pNext, pFreeRoot[i]) /\ Proper(pNext', pFreeRoot'[i])
    BY <1>6, <1>7
  <2>3. pc'[t] = "idle" /\ uRef' = uRef /\ mapped' = mapped /\ Others(t)
    BY <1>1
  <2>4. \A j \in Image \ {i} : pFreeRoot'[j] = pFreeRoot[j]
    BY <1>6
  <2> QED BY <1>5, <2>1, <2>2, <2>3, <2>4, Pushed
<1>9. \A v : FirstUsed(v)' = FirstUsed(v) /\ Pushing(v)' = Pushing(v) /\ Releasing(v)' = Releasing(v)
  BY <1>1 DEF FirstUsed, Pushing, Releasing, Others
<1>10. BuffersCounted'
  BY <1>1, <1>8, <1>9 DEF Inv, BuffersCounted
<1> QED BY <1>4, <1>8, <1>10 DEF Inv

LEMMA FreeStep ==
  ASSUME Inv, NEW t \in Thread, NEW i \in Image, Free(t, i)
  PROVE  Inv'
<1>1. PICK b \in used :
        /\ used' = used \ {b}
        /\ pBlock' = Set(pBlock, t, b)
        /\ pNext' = Set(pNext, b, Null)
        /\ Release(t, b, IF uRef[b] > 1 THEN "push" ELSE "freeAll")
  BY DEF Free
<1>2. b \in Block /\ b \in Living /\ b[1] \in mapped /\ b[1] \in Buffer /\ First(b) \in Block
  BY DEF Inv, Typing, LivingMapped, Living, Block, First
<1>3. uRef[b] \in Int /\ uRef[b] > 1 /\ (b # First(b) => uRef[b] = 2)
  <2>1. b # First(b) => uRef[b] = 2
    BY <1>2 DEF Inv, BlocksCounted
  <2>2. ASSUME b = First(b)
        PROVE  uRef[b] > 1
    <3>1. b = <<b[1], 0>>
      BY <2>2 DEF First
    <3>2. b \in Of(b[1]) /\ b \in FirstUsed(b[1])
      BY <1>2, <3>1 DEF Of, FirstUsed
    <3>3. Cardinality(Of(b[1])) > 0 /\ Cardinality(FirstUsed(b[1])) > 0
      <4>1. Cardinality(Of(b[1])) \in Nat \ {0}
        BY <1>2, <3>2, OfFinite, SomebodyCounts DEF Inv
      <4>2. Cardinality(FirstUsed(b[1])) \in Nat \ {0}
        BY <1>2, <3>2, OfFinite, SomebodyCounts DEF Inv
      <4> QED BY <4>1, <4>2
    <3>4. uRef[b] = Cardinality(Of(b[1])) + Cardinality(FirstUsed(b[1]))
                    + Cardinality(Pushing(b[1])) + Cardinality(Releasing(b[1]))
      BY <1>2, <3>1 DEF Inv, BuffersCounted
    <3> QED BY <1>2, <3>3, <3>4, OfFinite DEF Inv
  <2>3. uRef[b] \in Int
    BY <1>2 DEF Inv, Typing
  <2> QED BY <2>1, <2>2, <2>3
<1>4. /\ pc[t] = "idle" /\ pc' = [pc EXCEPT ![t] = "push"]
      /\ at' = [at EXCEPT ![t] = i] /\ pBlock' = [pBlock EXCEPT ![t] = b]
      /\ pNext' = [pNext EXCEPT ![b] = Null] /\ uRef' = [uRef EXCEPT ![b] = @ - 1]
      /\ touched' = (touched \/ b[1] \notin mapped) /\ mapped' = mapped
      /\ UNCHANGED <<pFreeRoot, pLast, pLink>>
  <2>1. pc[t] = "idle" /\ at' = [at EXCEPT ![t] = i] /\ UNCHANGED <<pFreeRoot, pLast, pLink>>
    BY DEF Free, Set
  <2>2. pBlock' = [pBlock EXCEPT ![t] = b] /\ pNext' = [pNext EXCEPT ![b] = Null]
    BY <1>1 DEF Set
  <2>3. /\ uRef' = [uRef EXCEPT ![b] = @ - 1]
        /\ mapped' = IF b = First(b) /\ uRef[b] = 1 THEN mapped \ {b[1]} ELSE mapped
        /\ touched' = (touched \/ b[1] \notin mapped)
        /\ pc' = [pc EXCEPT ![t] = IF uRef[b] = 1 /\ b # First(b) THEN "releaseFirst"
                                  ELSE IF uRef[b] > 1 THEN "push" ELSE "freeAll"]
    BY <1>1 DEF Release, Decrement, Touch, Goto, Set
  <2>4. mapped' = mapped /\ pc' = [pc EXCEPT ![t] = "push"]
    <3>1. uRef[b] # 1
      BY <1>3
    <3> QED BY <1>3, <2>3, <3>1
  <2> QED BY <2>1, <2>2, <2>3, <2>4, Zenon
<1>5. Others(t)
  BY <1>4 DEF Others, Inv, Typing
<1>6. Typing'
  <2>1. pNext' \in [Block -> Block \cup {Null, Code}] /\ uRef' \in [Block -> Int]
    BY <1>2, <1>4 DEF Inv, Typing
  <2> QED BY <1>1, <1>2, <1>4, <2>1 DEF Inv, Typing
<1>7. \A c \in Block : c # b => pNext'[c] = pNext[c] /\ uRef'[c] = uRef[c]
  BY <1>4 DEF Inv, Typing
<1>8. uRef'[b] = uRef[b] - 1
  BY <1>2, <1>4 DEF Inv, Typing
<1>9. \A s \in Thread : b \notin Held(s)
  BY DEF Inv, Apart
<1>10. ASSUME NEW s \in Thread, s # t
       PROVE  /\ Held(s)' = Held(s)
              /\ pc'[s] \in {"freeAll", "releaseFirst"} => Proper(pNext', pLast'[s])
              /\ pc'[s] = "pushRest" =>
                   /\ pBlock'[s] = First(pBlock'[s])
                   /\ \A k \in 1 .. Blocks - 2 : pNext'[<<pBlock'[s][1], k>>] = <<pBlock'[s][1], k + 1>>
  <2>1. Held(s) \cap {b} = {} /\ \A c \in Block \ {b} : pNext'[c] = pNext[c]
    BY <1>7, <1>9
  <2> QED BY <1>5, <1>10, <2>1, ThreadKept
<1>11. ASSUME NEW j \in Image
       PROVE  Listed(pFreeRoot[j])' = Listed(pFreeRoot[j]) /\ Proper(pNext', pFreeRoot[j])
  <2>1. Chain(pNext, pFreeRoot[j]) \cap {b} = {}
    BY <1>4 DEF Inv, Apart, Listed
  <2>2. \A c \in Block \ {b} : pNext'[c] = pNext[c]
    BY <1>7
  <2> QED BY <1>4, <2>1, <2>2, ListKept DEF Inv, ListsProper, Listed
<1>12. pc'[t] = "push" /\ pBlock'[t] = b /\ at'[t] = i
  BY <1>4 DEF Inv, Typing
<1>13. Held(t) = {} /\ Held(t)' = {b}
  BY <1>4, <1>12 DEF Held
<1>14. Living' = Living
  <2>1. ASSUME NEW c \in Block, c # b
        PROVE  c \in Living' <=> c \in Living
    BY <1>1, <1>4, <1>10, <1>11, <1>13, <2>1 DEF Living, Listed
  <2>2. b \in Living'
    BY <1>2, <1>13 DEF Living
  <2> QED BY <1>2, <2>1, <2>2 DEF Living
<1>15. LocalInv'
  BY <1>2, <1>4, <1>5, <1>10, <1>12 DEF Inv, LocalInv, Others
<1>16. ListsProper'
  BY <1>4, <1>10, <1>11, <1>12 DEF ListsProper
<1>17. Apart'
  <2>1. \A j \in Image, s \in Thread : Listed(pFreeRoot[j]) \cap (Held(s) \cup used) = {}
    BY DEF Inv, Apart
  <2>2. \A j, k \in Image : j # k => Listed(pFreeRoot[j])' \cap Listed(pFreeRoot[k])' = {}
    BY <1>11 DEF Inv, Apart
  <2>3. \A j \in Image, s \in Thread : Listed(pFreeRoot[j])' \cap (Held(s)' \cup used') = {}
    BY <1>1, <1>10, <1>11, <1>13, <2>1
  <2>4. \A s, r \in Thread : s # r => Held(s)' \cap Held(r)' = {}
    BY <1>9, <1>10, <1>13 DEF Inv, Apart
  <2>5. \A s \in Thread : Held(s)' \cap used' = {}
    BY <1>1, <1>10, <1>13 DEF Inv, Apart
  <2> QED BY <2>2, <2>3, <2>4, <2>5 DEF Apart
<1>18. LivingMapped'
  BY <1>4, <1>14 DEF Inv, LivingMapped
<1>19. BlocksCounted'
  BY <1>1, <1>3, <1>7, <1>8, <1>14, ListedBlocks DEF Inv, BlocksCounted
<1>20. \A u : Of(u)' = Of(u) /\ Pushing(u)' = Pushing(u) /\ Releasing(u)' = Releasing(u)
  BY <1>4, <1>5, <1>12, <1>14 DEF Of, Pushing, Releasing, Others
<1>21. BuffersCounted'
  <2> SUFFICES ASSUME NEW u \in mapped
               PROVE  uRef'[<<u, 0>>] = Cardinality(Of(u)) + Cardinality(FirstUsed(u)')
                                        + Cardinality(Pushing(u)) + Cardinality(Releasing(u))
    BY <1>4, <1>20 DEF BuffersCounted
  <2>1. u \in Buffer /\ <<u, 0>> \in Block
    BY DEF Inv, Typing, Block
  <2>2. CASE b = <<u, 0>>
    <3>1. FirstUsed(u)' = FirstUsed(u) \ {b} /\ b \in FirstUsed(u)
      BY <1>1, <2>2 DEF FirstUsed
    <3>2. Cardinality(FirstUsed(u)') = Cardinality(FirstUsed(u)) - 1
      BY <2>1, <3>1, OfFinite, OneLeaves DEF Inv
    <3> QED BY <1>8, <2>1, <2>2, <3>2, OfFinite DEF Inv, BuffersCounted
  <2>3. CASE b # <<u, 0>>
    <3>1. FirstUsed(u)' = FirstUsed(u)
      BY <1>1, <2>3 DEF FirstUsed
    <3> QED BY <1>7, <2>1, <2>3, <3>1 DEF Inv, BuffersCounted
  <2> QED BY <2>2, <2>3
<1> QED BY <1>6, <1>15, <1>16, <1>17, <1>18, <1>19, <1>21 DEF Inv

-----------------------------------------------------------------------------
(* FreeAll.                                                                *)

\* Steps that link nothing leave the others as they are.
LEMMA Unlinked ==
  ASSUME Inv, NEW t \in Thread, Others(t), pNext' = pNext
  PROVE  /\ \A b : Listed(b)' = Listed(b)
         /\ \A s \in Thread \ {t} :
              /\ Held(s)' = Held(s)
              /\ pc'[s] \in {"freeAll", "releaseFirst"} => Proper(pNext', pLast'[s])
              /\ pc'[s] = "pushRest" =>
                   /\ pBlock'[s] = First(pBlock'[s])
                   /\ \A k \in 1 .. Blocks - 2 : pNext'[<<pBlock'[s][1], k>>] = <<pBlock'[s][1], k + 1>>
<1>1. \A b : Listed(b)' = Listed(b)
  BY DEF Listed
<1>2. ASSUME NEW s \in Thread, s # t
      PROVE  /\ Held(s)' = Held(s)
             /\ pc'[s] \in {"freeAll", "releaseFirst"} => Proper(pNext', pLast'[s])
             /\ pc'[s] = "pushRest" =>
                  /\ pBlock'[s] = First(pBlock'[s])
                  /\ \A k \in 1 .. Blocks - 2 : pNext'[<<pBlock'[s][1], k>>] = <<pBlock'[s][1], k + 1>>
  <2>1. Held(s) \cap {} = {} /\ \A c \in Block \ {} : pNext'[c] = pNext[c]
    OBVIOUS
  <2> QED BY <1>2, <2>1, ThreadKept
<1> QED BY <1>1, <1>2

LEMMA FreeAllStep ==
  ASSUME Inv, NEW t \in Thread, NEW i \in Image, FreeAll(t, i)
  PROVE  Inv'
<1>1. /\ pc[t] = "idle" /\ pc' = [pc EXCEPT ![t] = "freeAll"] /\ at' = [at EXCEPT ![t] = i]
      /\ pLast' = [pLast EXCEPT ![t] = pFreeRoot[i]] /\ pFreeRoot' = [pFreeRoot EXCEPT ![i] = Null]
      /\ UNCHANGED <<pNext, uRef, mapped, used, pLink, pBlock, touched>>
  BY DEF FreeAll, Goto, Set, memory
<1>2. Others(t) /\ pc'[t] = "freeAll" /\ pLast'[t] = pFreeRoot[i] /\ at'[t] = i
  BY <1>1 DEF Others, Inv, Typing
<1>3. pFreeRoot'[i] = Null /\ \A j \in Image : j # i => pFreeRoot'[j] = pFreeRoot[j]
  BY <1>1 DEF Inv, Typing
<1>4. /\ \A b : Listed(b)' = Listed(b)
      /\ \A s \in Thread \ {t} :
           /\ Held(s)' = Held(s)
           /\ pc'[s] \in {"freeAll", "releaseFirst"} => Proper(pNext', pLast'[s])
           /\ pc'[s] = "pushRest" =>
                /\ pBlock'[s] = First(pBlock'[s])
                /\ \A k \in 1 .. Blocks - 2 : pNext'[<<pBlock'[s][1], k>>] = <<pBlock'[s][1], k + 1>>
  BY <1>1, <1>2, Unlinked
<1>5. Null \notin Block
  BY DEF Block
<1>6. Held(t) = {} /\ Held(t)' = Listed(pFreeRoot[i])
  BY <1>1, <1>2 DEF Held, Listed
<1>7. ASSUME NEW j \in Image
      PROVE  Listed(pFreeRoot[j])' = IF j = i THEN {} ELSE Listed(pFreeRoot[j])
  BY <1>1, <1>3, <1>5, ChainNone DEF Listed
<1>8. Typing'
  BY <1>1 DEF Inv, Typing
<1>9. LocalInv'
  BY <1>1, <1>2, <1>4 DEF Inv, LocalInv, Others
<1>10. ListsProper'
  <2>1. \A j \in Image : Proper(pNext', pFreeRoot'[j])
    BY <1>1, <1>3, <1>5, ProperNone DEF Inv, ListsProper
  <2>2. Proper(pNext', pLast'[t])
    BY <1>1, <1>2 DEF Inv, ListsProper
  <2> QED BY <1>4, <2>1, <2>2 DEF ListsProper
<1>11. Apart'
  <2>1. \A j \in Image, s \in Thread : Listed(pFreeRoot[j]) \cap (Held(s) \cup used) = {}
    BY DEF Inv, Apart
  <2>2. \A j, k \in Image : j # k => Listed(pFreeRoot[j]) \cap Listed(pFreeRoot[k]) = {}
    BY DEF Inv, Apart
  <2>3. \A j, k \in Image : j # k => Listed(pFreeRoot[j])' \cap Listed(pFreeRoot[k])' = {}
    BY <1>7, <2>2
  <2>4. \A j \in Image, s \in Thread : Listed(pFreeRoot[j])' \cap (Held(s)' \cup used') = {}
    BY <1>1, <1>4, <1>6, <1>7, <2>1, <2>2
  <2>5. \A s, r \in Thread : s # r => Held(s)' \cap Held(r)' = {}
    BY <1>4, <1>6, <2>1 DEF Inv, Apart
  <2>6. \A s \in Thread : Held(s)' \cap used' = {}
    BY <1>1, <1>4, <1>6, <2>1 DEF Inv, Apart
  <2> QED BY <2>3, <2>4, <2>5, <2>6 DEF Apart
<1>12. Living' = Living
  <2>1. ASSUME NEW c \in Listed(pFreeRoot[i])
        PROVE  c \in Living /\ c \in Living'
    <3>1. c \in Block
      BY ListedBlocks DEF Inv
    <3>2. c \in Held(t)'
      BY <1>6
    <3> QED BY <3>1, <3>2 DEF Living
  <2>2. ASSUME NEW c \in Block, c \notin Listed(pFreeRoot[i])
        PROVE  c \in Living' <=> c \in Living
    BY <1>1, <1>4, <1>6, <1>7, <2>2 DEF Living, Listed
  <2> QED BY <2>1, <2>2 DEF Living
<1>13. LivingMapped' /\ BlocksCounted' /\ \A u : Of(u)' = Of(u)
  BY <1>1, <1>12, LivingSame DEF Inv
<1>14. \A u : FirstUsed(u)' = FirstUsed(u) /\ Pushing(u)' = Pushing(u) /\ Releasing(u)' = Releasing(u)
  BY <1>1, <1>2 DEF FirstUsed, Pushing, Releasing, Others
<1>15. BuffersCounted'
  BY <1>1, <1>13, <1>14 DEF Inv, BuffersCounted
<1> QED BY <1>8, <1>9, <1>10, <1>11, <1>13, <1>15 DEF Inv

LEMMA DoneStep ==
  ASSUME Inv, NEW t \in Thread, Done(t)
  PROVE  Inv'
<1> USE DEF Done, Set, Goto, Return, memory
<1>1. Typing' /\ LocalInv'
  BY DEF Inv, Typing, LocalInv
<1>2. Null \notin Block
  BY DEF Block
<1>3. Held(t) = {} /\ Held(t)' = {}
  BY <1>2, ChainNone DEF Inv, Typing, Held, Listed
<1>4. Others(t)
  BY DEF Inv, Typing, Others
<1> QED BY <1>1, <1>3, <1>4, Quiet DEF Inv, Typing

LEMMA NobodyCounts ==
  ASSUME NEW S, IsFiniteSet(S), Cardinality(S) = 0
  PROVE  S = {}
  BY FS_EmptySet

LEMMA FreeItemStep ==
  ASSUME Inv, NEW t \in Thread, FreeItem(t)
  PROVE  Inv'
<1>1. PICK b \in Block :
        /\ b = pLast[t] /\ pc[t] = "freeAll"
        /\ pBlock' = [pBlock EXCEPT ![t] = b] /\ pLast' = [pLast EXCEPT ![t] = pNext[b]]
        /\ uRef' = [uRef EXCEPT ![b] = @ - 1]
        /\ mapped' = IF b = First(b) /\ uRef[b] = 1 THEN mapped \ {b[1]} ELSE mapped
        /\ touched' = (touched \/ b[1] \notin mapped)
        /\ pc' = [pc EXCEPT ![t] = IF uRef[b] = 1 /\ b # First(b) THEN "releaseFirst" ELSE "freeAll"]
        /\ UNCHANGED <<pFreeRoot, pNext, used, at, pLink>>
  <2>1. pLast[t] \in Block
    BY DEF FreeItem, Inv, Typing
  <2> QED BY <2>1 DEF FreeItem, Release, Decrement, Touch, Goto, Set
<1>2. Others(t) /\ pBlock'[t] = b /\ pLast'[t] = pNext[b] /\ at'[t] = at[t]
  <2>1. pNext[b] \in Block \cup {Null, Code}
    BY DEF Inv, Typing
  <2> QED BY <1>1 DEF Others, Inv, Typing
<1>3. /\ Proper(pNext, pNext[b]) /\ pNext[b] \in Block \cup {Null}
      /\ Held(t) = {b} \cup Listed(pNext[b]) /\ b \notin Listed(pNext[b])
  <2>1. Proper(pNext, b)
    BY <1>1 DEF Inv, ListsProper
  <2>2. Held(t) = Listed(b)
    BY <1>1 DEF Held
  <2> QED BY <2>1, <2>2, ProperTail, ChainUnfold DEF Listed
<1>4. b \in Living /\ b[1] \in mapped /\ b \notin used /\ b[1] \in Buffer /\ First(b) \in Block
  <2>1. b \in Living /\ b \notin used
    BY <1>3 DEF Living, Inv, Apart
  <2> QED BY <2>1 DEF Inv, Typing, LivingMapped, Block, First
<1>5. b # First(b) => uRef[b] = 1
  BY <1>4 DEF Inv, BlocksCounted
<1>6. /\ pc'[t] = IF b # First(b) THEN "releaseFirst" ELSE "freeAll"
      /\ uRef'[b] = uRef[b] - 1 /\ \A c \in Block : c # b => uRef'[c] = uRef[c]
  BY <1>1, <1>5 DEF Inv, Typing
<1>7. /\ \A c : Listed(c)' = Listed(c)
      /\ \A s \in Thread \ {t} :
           /\ Held(s)' = Held(s)
           /\ pc'[s] \in {"freeAll", "releaseFirst"} => Proper(pNext', pLast'[s])
           /\ pc'[s] = "pushRest" =>
                /\ pBlock'[s] = First(pBlock'[s])
                /\ \A k \in 1 .. Blocks - 2 : pNext'[<<pBlock'[s][1], k>>] = <<pBlock'[s][1], k + 1>>
  BY <1>1, <1>2, Unlinked
<1>8. Held(t)' = Held(t) \ {b}
  <2>1. Held(t)' = Listed(pNext[b])
    BY <1>1, <1>2, <1>6 DEF Held, Listed
  <2> QED BY <1>3, <2>1
<1>9. Living' = Living \ {b}
  <2>1. \A s \in Thread \ {t} : b \notin Held(s)
    BY <1>3 DEF Inv, Apart
  <2>2. \A j \in Image : b \notin Listed(pFreeRoot[j])
    BY <1>3 DEF Inv, Apart
  <2>3. ASSUME NEW c \in Block, c # b
        PROVE  c \in Living' <=> c \in Living
    BY <1>1, <1>7, <1>8, <2>3 DEF Living, Listed
  <2>4. b \notin Living'
    BY <1>1, <1>4, <1>7, <1>8, <2>1, <2>2 DEF Living, Listed
  <2> QED BY <2>3, <2>4 DEF Living
<1>10. /\ Of(b[1])' = Of(b[1]) \ {b} /\ b \in Of(b[1])
       /\ \A u : u # b[1] => Of(u)' = Of(u)
  BY <1>4, <1>9 DEF Of
<1>11. \A u : FirstUsed(u)' = FirstUsed(u) /\ Pushing(u)' = Pushing(u)
  BY <1>1, <1>2, <1>6 DEF FirstUsed, Pushing, Others
<1>12. \A u : Releasing(u)' = IF b # First(b) /\ u = b[1] THEN Releasing(u) \cup {t} ELSE Releasing(u)
  <2>1. ASSUME NEW u, NEW s \in Thread
        PROVE  s \in Releasing(u)' <=> s \in Releasing(u) \/ (s = t /\ b # First(b) /\ u = b[1])
    BY <1>1, <1>2, <1>6 DEF Releasing, Others
  <2>2. \A u : Releasing(u) \subseteq Thread /\ Releasing(u)' \subseteq Thread
    BY DEF Releasing
  <2> QED BY <2>1, <2>2
<1>13. t \notin Releasing(b[1])
  BY <1>1 DEF Releasing
\* With the last reference to a buffer, nothing of it is left.
<1>14. ASSUME b = First(b), uRef[b] = 1
       PROVE  Of(b[1]) \ {b} = {} /\ Releasing(b[1]) = {}
  <2>1. b = <<b[1], 0>>
    BY <1>14 DEF First
  <2>2. Cardinality(Of(b[1]) \ {b}) = Cardinality(Of(b[1])) - 1 /\ IsFiniteSet(Of(b[1]) \ {b})
    BY <1>4, <1>10, OfFinite, FS_RemoveElement DEF Inv
  <2>3. uRef[b] = Cardinality(Of(b[1])) + Cardinality(FirstUsed(b[1]))
                  + Cardinality(Pushing(b[1])) + Cardinality(Releasing(b[1]))
    BY <1>4, <2>1 DEF Inv, BuffersCounted
  <2>4. Cardinality(Of(b[1]) \ {b}) \in Nat
    BY <2>2, FS_CardinalityType
  <2>5. Cardinality(Of(b[1]) \ {b}) = 0 /\ Cardinality(Releasing(b[1])) = 0
    BY <1>4, <1>14, <2>2, <2>3, <2>4, OfFinite DEF Inv
  <2> QED BY <1>4, <2>2, <2>5, OfFinite, NobodyCounts DEF Inv
<1>15. Typing'
  <2>1. uRef' \in [Block -> Int] /\ mapped' \subseteq Buffer
    BY <1>1 DEF Inv, Typing
  <2>2. touched' = FALSE
    BY <1>1, <1>4 DEF Inv, Typing
  <2> QED BY <1>1, <1>3, <2>1, <2>2 DEF Inv, Typing
<1>16. LocalInv'
  <2>1. ASSUME NEW s \in Thread, s # t, pc'[s] = "releaseFirst"
        PROVE  pBlock'[s][1] \in mapped'
    <3>1. pc[s] = "releaseFirst" /\ pBlock'[s] = pBlock[s]
      BY <1>2, <2>1 DEF Others
    <3>2. s \in Releasing(pBlock[s][1]) /\ pBlock[s][1] \in mapped
      BY <3>1 DEF Releasing, Inv, LocalInv
    <3> QED BY <1>1, <1>14, <3>1, <3>2
  <2>2. pc'[t] = "releaseFirst" => b[1] \in mapped'
    BY <1>1, <1>4, <1>6
  <2>3. ASSUME NEW s \in Thread, s # t
        PROVE  /\ pc'[s] # "idle" => at'[s] \in Image
               /\ pc'[s] \in {"link", "pop"} => pLast'[s] \in Block
               /\ pc'[s] \in {"pushRest", "push", "releaseFirst"} => pBlock'[s] \in Block
    BY <1>1, <1>2, <2>3 DEF Inv, LocalInv, Others
  <2>4. at'[t] \in Image
    BY <1>1 DEF Inv, LocalInv
  <2> QED BY <1>2, <1>6, <1>7, <2>1, <2>2, <2>3, <2>4 DEF LocalInv
<1>17. ListsProper'
  BY <1>1, <1>2, <1>3, <1>7 DEF Inv, ListsProper
<1>18. Apart'
  <2>1. \A j \in Image, s \in Thread : Listed(pFreeRoot[j]) \cap (Held(s) \cup used) = {}
    BY DEF Inv, Apart
  <2>2. \A j \in Image : Listed(pFreeRoot[j])' = Listed(pFreeRoot[j])
    BY <1>1 DEF Listed
  <2>3. \A s \in Thread : Held(s)' \subseteq Held(s)
    BY <1>7, <1>8
  <2>4. \A j, k \in Image : j # k => Listed(pFreeRoot[j])' \cap Listed(pFreeRoot[k])' = {}
    BY <2>2 DEF Inv, Apart
  <2>5. \A j \in Image, s \in Thread : Listed(pFreeRoot[j])' \cap (Held(s)' \cup used') = {}
    BY <1>1, <2>1, <2>2, <2>3
  <2>6. \A s, r \in Thread : s # r => Held(s)' \cap Held(r)' = {}
    BY <2>3 DEF Inv, Apart
  <2>7. \A s \in Thread : Held(s)' \cap used' = {}
    BY <1>1, <2>3 DEF Inv, Apart
  <2> QED BY <2>4, <2>5, <2>6, <2>7 DEF Apart
<1>19. LivingMapped'
  <2>1. ASSUME NEW c \in Living, c # b
        PROVE  c[1] \in mapped'
    <3>1. c[1] = b[1] => c \in Of(b[1]) \ {b}
      BY <2>1 DEF Of
    <3> QED BY <1>1, <1>14, <3>1 DEF Inv, LivingMapped
  <2> QED BY <1>9, <2>1 DEF LivingMapped
<1>20. BlocksCounted'
  BY <1>1, <1>6, <1>9, ListedBlocks DEF Inv, BlocksCounted
<1>21. BuffersCounted'
  <2> SUFFICES ASSUME NEW u \in mapped'
               PROVE  uRef'[<<u, 0>>] = Cardinality(Of(u)') + Cardinality(FirstUsed(u))
                                        + Cardinality(Pushing(u)) + Cardinality(Releasing(u)')
    BY <1>11 DEF BuffersCounted
  <2>1. u \in mapped /\ u \in Buffer /\ <<u, 0>> \in Block
    BY <1>1 DEF Inv, Typing, Block
  <2>2. uRef[<<u, 0>>] = Cardinality(Of(u)) + Cardinality(FirstUsed(u))
                         + Cardinality(Pushing(u)) + Cardinality(Releasing(u))
    BY <2>1 DEF Inv, BuffersCounted
  <2>3. ASSUME u # b[1]
        PROVE  Of(u)' = Of(u) /\ Releasing(u)' = Releasing(u) /\ uRef'[<<u, 0>>] = uRef[<<u, 0>>]
    BY <1>6, <1>10, <1>12, <2>1, <2>3
  <2>4. ASSUME u = b[1]
        PROVE  Cardinality(Of(u)') = Cardinality(Of(u)) - 1
    BY <1>10, <2>1, <2>4, OfFinite, OneLeaves DEF Inv
  <2>5. ASSUME u = b[1], b # First(b)
        PROVE  /\ Cardinality(Releasing(u)') = Cardinality(Releasing(u)) + 1
               /\ uRef'[<<u, 0>>] = uRef[<<u, 0>>]
    <3>1. Cardinality(Releasing(u)') = Cardinality(Releasing(u)) + 1
      BY <1>12, <1>13, <2>1, <2>5, OfFinite, OneJoins DEF Inv
    <3> QED BY <1>6, <2>1, <2>5, <3>1 DEF First
  <2>6. ASSUME u = b[1], b = First(b)
        PROVE  Releasing(u)' = Releasing(u) /\ uRef'[<<u, 0>>] = uRef[<<u, 0>>] - 1
    <3>1. b = <<u, 0>>
      BY <2>6 DEF First
    <3> QED BY <1>6, <1>12, <2>6, <3>1
  <2> QED BY <2>1, <2>2, <2>3, <2>4, <2>5, <2>6, OfFinite DEF Inv
<1> QED BY <1>15, <1>16, <1>17, <1>18, <1>19, <1>20, <1>21 DEF Inv

LEMMA ReleaseFirstStep ==
  ASSUME Inv, NEW t \in Thread, ReleaseFirst(t)
  PROVE  Inv'
<1>1. PICK u \in Buffer :
        /\ u = pBlock[t][1] /\ u \in mapped
        /\ pc[t] = "releaseFirst" /\ pc' = [pc EXCEPT ![t] = "freeAll"]
        /\ uRef' = [uRef EXCEPT ![<<u, 0>>] = @ - 1]
        /\ mapped' = IF uRef[<<u, 0>>] = 1 THEN mapped \ {u} ELSE mapped
        /\ touched' = (touched \/ u \notin mapped)
        /\ UNCHANGED <<pFreeRoot, pNext, used, at, pLast, pLink, pBlock>>
  <2>1. pc[t] = "releaseFirst" /\ pBlock[t][1] \in mapped /\ pBlock[t][1] \in Buffer
    BY DEF ReleaseFirst, Inv, LocalInv, Typing
  <2>2. /\ First(pBlock[t]) = <<pBlock[t][1], 0>> /\ First(First(pBlock[t])) = First(pBlock[t])
        /\ First(pBlock[t])[1] = pBlock[t][1]
    BY DEF First
  <2> QED BY <2>1, <2>2 DEF ReleaseFirst, Decrement, Touch, Goto, Set
<1>2. Others(t) /\ pc'[t] = "freeAll" /\ <<u, 0>> \in Block
  BY <1>1 DEF Others, Inv, Typing, Block
<1>3. uRef'[<<u, 0>>] = uRef[<<u, 0>>] - 1 /\ \A c \in Block : c # <<u, 0>> => uRef'[c] = uRef[c]
  BY <1>1, <1>2 DEF Inv, Typing
<1>4. /\ \A c : Listed(c)' = Listed(c)
      /\ \A s \in Thread \ {t} :
           /\ Held(s)' = Held(s)
           /\ pc'[s] \in {"freeAll", "releaseFirst"} => Proper(pNext', pLast'[s])
           /\ pc'[s] = "pushRest" =>
                /\ pBlock'[s] = First(pBlock'[s])
                /\ \A k \in 1 .. Blocks - 2 : pNext'[<<pBlock'[s][1], k>>] = <<pBlock'[s][1], k + 1>>
  BY <1>1, <1>2, Unlinked
<1>5. Held(t)' = Held(t)
  BY <1>1, <1>2 DEF Held, Listed
<1>6. \A j \in Image : Listed(pFreeRoot[j])' = Listed(pFreeRoot[j])
  BY <1>1 DEF Listed
<1>7. Living' = Living
  <2>1. ASSUME NEW c \in Block
        PROVE  c \in Living' <=> c \in Living
    BY <1>1, <1>4, <1>5, <1>6 DEF Living, Listed
  <2> QED BY <2>1 DEF Living
<1>8. \A v : Of(v)' = Of(v) /\ FirstUsed(v)' = FirstUsed(v) /\ Pushing(v)' = Pushing(v)
  BY <1>1, <1>2, <1>7 DEF Of, FirstUsed, Pushing, Others
<1>9. t \in Releasing(u) /\ \A v : Releasing(v)' = IF v = u THEN Releasing(v) \ {t} ELSE Releasing(v)
  <2>1. ASSUME NEW v, NEW s \in Thread
        PROVE  s \in Releasing(v)' <=> s \in Releasing(v) /\ ~(s = t /\ v = u)
    BY <1>1, <1>2 DEF Releasing, Others
  <2>2. \A v : Releasing(v) \subseteq Thread /\ Releasing(v)' \subseteq Thread
    BY DEF Releasing
  <2>3. \A v : v # u => t \notin Releasing(v)
    BY <1>1 DEF Releasing
  <2> QED BY <1>1, <2>1, <2>2, <2>3 DEF Releasing
<1>10. uRef[<<u, 0>>] = Cardinality(Of(u)) + Cardinality(FirstUsed(u))
                        + Cardinality(Pushing(u)) + Cardinality(Releasing(u))
  BY <1>1 DEF Inv, BuffersCounted
<1>11. Cardinality(Releasing(u)') = Cardinality(Releasing(u)) - 1
  BY <1>9, OfFinite, OneLeaves DEF Inv
<1>12. ASSUME uRef[<<u, 0>>] = 1
       PROVE  Of(u) = {} /\ Releasing(u) = {t}
  <2>1. IsFiniteSet(Releasing(u) \ {t}) /\ Cardinality(Releasing(u) \ {t}) = Cardinality(Releasing(u)) - 1
    BY <1>9, OfFinite, FS_RemoveElement DEF Inv
  <2>2. Cardinality(Releasing(u) \ {t}) \in Nat
    BY <2>1, FS_CardinalityType
  <2>3. Cardinality(Of(u)) = 0 /\ Cardinality(Releasing(u) \ {t}) = 0
    BY <1>10, <1>12, <2>1, <2>2, OfFinite DEF Inv
  <2>4. Of(u) = {} /\ Releasing(u) \ {t} = {}
    BY <2>1, <2>3, OfFinite, NobodyCounts DEF Inv
  <2> QED BY <1>9, <2>4
<1>13. Typing'
  <2>1. uRef' \in [Block -> Int] /\ mapped' \subseteq Buffer
    BY <1>1, <1>2 DEF Inv, Typing
  <2>2. touched' = FALSE
    BY <1>1, Zenon DEF Inv, Typing
  <2> QED BY <1>1, <2>1, <2>2 DEF Inv, Typing
<1>14. LocalInv'
  <2>1. ASSUME NEW s \in Thread, s # t, pc'[s] = "releaseFirst"
        PROVE  pBlock'[s][1] \in mapped'
    <3>1. pc[s] = "releaseFirst" /\ pBlock'[s] = pBlock[s]
      BY <1>2, <2>1 DEF Others
    <3>2. s \in Releasing(pBlock[s][1]) /\ pBlock[s][1] \in mapped
      BY <3>1 DEF Releasing, Inv, LocalInv
    <3> QED BY <1>1, <1>12, <2>1, <3>1, <3>2
  <2>2. ASSUME NEW s \in Thread, s # t
        PROVE  /\ pc'[s] # "idle" => at'[s] \in Image
               /\ pc'[s] \in {"link", "pop"} => pLast'[s] \in Block
               /\ pc'[s] \in {"pushRest", "push", "releaseFirst"} => pBlock'[s] \in Block
    BY <1>1, <1>2, <2>2 DEF Inv, LocalInv, Others
  <2>3. at'[t] \in Image
    BY <1>1 DEF Inv, LocalInv
  <2> QED BY <1>2, <1>4, <2>1, <2>2, <2>3 DEF LocalInv
<1>15. ListsProper'
  <2>1. Proper(pNext', pLast'[t])
    BY <1>1 DEF Inv, ListsProper
  <2> QED BY <1>1, <1>4, <2>1 DEF Inv, ListsProper
<1>16. Apart'
  <2>1. \A s \in Thread : Held(s)' = Held(s)
    BY <1>4, <1>5
  <2> QED BY <1>1, <1>6, <2>1 DEF Inv, Apart
<1>17. LivingMapped'
  <2>1. ASSUME NEW c \in Living
        PROVE  c[1] \in mapped'
    <3>1. c[1] = u => c \in Of(u)
      BY DEF Of
    <3> QED BY <1>1, <1>12, <3>1 DEF Inv, LivingMapped
  <2> QED BY <1>7, <2>1 DEF LivingMapped
<1>18. BlocksCounted'
  <2>1. \A c \in Block : c # First(c) => c # <<u, 0>>
    BY DEF First
  <2> QED BY <1>1, <1>3, <1>7, <2>1, ListedBlocks DEF Inv, BlocksCounted
<1>19. BuffersCounted'
  <2> SUFFICES ASSUME NEW v \in mapped'
               PROVE  uRef'[<<v, 0>>] = Cardinality(Of(v)) + Cardinality(FirstUsed(v))
                                        + Cardinality(Pushing(v)) + Cardinality(Releasing(v)')
    BY <1>8 DEF BuffersCounted
  <2>1. v \in mapped /\ <<v, 0>> \in Block
    BY <1>1 DEF Inv, Typing, Block
  <2>2. uRef[<<v, 0>>] = Cardinality(Of(v)) + Cardinality(FirstUsed(v))
                         + Cardinality(Pushing(v)) + Cardinality(Releasing(v))
    BY <2>1 DEF Inv, BuffersCounted
  <2>3. CASE v = u
    BY <1>3, <1>10, <1>11, <2>3, OfFinite DEF Inv
  <2>4. CASE v # u
    BY <1>3, <1>9, <2>1, <2>2, <2>4
  <2> QED BY <2>3, <2>4
<1> QED BY <1>13, <1>14, <1>15, <1>16, <1>17, <1>18, <1>19 DEF Inv

-----------------------------------------------------------------------------
(* The invariant.                                                          *)

LEMMA InitIInv == Init => IInv
<1> SUFFICES ASSUME Init
             PROVE  Inv
  BY DEF IInv
<1>1. Null \notin Block
  BY DEF Block
<1>2. \A i \in Image : pFreeRoot[i] = Null /\ Listed(pFreeRoot[i]) = {}
  BY <1>1, ChainNone DEF Init, Listed
<1>3. \A t \in Thread : pc[t] = "idle" /\ Held(t) = {}
  BY DEF Init, Held
<1>4. Living = {} /\ mapped = {} /\ used = {}
  BY <1>2, <1>3 DEF Init, Living
<1>5. Typing
  BY DEF Init, Typing
<1>6. LocalInv
  BY <1>3 DEF LocalInv
<1>7. ListsProper
  BY <1>1, <1>2, <1>3, ProperNone DEF ListsProper
<1>8. Apart /\ LivingMapped /\ BlocksCounted /\ BuffersCounted
  BY <1>2, <1>3, <1>4 DEF Apart, LivingMapped, BlocksCounted, BuffersCounted
<1> QED BY <1>5, <1>6, <1>7, <1>8 DEF Inv

LEMMA NextIInv == IInv /\ [Next]_vars => IInv'
<1> SUFFICES ASSUME IInv, [Next]_vars, ~broken'
             PROVE  Inv'
  BY DEF IInv
<1>1. CASE UNCHANGED vars
  <2>1. Inv
    BY <1>1 DEF IInv, vars
  <2>2. UNCHANGED <<pFreeRoot, memory, used, pc, at, pLast, pLink, pBlock, touched>>
    BY <1>1 DEF vars, locals
  <2>3. \A b : Listed(b)' = Listed(b)
    BY <2>2 DEF Listed, memory
  <2>4. \A t \in Thread : Held(t)' = Held(t)
    BY <2>2, <2>3 DEF Held, Listed, memory
  <2>5. \A i \in Image : Listed(pFreeRoot[i])' = Listed(pFreeRoot[i])
    BY <2>2 DEF Listed, memory
  <2>6. Living' = Living
    BY <2>2, <2>4, <2>5 DEF Living, Listed
  <2>7. Typing' /\ LocalInv' /\ ListsProper'
    BY <2>1, <2>2 DEF Inv, Typing, LocalInv, ListsProper, memory
  <2>8. Apart'
    BY <2>1, <2>2, <2>4, <2>5 DEF Inv, Apart
  <2>9. LivingMapped' /\ BlocksCounted'
    BY <2>1, <2>2, <2>6 DEF Inv, LivingMapped, BlocksCounted, memory
  <2>10. BuffersCounted'
    BY <2>1, <2>2, <2>6 DEF Inv, BuffersCounted, Of, FirstUsed, Pushing, Releasing, memory
  <2> QED BY <2>7, <2>8, <2>9, <2>10 DEF Inv
<1>2. CASE Next
  <2>1. Inv
    BY <1>2 DEF IInv, Next
  <2>2. PICK t \in Thread : Begin(t) \/ Go(t)
    BY <1>2 DEF Next
  <2>3. CASE Begin(t)
    BY <2>1, <2>3, AllocStep, FreeStep, FreeAllStep DEF Begin
  <2>4. CASE Go(t)
    BY <2>1, <2>4, ReadLinkStep, PopStep, GrowStep, PushRestStep, PushFreedStep,
       FreeItemStep, ReleaseFirstStep, DoneStep DEF Go
  <2> QED BY <2>2, <2>3, <2>4
<1> QED BY <1>1, <1>2

\* Until an ABA, every behaviour keeps the lists, the places and the counts as described above.
THEOREM Invariance == Spec => []IInv
  BY InitIInv, NextIInv, PTL DEF Spec

\* A block is in one place, and its buffer is there (HookThunk.h:35-48, 94-104).
THEOREM OnePlaceAlways == Spec => []OnePlace
<1>1. IInv => OnePlace
  BY DEF IInv, Inv, Apart, LivingMapped, OnePlace
<1> QED BY <1>1, Invariance, PTL

\* A buffer is given back with the last of its blocks, and nothing is done with one that is
\* gone (HookThunk.h:56, 108-138).
THEOREM BuffersKeptAlways == Spec => []BuffersKept
<1>1. IInv => BuffersKept
  BY DEF IInv, Inv, Typing, BuffersCounted, Of, FirstUsed, Pushing, Releasing, BuffersKept
<1> QED BY <1>1, Invariance, PTL
=============================================================================
