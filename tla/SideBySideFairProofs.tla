------------------------- MODULE SideBySideFairProofs -------------------------
(***************************************************************************)
(* Proofs about SharedData, ThreadRunner and ThreadpoolTimer, as           *)
(* MCSideBySideFair puts them side by side.  The data, for any number of   *)
(* images, threads and mappings: the images share one mapping, what is in  *)
(* it is kept, and handles, views and events are counted.  The window for  *)
(* tasks, for any number of threads, tasks and windows: its references are *)
(* counted exactly, a task that is registered is served, and no task is    *)
(* freed too early or listed twice.  The timers and waits, for any number  *)
(* of threads and of registrations and for callbacks that call back into   *)
(* their object: references are counted exactly, no callback runs on       *)
(* freed memory, but for a wait that was closed, and who waits for the     *)
(* callbacks outlasts them.                                                *)
(***************************************************************************)
EXTENDS MCSideBySideFair, Sequences, FiniteSetTheorems, TLAPS

USE NamesAssumption

-----------------------------------------------------------------------------
(* SharedData: the inductive invariant.                                    *)

Step(t) == Call(t) \/ Opening(t) \/ Settling(t)

\* The types, but for the counts: that they are naturals follows from what they count.
Typing ==
  /\ data \in [Image -> Mapping \cup Image \cup {Null}] /\ \A i \in Image : data[i] \in Mapping \cup {i, Null}
  /\ flag \in [Mapping -> BOOLEAN] /\ event \in [Mapping \cup Image -> BOOLEAN]
  /\ pc \in [Thread -> {"idle", "create", "map", "flag", "close", "publish", "unmap", "event",
                        "store", "closeEvent"}]
  /\ at \in [Thread -> Image \cup {Null}]
  /\ hSharedData \in [Thread -> Mapping \cup {Null}]
  /\ pData \in [Thread -> Mapping \cup Image \cup {Null}]

Counts == handles \in [Mapping -> Nat] /\ views \in [Mapping -> Nat] /\ opened \in Nat

\* What a thread in a call has: its image, the handle it has opened, and the data it has
\* mapped or found, whose bit somebody has set.
LocalInv ==
  \A t \in Thread :
    /\ pc[t] # "idle" => at[t] \in Image
    /\ pc[t] \in {"map", "flag", "close"} => hSharedData[t] \in Mapping
    /\ pc[t] = "flag" => pData[t] = hSharedData[t]
    /\ pc[t] = "unmap" => pData[t] \in Mapping /\ data[at[t]] # Null
    /\ pc[t] \in {"close", "publish", "event", "store", "closeEvent"} => pData[t] \in Mapping \cup {at[t]}
    /\ pc[t] \in {"close", "publish", "unmap", "event", "store", "closeEvent"} /\ pData[t] \in Mapping
       => flag[pData[t]]

\* The bit is set in every mapping that an image uses, or that has an event.
FlagInv ==
  /\ \A i \in Image : data[i] \in Mapping => flag[data[i]]
  /\ \A m \in Mapping : event[m] => flag[m]

\* At most one mapping has the name.
NamedInv == \A m, n \in Named : m = n

\* The data with an event are finitely many.
Eventful == {d \in Mapping \cup Image : event[d]}
EventfulFinite == IsFiniteSet(Eventful)

IInv ==
  /\ Typing /\ Counts /\ LocalInv /\ FlagInv /\ NamedInv
  /\ HandlesCounted /\ ViewsCounted /\ EventfulFinite /\ EventsCounted

-----------------------------------------------------------------------------
(* Cardinality.                                                            *)

LEMMA OneMoreElement ==
  ASSUME NEW S, IsFiniteSet(S), NEW e, e \notin S, NEW T, T = S \cup {e}
  PROVE  Cardinality(T) = Cardinality(S) + 1 /\ Cardinality(S) \in Nat /\ IsFiniteSet(T)
<1>1. Cardinality(S \cup {e}) = Cardinality(S) + 1 /\ IsFiniteSet(S \cup {e})
  BY FS_AddElement
<1>2. Cardinality(S) \in Nat
  BY FS_CardinalityType
<1> QED BY <1>1, <1>2, Zenon

LEMMA OneLessElement ==
  ASSUME NEW S, IsFiniteSet(S), NEW e, e \in S, NEW T, T = S \ {e}
  PROVE  /\ Cardinality(T) = Cardinality(S) - 1 /\ Cardinality(T) \in Nat
         /\ Cardinality(S) \in Nat /\ IsFiniteSet(T)
<1>1. Cardinality(S \ {e}) = Cardinality(S) - 1 /\ IsFiniteSet(S \ {e})
  BY FS_RemoveElement
<1>2. Cardinality(S) \in Nat
  BY FS_CardinalityType
<1>3. Cardinality(S \ {e}) \in Nat
  BY <1>1, FS_CardinalityType
<1> QED BY <1>1, <1>2, <1>3, Zenon

\* Threads and images are finitely many, and so are any of them.
LEMMA Finite ==
  /\ \A m : IsFiniteSet(HandleOf(m)) /\ IsFiniteSet(ViewOf(m)) /\ IsFiniteSet(ViewedBy(m))
  /\ \A m : /\ Cardinality(HandleOf(m)) \in Nat /\ Cardinality(ViewOf(m)) \in Nat
            /\ Cardinality(ViewedBy(m)) \in Nat
<1>1. ASSUME NEW m
      PROVE  IsFiniteSet(HandleOf(m)) /\ IsFiniteSet(ViewOf(m)) /\ IsFiniteSet(ViewedBy(m))
  <2>1. HandleOf(m) \subseteq Thread /\ ViewOf(m) \subseteq Thread /\ ViewedBy(m) \subseteq Image
    BY DEF HandleOf, ViewOf, ViewedBy
  <2> QED BY <2>1, FS_Subset
<1> QED BY <1>1, FS_CardinalityType

-----------------------------------------------------------------------------
(* What does not count.                                                    *)

\* The mapping whose bit is set has a handle, and so has every mapping with a view.
LEMMA FlaggedNamed ==
  ASSUME Counts, HandlesCounted, NEW m \in Mapping, flag[m]
  PROVE  m \in Named
<1>1. handles[m] = Cardinality(HandleOf(m)) + 1
  BY DEF HandlesCounted
<1>2. Cardinality(HandleOf(m)) \in Nat
  BY Finite
<1> QED BY <1>1, <1>2 DEF Named

LEMMA TypingStep ==
  ASSUME Typing, LocalInv, NEW t \in Thread, Step(t)
  PROVE  Typing'
<1> USE DEF Typing, LocalInv, Goto, Found
<1>1. CASE Call(t)
  BY <1>1 DEF Call, Get
<1>2. CASE Create(t)
  BY <1>2 DEF Create, Named, Fresh
<1>3. CASE CreateFails(t)
  BY <1>3 DEF CreateFails
<1>4. CASE Map(t)
  BY <1>4 DEF Map
<1>5. CASE MapFails(t)
  BY <1>5 DEF MapFails
<1>6. CASE SetFlag(t)
  BY <1>6 DEF SetFlag, Forget
<1>7. CASE Close(t)
  BY <1>7 DEF Close, Forget
<1>8. CASE Publish(t)
  BY <1>8 DEF Publish
<1>9. CASE Unmap(t)
  BY <1>9 DEF Unmap
<1>10. CASE OpenEvent(t)
  BY <1>10 DEF OpenEvent, Return
<1>11. CASE StoreEvent(t)
  BY <1>11 DEF StoreEvent, Return
<1>12. CASE CloseEvent(t)
  BY <1>12 DEF CloseEvent, Return
<1> QED
  BY <1>1, <1>2, <1>3, <1>4, <1>5, <1>6, <1>7, <1>8, <1>9, <1>10, <1>11, <1>12
  DEF Step, Opening, Settling

LEMMA TypingUnload ==
  ASSUME Typing, NEW i \in Image, Unload(i)
  PROVE  Typing'
  BY DEF Typing, Unload

\* A bit that is set stays set, and so does an event of a mapping whose bit is set.
LEMMA FlagsStay ==
  ASSUME Typing, Counts, LocalInv, HandlesCounted, [Next]_vars
  PROVE  \A m \in Mapping : flag[m] => flag'[m] /\ (event[m] => event'[m])
<1> SUFFICES ASSUME NEW m \in Mapping, flag[m]
             PROVE  flag'[m] /\ (event[m] => event'[m])
  OBVIOUS
<1> USE DEF Typing
<1>1. m \in Named
  BY FlaggedNamed
<1>2. CASE \E t \in Thread : Create(t)
  BY <1>1, <1>2 DEF Create
<1>3. CASE \E t \in Thread : SetFlag(t)
  BY <1>3 DEF SetFlag, LocalInv
<1>4. CASE \E t \in Thread : StoreEvent(t)
  BY <1>4 DEF StoreEvent
<1>5. CASE \E i \in Image : Unload(i)
  BY <1>5 DEF Unload
<1>6. CASE UNCHANGED <<flag, event>>
  BY <1>6
<1>7. \/ \E t \in Thread : Create(t) \/ SetFlag(t) \/ StoreEvent(t)
      \/ \E i \in Image : Unload(i)
      \/ UNCHANGED <<flag, event>>
  BY DEF Next, Call, Opening, Settling, Get, CreateFails, Map, MapFails, Close, Publish, Unmap, OpenEvent,
         CloseEvent, vars
<1> QED BY <1>2, <1>3, <1>4, <1>5, <1>6, <1>7

LEMMA LocalStep ==
  ASSUME Typing, LocalInv, FlagInv, NEW t \in Thread, Step(t),
         \A m \in Mapping : flag[m] => flag'[m]
  PROVE  LocalInv'
<1> USE DEF Typing, LocalInv, Goto, Found
<1>1. CASE Call(t)
  BY <1>1 DEF Call, Get, FlagInv
<1>2. CASE Create(t)
  BY <1>2 DEF Create, Named, Fresh
<1>3. CASE CreateFails(t)
  BY <1>3 DEF CreateFails
<1>4. CASE Map(t)
  BY <1>4 DEF Map
<1>5. CASE MapFails(t)
  BY <1>5 DEF MapFails
<1>6. CASE SetFlag(t)
  BY <1>6 DEF SetFlag, Forget
<1>7. CASE Close(t)
  BY <1>7 DEF Close, Forget
<1>8. CASE Publish(t)
  BY <1>8 DEF Publish, FlagInv
<1>9. CASE Unmap(t)
  BY <1>9 DEF Unmap, FlagInv
<1>10. CASE OpenEvent(t)
  BY <1>10 DEF OpenEvent, Return
<1>11. CASE StoreEvent(t)
  BY <1>11 DEF StoreEvent, Return
<1>12. CASE CloseEvent(t)
  BY <1>12 DEF CloseEvent, Return
<1> QED
  BY <1>1, <1>2, <1>3, <1>4, <1>5, <1>6, <1>7, <1>8, <1>9, <1>10, <1>11, <1>12
  DEF Step, Opening, Settling

LEMMA FlagStep ==
  ASSUME Typing, LocalInv, FlagInv, NEW t \in Thread, Step(t),
         \A m \in Mapping : flag[m] => flag'[m]
  PROVE  FlagInv'
<1> USE DEF Typing, FlagInv
<1>1. CASE Create(t)
  BY <1>1 DEF Create, Named, Fresh
<1>2. CASE Publish(t)
  BY <1>2 DEF Publish, LocalInv
<1>3. CASE StoreEvent(t)
  BY <1>3 DEF StoreEvent, LocalInv
<1>4. CASE UNCHANGED <<data, event>>
  BY <1>4
<1>5. Create(t) \/ Publish(t) \/ StoreEvent(t) \/ UNCHANGED <<data, event>>
  BY DEF Step, Call, Opening, Settling, Get, CreateFails, Map, MapFails, SetFlag, Close, Unmap,
         OpenEvent, CloseEvent
<1> QED BY <1>1, <1>2, <1>3, <1>4, <1>5

\* A new mapping is made only when none has the name.
LEMMA NamedStep ==
  ASSUME Typing, Counts, LocalInv, NamedInv, NEW t \in Thread, Step(t)
  PROVE  NamedInv'
<1> USE DEF Typing, Counts, NamedInv, Named
<1>1. CASE Create(t)
  BY <1>1 DEF Create, Fresh
<1>2. CASE Close(t)
  BY <1>2 DEF Close, LocalInv
<1>3. CASE UNCHANGED handles
  BY <1>3
<1>4. Create(t) \/ Close(t) \/ UNCHANGED handles
  BY DEF Step, Call, Opening, Settling, Get, CreateFails, Map, MapFails, SetFlag, Publish, Unmap,
         OpenEvent, StoreEvent, CloseEvent, kernel
<1> QED BY <1>1, <1>2, <1>3, <1>4

\* Unloading touches an image that nobody is in.
LEMMA UnloadKeeps ==
  ASSUME Typing, LocalInv, FlagInv, NamedInv, NEW i \in Image, Unload(i)
  PROVE  LocalInv' /\ FlagInv' /\ NamedInv'
<1> USE DEF Typing, Unload
<1>1. LocalInv'
  BY DEF LocalInv
<1>2. FlagInv'
  BY DEF FlagInv
<1>3. NamedInv'
  BY DEF NamedInv, Named
<1> QED BY <1>1, <1>2, <1>3

-----------------------------------------------------------------------------
(* Handles: counted are the one that is kept and those of threads that     *)
(* have yet to learn whether it is theirs.                                 *)

LEMMA HandlesUnmoved ==
  ASSUME Counts, HandlesCounted, UNCHANGED <<handles, flag>>,
         \A m \in Mapping : HandleOf(m)' = HandleOf(m)
  PROVE  HandlesCounted' /\ handles' \in [Mapping -> Nat]
  BY DEF HandlesCounted, Counts

LEMMA HandlesStep ==
  ASSUME Typing, Counts, LocalInv, HandlesCounted, NEW t \in Thread, Step(t)
  PROVE  HandlesCounted' /\ handles' \in [Mapping -> Nat]
<1> USE DEF Typing, LocalInv, Goto, Found
<1>1. CASE Create(t)
  <2>1. PICK k \in Named \cup Fresh :
          /\ handles' = [handles EXCEPT ![k] = @ + 1]
          /\ flag' = [flag EXCEPT ![k] = @ /\ k \in Named]
          /\ hSharedData' = [hSharedData EXCEPT ![t] = k]
    BY <1>1 DEF Create
  <2>2. k \in Mapping /\ pc[t] = "create" /\ pc' = [pc EXCEPT ![t] = "map"]
    BY <1>1 DEF Create, Named, Fresh
  <2>3. flag' = flag
    <3>1. flag[k] => k \in Named
      BY <2>2, FlaggedNamed
    <3> QED BY <2>1, <2>2, <3>1
  <2>4. \A m \in Mapping \ {k} : HandleOf(m)' = HandleOf(m)
    BY <2>1, <2>2 DEF HandleOf
  <2>5. HandleOf(k)' = HandleOf(k) \cup {t} /\ t \notin HandleOf(k)
    BY <2>1, <2>2 DEF HandleOf
  <2>6. Cardinality(HandleOf(k)') = Cardinality(HandleOf(k)) + 1
    BY <2>5, Finite, OneMoreElement
  <2>7. Cardinality(HandleOf(k)) \in Nat
    BY Finite
  <2> QED BY <2>1, <2>2, <2>3, <2>4, <2>6, <2>7 DEF HandlesCounted, Counts
<1>2. CASE SetFlag(t)
  <2>1. PICK k \in Mapping : k = pData[t] /\ k = hSharedData[t] /\ pc[t] = "flag"
    BY <1>2 DEF SetFlag
  <2>2. handles' = handles /\ flag' = [flag EXCEPT ![k] = TRUE]
    BY <1>2, <2>1 DEF SetFlag, kernel
  <2>3. \A m \in Mapping \ {k} : HandleOf(m)' = HandleOf(m)
    BY <1>2, <2>1 DEF SetFlag, Forget, HandleOf
  <2>4. CASE flag[k]
    <3>1. HandleOf(k)' = HandleOf(k)
      BY <1>2, <2>1, <2>4 DEF SetFlag, HandleOf
    <3>2. flag' = flag
      BY <2>2, <2>4
    <3> QED BY <2>2, <2>3, <3>1, <3>2, HandlesUnmoved
  <2>5. CASE ~flag[k]
    <3>1. HandleOf(k)' = HandleOf(k) \ {t} /\ t \in HandleOf(k)
      BY <1>2, <2>1, <2>5 DEF SetFlag, Forget, HandleOf
    <3>2. /\ Cardinality(HandleOf(k)') = Cardinality(HandleOf(k)) - 1
          /\ Cardinality(HandleOf(k)) \in Nat
      BY <3>1, Finite, OneLessElement
    <3> QED BY <2>1, <2>2, <2>3, <2>5, <3>2 DEF HandlesCounted, Counts
  <2> QED BY <2>4, <2>5
<1>3. CASE Close(t)
  <2>1. PICK k \in Mapping : k = hSharedData[t] /\ pc[t] = "close"
    BY <1>3 DEF Close
  <2>2. handles' = [handles EXCEPT ![k] = @ - 1] /\ flag' = flag
    BY <1>3, <2>1 DEF Close
  <2>3. \A m \in Mapping \ {k} : HandleOf(m)' = HandleOf(m)
    BY <1>3, <2>1 DEF Close, Forget, HandleOf
  <2>4. HandleOf(k)' = HandleOf(k) \ {t} /\ t \in HandleOf(k)
    BY <1>3, <2>1 DEF Close, Forget, HandleOf
  <2>5. /\ Cardinality(HandleOf(k)') = Cardinality(HandleOf(k)) - 1
        /\ Cardinality(HandleOf(k)') \in Nat /\ Cardinality(HandleOf(k)) \in Nat
    BY <2>4, Finite, OneLessElement
  <2> QED BY <2>1, <2>2, <2>3, <2>5 DEF HandlesCounted, Counts
<1>4. CASE Call(t)
  <2>1. \A m \in Mapping : HandleOf(m)' = HandleOf(m)
    BY <1>4 DEF Call, Get, HandleOf
  <2> QED BY <1>4, <2>1, HandlesUnmoved DEF Call, Get, kernel
<1>5. CASE CreateFails(t) \/ Map(t) \/ MapFails(t)
  <2>1. \A m \in Mapping : HandleOf(m)' = HandleOf(m)
    BY <1>5 DEF CreateFails, Map, MapFails, HandleOf
  <2> QED BY <1>5, <2>1, HandlesUnmoved DEF CreateFails, Map, MapFails, kernel
<1>6. CASE Settling(t)
  <2>1. \A m \in Mapping : HandleOf(m)' = HandleOf(m)
    BY <1>6 DEF Settling, Publish, Unmap, OpenEvent, StoreEvent, CloseEvent, Return, HandleOf
  <2> QED BY <1>6, <2>1, HandlesUnmoved
          DEF Settling, Publish, Unmap, OpenEvent, StoreEvent, CloseEvent, kernel
<1> QED BY <1>1, <1>2, <1>3, <1>4, <1>5, <1>6 DEF Step, Opening

-----------------------------------------------------------------------------
(* Views: counted are those of images and of threads on their way.         *)

LEMMA ViewsUnmoved ==
  ASSUME Counts, ViewsCounted, UNCHANGED views,
         \A m \in Mapping : ViewOf(m)' = ViewOf(m) /\ ViewedBy(m)' = ViewedBy(m)
  PROVE  ViewsCounted' /\ views' \in [Mapping -> Nat]
  BY DEF ViewsCounted, Counts

LEMMA ViewsStep ==
  ASSUME Typing, Counts, LocalInv, ViewsCounted, NEW t \in Thread, Step(t)
  PROVE  ViewsCounted' /\ views' \in [Mapping -> Nat]
<1> USE DEF Typing, LocalInv, Goto, Found
<1>1. CASE Map(t)
  <2>1. PICK k \in Mapping : k = hSharedData[t] /\ pc[t] = "map"
    BY <1>1 DEF Map
  <2>2. views' = [views EXCEPT ![k] = @ + 1] /\ data' = data
    BY <1>1, <2>1 DEF Map
  <2>3. \A m \in Mapping \ {k} : ViewOf(m)' = ViewOf(m)
    BY <1>1, <2>1 DEF Map, ViewOf
  <2>4. ViewOf(k)' = ViewOf(k) \cup {t} /\ t \notin ViewOf(k)
    BY <1>1, <2>1 DEF Map, ViewOf
  <2>5. Cardinality(ViewOf(k)') = Cardinality(ViewOf(k)) + 1
    BY <2>4, Finite, OneMoreElement
  <2>6. \A m \in Mapping : ViewedBy(m)' = ViewedBy(m)
    BY <2>2 DEF ViewedBy
  <2>7. Cardinality(ViewOf(k)) \in Nat /\ Cardinality(ViewedBy(k)) \in Nat
    BY Finite
  <2> QED BY <2>1, <2>2, <2>3, <2>5, <2>6, <2>7 DEF ViewsCounted, Counts
<1>2. CASE Publish(t)
  <2> DEFINE i == at[t]
  <2>1. i \in Image /\ pc[t] = "publish" /\ pData[t] \in Mapping \cup {i} /\ views' = views
    BY <1>2 DEF Publish, kernel
  <2>2. CASE data[i] = Null /\ pData[t] \in Mapping
    <3>1. PICK k \in Mapping : k = pData[t]
      BY <2>2
    <3>2. data' = [data EXCEPT ![i] = k] /\ pData' = pData /\ pc' = [pc EXCEPT ![t] = "event"]
      BY <1>2, <2>2, <3>1 DEF Publish
    <3>3. \A m \in Mapping \ {k} : ViewOf(m)' = ViewOf(m) /\ ViewedBy(m)' = ViewedBy(m)
      BY <2>1, <2>2, <3>1, <3>2 DEF ViewOf, ViewedBy
    <3>4. ViewOf(k)' = ViewOf(k) \ {t} /\ t \in ViewOf(k)
      BY <2>1, <3>1, <3>2 DEF ViewOf
    <3>5. ViewedBy(k)' = ViewedBy(k) \cup {i} /\ i \notin ViewedBy(k)
      BY <2>1, <2>2, <3>2 DEF ViewedBy
    <3>6. /\ Cardinality(ViewOf(k)') = Cardinality(ViewOf(k)) - 1
          /\ Cardinality(ViewOf(k)) \in Nat
      BY <3>4, Finite, OneLessElement
    <3>7. /\ Cardinality(ViewedBy(k)') = Cardinality(ViewedBy(k)) + 1
          /\ Cardinality(ViewedBy(k)) \in Nat
      BY <3>5, Finite, OneMoreElement
    <3> QED BY <2>1, <3>3, <3>6, <3>7 DEF ViewsCounted, Counts
  <2>3. CASE data[i] = Null /\ pData[t] = i
    <3>1. \A m \in Mapping : ViewOf(m)' = ViewOf(m) /\ ViewedBy(m)' = ViewedBy(m)
      BY <1>2, <2>1, <2>3 DEF Publish, ViewOf, ViewedBy
    <3> QED BY <2>1, <3>1, ViewsUnmoved
  <2>4. CASE data[i] # Null
    <3>1. \A m \in Mapping : ViewOf(m)' = ViewOf(m) /\ ViewedBy(m)' = ViewedBy(m)
      BY <1>2, <2>1, <2>4 DEF Publish, ViewOf, ViewedBy
    <3> QED BY <2>1, <3>1, ViewsUnmoved
  <2> QED BY <2>1, <2>2, <2>3, <2>4
<1>3. CASE Unmap(t)
  <2>1. PICK k \in Mapping : k = pData[t] /\ pc[t] = "unmap"
    BY <1>3 DEF Unmap
  <2>2. views' = [views EXCEPT ![k] = @ - 1] /\ data' = data
    BY <1>3, <2>1 DEF Unmap
  <2>3. \A m \in Mapping \ {k} : ViewOf(m)' = ViewOf(m)
    BY <1>3, <2>1 DEF Unmap, ViewOf
  <2>4. ViewOf(k)' = ViewOf(k) \ {t} /\ t \in ViewOf(k)
    BY <1>3, <2>1 DEF Unmap, ViewOf
  <2>5. /\ Cardinality(ViewOf(k)') = Cardinality(ViewOf(k)) - 1
        /\ Cardinality(ViewOf(k)') \in Nat /\ Cardinality(ViewOf(k)) \in Nat
    BY <2>4, Finite, OneLessElement
  <2>6. \A m \in Mapping : ViewedBy(m)' = ViewedBy(m)
    BY <2>2 DEF ViewedBy
  <2>7. Cardinality(ViewedBy(k)) \in Nat
    BY Finite
  <2> QED BY <2>1, <2>2, <2>3, <2>5, <2>6, <2>7 DEF ViewsCounted, Counts
<1>4. CASE Call(t) \/ Create(t) \/ CreateFails(t)
  <2>1. \A m \in Mapping : ViewOf(m)' = ViewOf(m) /\ ViewedBy(m)' = ViewedBy(m)
    BY <1>4 DEF Call, Get, Create, CreateFails, ViewOf, ViewedBy
  <2> QED BY <1>4, <2>1, ViewsUnmoved DEF Call, Get, Create, CreateFails, kernel
<1>5. CASE MapFails(t) \/ SetFlag(t) \/ Close(t)
  <2>1. \A m \in Mapping : ViewOf(m)' = ViewOf(m) /\ ViewedBy(m)' = ViewedBy(m)
    BY <1>5 DEF MapFails, SetFlag, Close, Forget, ViewOf, ViewedBy
  <2> QED BY <1>5, <2>1, ViewsUnmoved DEF MapFails, SetFlag, Close, kernel
<1>6. CASE OpenEvent(t) \/ StoreEvent(t) \/ CloseEvent(t)
  <2>1. \A m \in Mapping : ViewOf(m)' = ViewOf(m) /\ ViewedBy(m)' = ViewedBy(m)
    BY <1>6 DEF OpenEvent, StoreEvent, CloseEvent, Return, ViewOf, ViewedBy
  <2> QED BY <1>6, <2>1, ViewsUnmoved DEF OpenEvent, StoreEvent, CloseEvent, kernel
<1> QED BY <1>1, <1>2, <1>3, <1>4, <1>5, <1>6 DEF Step, Opening, Settling

\* Unloading gives up an image's view, or the event of its own data.
LEMMA UnloadCounts ==
  ASSUME Typing, Counts, LocalInv, HandlesCounted, ViewsCounted, NEW i \in Image, Unload(i)
  PROVE  /\ HandlesCounted' /\ handles' \in [Mapping -> Nat]
         /\ ViewsCounted' /\ views' \in [Mapping -> Nat]
<1> USE DEF Typing
<1>1. HandlesCounted' /\ handles' \in [Mapping -> Nat]
  <2>1. \A m \in Mapping : HandleOf(m)' = HandleOf(m)
    BY DEF Unload, HandleOf
  <2> QED BY <2>1, HandlesUnmoved DEF Unload
<1>2. \A m \in Mapping : ViewOf(m)' = ViewOf(m)
  BY DEF Unload, ViewOf
<1>3. CASE data[i] = i
  <2>1. \A m \in Mapping : ViewedBy(m)' = ViewedBy(m)
    BY <1>3 DEF Unload, ViewedBy
  <2>2. UNCHANGED views
    BY <1>3 DEF Unload
  <2> QED BY <1>1, <1>2, <2>1, <2>2, ViewsUnmoved
<1>4. CASE data[i] # i
  <2>1. PICK k \in Mapping : k = data[i]
    BY <1>4 DEF Unload
  <2>2. views' = [views EXCEPT ![k] = @ - 1]
    BY <1>4, <2>1 DEF Unload
  <2>3. \A m \in Mapping \ {k} : ViewedBy(m)' = ViewedBy(m)
    BY <2>1 DEF Unload, ViewedBy
  <2>4. ViewedBy(k)' = ViewedBy(k) \ {i} /\ i \in ViewedBy(k)
    BY <2>1 DEF Unload, ViewedBy
  <2>5. /\ Cardinality(ViewedBy(k)') = Cardinality(ViewedBy(k)) - 1
        /\ Cardinality(ViewedBy(k)') \in Nat /\ Cardinality(ViewedBy(k)) \in Nat
    BY <2>4, Finite, OneLessElement
  <2>6. Cardinality(ViewOf(k)) \in Nat
    BY Finite
  <2>7. ViewsCounted' /\ views' \in [Mapping -> Nat]
    BY <1>2, <2>1, <2>2, <2>3, <2>5, <2>6 DEF ViewsCounted, Counts
  <2> QED BY <1>1, <2>7
<1> QED BY <1>3, <1>4

-----------------------------------------------------------------------------
(* Events: counted are those kept in data, and those of threads that have  *)
(* opened one and have yet to store or to close it.                        *)

Opened == {t \in Thread : pc[t] \in {"store", "closeEvent"}}

LEMMA OpenedFinite == IsFiniteSet(Opened) /\ Cardinality(Opened) \in Nat
<1>1. Opened \subseteq Thread
  BY DEF Opened
<1> QED BY <1>1, FS_Subset, FS_CardinalityType

LEMMA EventsBalance == EventsCounted <=> opened = Cardinality(Eventful) + Cardinality(Opened)
  BY DEF EventsCounted, Eventful, Opened

LEMMA EventsUnmoved ==
  ASSUME Counts, EventfulFinite, EventsCounted, UNCHANGED <<opened, event>>, Opened' = Opened
  PROVE  EventsCounted' /\ EventfulFinite' /\ opened' \in Nat
  BY DEF EventsCounted, EventfulFinite, Eventful, Opened, Counts

LEMMA EventsStep ==
  ASSUME Typing, Counts, LocalInv, FlagInv, HandlesCounted, EventfulFinite, EventsCounted,
         NEW t \in Thread, Step(t)
  PROVE  EventsCounted' /\ EventfulFinite' /\ opened' \in Nat
<1> USE DEF Typing, LocalInv, Goto, Found
<1>0. /\ opened = Cardinality(Eventful) + Cardinality(Opened)
      /\ Cardinality(Eventful) \in Nat /\ Cardinality(Opened) \in Nat
  BY OpenedFinite, EventsBalance, FS_CardinalityType DEF EventfulFinite
<1>1. CASE Create(t)
  <2>1. Opened' = Opened /\ opened' = opened
    BY <1>1 DEF Create, Opened
  <2>2. PICK k \in Mapping : event' = [event EXCEPT ![k] = @ /\ k \in Named]
    BY <1>1 DEF Create, Named, Fresh
  <2>3. event[k] => k \in Named
    BY FlaggedNamed DEF FlagInv
  <2>4. event' = event
    BY <2>2, <2>3
  <2> QED BY <2>1, <2>4, EventsUnmoved
<1>2. CASE OpenEvent(t)
  <2>1. event' = event
    BY <1>2 DEF OpenEvent
  <2>2. CASE Return(t) /\ UNCHANGED opened
    <3>1. Opened' = Opened
      BY <1>2, <2>2 DEF OpenEvent, Return, Opened
    <3> QED BY <2>1, <2>2, <3>1, EventsUnmoved
  <2>3. CASE opened' = opened + 1 /\ Goto(t, "store")
    <3>1. Opened' = Opened \cup {t} /\ t \notin Opened
      BY <1>2, <2>3 DEF OpenEvent, Opened
    <3>2. Cardinality(Opened') = Cardinality(Opened) + 1
      BY <3>1, OpenedFinite, OneMoreElement
    <3>3. Eventful' = Eventful
      BY <2>1 DEF Eventful
    <3>4. opened' = Cardinality(Eventful') + Cardinality(Opened') /\ opened' \in Nat
      BY <1>0, <2>3, <3>2, <3>3
    <3> QED BY <3>3, <3>4 DEF EventsCounted, EventfulFinite, Eventful, Opened
  <2> QED BY <1>2, <2>2, <2>3 DEF OpenEvent
<1>3. CASE StoreEvent(t)
  <2>1. PICK d \in Mapping \cup Image : d = pData[t] /\ pc[t] = "store"
    BY <1>3 DEF StoreEvent
  <2>2. event' = [event EXCEPT ![d] = TRUE] /\ opened' = opened
    BY <1>3, <2>1 DEF StoreEvent, kernel
  <2>3. CASE event[d]
    <3>1. event' = event
      BY <2>2, <2>3
    <3>2. Opened' = Opened
      BY <1>3, <2>1, <2>3 DEF StoreEvent, Opened
    <3> QED BY <2>2, <3>1, <3>2, EventsUnmoved
  <2>4. CASE ~event[d]
    <3>1. Eventful' = Eventful \cup {d} /\ d \notin Eventful
      BY <2>2, <2>4 DEF Eventful
    <3>2. Opened' = Opened \ {t} /\ t \in Opened
      BY <1>3, <2>1, <2>4 DEF StoreEvent, Return, Opened
    <3>3. Cardinality(Eventful') = Cardinality(Eventful) + 1 /\ IsFiniteSet(Eventful')
      BY <3>1, OneMoreElement DEF EventfulFinite
    <3>4. Cardinality(Opened') = Cardinality(Opened) - 1
      BY <3>2, OpenedFinite, OneLessElement
    <3>5. opened' = Cardinality(Eventful') + Cardinality(Opened') /\ opened' \in Nat
      BY <1>0, <2>2, <3>3, <3>4 DEF Counts
    <3> QED BY <3>3, <3>5 DEF EventsCounted, EventfulFinite, Eventful, Opened
  <2> QED BY <2>3, <2>4
<1>4. CASE CloseEvent(t)
  <2>1. Opened' = Opened \ {t} /\ t \in Opened
    BY <1>4 DEF CloseEvent, Return, Opened
  <2>2. Cardinality(Opened') = Cardinality(Opened) - 1 /\ Cardinality(Opened') \in Nat
    BY <2>1, OpenedFinite, OneLessElement
  <2>3. Eventful' = Eventful /\ opened' = opened - 1
    BY <1>4 DEF CloseEvent, Eventful
  <2>4. opened' = Cardinality(Eventful') + Cardinality(Opened') /\ opened' \in Nat
    BY <1>0, <2>2, <2>3
  <2> QED BY <2>3, <2>4 DEF EventsCounted, EventfulFinite, Eventful, Opened
<1>5. CASE Call(t) \/ CreateFails(t) \/ Map(t) \/ MapFails(t)
  <2>1. Opened' = Opened
    BY <1>5 DEF Call, Get, CreateFails, Map, MapFails, Opened
  <2> QED BY <1>5, <2>1, EventsUnmoved DEF Call, Get, CreateFails, Map, MapFails, kernel
<1>6. CASE SetFlag(t) \/ Close(t) \/ Publish(t) \/ Unmap(t)
  <2>1. Opened' = Opened
    BY <1>6 DEF SetFlag, Close, Publish, Unmap, Forget, Opened
  <2> QED BY <1>6, <2>1, EventsUnmoved DEF SetFlag, Close, Publish, Unmap, kernel
<1> QED BY <1>1, <1>2, <1>3, <1>4, <1>5, <1>6 DEF Step, Opening, Settling

LEMMA UnloadEvents ==
  ASSUME Typing, Counts, EventfulFinite, EventsCounted, NEW i \in Image, Unload(i)
  PROVE  EventsCounted' /\ EventfulFinite' /\ opened' \in Nat
<1> USE DEF Typing
<1>1. Opened' = Opened
  BY DEF Unload, Opened
<1>2. CASE data[i] = i /\ event[i]
  <2>1. Eventful' = Eventful \ {i} /\ i \in Eventful /\ opened' = opened - 1
    BY <1>2 DEF Unload, Eventful
  <2>2. /\ Cardinality(Eventful') = Cardinality(Eventful) - 1
        /\ Cardinality(Eventful') \in Nat /\ Cardinality(Eventful) \in Nat /\ IsFiniteSet(Eventful')
    BY <2>1, OneLessElement DEF EventfulFinite
  <2>3. opened = Cardinality(Eventful) + Cardinality(Opened) /\ Cardinality(Opened) \in Nat
    BY OpenedFinite, EventsBalance
  <2>4. opened' = Cardinality(Eventful') + Cardinality(Opened') /\ opened' \in Nat
    BY <1>1, <2>1, <2>2, <2>3
  <2> QED BY <2>2, <2>4 DEF EventsCounted, EventfulFinite, Eventful, Opened
<1>3. CASE ~(data[i] = i /\ event[i])
  <2>1. CASE data[i] # i
    BY <1>1, <2>1, EventsUnmoved DEF Unload
  <2>2. CASE data[i] = i
    <3>1. opened' = opened /\ event' = [event EXCEPT ![i] = FALSE]
      BY <1>3, <2>2 DEF Unload
    <3>2. event' = event
      BY <1>3, <2>2, <3>1
    <3> QED BY <1>1, <3>1, <3>2, EventsUnmoved
  <2> QED BY <2>1, <2>2
<1> QED BY <1>2, <1>3

-----------------------------------------------------------------------------
(* The invariant, and what it is for.                                      *)

LEMMA InitIInv ==
  ASSUME Init
  PROVE  IInv
<1> USE DEF Init
<1>1. Typing /\ Counts /\ LocalInv /\ FlagInv /\ NamedInv
  BY DEF Typing, Counts, LocalInv, FlagInv, NamedInv, Named
<1>2. /\ \A m \in Mapping : HandleOf(m) = {} /\ ViewOf(m) = {} /\ ViewedBy(m) = {}
      /\ Eventful = {} /\ Opened = {}
  BY DEF HandleOf, ViewOf, ViewedBy, Eventful, Opened
<1>3. IsFiniteSet({}) /\ Cardinality({}) = 0
  BY FS_EmptySet
<1>4. HandlesCounted /\ ViewsCounted
  BY <1>2, <1>3 DEF HandlesCounted, ViewsCounted
<1>5. EventfulFinite
  BY <1>2, <1>3 DEF EventfulFinite
<1>6. EventsCounted
  BY <1>2, <1>3, EventsBalance
<1> QED BY <1>1, <1>4, <1>5, <1>6 DEF IInv

LEMMA NextIInv ==
  ASSUME IInv, [Next]_vars
  PROVE  IInv'
<1> USE DEF IInv
<1>1. CASE \E t \in Thread : Step(t)
  <2>1. PICK t \in Thread : Step(t)
    BY <1>1
  <2>2. \A m \in Mapping : flag[m] => flag'[m]
    BY FlagsStay
  <2>3. Typing' /\ LocalInv' /\ FlagInv' /\ NamedInv'
    BY <2>1, <2>2, TypingStep, LocalStep, FlagStep, NamedStep
  <2>4. HandlesCounted' /\ ViewsCounted' /\ EventsCounted' /\ EventfulFinite' /\ Counts'
    BY <2>1, HandlesStep, ViewsStep, EventsStep DEF Counts
  <2> QED BY <2>3, <2>4
<1>2. CASE \E i \in Image : Unload(i)
  BY <1>2, TypingUnload, UnloadKeeps, UnloadCounts, UnloadEvents DEF Counts
<1>3. CASE UNCHANGED vars
  BY <1>3 DEF vars, kernel, Typing, Counts, LocalInv, FlagInv, NamedInv, Named, HandlesCounted, ViewsCounted,
              HandleOf, ViewOf, ViewedBy, EventfulFinite, Eventful, EventsCounted
<1> QED BY <1>1, <1>2, <1>3 DEF Next, Step

\* The inductive invariant holds of every behaviour: what a thread has opened and mapped, which
\* mappings have their bit set, that one has the name, and the counts (YY_Thunks.cpp:1624-1692).
THEOREM DataInvariance == Spec => []IInv
<1>1. Init => IInv
  BY InitIInv
<1>2. IInv /\ [Next]_vars => IInv'
  BY NextIInv
<1> QED BY <1>1, <1>2, PTL DEF Spec

\* Every variable keeps its type; no count of handles, views or events falls below zero.
THEOREM TypeCorrect == Spec => []TypeOK
<1>1. IInv => TypeOK
  BY DEF IInv, Typing, Counts, TypeOK
<1> QED BY <1>1, DataInvariance, PTL

\* However many images and threads come and go, no handle, view or event is leaked or given up
\* under others (YY_Thunks.cpp:1661-1687, api-ms-win-core-synch.hpp:222).
THEOREM LeakFree == Spec => []NothingLeaked
<1>1. IInv => NothingLeaked
  BY DEF IInv, NothingLeaked
<1> QED BY <1>1, DataInvariance, PTL

\* All images that could map the data have the same mapping (YY_Thunks.cpp:1656).
THEOREM MappingShared == Spec => []OneMapping
<1>1. ASSUME IInv, NEW m \in Mapping, views[m] > 0
      PROVE  m \in Named
  <2>1. CASE flag[m]
    BY <1>1, <2>1, FlaggedNamed DEF IInv
  <2>2. CASE ~flag[m]
    <3>1. ViewedBy(m) = {}
      BY <1>1, <2>2 DEF IInv, FlagInv, ViewedBy
    <3>2. Cardinality(ViewedBy(m)) = 0
      BY <3>1, FS_EmptySet
    <3>3. views[m] = Cardinality(ViewOf(m)) /\ Cardinality(ViewOf(m)) \in Nat
      BY <1>1, <3>2, Finite DEF IInv, ViewsCounted
    <3>4. ViewOf(m) # {}
      BY <1>1, <3>3, FS_EmptySet
    <3>5. PICK t \in Thread : pc[t] \in {"flag", "close", "publish", "unmap"} /\ pData[t] = m
      BY <3>4 DEF ViewOf
    <3>6. t \in HandleOf(m)
      BY <1>1, <2>2, <3>5 DEF IInv, LocalInv, HandleOf
    <3>7. Cardinality(HandleOf(m)) \in Nat \ {0}
      BY <3>6, Finite, FS_EmptySet
    <3>8. handles[m] = Cardinality(HandleOf(m))
      BY <1>1, <2>2, <3>7 DEF IInv, HandlesCounted
    <3> QED BY <3>7, <3>8 DEF Named
  <2> QED BY <2>1, <2>2
<1>2. IInv => OneMapping
  BY <1>1 DEF IInv, NamedInv, OneMapping
<1> QED BY <1>2, DataInvariance, PTL

\* What is in the data stays to the end of the process, whichever images are left
\* (YY_Thunks.cpp:1661).
THEOREM DataKept == Spec => KeptForLife
<1>1. IInv /\ [Next]_vars => [\A m \in Mapping : flag[m] => flag'[m] /\ (event[m] => event'[m])]_vars
  BY FlagsStay DEF IInv
<1> QED BY <1>1, DataInvariance, PTL DEF Spec, KeptForLife

USE NullAssumption, ThreadsAssumption

-----------------------------------------------------------------------------
(* ThreadRunner: the inductive invariant.                                  *)

RunnerTyping ==
  /\ uRef \in Int /\ hWnd \in Window \cup {Null}
  /\ pCallbackList \in Seq(Task) /\ pPendingCallbackList \in Seq(Task)
  /\ pfnCallback \subseteq Task /\ live \subseteq Task
  /\ registered \subseteq Task /\ IsFiniteSet(registered)
  /\ runnerPc \in [Client -> {"idle", "start", "wait", "push", "release", "post"}]
  /\ pWork \in [Client -> Task \cup {Null}]
  /\ window \in [Window -> {"none", "starting", "noWindow", "noClass", "idle", "first", "second", "closing"}]
  /\ starter \in [Window -> Client \cup {Null}]
  /\ shown \subseteq Window

\* Who has a task that it has not registered yet; who has the lock, and with it starts a window.
Adding(t) == runnerPc[t] \in {"start", "wait", "push"}
Starting(t) == runnerPc[t] \in {"start", "wait"}
OnLists == Runner!ToSet(pCallbackList) \cup Runner!ToSet(pPendingCallbackList)

\* A task is one client's until it is registered, and allocated until its callback is reset.
TasksInv ==
  /\ registered \subseteq pfnCallback /\ registered \subseteq live
  /\ \A t \in Client : Adding(t) =>
       pWork[t] \in pfnCallback /\ pWork[t] \in live /\ pWork[t] \notin registered /\ pWork[t] \notin OnLists
  /\ \A t, u \in Client : t # u /\ Adding(t) /\ Adding(u) => pWork[t] # pWork[u]

ListsInv ==
  /\ Runner!ToSet(pCallbackList) \subseteq live /\ Runner!ToSet(pPendingCallbackList) \subseteq live
  /\ Runner!IsInjective(pCallbackList) /\ Runner!IsInjective(pPendingCallbackList)
  /\ Runner!ToSet(pCallbackList) \cap Runner!ToSet(pPendingCallbackList) = {}

\* The lock has one owner, a client that starts a window or a window that ends.
OwnerInv ==
  /\ uRef = Runner!Locked <=> (\E t \in Client : Starting(t)) \/ (\E w \in Window : window[w] = "closing")
  /\ \A t, u \in Client : Starting(t) /\ Starting(u) => t = u
  /\ \A t \in Client, w \in Window : ~(Starting(t) /\ window[w] = "closing")

\* There is one window at a time, and it has the runner's data from its beginning to its end.
WindowInv ==
  /\ shown = {w \in Window : window[w] \in {"idle", "first", "second"}}
  /\ \A w \in Window : hWnd = w <=> w \in shown
  /\ \A v, w \in Window : window[v] # "none" /\ window[w] # "none" => v = w
  /\ \A t \in Client, w \in Window : runnerPc[t] = "start" => window[w] = "none"
  /\ \A w \in Window : starter[w] # Null =>
       runnerPc[starter[w]] = "wait" /\ window[w] \in {"starting", "noWindow", "noClass", "idle"}
  /\ \A w \in Window : window[w] \in {"starting", "noWindow", "noClass"} => starter[w] # Null

\* Without a window, or under the lock, there are no tasks.
IdleInv ==
  uRef = Runner!Locked \/ shown = {} =>
    /\ registered = {} /\ pCallbackList = <<>> /\ pPendingCallbackList = <<>>
    /\ \A t \in Client : ~Runner!Counting(t)

Counters == {t \in Client : Runner!Counting(t)}
TasksCounted == uRef # Runner!Locked => uRef = Cardinality(registered) + Cardinality(Counters) + Cardinality(shown)

RunnerInv == RunnerTyping /\ TasksInv /\ ListsInv /\ OwnerInv /\ WindowInv /\ IdleInv /\ TasksCounted

-----------------------------------------------------------------------------
(* Lists of tasks.                                                         *)

LEMMA ListEmpty == Runner!ToSet(<<>>) = {} /\ Runner!IsInjective(<<>>)
  BY DEF Runner!ToSet, Runner!IsInjective

LEMMA ListCons ==
  ASSUME NEW S, NEW k \in S, NEW s \in Seq(S)
  PROVE  /\ <<k>> \o s \in Seq(S) /\ Runner!ToSet(<<k>> \o s) = {k} \cup Runner!ToSet(s)
         /\ (k \notin Runner!ToSet(s) /\ Runner!IsInjective(s) => Runner!IsInjective(<<k>> \o s))
<1> DEFINE n == <<k>> \o s
<1>1. n \in Seq(S) /\ Len(n) = Len(s) + 1 /\ Len(s) \in Nat
  OBVIOUS
<1>2. n[1] = k /\ \A i \in 1 .. Len(s) : n[i + 1] = s[i]
  OBVIOUS
<1>3. DOMAIN n = 1 .. Len(s) + 1 /\ DOMAIN s = 1 .. Len(s)
  BY <1>1
<1> HIDE DEF n
<1>4. \A i \in DOMAIN n : i = 1 \/ (i - 1 \in 1 .. Len(s) /\ n[i] = s[i - 1])
  <2> TAKE i \in DOMAIN n
  <2>1. i # 1 => i - 1 \in 1 .. Len(s) /\ (i - 1) + 1 = i
    BY <1>1, <1>3
  <2>2. i # 1 => n[(i - 1) + 1] = s[i - 1]
    BY <1>2, <2>1
  <2>3. i # 1 => n[i] = s[i - 1]
    BY <2>1, <2>2
  <2> QED BY <2>1, <2>3
<1>5. Runner!ToSet(n) = {k} \cup Runner!ToSet(s)
  <2>1. \A i \in 1 .. Len(s) : i + 1 \in DOMAIN n
    BY <1>1, <1>3
  <2>2. 1 \in DOMAIN n
    BY <1>1, <1>3
  <2>3. \A i \in DOMAIN n : n[i] \in {k} \cup Runner!ToSet(s)
    BY <1>2, <1>3, <1>4 DEF Runner!ToSet
  <2>4. k \in Runner!ToSet(n) /\ \A i \in 1 .. Len(s) : s[i] \in Runner!ToSet(n)
    BY <1>2, <2>1, <2>2 DEF Runner!ToSet
  <2> QED BY <1>3, <2>3, <2>4 DEF Runner!ToSet
<1>6. ASSUME k \notin Runner!ToSet(s), Runner!IsInjective(s)
      PROVE  Runner!IsInjective(n)
  <2> SUFFICES ASSUME NEW a \in DOMAIN n, NEW b \in DOMAIN n, n[a] = n[b]
               PROVE  a = b
    BY DEF Runner!IsInjective
  <2>1. a \in Int /\ b \in Int
    BY <1>1, <1>3
  <2>2. \A i \in 1 .. Len(s) : s[i] # k
    BY <1>3, <1>6 DEF Runner!ToSet
  <2>3. \A i, j \in 1 .. Len(s) : s[i] = s[j] => i = j
    BY <1>3, <1>6 DEF Runner!IsInjective
  <2> QED BY <1>2, <1>4, <2>1, <2>2, <2>3
<1> QED BY <1>1, <1>5, <1>6 DEF n

LEMMA ListTail ==
  ASSUME NEW S, NEW s \in Seq(S), s # <<>>
  PROVE  /\ Head(s) \in S /\ Tail(s) \in Seq(S) /\ Runner!ToSet(s) = {Head(s)} \cup Runner!ToSet(Tail(s))
         /\ (Runner!IsInjective(s) => Runner!IsInjective(Tail(s)) /\ Head(s) \notin Runner!ToSet(Tail(s)))
<1> DEFINE r == Tail(s)
<1>1. Len(s) \in Nat \ {0} /\ Head(s) = s[1] /\ s[1] \in S /\ r \in Seq(S) /\ Len(r) = Len(s) - 1
  OBVIOUS
<1>2. \A i \in 1 .. Len(s) - 1 : r[i] = s[i + 1]
  OBVIOUS
<1>3. DOMAIN r = 1 .. Len(s) - 1 /\ DOMAIN s = 1 .. Len(s)
  BY <1>1
<1> HIDE DEF r
<1>4. \A i \in 1 .. Len(s) : i = 1 \/ (i - 1 \in DOMAIN r /\ s[i] = r[i - 1])
  <2> TAKE i \in 1 .. Len(s)
  <2>1. i # 1 => i - 1 \in 1 .. Len(s) - 1 /\ (i - 1) + 1 = i
    BY <1>1
  <2>2. i # 1 => r[i - 1] = s[(i - 1) + 1]
    BY <1>2, <2>1
  <2>3. i # 1 => r[i - 1] = s[i]
    BY <2>1, <2>2
  <2> QED BY <1>3, <2>1, <2>3
<1>5. \A i \in DOMAIN r : i + 1 \in DOMAIN s /\ i + 1 # 1 /\ i \in Int
  BY <1>1, <1>3
<1>6. Runner!ToSet(s) = {s[1]} \cup Runner!ToSet(r)
  <2>1. 1 \in DOMAIN s
    BY <1>1, <1>3
  <2> QED BY <1>2, <1>3, <1>4, <1>5, <2>1 DEF Runner!ToSet
<1>7. ASSUME Runner!IsInjective(s)
      PROVE  Runner!IsInjective(r) /\ s[1] \notin Runner!ToSet(r)
  <2>1. \A i, j \in DOMAIN s : s[i] = s[j] => i = j
    BY <1>7 DEF Runner!IsInjective
  <2>2. \A i \in DOMAIN r : s[1] # r[i]
    BY <1>1, <1>2, <1>3, <1>5, <2>1
  <2>3. \A i, j \in DOMAIN r : r[i] = r[j] => i = j
    BY <1>2, <1>3, <1>5, <2>1
  <2> QED BY <2>2, <2>3 DEF Runner!ToSet, Runner!IsInjective
<1> QED BY <1>1, <1>6, <1>7 DEF r

LEMMA ListOne ==
  ASSUME NEW S, NEW k \in S
  PROVE  <<k>> \in Seq(S) /\ <<>> \in Seq(S)
OBVIOUS

LEMMA ListLast ==
  ASSUME NEW S, NEW s \in Seq(S), s # <<>>
  PROVE  /\ Runner!Last(s) \in S /\ Runner!Last(s) \in Runner!ToSet(s)
         /\ Runner!ToSet(<<Runner!Last(s)>>) = {Runner!Last(s)} /\ Runner!IsInjective(<<Runner!Last(s)>>)
<1>1. Len(s) \in DOMAIN s /\ s[Len(s)] \in S
  OBVIOUS
<1> QED BY <1>1 DEF Runner!Last, Runner!ToSet, Runner!IsInjective

-----------------------------------------------------------------------------
(* ThreadRunner: steps.                                                    *)

LEMMA RunnerTypingStep ==
  ASSUME RunnerInv, Runner!Next, ~over'
  PROVE  RunnerTyping'
<1> USE DEF RunnerInv, RunnerTyping, Runner!Locked, Runner!lists, Runner!tasks, Runner!clients, Runner!windows, Runner!round
<1>1. ASSUME NEW t \in Client, Runner!AddTask(t)
     PROVE  RunnerTyping'
  BY <1>1 DEF Runner!AddTask, Runner!Goto
<1>2. ASSUME NEW t \in Client, Runner!Start(t)
     PROVE  RunnerTyping'
  BY <1>2 DEF Runner!Start, Runner!Goto, Runner!At
<1>3. ASSUME NEW t \in Client, Runner!StartFails(t)
     PROVE  RunnerTyping'
  BY <1>3 DEF Runner!StartFails, Runner!Fails, Runner!Return, Runner!Goto
<1>4. ASSUME NEW t \in Client, NEW w \in Window, Runner!Started(t, w)
     PROVE  RunnerTyping'
  <2>1. CASE window[w] = "idle"
    BY <1>4, <2>1 DEF Runner!Started, Runner!Goto
  <2>2. CASE window[w] = "noWindow"
    BY <1>4, <2>2 DEF Runner!Started, Runner!Fails, Runner!Return, Runner!Goto, Runner!At
  <2>3. window[w] \in {"idle", "noWindow"}
    BY <1>4 DEF Runner!Started
  <2> QED BY <2>1, <2>2, <2>3
<1>5. ASSUME NEW t \in Client, Runner!Push(t)
     PROVE  RunnerTyping'
  <2>1. pWork[t] \in Task
    BY <1>5 DEF Runner!Push, TasksInv, Adding
  <2>2. pPendingCallbackList' \in Seq(Task)
    BY <1>5, <2>1, ListCons DEF Runner!Push
  <2>3. registered' \subseteq Task /\ IsFiniteSet(registered')
    BY <1>5, <2>1, FS_AddElement DEF Runner!Push
  <2> QED BY <1>5, <2>2, <2>3 DEF Runner!Push, Runner!Return, Runner!Goto
<1>6. ASSUME NEW t \in Client, Runner!RemoveTask(t)
     PROVE  RunnerTyping'
  <2>1. registered' \subseteq registered
    BY <1>6 DEF Runner!RemoveTask
  <2>2. IsFiniteSet(registered')
    BY <2>1, FS_Subset
  <2> QED BY <1>6, <2>1, <2>2 DEF Runner!RemoveTask, Runner!Goto
<1>7. ASSUME NEW t \in Client, Runner!Release(t)
     PROVE  RunnerTyping'
  BY <1>7 DEF Runner!Release, Runner!Return, Runner!Goto
<1>8. ASSUME NEW t \in Client, Runner!Post(t)
     PROVE  RunnerTyping'
  BY <1>8 DEF Runner!Post, Runner!Return, Runner!Goto
<1>9. ASSUME NEW w \in Window, Runner!MakeWindow(w)
     PROVE  RunnerTyping'
  BY <1>9 DEF Runner!MakeWindow, Runner!At
<1>10. ASSUME NEW w \in Window, Runner!Close(w)
     PROVE  RunnerTyping'
  <2>1. CASE uRef = 1
    BY <1>10, <2>1 DEF Runner!Close, Runner!TryClean, Runner!At
  <2>2. CASE uRef # 1
    BY <1>10, <2>2 DEF Runner!Close
  <2> QED BY <2>1, <2>2
<1>11. ASSUME NEW w \in Window, Runner!Closed(w)
     PROVE  RunnerTyping'
  BY <1>11 DEF Runner!Closed, Runner!At
<1>12. ASSUME NEW w \in Window, Runner!Message(w)
     PROVE  RunnerTyping'
  BY <1>12 DEF Runner!Message, Runner!At
<1>13. ASSUME NEW w \in Window, Runner!Turn(w)
     PROVE  RunnerTyping'
  <2>1. pCallbackList # <<>> /\ Head(pCallbackList) \in Task /\ Tail(pCallbackList) \in Seq(Task)
    BY <1>13, ListTail DEF Runner!Turn, Runner!Visit
  <2>2. pCallbackList' \in {pCallbackList, Tail(pCallbackList)} /\ live' \subseteq live
    BY <1>13 DEF Runner!Turn, Runner!Visit
  <2> QED BY <1>13, <2>1, <2>2 DEF Runner!Turn
<1>14. ASSUME NEW w \in Window, Runner!Merge(w)
     PROVE  RunnerTyping'
  <2>1. pCallbackList' \in Seq(Task)
    <3>1. CASE pPendingCallbackList = <<>>
      BY <1>14, <3>1 DEF Runner!Merge
    <3>2. CASE pPendingCallbackList # <<>>
      <4>1. pCallbackList' = <<Runner!Last(pPendingCallbackList)>> \/ pCallbackList' = <<>>
        BY <1>14, <3>2 DEF Runner!Merge
      <4>2. Runner!Last(pPendingCallbackList) \in Task
        BY <3>2, ListLast
      <4>3. <<Runner!Last(pPendingCallbackList)>> \in Seq(Task) /\ <<>> \in Seq(Task)
        BY <4>2, ListOne
      <4> QED BY <4>1, <4>3
    <3> QED BY <3>1, <3>2
  <2>2. pPendingCallbackList' \in Seq(Task)
    BY <1>14 DEF Runner!Merge
  <2>3. window' = [window EXCEPT ![w] = "idle"] \/ window' = [window EXCEPT ![w] = "second"]
    BY <1>14 DEF Runner!Merge, Runner!At
  <2> QED BY <1>14, <2>1, <2>2, <2>3 DEF Runner!Merge
<1>15. ASSUME NEW w \in Window, Runner!RoundOver(w)
     PROVE  RunnerTyping'
  BY <1>15 DEF Runner!RoundOver, Runner!RoundReset, Runner!At
<1>16. ASSUME NEW t \in Client, NEW w \in Window, Runner!TimeOut(t, w)
     PROVE  RunnerTyping'
  BY <1>16 DEF Runner!TimeOut
<1>17. ASSUME NEW w \in Window, Runner!Exit(w)
     PROVE  RunnerTyping'
  BY <1>17 DEF Runner!Exit
<1> QED
  BY <1>1, <1>2, <1>3, <1>4, <1>5, <1>6, <1>7, <1>8, <1>9,
     <1>10, <1>11, <1>12, <1>13, <1>14, <1>15, <1>16, <1>17
     DEF Runner!Next, Runner!Begin, Runner!Inside, Runner!Run, Runner!Outside


LEMMA OneJoins ==
  ASSUME NEW S, IsFiniteSet(S), NEW e, e \notin S, NEW T, T = S \cup {e}
  PROVE  Cardinality(T) = Cardinality(S) + 1
<1>1. Cardinality(S \cup {e}) = Cardinality(S) + 1
  BY FS_AddElement
<1> QED BY <1>1, Zenon

LEMMA OneLeaves ==
  ASSUME NEW S, IsFiniteSet(S), NEW e, e \in S, NEW T, T = S \ {e}
  PROVE  Cardinality(T) = Cardinality(S) - 1
<1>1. Cardinality(S \ {e}) = Cardinality(S) - 1
  BY FS_RemoveElement
<1> QED BY <1>1, Zenon

LEMMA CountsFinite ==
  ASSUME RunnerInv
  PROVE  /\ IsFiniteSet(registered) /\ IsFiniteSet(Counters) /\ IsFiniteSet(shown)
         /\ Cardinality(registered) \in Nat /\ Cardinality(Counters) \in Nat
         /\ Cardinality(shown) = IF shown = {} THEN 0 ELSE 1
<1>1. IsFiniteSet(registered)
  BY DEF RunnerInv, RunnerTyping
<1>2. IsFiniteSet(Counters)
  <2>1. Counters \subseteq Client
    BY DEF Counters
  <2> QED BY <2>1, FS_Subset
<1>3. shown = {} \/ \E w \in Window : shown = {w}
  BY DEF RunnerInv, WindowInv
<1>4. IsFiniteSet(shown) /\ Cardinality(shown) = IF shown = {} THEN 0 ELSE 1
  BY <1>3, FS_EmptySet, FS_Singleton
<1> QED BY <1>1, <1>2, <1>4, FS_CardinalityType

\* What the count tells.
LEMMA CountTells ==
  ASSUME RunnerInv, uRef # Runner!Locked
  PROVE  /\ uRef \in Nat
         /\ uRef = 0 => shown = {} /\ registered = {} /\ \A t \in Client : ~Runner!Counting(t)
         /\ uRef = 1 => shown # {} /\ registered = {} /\ \A t \in Client : ~Runner!Counting(t)
         /\ \A t \in Client : Runner!Counting(t) => shown # {} /\ uRef > 1
<1>1. uRef = Cardinality(registered) + Cardinality(Counters) + IF shown = {} THEN 0 ELSE 1
  BY CountsFinite DEF RunnerInv, TasksCounted
<1>2. shown = {} => registered = {} /\ Counters = {}
  BY DEF RunnerInv, IdleInv, Counters
<1>3. uRef \in {0, 1} => Cardinality(registered) = 0 /\ Cardinality(Counters) = 0
  <2>1. shown = {} => Cardinality(registered) = 0 /\ Cardinality(Counters) = 0
    BY <1>2, FS_EmptySet
  <2> QED BY <1>1, <2>1, CountsFinite
<1>4. uRef \in {0, 1} => registered = {} /\ Counters = {}
  BY <1>3, CountsFinite, FS_EmptySet
<1>5. uRef \in {0, 1} => (shown = {} <=> uRef = 0)
  BY <1>1, <1>3
<1>6. \A t \in Client : Runner!Counting(t) => t \in Counters
  BY DEF Counters
<1>7. uRef \in Nat
  BY <1>1, CountsFinite
<1>8. \A t \in Client : Runner!Counting(t) => shown # {} /\ uRef > 1
  BY <1>2, <1>4, <1>6, <1>7
<1> QED BY <1>4, <1>5, <1>6, <1>7, <1>8

LEMMA OwnerStep ==
  ASSUME RunnerInv, Runner!Next, ~over'
  PROVE  OwnerInv'
<1> USE DEF RunnerInv, RunnerTyping, OwnerInv, WindowInv, IdleInv, Starting, Runner!Counting, Runner!Locked, Runner!lists, Runner!tasks, Runner!clients, Runner!windows, Runner!round
<1>1. ASSUME NEW t \in Client, Runner!AddTask(t)
     PROVE  OwnerInv'
  BY <1>1, CountTells DEF Runner!AddTask, Runner!Goto
<1>2. ASSUME NEW t \in Client, Runner!Start(t)
     PROVE  OwnerInv'
  BY <1>2, CountTells DEF Runner!Start, Runner!Goto, Runner!At
<1>3. ASSUME NEW t \in Client, Runner!StartFails(t)
     PROVE  OwnerInv'
  BY <1>3, CountTells DEF Runner!StartFails, Runner!Fails, Runner!Return, Runner!Goto
<1>4. ASSUME NEW t \in Client, NEW w \in Window, Runner!Started(t, w)
     PROVE  OwnerInv'
  BY <1>4, CountTells DEF Runner!Started, Runner!Fails, Runner!Return, Runner!Goto, Runner!At
<1>5. ASSUME NEW t \in Client, Runner!Push(t)
     PROVE  OwnerInv'
  BY <1>5, CountTells DEF Runner!Push, Runner!Return, Runner!Goto
<1>6. ASSUME NEW t \in Client, Runner!RemoveTask(t)
     PROVE  OwnerInv'
  BY <1>6, CountTells DEF Runner!RemoveTask, Runner!Goto
<1>7. ASSUME NEW t \in Client, Runner!Release(t)
     PROVE  OwnerInv'
  BY <1>7, CountTells DEF Runner!Release, Runner!Return, Runner!Goto
<1>8. ASSUME NEW t \in Client, Runner!Post(t)
     PROVE  OwnerInv'
  BY <1>8, CountTells DEF Runner!Post, Runner!Return, Runner!Goto
<1>9. ASSUME NEW w \in Window, Runner!MakeWindow(w)
     PROVE  OwnerInv'
  BY <1>9, CountTells DEF Runner!MakeWindow, Runner!At
<1>10. ASSUME NEW w \in Window, Runner!Close(w)
     PROVE  OwnerInv'
  BY <1>10, CountTells DEF Runner!Close, Runner!TryClean, Runner!At
<1>11. ASSUME NEW w \in Window, Runner!Closed(w)
     PROVE  OwnerInv'
  BY <1>11, CountTells DEF Runner!Closed, Runner!At
<1>12. ASSUME NEW w \in Window, Runner!Message(w)
     PROVE  OwnerInv'
  BY <1>12, CountTells DEF Runner!Message, Runner!At
<1>13. ASSUME NEW w \in Window, Runner!Turn(w)
     PROVE  OwnerInv'
  BY <1>13, CountTells DEF Runner!Turn, Runner!Visit
<1>14. ASSUME NEW w \in Window, Runner!Merge(w)
     PROVE  OwnerInv'
  BY <1>14, CountTells DEF Runner!Merge, Runner!RoundReset, Runner!At
<1>15. ASSUME NEW w \in Window, Runner!RoundOver(w)
     PROVE  OwnerInv'
  BY <1>15, CountTells DEF Runner!RoundOver, Runner!RoundReset, Runner!At
<1>16. ASSUME NEW t \in Client, NEW w \in Window, Runner!TimeOut(t, w)
     PROVE  OwnerInv'
  BY <1>16, CountTells DEF Runner!TimeOut
<1>17. ASSUME NEW w \in Window, Runner!Exit(w)
     PROVE  OwnerInv'
  BY <1>17, CountTells DEF Runner!Exit
<1> QED
  BY <1>1, <1>2, <1>3, <1>4, <1>5, <1>6, <1>7, <1>8, <1>9,
     <1>10, <1>11, <1>12, <1>13, <1>14, <1>15, <1>16, <1>17
     DEF Runner!Next, Runner!Begin, Runner!Inside, Runner!Run, Runner!Outside

LEMMA WindowStep ==
  ASSUME RunnerInv, Runner!Next, ~over'
  PROVE  WindowInv'
<1> USE DEF RunnerInv, RunnerTyping, OwnerInv, WindowInv, Starting, Runner!Locked, Runner!lists, Runner!tasks, Runner!clients, Runner!windows, Runner!round
<1>1. ASSUME NEW t \in Client, Runner!AddTask(t)
     PROVE  WindowInv'
  <2>1. runnerPc[t] = "idle" /\ runnerPc'[t] \in {"start", "push"} /\ \A u \in Client : u # t => runnerPc'[u] = runnerPc[u]
    BY <1>1 DEF Runner!AddTask, Runner!Goto
  <2>2. runnerPc'[t] = "start" => \A w \in Window : window[w] = "none"
    <3>1. runnerPc'[t] = "start" => shown = {} /\ uRef # Runner!Locked
      BY <1>1, CountTells DEF Runner!AddTask, Runner!Goto
    <3> QED BY <3>1
  <2>3. UNCHANGED <<shown, hWnd, window, starter>>
    BY <1>1 DEF Runner!AddTask
  <2> QED BY <2>1, <2>2, <2>3
<1>2. ASSUME NEW t \in Client, Runner!Start(t)
     PROVE  WindowInv'
  BY <1>2 DEF Runner!Start, Runner!Goto, Runner!At
<1>3. ASSUME NEW t \in Client, Runner!StartFails(t)
     PROVE  WindowInv'
  BY <1>3 DEF Runner!StartFails, Runner!Fails, Runner!Return, Runner!Goto
<1>4. ASSUME NEW t \in Client, NEW w \in Window, Runner!Started(t, w)
     PROVE  WindowInv'
  BY <1>4 DEF Runner!Started, Runner!Fails, Runner!Return, Runner!Goto, Runner!At
<1>5. ASSUME NEW t \in Client, Runner!Push(t)
     PROVE  WindowInv'
  BY <1>5 DEF Runner!Push, Runner!Return, Runner!Goto
<1>6. ASSUME NEW t \in Client, Runner!RemoveTask(t)
     PROVE  WindowInv'
  BY <1>6 DEF Runner!RemoveTask, Runner!Goto
<1>7. ASSUME NEW t \in Client, Runner!Release(t)
     PROVE  WindowInv'
  BY <1>7 DEF Runner!Release, Runner!Return, Runner!Goto
<1>8. ASSUME NEW t \in Client, Runner!Post(t)
     PROVE  WindowInv'
  BY <1>8 DEF Runner!Post, Runner!Return, Runner!Goto
<1>9. ASSUME NEW w \in Window, Runner!MakeWindow(w)
     PROVE  WindowInv'
  BY <1>9 DEF Runner!MakeWindow, Runner!At
<1>10. ASSUME NEW w \in Window, Runner!Close(w)
     PROVE  WindowInv'
  BY <1>10 DEF Runner!Close, Runner!TryClean, Runner!At
<1>11. ASSUME NEW w \in Window, Runner!Closed(w)
     PROVE  WindowInv'
  BY <1>11 DEF Runner!Closed, Runner!At
<1>12. ASSUME NEW w \in Window, Runner!Message(w)
     PROVE  WindowInv'
  <2>1. window[w] = "idle" /\ window' = [window EXCEPT ![w] = "first"] /\ UNCHANGED <<shown, hWnd, runnerPc, starter>>
    BY <1>12 DEF Runner!Message, Runner!At
  <2>2. starter[w] = Null
    <3>1. uRef # Runner!Locked
      BY <1>12 DEF Runner!Message, IdleInv
    <3> QED BY <3>1
  <2> QED BY <2>1, <2>2
<1>13. ASSUME NEW w \in Window, Runner!Turn(w)
     PROVE  WindowInv'
  BY <1>13 DEF Runner!Turn, Runner!Visit
<1>14. ASSUME NEW w \in Window, Runner!Merge(w)
     PROVE  WindowInv'
  BY <1>14 DEF Runner!Merge, Runner!RoundReset, Runner!At
<1>15. ASSUME NEW w \in Window, Runner!RoundOver(w)
     PROVE  WindowInv'
  BY <1>15 DEF Runner!RoundOver, Runner!RoundReset, Runner!At
<1>16. ASSUME NEW t \in Client, NEW w \in Window, Runner!TimeOut(t, w)
     PROVE  WindowInv'
  BY <1>16 DEF Runner!TimeOut
<1>17. ASSUME NEW w \in Window, Runner!Exit(w)
     PROVE  WindowInv'
  BY <1>17 DEF Runner!Exit
<1> QED
  BY <1>1, <1>2, <1>3, <1>4, <1>5, <1>6, <1>7, <1>8, <1>9,
     <1>10, <1>11, <1>12, <1>13, <1>14, <1>15, <1>16, <1>17
     DEF Runner!Next, Runner!Begin, Runner!Inside, Runner!Run, Runner!Outside

LEMMA IdleStep ==
  ASSUME RunnerInv, Runner!Next, ~over'
  PROVE  IdleInv'
<1> USE DEF RunnerInv, RunnerTyping, OwnerInv, WindowInv, IdleInv, Starting, Runner!Counting, Runner!Locked, Runner!lists, Runner!tasks, Runner!clients, Runner!windows, Runner!round
<1>1. ASSUME NEW t \in Client, Runner!AddTask(t)
     PROVE  IdleInv'
  <2>1. CASE uRef = 0
    <3>1. shown = {} /\ runnerPc' = [runnerPc EXCEPT ![t] = "start"] /\ runnerPc[t] = "idle"
      BY <1>1, <2>1, CountTells DEF Runner!AddTask, Runner!Goto
    <3> QED BY <1>1, <2>1, <3>1 DEF Runner!AddTask
  <2>2. CASE uRef # 0
    <3>1. uRef # Runner!Locked /\ uRef' = uRef + 1 /\ shown' = shown
      BY <1>1, <2>2 DEF Runner!AddTask
    <3>2. uRef \in Nat /\ shown # {}
      <4>1. uRef \in Nat
        BY <3>1, CountTells
      <4>2. shown = {} => uRef = 0
        BY <3>1, CountsFinite, FS_EmptySet DEF TasksCounted, Counters
      <4> QED BY <2>2, <4>1, <4>2
    <3> QED BY <3>1, <3>2
  <2> QED BY <2>1, <2>2
<1>2. ASSUME NEW t \in Client, Runner!Start(t)
     PROVE  IdleInv'
  BY <1>2, CountTells DEF Runner!Start, Runner!Goto, Runner!At
<1>3. ASSUME NEW t \in Client, Runner!StartFails(t)
     PROVE  IdleInv'
  BY <1>3, CountTells DEF Runner!StartFails, Runner!Fails, Runner!Return, Runner!Goto
<1>4. ASSUME NEW t \in Client, NEW w \in Window, Runner!Started(t, w)
     PROVE  IdleInv'
  BY <1>4, CountTells DEF Runner!Started, Runner!Fails, Runner!Return, Runner!Goto, Runner!At
<1>5. ASSUME NEW t \in Client, Runner!Push(t)
     PROVE  IdleInv'
  BY <1>5, CountTells DEF Runner!Push, Runner!Return, Runner!Goto
<1>6. ASSUME NEW t \in Client, Runner!RemoveTask(t)
     PROVE  IdleInv'
  BY <1>6, CountTells DEF Runner!RemoveTask, Runner!Goto
<1>7. ASSUME NEW t \in Client, Runner!Release(t)
     PROVE  IdleInv'
  BY <1>7, CountTells DEF Runner!Release, Runner!Return, Runner!Goto
<1>8. ASSUME NEW t \in Client, Runner!Post(t)
     PROVE  IdleInv'
  BY <1>8, CountTells DEF Runner!Post, Runner!Return, Runner!Goto
<1>9. ASSUME NEW w \in Window, Runner!MakeWindow(w)
     PROVE  IdleInv'
  BY <1>9, CountTells DEF Runner!MakeWindow, Runner!At
<1>10. ASSUME NEW w \in Window, Runner!Close(w)
     PROVE  IdleInv'
  BY <1>10, CountTells DEF Runner!Close, Runner!TryClean, Runner!At
<1>11. ASSUME NEW w \in Window, Runner!Closed(w)
     PROVE  IdleInv'
  BY <1>11, CountTells DEF Runner!Closed, Runner!At
<1>12. ASSUME NEW w \in Window, Runner!Message(w)
     PROVE  IdleInv'
  BY <1>12, CountTells DEF Runner!Message, Runner!At
<1>13. ASSUME NEW w \in Window, Runner!Turn(w)
     PROVE  IdleInv'
  BY <1>13, CountTells DEF Runner!Turn, Runner!Visit
<1>14. ASSUME NEW w \in Window, Runner!Merge(w)
     PROVE  IdleInv'
  BY <1>14, CountTells DEF Runner!Merge, Runner!RoundReset, Runner!At
<1>15. ASSUME NEW w \in Window, Runner!RoundOver(w)
     PROVE  IdleInv'
  BY <1>15, CountTells DEF Runner!RoundOver, Runner!RoundReset, Runner!At
<1>16. ASSUME NEW t \in Client, NEW w \in Window, Runner!TimeOut(t, w)
     PROVE  IdleInv'
  BY <1>16, CountTells DEF Runner!TimeOut
<1>17. ASSUME NEW w \in Window, Runner!Exit(w)
     PROVE  IdleInv'
  BY <1>17, CountTells DEF Runner!Exit
<1> QED
  BY <1>1, <1>2, <1>3, <1>4, <1>5, <1>6, <1>7, <1>8, <1>9,
     <1>10, <1>11, <1>12, <1>13, <1>14, <1>15, <1>16, <1>17
     DEF Runner!Next, Runner!Begin, Runner!Inside, Runner!Run, Runner!Outside

LEMMA TasksStep ==
  ASSUME RunnerInv, Runner!Next, ~over'
  PROVE  TasksInv'
<1> USE DEF RunnerInv, RunnerTyping, TasksInv, ListsInv, OwnerInv, Adding, Starting, Runner!Counting, OnLists, Runner!Locked, Runner!lists, Runner!tasks, Runner!clients, Runner!windows, Runner!round
<1>1. ASSUME NEW t \in Client, Runner!AddTask(t)
     PROVE  TasksInv'
  BY <1>1 DEF Runner!AddTask, Runner!Goto
<1>2. ASSUME NEW t \in Client, Runner!Start(t)
     PROVE  TasksInv'
  BY <1>2 DEF Runner!Start, Runner!Goto, Runner!At
<1>3. ASSUME NEW t \in Client, Runner!StartFails(t)
     PROVE  TasksInv'
  BY <1>3 DEF Runner!StartFails, Runner!Fails, Runner!Return, Runner!Goto
<1>4. ASSUME NEW t \in Client, NEW w \in Window, Runner!Started(t, w)
     PROVE  TasksInv'
  BY <1>4 DEF Runner!Started, Runner!Fails, Runner!Return, Runner!Goto, Runner!At
<1>5. ASSUME NEW t \in Client, Runner!Push(t)
     PROVE  TasksInv'
  <2>1. pWork[t] \in Task /\ Runner!ToSet(pPendingCallbackList') = {pWork[t]} \cup Runner!ToSet(pPendingCallbackList)
    <3>1. pWork[t] \in Task
      BY <1>5 DEF Runner!Push
    <3> QED BY <1>5, <3>1, ListCons DEF Runner!Push
  <2>2. /\ pCallbackList' = pCallbackList /\ registered' = registered \cup {pWork[t]} /\ UNCHANGED <<pfnCallback, live>>
        /\ runnerPc[t] = "push" /\ runnerPc'[t] = "idle"
        /\ \A u \in Client : u # t => runnerPc'[u] = runnerPc[u] /\ pWork'[u] = pWork[u]
    BY <1>5 DEF Runner!Push, Runner!Return, Runner!Goto
  <2> QED BY <2>1, <2>2
<1>6. ASSUME NEW t \in Client, Runner!RemoveTask(t)
     PROVE  TasksInv'
  BY <1>6 DEF Runner!RemoveTask, Runner!Goto
<1>7. ASSUME NEW t \in Client, Runner!Release(t)
     PROVE  TasksInv'
  BY <1>7 DEF Runner!Release, Runner!Return, Runner!Goto
<1>8. ASSUME NEW t \in Client, Runner!Post(t)
     PROVE  TasksInv'
  BY <1>8 DEF Runner!Post, Runner!Return, Runner!Goto
<1>9. ASSUME NEW w \in Window, Runner!MakeWindow(w)
     PROVE  TasksInv'
  BY <1>9 DEF Runner!MakeWindow, Runner!At
<1>10. ASSUME NEW w \in Window, Runner!Close(w)
     PROVE  TasksInv'
  <2>1. CASE uRef = 1
    <3>1. registered = {} /\ \A t \in Client : ~Adding(t)
      BY <2>1, CountTells
    <3> QED BY <1>10, <2>1, <3>1 DEF Runner!Close, Runner!TryClean
  <2>2. CASE uRef # 1
    BY <1>10, <2>2 DEF Runner!Close
  <2> QED BY <2>1, <2>2
<1>11. ASSUME NEW w \in Window, Runner!Closed(w)
     PROVE  TasksInv'
  BY <1>11 DEF Runner!Closed, Runner!At
<1>12. ASSUME NEW w \in Window, Runner!Message(w)
     PROVE  TasksInv'
  BY <1>12 DEF Runner!Message, Runner!At
<1>13. ASSUME NEW w \in Window, Runner!Turn(w)
     PROVE  TasksInv'
  <2>1. Head(pCallbackList) \in OnLists /\ OnLists' \subseteq OnLists
    <3>1. pCallbackList # <<>> /\ pCallbackList' \in {pCallbackList, Tail(pCallbackList)}
      BY <1>13 DEF Runner!Turn, Runner!Visit
    <3>2. Runner!ToSet(pCallbackList) = {Head(pCallbackList)} \cup Runner!ToSet(Tail(pCallbackList))
      BY <3>1, ListTail
    <3>3. Runner!ToSet(pCallbackList') \subseteq Runner!ToSet(pCallbackList)
      BY <3>1, <3>2
    <3>4. pPendingCallbackList' = pPendingCallbackList
      BY <1>13 DEF Runner!Turn
    <3> QED BY <3>2, <3>3, <3>4
  <2>2. live' = live \/ (live' = live \ {Head(pCallbackList)} /\ Head(pCallbackList) \notin pfnCallback)
    BY <1>13 DEF Runner!Turn, Runner!Visit
  <2>3. UNCHANGED <<runnerPc, pWork, registered, pfnCallback>>
    BY <1>13 DEF Runner!Turn
  <2> QED BY <2>1, <2>2, <2>3
<1>14. ASSUME NEW w \in Window, Runner!Merge(w)
     PROVE  TasksInv'
  <2>1. OnLists' \subseteq OnLists
    <3>1. CASE pPendingCallbackList = <<>>
      BY <1>14, <3>1 DEF Runner!Merge
    <3>2. CASE pPendingCallbackList # <<>>
      <4>1. pCallbackList' = <<Runner!Last(pPendingCallbackList)>> \/ pCallbackList' = <<>>
        BY <1>14, <3>2 DEF Runner!Merge
      <4>2. pPendingCallbackList' = <<>>
        BY <1>14 DEF Runner!Merge
      <4> QED BY <3>2, <4>1, <4>2, ListLast, ListEmpty
    <3> QED BY <3>1, <3>2
  <2>2. UNCHANGED <<runnerPc, pWork, registered, pfnCallback, live>>
    BY <1>14 DEF Runner!Merge
  <2> QED BY <2>1, <2>2
<1>15. ASSUME NEW w \in Window, Runner!RoundOver(w)
     PROVE  TasksInv'
  BY <1>15 DEF Runner!RoundOver, Runner!RoundReset, Runner!At
<1>16. ASSUME NEW t \in Client, NEW w \in Window, Runner!TimeOut(t, w)
     PROVE  TasksInv'
  BY <1>16 DEF Runner!TimeOut
<1>17. ASSUME NEW w \in Window, Runner!Exit(w)
     PROVE  TasksInv'
  BY <1>17 DEF Runner!Exit
<1> QED
  BY <1>1, <1>2, <1>3, <1>4, <1>5, <1>6, <1>7, <1>8, <1>9,
     <1>10, <1>11, <1>12, <1>13, <1>14, <1>15, <1>16, <1>17
     DEF Runner!Next, Runner!Begin, Runner!Inside, Runner!Run, Runner!Outside

LEMMA ListsStep ==
  ASSUME RunnerInv, Runner!Next, ~over'
  PROVE  ListsInv'
<1> USE DEF RunnerInv, RunnerTyping, TasksInv, ListsInv, OwnerInv, Adding, Starting, Runner!Counting, OnLists, Runner!Locked, Runner!lists, Runner!tasks, Runner!clients, Runner!windows, Runner!round
<1>1. ASSUME NEW t \in Client, Runner!AddTask(t)
     PROVE  ListsInv'
  BY <1>1 DEF Runner!AddTask, Runner!Goto
<1>2. ASSUME NEW t \in Client, Runner!Start(t)
     PROVE  ListsInv'
  BY <1>2 DEF Runner!Start, Runner!Goto, Runner!At
<1>3. ASSUME NEW t \in Client, Runner!StartFails(t)
     PROVE  ListsInv'
  BY <1>3 DEF Runner!StartFails, Runner!Fails, Runner!Return, Runner!Goto
<1>4. ASSUME NEW t \in Client, NEW w \in Window, Runner!Started(t, w)
     PROVE  ListsInv'
  BY <1>4 DEF Runner!Started, Runner!Fails, Runner!Return, Runner!Goto, Runner!At
<1>5. ASSUME NEW t \in Client, Runner!Push(t)
     PROVE  ListsInv'
  <2>1. pWork[t] \in Task /\ pWork[t] \in live /\ pWork[t] \notin OnLists
    BY <1>5 DEF Runner!Push
  <2>2. /\ Runner!ToSet(pPendingCallbackList') = {pWork[t]} \cup Runner!ToSet(pPendingCallbackList)
        /\ Runner!IsInjective(pPendingCallbackList')
    BY <1>5, <2>1, ListCons DEF Runner!Push
  <2>3. UNCHANGED <<pCallbackList, live>>
    BY <1>5 DEF Runner!Push
  <2> QED BY <2>1, <2>2, <2>3
<1>6. ASSUME NEW t \in Client, Runner!RemoveTask(t)
     PROVE  ListsInv'
  BY <1>6 DEF Runner!RemoveTask, Runner!Goto
<1>7. ASSUME NEW t \in Client, Runner!Release(t)
     PROVE  ListsInv'
  BY <1>7 DEF Runner!Release, Runner!Return, Runner!Goto
<1>8. ASSUME NEW t \in Client, Runner!Post(t)
     PROVE  ListsInv'
  BY <1>8 DEF Runner!Post, Runner!Return, Runner!Goto
<1>9. ASSUME NEW w \in Window, Runner!MakeWindow(w)
     PROVE  ListsInv'
  BY <1>9 DEF Runner!MakeWindow, Runner!At
<1>10. ASSUME NEW w \in Window, Runner!Close(w)
     PROVE  ListsInv'
  <2>1. CASE uRef = 1
    <3>1. pCallbackList' = <<>> /\ pPendingCallbackList' = <<>>
      BY <1>10, <2>1 DEF Runner!Close, Runner!TryClean
    <3> QED BY <3>1, ListEmpty
  <2>2. CASE uRef # 1
    BY <1>10, <2>2 DEF Runner!Close
  <2> QED BY <2>1, <2>2
<1>11. ASSUME NEW w \in Window, Runner!Closed(w)
     PROVE  ListsInv'
  BY <1>11 DEF Runner!Closed, Runner!At
<1>12. ASSUME NEW w \in Window, Runner!Message(w)
     PROVE  ListsInv'
  BY <1>12 DEF Runner!Message, Runner!At
<1>13. ASSUME NEW w \in Window, Runner!Turn(w)
     PROVE  ListsInv'
  <2>1. CASE UNCHANGED <<pCallbackList, live>>
    BY <1>13, <2>1 DEF Runner!Turn
  <2>2. CASE pCallbackList' = Tail(pCallbackList) /\ live' = live \ {Head(pCallbackList)}
    <3>1. /\ Runner!ToSet(pCallbackList) = {Head(pCallbackList)} \cup Runner!ToSet(pCallbackList')
          /\ Runner!IsInjective(pCallbackList') /\ Head(pCallbackList) \notin Runner!ToSet(pCallbackList')
      BY <1>13, <2>2, ListTail DEF Runner!Turn, Runner!Visit
    <3>2. pPendingCallbackList' = pPendingCallbackList
      BY <1>13 DEF Runner!Turn
    <3> QED BY <2>2, <3>1, <3>2
  <2> QED BY <1>13, <2>1, <2>2 DEF Runner!Turn, Runner!Visit
<1>14. ASSUME NEW w \in Window, Runner!Merge(w)
     PROVE  ListsInv'
  <2>1. pPendingCallbackList' = <<>> /\ live' = live
    BY <1>14 DEF Runner!Merge
  <2>2. CASE pPendingCallbackList = <<>>
    BY <1>14, <2>1, <2>2 DEF Runner!Merge
  <2>3. CASE pPendingCallbackList # <<>>
    <3>1. pCallbackList' = <<Runner!Last(pPendingCallbackList)>> \/ pCallbackList' = <<>>
      BY <1>14, <2>3 DEF Runner!Merge
    <3>2. Runner!IsInjective(pCallbackList') /\ Runner!ToSet(pCallbackList') \subseteq Runner!ToSet(pPendingCallbackList)
      BY <2>3, <3>1, ListLast, ListEmpty
    <3> QED BY <2>1, <3>2, ListEmpty
  <2> QED BY <2>2, <2>3
<1>15. ASSUME NEW w \in Window, Runner!RoundOver(w)
     PROVE  ListsInv'
  BY <1>15 DEF Runner!RoundOver, Runner!RoundReset, Runner!At
<1>16. ASSUME NEW t \in Client, NEW w \in Window, Runner!TimeOut(t, w)
     PROVE  ListsInv'
  BY <1>16 DEF Runner!TimeOut
<1>17. ASSUME NEW w \in Window, Runner!Exit(w)
     PROVE  ListsInv'
  BY <1>17 DEF Runner!Exit
<1> QED
  BY <1>1, <1>2, <1>3, <1>4, <1>5, <1>6, <1>7, <1>8, <1>9,
     <1>10, <1>11, <1>12, <1>13, <1>14, <1>15, <1>16, <1>17
     DEF Runner!Next, Runner!Begin, Runner!Inside, Runner!Run, Runner!Outside

LEMMA CountStep ==
  ASSUME RunnerInv, Runner!Next, ~over'
  PROVE  TasksCounted'
<1> USE DEF RunnerInv, RunnerTyping, OwnerInv, WindowInv, IdleInv, TasksCounted, Starting, Counters, Runner!Counting, Runner!Locked, Runner!lists, Runner!tasks, Runner!clients, Runner!windows, Runner!round
<1>1. ASSUME NEW t \in Client, Runner!AddTask(t)
     PROVE  TasksCounted'
  <2>1. CASE uRef = 0
    BY <1>1, <2>1 DEF Runner!AddTask
  <2>2. CASE uRef # 0
    <3>1. uRef # Runner!Locked /\ uRef' = uRef + 1 /\ UNCHANGED <<shown, registered>>
      BY <1>1, <2>2 DEF Runner!AddTask
    <3>2. Counters' = Counters \cup {t} /\ t \notin Counters
      BY <1>1, <2>2 DEF Runner!AddTask, Runner!Goto
    <3> HIDE DEF Counters
    <3>3. Cardinality(Counters') = Cardinality(Counters) + 1
      BY <3>2, CountsFinite, OneJoins
    <3>4. uRef = Cardinality(registered) + Cardinality(Counters) + Cardinality(shown)
      BY <3>1
    <3> QED BY <3>1, <3>3, <3>4, CountsFinite
  <2> QED BY <2>1, <2>2
<1>2. ASSUME NEW t \in Client, Runner!Start(t)
     PROVE  TasksCounted'
  BY <1>2 DEF Runner!Start, Runner!Goto, Runner!At
<1>3. ASSUME NEW t \in Client, Runner!StartFails(t)
     PROVE  TasksCounted'
  <2>1. registered' = {} /\ Counters' = {} /\ shown' = {} /\ uRef' = 0
    BY <1>3 DEF Runner!StartFails, Runner!Fails, Runner!Return, Runner!Goto
  <2> HIDE DEF Counters
  <2> QED BY <2>1, FS_EmptySet
<1>4. ASSUME NEW t \in Client, NEW w \in Window, Runner!Started(t, w)
     PROVE  TasksCounted'
  <2>1. uRef = Runner!Locked
    BY <1>4 DEF Runner!Started
  <2>2. CASE window[w] = "idle"
    <3>1. registered' = {} /\ Counters' = {t} /\ shown' = {w} /\ uRef' = 2
      BY <1>4, <2>1, <2>2 DEF Runner!Started, Runner!Goto
    <3> HIDE DEF Counters
    <3>2. Cardinality(registered') = 0 /\ Cardinality(Counters') = 1 /\ Cardinality(shown') = 1
      BY <3>1, FS_EmptySet, FS_Singleton, Zenon
    <3> QED BY <3>1, <3>2
  <2>3. CASE window[w] = "noWindow"
    <3>1. registered' = {} /\ Counters' = {} /\ shown' = {} /\ uRef' = 0
      BY <1>4, <2>1, <2>3 DEF Runner!Started, Runner!Fails, Runner!Return, Runner!Goto, Runner!At
    <3> HIDE DEF Counters
    <3> QED BY <3>1, FS_EmptySet
  <2>4. window[w] \in {"idle", "noWindow"}
    BY <1>4 DEF Runner!Started
  <2> QED BY <2>2, <2>3, <2>4
<1>5. ASSUME NEW t \in Client, Runner!Push(t)
     PROVE  TasksCounted'
  <2>1. Counters' = Counters \ {t} /\ t \in Counters
    BY <1>5 DEF Runner!Push, Runner!Return, Runner!Goto
  <2>2. registered' = registered \cup {pWork[t]} /\ pWork[t] \notin registered
    BY <1>5 DEF Runner!Push, TasksInv, Adding
  <2>3. uRef' = uRef /\ shown' = shown
    BY <1>5 DEF Runner!Push
  <2> HIDE DEF Counters
  <2>4. Cardinality(Counters') = Cardinality(Counters) - 1
    BY <2>1, CountsFinite, OneLeaves
  <2>5. Cardinality(registered') = Cardinality(registered) + 1
    BY <2>2, CountsFinite, OneJoins
  <2> QED BY <2>3, <2>4, <2>5, CountsFinite
<1>6. ASSUME NEW t \in Client, Runner!RemoveTask(t)
     PROVE  TasksCounted'
  <2>1. Counters' = Counters \cup {t} /\ t \notin Counters
    BY <1>6 DEF Runner!RemoveTask, Runner!Goto
  <2>2. PICK k \in registered : registered' = registered \ {k}
    BY <1>6 DEF Runner!RemoveTask
  <2>3. uRef' = uRef /\ shown' = shown
    BY <1>6 DEF Runner!RemoveTask
  <2> HIDE DEF Counters
  <2>4. Cardinality(Counters') = Cardinality(Counters) + 1
    BY <2>1, CountsFinite, OneJoins
  <2>5. Cardinality(registered') = Cardinality(registered) - 1
    BY <2>2, CountsFinite, OneLeaves
  <2> QED BY <2>3, <2>4, <2>5, CountsFinite
<1>7. ASSUME NEW t \in Client, Runner!Release(t)
     PROVE  TasksCounted'
  <2>1. Counters' = Counters \ {t} /\ t \in Counters
    BY <1>7 DEF Runner!Release, Runner!Return, Runner!Goto
  <2>2. uRef # Runner!Locked /\ uRef > 1
    BY <1>7, CountTells DEF Runner!Release
  <2>3. uRef' = uRef - 1 /\ shown' = shown /\ registered' = registered
    BY <1>7, <2>2 DEF Runner!Release
  <2> HIDE DEF Counters
  <2>4. Cardinality(Counters') = Cardinality(Counters) - 1
    BY <2>1, CountsFinite, OneLeaves
  <2> QED BY <2>2, <2>3, <2>4, CountsFinite
<1>8. ASSUME NEW t \in Client, Runner!Post(t)
     PROVE  TasksCounted'
  <2>1. Counters' = Counters /\ UNCHANGED <<uRef, registered, shown>>
    BY <1>8 DEF Runner!Post, Runner!Return, Runner!Goto
  <2> HIDE DEF Counters
  <2> QED BY <2>1
<1>9. ASSUME NEW w \in Window, Runner!MakeWindow(w)
     PROVE  TasksCounted'
  BY <1>9 DEF Runner!MakeWindow, Runner!At
<1>10. ASSUME NEW w \in Window, Runner!Close(w)
     PROVE  TasksCounted'
  <2>1. uRef = 1 \/ (Counters' = Counters /\ UNCHANGED <<uRef, registered, shown>>)
    BY <1>10 DEF Runner!Close
  <2>2. uRef = 1 => uRef' = Runner!Locked
    BY <1>10 DEF Runner!Close, Runner!TryClean
  <2> HIDE DEF Counters
  <2> QED BY <2>1, <2>2
<1>11. ASSUME NEW w \in Window, Runner!Closed(w)
     PROVE  TasksCounted'
  <2>1. registered' = {} /\ Counters' = {} /\ shown' = {} /\ uRef' = 0
    BY <1>11 DEF Runner!Closed
  <2> HIDE DEF Counters
  <2> QED BY <2>1, FS_EmptySet
<1>12. ASSUME NEW w \in Window, Runner!Message(w)
     PROVE  TasksCounted'
  BY <1>12 DEF Runner!Message, Runner!At
<1>13. ASSUME NEW w \in Window, Runner!Turn(w)
     PROVE  TasksCounted'
  BY <1>13 DEF Runner!Turn, Runner!Visit
<1>14. ASSUME NEW w \in Window, Runner!Merge(w)
     PROVE  TasksCounted'
  BY <1>14 DEF Runner!Merge, Runner!RoundReset, Runner!At
<1>15. ASSUME NEW w \in Window, Runner!RoundOver(w)
     PROVE  TasksCounted'
  BY <1>15 DEF Runner!RoundOver, Runner!RoundReset, Runner!At
<1>16. ASSUME NEW t \in Client, NEW w \in Window, Runner!TimeOut(t, w)
     PROVE  TasksCounted'
  BY <1>16 DEF Runner!TimeOut
<1>17. ASSUME NEW w \in Window, Runner!Exit(w)
     PROVE  TasksCounted'
  BY <1>17 DEF Runner!Exit
<1> QED
  BY <1>1, <1>2, <1>3, <1>4, <1>5, <1>6, <1>7, <1>8, <1>9,
     <1>10, <1>11, <1>12, <1>13, <1>14, <1>15, <1>16, <1>17
     DEF Runner!Next, Runner!Begin, Runner!Inside, Runner!Run, Runner!Outside


LEMMA RunnerInit ==
  ASSUME Runner!Init
  PROVE  RunnerInv
<1> USE DEF Runner!Init
<1>1. RunnerTyping
  <2>1. <<>> \in Seq(Task) /\ IsFiniteSet({})
    BY FS_EmptySet
  <2> QED BY <2>1 DEF RunnerTyping
<1>2. TasksInv /\ ListsInv
  BY ListEmpty DEF TasksInv, ListsInv, Adding, OnLists
<1>3. OwnerInv /\ WindowInv /\ IdleInv
  BY DEF OwnerInv, WindowInv, IdleInv, Starting, Runner!Counting, Runner!Locked
<1>4. TasksCounted
  <2>1. Counters = {} /\ registered = {} /\ shown = {} /\ uRef = 0
    BY DEF Counters, Runner!Counting
  <2> QED BY <2>1, FS_EmptySet DEF TasksCounted
<1> QED BY <1>1, <1>2, <1>3, <1>4 DEF RunnerInv

LEMMA RunnerStep ==
  ASSUME over \/ RunnerInv, [Runner!Next]_runnerVars
  PROVE  over' \/ RunnerInv'
<1>1. CASE UNCHANGED runnerVars
  <2> USE <1>1 DEF runnerVars
  <2>1. over' = over
    OBVIOUS
  <2>2. RunnerInv => RunnerTyping' /\ TasksInv' /\ ListsInv'
    BY DEF RunnerInv, RunnerTyping, TasksInv, ListsInv, Adding, OnLists
  <2>3. RunnerInv => OwnerInv' /\ WindowInv' /\ IdleInv'
    BY DEF RunnerInv, OwnerInv, WindowInv, IdleInv, Starting, Runner!Counting
  <2>4. Counters' = Counters
    BY DEF Counters, Runner!Counting
  <2>5. RunnerInv => TasksCounted'
    BY <2>4 DEF RunnerInv, TasksCounted
  <2> QED BY <2>1, <2>2, <2>3, <2>5 DEF RunnerInv
<1>2. CASE Runner!Next
  <2>1. RunnerInv
    BY <1>2 DEF Runner!Next
  <2> QED
    BY <1>2, <2>1, RunnerTypingStep, TasksStep, ListsStep, OwnerStep, WindowStep, IdleStep, CountStep DEF RunnerInv
<1> QED BY <1>1, <1>2

-----------------------------------------------------------------------------
(* ThreadRunner: what follows.                                             *)

LEMMA CardinalityInRunner == \A S : Runner!Cardinality(S) = Cardinality(S)
  BY Zenon DEF Runner!Cardinality, Cardinality

LEMMA RunnerCounted ==
  ASSUME over \/ RunnerInv
  PROVE  Runner!RefsCounted
<1> SUFFICES ASSUME ~over, RunnerInv
             PROVE  IF uRef = Runner!Locked
                    THEN Cardinality({t \in Client : runnerPc[t] \in {"start", "wait"}})
                         + Cardinality({w \in Window : window[w] = "closing"}) = 1
                    ELSE uRef = Cardinality(registered) + Cardinality({t \in Client : Runner!Counting(t)})
                                + Cardinality({w \in Window : w \in shown})
  BY CardinalityInRunner DEF Runner!RefsCounted
<1> DEFINE S == {t \in Client : runnerPc[t] \in {"start", "wait"}}
           E == {w \in Window : window[w] = "closing"}
<1>1. CASE uRef = Runner!Locked
  <2>1. (S = {} /\ \E w \in Window : E = {w}) \/ (E = {} /\ \E t \in Client : S = {t})
    BY <1>1 DEF RunnerInv, OwnerInv, WindowInv, Starting
  <2> HIDE DEF S, E
  <2>2. (Cardinality(S) = 0 /\ Cardinality(E) = 1) \/ (Cardinality(S) = 1 /\ Cardinality(E) = 0)
    BY <2>1, FS_EmptySet, FS_Singleton, Zenon
  <2>3. Cardinality(S) + Cardinality(E) = 1
    BY <2>2
  <2> QED BY <1>1, <2>3 DEF S, E
<1>2. CASE uRef # Runner!Locked
  <2>1. {w \in Window : w \in shown} = shown
    BY DEF RunnerInv, RunnerTyping
  <2>2. uRef = Cardinality(registered) + Cardinality(Counters) + Cardinality(shown)
    BY <1>2 DEF RunnerInv, TasksCounted
  <2> QED BY <1>2, <2>1, <2>2 DEF Counters
<1> QED BY <1>1, <1>2

LEMMA RunnerServes ==
  ASSUME over \/ RunnerInv
  PROVE  Runner!Served
<1> SUFFICES ASSUME ~over, RunnerInv, registered # {}
             PROVE  hWnd \in shown /\ window[hWnd] \in {"idle", "first", "second"}
  BY DEF Runner!Served
<1>1. PICK w \in Window : w \in shown
  BY DEF RunnerInv, IdleInv, WindowInv
<1> QED BY <1>1 DEF RunnerInv, WindowInv

LEMMA ListsJoined ==
  ASSUME NEW S, NEW a \in Seq(S), NEW b \in Seq(S), Runner!IsInjective(a), Runner!IsInjective(b),
         Runner!ToSet(a) \cap Runner!ToSet(b) = {}
  PROVE  Runner!IsInjective(a \o b)
<1> DEFINE n == a \o b
<1>1. Len(a) \in Nat /\ Len(b) \in Nat /\ DOMAIN a = 1 .. Len(a) /\ DOMAIN b = 1 .. Len(b)
  OBVIOUS
<1>2. DOMAIN n = 1 .. Len(a) + Len(b)
  OBVIOUS
<1>3. \A i \in 1 .. Len(a) + Len(b) : n[i] = IF i <= Len(a) THEN a[i] ELSE b[i - Len(a)]
  OBVIOUS
<1> HIDE DEF n
<1> SUFFICES ASSUME NEW i \in DOMAIN n, NEW j \in DOMAIN n, n[i] = n[j]
             PROVE  i = j
  BY DEF Runner!IsInjective, n
<1>4. i \in Int /\ j \in Int /\ i \in 1 .. Len(a) + Len(b) /\ j \in 1 .. Len(a) + Len(b)
  BY <1>1, <1>2
<1>5. \A k, l \in DOMAIN a : a[k] = a[l] => k = l
  BY DEF Runner!IsInjective
<1>6. \A k, l \in DOMAIN b : b[k] = b[l] => k = l
  BY DEF Runner!IsInjective
<1>7. \A k \in DOMAIN a, l \in DOMAIN b : a[k] # b[l]
  BY DEF Runner!ToSet
<1>8. i <= Len(a) => i \in DOMAIN a /\ n[i] = a[i]
  BY <1>1, <1>3, <1>4
<1>9. j <= Len(a) => j \in DOMAIN a /\ n[j] = a[j]
  BY <1>1, <1>3, <1>4
<1>10. ~(i <= Len(a)) => i - Len(a) \in DOMAIN b /\ n[i] = b[i - Len(a)]
  BY <1>1, <1>3, <1>4
<1>11. ~(j <= Len(a)) => j - Len(a) \in DOMAIN b /\ n[j] = b[j - Len(a)]
  BY <1>1, <1>3, <1>4
<1>12. CASE i <= Len(a) /\ j <= Len(a)
  BY <1>5, <1>8, <1>9, <1>12
<1>13. CASE ~(i <= Len(a)) /\ ~(j <= Len(a))
  <2>1. i - Len(a) = j - Len(a)
    BY <1>6, <1>10, <1>11, <1>13
  <2> QED BY <1>1, <1>4, <2>1
<1>14. ~(i <= Len(a) /\ ~(j <= Len(a)))
  BY <1>7, <1>8, <1>11
<1>15. ~(~(i <= Len(a)) /\ j <= Len(a))
  BY <1>7, <1>9, <1>10
<1> QED BY <1>12, <1>13, <1>14, <1>15

LEMMA RunnerTasksAlive ==
  ASSUME over \/ RunnerInv
  PROVE  Runner!TasksAlive
<1> SUFFICES ASSUME ~over, RunnerInv
             PROVE  /\ registered \subseteq live
                    /\ Runner!ToSet(pCallbackList) \cup Runner!ToSet(pPendingCallbackList) \subseteq live
                    /\ Runner!IsInjective(pCallbackList \o pPendingCallbackList)
  BY DEF Runner!TasksAlive
<1>1. Runner!IsInjective(pCallbackList \o pPendingCallbackList)
  BY ListsJoined DEF RunnerInv, RunnerTyping, ListsInv
<1> QED BY <1>1 DEF RunnerInv, TasksInv, ListsInv

-----------------------------------------------------------------------------
(* ThreadpoolTimer: the inductive invariant.                               *)

TimerStep(t) ==
  \/ Timer!Set(t) \/ Timer!Cancel(t) \/ Timer!WaitFor(t) \/ Timer!Close(t) \/ Timer!Lock(t) \/ Timer!Reset(t) \/ Timer!Create(t)
  \/ Timer!CreateFails(t) \/ Timer!Unblock(t) \/ Timer!Take(t) \/ Timer!Delete(t) \/ Timer!Outlast(t) \/ Timer!Signal(t)
  \/ Timer!Deleted(t) \/ Timer!Release(t) \/ Timer!Return(t) \/ Timer!Returned(t)
  \/ t \in Registration /\ Timer!Fire(t)

TimerPlaces == {"idle", "off", "return", "blocked", "lock", "take", "delete", "outlast", "signal",
           "deleted", "reset", "create", "release"}

TimerTyping ==
  /\ kind \in {"timer", "wait"} /\ closed \in BOOLEAN /\ nRef \in Int
  /\ handle \in Registration \cup {Null} /\ lock \in Timer!Actor \cup {Null}
  /\ state \in [Registration -> {"unused", "armed", "spent", "gone"}]
  /\ timerPc \in [Timer!Actor -> TimerPlaces]
  /\ call \in [Timer!Actor -> {"none", "set", "cancel", "wait", "close"}]
  /\ hand \in [Timer!Actor -> Registration \cup {Null}]

\* What a thread carries, and in which call it is, by its place.
TimerLocal ==
  \A t \in Timer!Actor :
    /\ timerPc[t] \in {"take", "delete", "outlast", "signal", "deleted"} => call[t] \in {"set", "cancel", "close"}
    /\ timerPc[t] \in {"lock", "reset", "create"} => call[t] = "set"
    /\ timerPc[t] = "release" => call[t] \in {"set", "close"}
    /\ call[t] = "close" => closed
    /\ hand[t] # Null => timerPc[t] \in {"delete", "outlast", "signal", "deleted"}
    /\ timerPc[t] \in {"delete", "outlast", "deleted"} => hand[t] # Null
    /\ timerPc[t] = "signal" => (hand[t] = Null <=> call[t] = "set")

\* From its lock to its registration a set has the lock, and from the exchange on nothing is registered.
TimerLocked ==
  \A t \in Timer!Actor : call[t] = "set" =>
    /\ timerPc[t] \in {"take", "delete", "outlast", "deleted", "reset", "create"} => lock = t
    /\ timerPc[t] \in {"delete", "outlast", "deleted", "reset", "create"} => handle = Null

\* Thread t has taken registration r and has not yet deleted it; or not yet seen the last of its callback.
Deleting(t, r) == hand[t] = r /\ timerPc[t] = "delete"
Outlasting(t, r) == hand[t] = r /\ timerPc[t] \in {"delete", "outlast"}

\* Whoever may begin a callback is registered, or about to be deleted; whoever runs one is outlasted.
TimerLive ==
  \A r \in Registration :
    /\ state[r] = "unused" => timerPc[r] = "off"
    /\ state[r] = "armed" => handle = r \/ \E t \in Timer!Actor : Deleting(t, r)
    /\ timerPc[r] # "off" /\ ~(kind = "wait" /\ closed) => handle = r \/ \E t \in Timer!Actor : Outlasting(t, r)

\* The threads that get rid of a registration, and those that have a reference for their call.
Hands == {t \in Timer!Actor : hand[t] # Null}
Callers == {t \in Timer!Actor : timerPc[t] \notin {"idle", "off", "return", "blocked"} /\ call[t] \in {"set", "close"}}
TimerRefs ==
  nRef = (IF closed THEN 0 ELSE 1) + (IF handle = Null THEN 0 ELSE 1) + Cardinality(Hands) + Cardinality(Callers)

\* Without a period a registration calls back once, and one that was deleted never again.
TimerSpent ==
  /\ \A r \in Registration : timerPc[r] # "off" /\ r \notin periodic => state[r] # "armed"
  /\ \A t \in Timer!Actor : hand[t] # Null =>
       /\ timerPc[t] \in {"outlast", "signal"} => state[hand[t]] = "gone"
       /\ timerPc[t] = "signal" => timerPc[hand[t]] = "off"

\* Who waits does so for an object that is not closed, and callbacks that make no calls only run and return.
TimerCalls ==
  /\ closed => \A t \in Timer!Actor : timerPc[t] # "blocked"
  /\ reentrant \in BOOLEAN
  /\ ~reentrant => \A r \in Registration : timerPc[r] \in {"off", "idle", "return"}

\* As long as it is not set for another one, the event that is set means that the registration has called back.
TimerEvent ==
  /\ done \in BOOLEAN /\ crossed \in BOOLEAN
  /\ ~crossed => \A t \in Timer!Actor : timerPc[t] = "create" => ~done
  /\ ~crossed /\ done /\ periodic = {} /\ handle # Null => timerPc[handle] = "off" /\ state[handle] # "armed"

TimerInv == TimerTyping /\ TimerLocal /\ TimerLocked /\ TimerLive /\ TimerRefs /\ TimerSpent /\ TimerCalls /\ TimerEvent


-----------------------------------------------------------------------------
(* ThreadpoolTimer: who counts.                                            *)

LEMMA SomebodyCounts ==
  ASSUME NEW S, IsFiniteSet(S), NEW e, e \in S
  PROVE  Cardinality(S) \in Nat \ {0}
  BY FS_EmptySet, FS_CardinalityType

LEMMA HandsFinite ==
  /\ IsFiniteSet(Hands) /\ IsFiniteSet(Callers)
  /\ Cardinality(Hands) \in Nat /\ Cardinality(Callers) \in Nat
<1>1. IsFiniteSet(Timer!Actor)
  BY FS_Union DEF Timer!Actor
<1>2. Hands \subseteq Timer!Actor /\ Callers \subseteq Timer!Actor
  BY DEF Hands, Callers
<1>3. IsFiniteSet(Hands) /\ IsFiniteSet(Callers)
  BY <1>1, <1>2, FS_Subset
<1> QED BY <1>3, FS_CardinalityType

-----------------------------------------------------------------------------
(* ThreadpoolTimer: places, the lock, and what is live.                    *)

LEMMA TimerTypingStep ==
  ASSUME TimerTyping, TimerLocal, NEW t \in Timer!Actor, TimerStep(t)
  PROVE  TimerTyping'
<1> USE DEF TimerTyping, TimerLocal, TimerPlaces, Timer!Actor, Timer!Goto, Timer!system
<1>1. CASE Timer!Set(t)
  BY <1>1 DEF Timer!Set, Timer!Begin, Timer!CanCall
<1>2. CASE Timer!Cancel(t)
  BY <1>2 DEF Timer!Cancel, Timer!Begin, Timer!CanCall
<1>3. CASE Timer!WaitFor(t)
  BY <1>3 DEF Timer!WaitFor, Timer!Begin, Timer!CanCall
<1>4. CASE Timer!Close(t)
  BY <1>4 DEF Timer!Close, Timer!Begin, Timer!CanCall
<1>5. CASE Timer!Lock(t)
  BY <1>5 DEF Timer!Lock
<1>6. CASE Timer!Reset(t)
  BY <1>6 DEF Timer!Reset
<1>7. CASE Timer!Create(t)
  BY <1>7 DEF Timer!Create, Timer!Unused
<1>8. CASE Timer!CreateFails(t)
  BY <1>8 DEF Timer!CreateFails, Timer!Unused
<1>9. CASE Timer!Unblock(t)
  BY <1>9 DEF Timer!Unblock
<1>10. CASE Timer!Take(t)
  BY <1>10 DEF Timer!Take
<1>11. CASE Timer!Delete(t)
  BY <1>11 DEF Timer!Delete
<1>12. CASE Timer!Outlast(t)
  BY <1>12 DEF Timer!Outlast
<1>13. CASE Timer!Signal(t)
  BY <1>13 DEF Timer!Signal, Timer!SignalFor
<1>14. CASE Timer!Deleted(t)
  BY <1>14 DEF Timer!Deleted
<1>15. CASE Timer!Release(t)
  BY <1>15 DEF Timer!Release
<1>16. CASE Timer!Return(t)
  BY <1>16 DEF Timer!Return
<1>17. CASE Timer!Returned(t)
  BY <1>17 DEF Timer!Returned, Timer!SignalFor
<1>18. CASE t \in Registration /\ Timer!Fire(t)
  BY <1>18 DEF Timer!Fire
<1> QED
  BY <1>1, <1>2, <1>3, <1>4, <1>5, <1>6, <1>7, <1>8, <1>9, <1>10,
     <1>11, <1>12, <1>13, <1>14, <1>15, <1>16, <1>17, <1>18 DEF TimerStep

LEMMA TimerLocalStep ==
  ASSUME TimerTyping, TimerLocal, NEW t \in Timer!Actor, TimerStep(t)
  PROVE  TimerLocal'
<1> USE DEF TimerTyping, TimerLocal, TimerPlaces, Timer!Actor, Timer!Goto, Timer!system
<1>1. CASE Timer!Set(t)
  BY <1>1 DEF Timer!Set, Timer!Begin, Timer!CanCall
<1>2. CASE Timer!Cancel(t)
  BY <1>2 DEF Timer!Cancel, Timer!Begin, Timer!CanCall
<1>3. CASE Timer!WaitFor(t)
  BY <1>3 DEF Timer!WaitFor, Timer!Begin, Timer!CanCall
<1>4. CASE Timer!Close(t)
  BY <1>4 DEF Timer!Close, Timer!Begin, Timer!CanCall
<1>5. CASE Timer!Lock(t)
  BY <1>5 DEF Timer!Lock
<1>6. CASE Timer!Reset(t)
  BY <1>6 DEF Timer!Reset
<1>7. CASE Timer!Create(t)
  BY <1>7 DEF Timer!Create, Timer!Unused
<1>8. CASE Timer!CreateFails(t)
  BY <1>8 DEF Timer!CreateFails, Timer!Unused
<1>9. CASE Timer!Unblock(t)
  BY <1>9 DEF Timer!Unblock
<1>10. CASE Timer!Take(t)
  BY <1>10 DEF Timer!Take
<1>11. CASE Timer!Delete(t)
  BY <1>11 DEF Timer!Delete
<1>12. CASE Timer!Outlast(t)
  BY <1>12 DEF Timer!Outlast
<1>13. CASE Timer!Signal(t)
  BY <1>13 DEF Timer!Signal, Timer!SignalFor
<1>14. CASE Timer!Deleted(t)
  BY <1>14 DEF Timer!Deleted
<1>15. CASE Timer!Release(t)
  BY <1>15 DEF Timer!Release
<1>16. CASE Timer!Return(t)
  BY <1>16 DEF Timer!Return
<1>17. CASE Timer!Returned(t)
  BY <1>17 DEF Timer!Returned, Timer!SignalFor
<1>18. CASE t \in Registration /\ Timer!Fire(t)
  BY <1>18 DEF Timer!Fire
<1> QED
  BY <1>1, <1>2, <1>3, <1>4, <1>5, <1>6, <1>7, <1>8, <1>9, <1>10,
     <1>11, <1>12, <1>13, <1>14, <1>15, <1>16, <1>17, <1>18 DEF TimerStep

LEMMA TimerLockedStep ==
  ASSUME TimerTyping, TimerLocal, TimerLocked, NEW t \in Timer!Actor, TimerStep(t)
  PROVE  TimerLocked'
<1> USE DEF TimerTyping, TimerLocal, TimerLocked, TimerPlaces, Timer!Actor, Timer!Goto, Timer!system
<1>1. CASE Timer!Set(t)
  BY <1>1 DEF Timer!Set, Timer!Begin, Timer!CanCall
<1>2. CASE Timer!Cancel(t)
  BY <1>2 DEF Timer!Cancel, Timer!Begin, Timer!CanCall
<1>3. CASE Timer!WaitFor(t)
  BY <1>3 DEF Timer!WaitFor, Timer!Begin, Timer!CanCall
<1>4. CASE Timer!Close(t)
  BY <1>4 DEF Timer!Close, Timer!Begin, Timer!CanCall
<1>5. CASE Timer!Lock(t)
  BY <1>5 DEF Timer!Lock
<1>6. CASE Timer!Reset(t)
  BY <1>6 DEF Timer!Reset
<1>7. CASE Timer!Create(t)
  BY <1>7 DEF Timer!Create, Timer!Unused
<1>8. CASE Timer!CreateFails(t)
  BY <1>8 DEF Timer!CreateFails, Timer!Unused
<1>9. CASE Timer!Unblock(t)
  BY <1>9 DEF Timer!Unblock
<1>10. CASE Timer!Take(t)
  BY <1>10 DEF Timer!Take
<1>11. CASE Timer!Delete(t)
  BY <1>11 DEF Timer!Delete
<1>12. CASE Timer!Outlast(t)
  BY <1>12 DEF Timer!Outlast
<1>13. CASE Timer!Signal(t)
  BY <1>13 DEF Timer!Signal, Timer!SignalFor
<1>14. CASE Timer!Deleted(t)
  BY <1>14 DEF Timer!Deleted
<1>15. CASE Timer!Release(t)
  BY <1>15 DEF Timer!Release
<1>16. CASE Timer!Return(t)
  BY <1>16 DEF Timer!Return
<1>17. CASE Timer!Returned(t)
  BY <1>17 DEF Timer!Returned, Timer!SignalFor
<1>18. CASE t \in Registration /\ Timer!Fire(t)
  BY <1>18 DEF Timer!Fire
<1> QED
  BY <1>1, <1>2, <1>3, <1>4, <1>5, <1>6, <1>7, <1>8, <1>9, <1>10,
     <1>11, <1>12, <1>13, <1>14, <1>15, <1>16, <1>17, <1>18 DEF TimerStep

LEMMA TimerLiveStep ==
  ASSUME TimerTyping, TimerLocal, TimerLocked, TimerLive, NEW t \in Timer!Actor, TimerStep(t)
  PROVE  TimerLive'
<1> USE DEF TimerTyping, TimerLocal, TimerLocked, TimerLive, Deleting, Outlasting, TimerPlaces, Timer!Actor, Timer!Goto, Timer!system
<1>1. CASE Timer!Set(t)
  BY <1>1 DEF Timer!Set, Timer!Begin, Timer!CanCall
<1>2. CASE Timer!Cancel(t)
  BY <1>2 DEF Timer!Cancel, Timer!Begin, Timer!CanCall
<1>3. CASE Timer!WaitFor(t)
  BY <1>3 DEF Timer!WaitFor, Timer!Begin, Timer!CanCall
<1>4. CASE Timer!Close(t)
  BY <1>4 DEF Timer!Close, Timer!Begin, Timer!CanCall
<1>5. CASE Timer!Lock(t)
  BY <1>5 DEF Timer!Lock
<1>6. CASE Timer!Reset(t)
  BY <1>6 DEF Timer!Reset
<1>7. CASE Timer!Create(t)
  BY <1>7 DEF Timer!Create, Timer!Unused
<1>8. CASE Timer!CreateFails(t)
  BY <1>8 DEF Timer!CreateFails, Timer!Unused
<1>9. CASE Timer!Unblock(t)
  BY <1>9 DEF Timer!Unblock
<1>10. CASE Timer!Take(t)
  BY <1>10 DEF Timer!Take
<1>11. CASE Timer!Delete(t)
  <2> USE <1>11 DEF Timer!Delete
  <2> SUFFICES ASSUME NEW r \in Registration
               PROVE  /\ state'[r] = "unused" => timerPc'[r] = "off"
                      /\ state'[r] = "armed" => handle' = r \/ \E u \in Timer!Actor : Deleting(u, r)'
                      /\ timerPc'[r] # "off" /\ ~(kind' = "wait" /\ closed')
                           => handle' = r \/ \E u \in Timer!Actor : Outlasting(u, r)'
    OBVIOUS
  <2>1. /\ timerPc[t] = "delete" /\ hand[t] \in Registration /\ (call[t] = "close" => closed)
        /\ timerPc'[t] = (IF kind = "wait" /\ call[t] = "close" THEN "deleted" ELSE "outlast")
        /\ state' = [state EXCEPT ![hand[t]] = "gone"]
        /\ \A u \in Timer!Actor : u # t => timerPc'[u] = timerPc[u]
        /\ handle' = handle /\ hand' = hand /\ kind' = kind /\ closed' = closed
    OBVIOUS
  <2>2. timerPc'[r] = "off" <=> timerPc[r] = "off"
    OBVIOUS
  <2>3. state'[r] = "unused" => timerPc'[r] = "off"
    BY <2>1, <2>2
  <2>4. ASSUME state'[r] = "armed"
        PROVE  handle' = r \/ \E u \in Timer!Actor : Deleting(u, r)'
    <3>1. state[r] = "armed" /\ r # hand[t]
      BY <2>1, <2>4
    <3>2. CASE handle = r
      BY <2>1, <3>2
    <3>3. CASE \E u \in Timer!Actor : Deleting(u, r)
      BY <2>1, <3>1, <3>3
    <3> QED BY <3>1, <3>2, <3>3
  <2>5. ASSUME timerPc'[r] # "off", ~(kind' = "wait" /\ closed')
        PROVE  handle' = r \/ \E u \in Timer!Actor : Outlasting(u, r)'
    <3>1. CASE handle = r
      BY <2>1, <3>1
    <3>2. ASSUME NEW u \in Timer!Actor, Outlasting(u, r)
          PROVE  Outlasting(u, r)'
      BY <2>1, <2>5, <3>2
    <3> QED BY <2>1, <2>2, <2>5, <3>1, <3>2
  <2> QED BY <2>3, <2>4, <2>5
<1>12. CASE Timer!Outlast(t)
  BY <1>12 DEF Timer!Outlast
<1>13. CASE Timer!Signal(t)
  BY <1>13 DEF Timer!Signal, Timer!SignalFor
<1>14. CASE Timer!Deleted(t)
  BY <1>14 DEF Timer!Deleted
<1>15. CASE Timer!Release(t)
  BY <1>15 DEF Timer!Release
<1>16. CASE Timer!Return(t)
  BY <1>16 DEF Timer!Return
<1>17. CASE Timer!Returned(t)
  BY <1>17 DEF Timer!Returned, Timer!SignalFor
<1>18. CASE t \in Registration /\ Timer!Fire(t)
  BY <1>18 DEF Timer!Fire
<1> QED
  BY <1>1, <1>2, <1>3, <1>4, <1>5, <1>6, <1>7, <1>8, <1>9, <1>10,
     <1>11, <1>12, <1>13, <1>14, <1>15, <1>16, <1>17, <1>18 DEF TimerStep

-----------------------------------------------------------------------------
(* ThreadpoolTimer: references.                                            *)

LEMMA TimerRefsStep ==
  ASSUME TimerTyping, TimerLocal, TimerLocked, TimerRefs, NEW t \in Timer!Actor, TimerStep(t)
  PROVE  TimerRefs'
<1> USE DEF TimerTyping, TimerLocal, TimerLocked, TimerRefs, TimerPlaces, Timer!Actor, Timer!Goto, Timer!system
<1>1. CASE Timer!Set(t)
  <2>1. Hands' = Hands /\ Callers' = Callers \cup {t} /\ t \notin Callers
    BY <1>1 DEF Timer!Set, Timer!Begin, Timer!CanCall, Hands, Callers
  <2>2. Cardinality(Callers') = Cardinality(Callers) + 1
    BY <2>1, HandsFinite, OneJoins
  <2>3. nRef' = nRef + 1 /\ handle' = handle /\ closed' = closed
    BY <1>1 DEF Timer!Set, Timer!Begin, Timer!CanCall
  <2> QED BY <2>1, <2>2, <2>3, HandsFinite
<1>2. CASE Timer!Cancel(t)
  <2>1. Hands' = Hands /\ Callers' = Callers
    BY <1>2 DEF Timer!Cancel, Timer!Begin, Timer!CanCall, Hands, Callers
  <2>2. nRef' = nRef /\ handle' = handle /\ closed' = closed
    BY <1>2 DEF Timer!Cancel, Timer!Begin, Timer!CanCall
  <2> QED BY <2>1, <2>2
<1>3. CASE Timer!WaitFor(t)
  <2>1. Hands' = Hands /\ Callers' = Callers
    BY <1>3 DEF Timer!WaitFor, Timer!Begin, Timer!CanCall, Hands, Callers
  <2>2. nRef' = nRef /\ handle' = handle /\ closed' = closed
    BY <1>3 DEF Timer!WaitFor, Timer!Begin, Timer!CanCall
  <2> QED BY <2>1, <2>2
<1>4. CASE Timer!Close(t)
  <2>1. Hands' = Hands /\ Callers' = Callers \cup {t} /\ t \notin Callers
    BY <1>4 DEF Timer!Close, Timer!Begin, Timer!CanCall, Hands, Callers
  <2>2. Cardinality(Callers') = Cardinality(Callers) + 1
    BY <2>1, HandsFinite, OneJoins
  <2>3. nRef' = nRef /\ handle' = handle /\ ~closed /\ closed'
    BY <1>4 DEF Timer!Close, Timer!Begin, Timer!CanCall
  <2> QED BY <2>1, <2>2, <2>3, HandsFinite
<1>5. CASE Timer!Lock(t)
  <2>1. Hands' = Hands /\ Callers' = Callers
    BY <1>5 DEF Timer!Lock, Hands, Callers
  <2>2. nRef' = nRef /\ handle' = handle /\ closed' = closed
    BY <1>5 DEF Timer!Lock
  <2> QED BY <2>1, <2>2
<1>6. CASE Timer!Reset(t)
  <2>1. Hands' = Hands /\ Callers' = Callers
    BY <1>6 DEF Timer!Reset, Hands, Callers
  <2>2. nRef' = nRef /\ handle' = handle /\ closed' = closed
    BY <1>6 DEF Timer!Reset
  <2> QED BY <2>1, <2>2
<1>7. CASE Timer!Create(t)
  <2>1. Hands' = Hands /\ Callers' = Callers \ {t} /\ t \in Callers
    BY <1>7 DEF Timer!Create, Timer!Unused, Hands, Callers
  <2>2. Cardinality(Callers') = Cardinality(Callers) - 1
    BY <2>1, HandsFinite, OneLeaves
  <2>3. nRef' = nRef /\ handle = Null /\ handle' # Null /\ closed' = closed
    BY <1>7 DEF Timer!Create, Timer!Unused
  <2> QED BY <2>1, <2>2, <2>3, HandsFinite
<1>8. CASE Timer!CreateFails(t)
  <2>1. Hands' = Hands /\ Callers' = Callers
    BY <1>8 DEF Timer!CreateFails, Timer!Unused, Hands, Callers
  <2>2. nRef' = nRef /\ handle' = handle /\ closed' = closed
    BY <1>8 DEF Timer!CreateFails, Timer!Unused
  <2> QED BY <2>1, <2>2
<1>9. CASE Timer!Unblock(t)
  <2>1. Hands' = Hands /\ Callers' = Callers
    BY <1>9 DEF Timer!Unblock, Hands, Callers
  <2>2. nRef' = nRef /\ handle' = handle /\ closed' = closed
    BY <1>9 DEF Timer!Unblock
  <2> QED BY <2>1, <2>2
<1>10. CASE Timer!Take(t)
  <2>1. CASE handle = Null
    <3>1. Hands' = Hands /\ Callers' = Callers
      BY <1>10, <2>1 DEF Timer!Take, Hands, Callers
    <3> QED BY <1>10, <2>1, <3>1 DEF Timer!Take
  <2>2. CASE handle # Null
    <3>1. Hands' = Hands \cup {t} /\ t \notin Hands /\ Callers' = Callers
      BY <1>10, <2>2 DEF Timer!Take, Hands, Callers
    <3>2. Cardinality(Hands') = Cardinality(Hands) + 1
      BY <3>1, HandsFinite, OneJoins
    <3>3. nRef' = nRef /\ handle' = Null /\ closed' = closed
      BY <1>10 DEF Timer!Take
    <3> QED BY <2>2, <3>1, <3>2, <3>3, HandsFinite
  <2> QED BY <2>1, <2>2
<1>11. CASE Timer!Delete(t)
  <2>1. Hands' = Hands /\ Callers' = Callers
    BY <1>11 DEF Timer!Delete, Hands, Callers
  <2>2. nRef' = nRef /\ handle' = handle /\ closed' = closed
    BY <1>11 DEF Timer!Delete
  <2> QED BY <2>1, <2>2
<1>12. CASE Timer!Outlast(t)
  <2>1. Hands' = Hands /\ Callers' = Callers
    BY <1>12 DEF Timer!Outlast, Hands, Callers
  <2>2. nRef' = nRef /\ handle' = handle /\ closed' = closed
    BY <1>12 DEF Timer!Outlast
  <2> QED BY <2>1, <2>2
<1>13. CASE Timer!Signal(t)
  <2>1. Hands' = Hands /\ Callers' = Callers
    BY <1>13 DEF Timer!Signal, Timer!SignalFor, Hands, Callers
  <2>2. nRef' = nRef /\ handle' = handle /\ closed' = closed
    BY <1>13 DEF Timer!Signal, Timer!SignalFor
  <2> QED BY <2>1, <2>2
<1>14. CASE Timer!Deleted(t)
  <2>1. Hands' = Hands \ {t} /\ t \in Hands /\ Callers' = Callers
    BY <1>14 DEF Timer!Deleted, Hands, Callers
  <2>2. Cardinality(Hands') = Cardinality(Hands) - 1
    BY <2>1, HandsFinite, OneLeaves
  <2>3. nRef' = nRef - 1 /\ handle' = handle /\ closed' = closed
    BY <1>14 DEF Timer!Deleted
  <2> QED BY <2>1, <2>2, <2>3, HandsFinite
<1>15. CASE Timer!Release(t)
  <2>1. Hands' = Hands /\ Callers' = Callers \ {t} /\ t \in Callers
    BY <1>15 DEF Timer!Release, Hands, Callers
  <2>2. Cardinality(Callers') = Cardinality(Callers) - 1
    BY <2>1, HandsFinite, OneLeaves
  <2>3. nRef' = nRef - 1 /\ handle' = handle /\ closed' = closed
    BY <1>15 DEF Timer!Release
  <2> QED BY <2>1, <2>2, <2>3, HandsFinite
<1>16. CASE Timer!Return(t)
  <2>1. Hands' = Hands /\ Callers' = Callers
    BY <1>16 DEF Timer!Return, Hands, Callers
  <2>2. nRef' = nRef /\ handle' = handle /\ closed' = closed
    BY <1>16 DEF Timer!Return
  <2> QED BY <2>1, <2>2
<1>17. CASE Timer!Returned(t)
  <2>1. Hands' = Hands /\ Callers' = Callers
    BY <1>17 DEF Timer!Returned, Timer!SignalFor, Hands, Callers
  <2>2. nRef' = nRef /\ handle' = handle /\ closed' = closed
    BY <1>17 DEF Timer!Returned, Timer!SignalFor
  <2> QED BY <2>1, <2>2
<1>18. CASE t \in Registration /\ Timer!Fire(t)
  <2>1. Hands' = Hands /\ Callers' = Callers
    BY <1>18 DEF Timer!Fire, Hands, Callers
  <2>2. nRef' = nRef /\ handle' = handle /\ closed' = closed
    BY <1>18 DEF Timer!Fire
  <2> QED BY <2>1, <2>2
<1> QED
  BY <1>1, <1>2, <1>3, <1>4, <1>5, <1>6, <1>7, <1>8, <1>9, <1>10,
     <1>11, <1>12, <1>13, <1>14, <1>15, <1>16, <1>17, <1>18 DEF TimerStep

-----------------------------------------------------------------------------
(* ThreadpoolTimer: what the event says.                                   *)

LEMMA TimerSpentStep ==
  ASSUME TimerTyping, TimerLocal, TimerLive, TimerSpent, NEW t \in Timer!Actor, TimerStep(t)
  PROVE  TimerSpent'
<1> USE DEF TimerTyping, TimerLocal, TimerLive, TimerSpent, TimerPlaces, Timer!Actor, Timer!Goto, Timer!system
<1>1. CASE Timer!Set(t)
  BY <1>1 DEF Timer!Set, Timer!Begin, Timer!CanCall
<1>2. CASE Timer!Cancel(t)
  BY <1>2 DEF Timer!Cancel, Timer!Begin, Timer!CanCall
<1>3. CASE Timer!WaitFor(t)
  BY <1>3 DEF Timer!WaitFor, Timer!Begin, Timer!CanCall
<1>4. CASE Timer!Close(t)
  BY <1>4 DEF Timer!Close, Timer!Begin, Timer!CanCall
<1>5. CASE Timer!Lock(t)
  BY <1>5 DEF Timer!Lock
<1>6. CASE Timer!Reset(t)
  BY <1>6 DEF Timer!Reset
<1>7. CASE Timer!Create(t)
  BY <1>7 DEF Timer!Create, Timer!Unused
<1>8. CASE Timer!CreateFails(t)
  BY <1>8 DEF Timer!CreateFails, Timer!Unused
<1>9. CASE Timer!Unblock(t)
  BY <1>9 DEF Timer!Unblock
<1>10. CASE Timer!Take(t)
  BY <1>10 DEF Timer!Take
<1>11. CASE Timer!Delete(t)
  BY <1>11 DEF Timer!Delete
<1>12. CASE Timer!Outlast(t)
  BY <1>12 DEF Timer!Outlast
<1>13. CASE Timer!Signal(t)
  BY <1>13 DEF Timer!Signal, Timer!SignalFor
<1>14. CASE Timer!Deleted(t)
  BY <1>14 DEF Timer!Deleted
<1>15. CASE Timer!Release(t)
  BY <1>15 DEF Timer!Release
<1>16. CASE Timer!Return(t)
  BY <1>16 DEF Timer!Return
<1>17. CASE Timer!Returned(t)
  BY <1>17 DEF Timer!Returned, Timer!SignalFor
<1>18. CASE t \in Registration /\ Timer!Fire(t)
  BY <1>18 DEF Timer!Fire
<1> QED
  BY <1>1, <1>2, <1>3, <1>4, <1>5, <1>6, <1>7, <1>8, <1>9, <1>10,
     <1>11, <1>12, <1>13, <1>14, <1>15, <1>16, <1>17, <1>18 DEF TimerStep

LEMMA TimerCallsStep ==
  ASSUME TimerTyping, TimerLocal, TimerCalls, NEW t \in Timer!Actor, TimerStep(t)
  PROVE  TimerCalls'
<1> USE DEF TimerTyping, TimerLocal, TimerCalls, TimerPlaces, Timer!Actor, Timer!Goto, Timer!system
<1>1. CASE Timer!Set(t)
  BY <1>1 DEF Timer!Set, Timer!Begin, Timer!CanCall
<1>2. CASE Timer!Cancel(t)
  BY <1>2 DEF Timer!Cancel, Timer!Begin, Timer!CanCall
<1>3. CASE Timer!WaitFor(t)
  BY <1>3 DEF Timer!WaitFor, Timer!Begin, Timer!CanCall
<1>4. CASE Timer!Close(t)
  BY <1>4 DEF Timer!Close, Timer!Begin, Timer!CanCall
<1>5. CASE Timer!Lock(t)
  BY <1>5 DEF Timer!Lock
<1>6. CASE Timer!Reset(t)
  BY <1>6 DEF Timer!Reset
<1>7. CASE Timer!Create(t)
  BY <1>7 DEF Timer!Create, Timer!Unused
<1>8. CASE Timer!CreateFails(t)
  BY <1>8 DEF Timer!CreateFails, Timer!Unused
<1>9. CASE Timer!Unblock(t)
  BY <1>9 DEF Timer!Unblock
<1>10. CASE Timer!Take(t)
  BY <1>10 DEF Timer!Take
<1>11. CASE Timer!Delete(t)
  BY <1>11 DEF Timer!Delete
<1>12. CASE Timer!Outlast(t)
  BY <1>12 DEF Timer!Outlast
<1>13. CASE Timer!Signal(t)
  BY <1>13 DEF Timer!Signal, Timer!SignalFor
<1>14. CASE Timer!Deleted(t)
  BY <1>14 DEF Timer!Deleted
<1>15. CASE Timer!Release(t)
  BY <1>15 DEF Timer!Release
<1>16. CASE Timer!Return(t)
  BY <1>16 DEF Timer!Return
<1>17. CASE Timer!Returned(t)
  BY <1>17 DEF Timer!Returned, Timer!SignalFor
<1>18. CASE t \in Registration /\ Timer!Fire(t)
  BY <1>18 DEF Timer!Fire
<1> QED
  BY <1>1, <1>2, <1>3, <1>4, <1>5, <1>6, <1>7, <1>8, <1>9, <1>10,
     <1>11, <1>12, <1>13, <1>14, <1>15, <1>16, <1>17, <1>18 DEF TimerStep

LEMMA TimerEventStep ==
  ASSUME TimerTyping, TimerLocal, TimerLocked, TimerLive, TimerSpent, TimerEvent, NEW t \in Timer!Actor, TimerStep(t)
  PROVE  TimerEvent'
<1> USE DEF TimerTyping, TimerLocal, TimerLocked, TimerSpent, TimerEvent, TimerPlaces, Timer!Actor, Timer!Goto, Timer!system
<1>1. CASE Timer!Set(t)
  BY <1>1 DEF Timer!Set, Timer!Begin, Timer!CanCall
<1>2. CASE Timer!Cancel(t)
  BY <1>2 DEF Timer!Cancel, Timer!Begin, Timer!CanCall
<1>3. CASE Timer!WaitFor(t)
  BY <1>3 DEF Timer!WaitFor, Timer!Begin, Timer!CanCall
<1>4. CASE Timer!Close(t)
  BY <1>4 DEF Timer!Close, Timer!Begin, Timer!CanCall
<1>5. CASE Timer!Lock(t)
  BY <1>5 DEF Timer!Lock
<1>6. CASE Timer!Reset(t)
  BY <1>6 DEF Timer!Reset
<1>7. CASE Timer!Create(t)
  BY <1>7 DEF Timer!Create, Timer!Unused
<1>8. CASE Timer!CreateFails(t)
  BY <1>8 DEF Timer!CreateFails, Timer!Unused
<1>9. CASE Timer!Unblock(t)
  BY <1>9 DEF Timer!Unblock
<1>10. CASE Timer!Take(t)
  BY <1>10 DEF Timer!Take
<1>11. CASE Timer!Delete(t)
  BY <1>11 DEF Timer!Delete
<1>12. CASE Timer!Outlast(t)
  BY <1>12 DEF Timer!Outlast
<1>13. CASE Timer!Signal(t)
  <2>1. done' = TRUE /\ timerPc' = [timerPc EXCEPT ![t] = IF hand[t] = Null THEN "release" ELSE "deleted"]
    BY <1>13 DEF Timer!Signal, Timer!SignalFor
  <2>2. crossed' \in BOOLEAN /\ (~crossed' => ~crossed /\ lock = Null /\ handle \in {hand[t], Null})
    BY <1>13, Zenon DEF Timer!Signal, Timer!SignalFor
  <2>3. /\ handle' = handle /\ state' = state /\ periodic' = periodic
    BY <1>13 DEF Timer!Signal
  <2>4. ~crossed' => \A u \in Timer!Actor : timerPc'[u] # "create"
    BY <1>13, <2>1, <2>2 DEF Timer!Signal
  <2>5. ~crossed' /\ periodic = {} /\ handle # Null => timerPc'[handle] = "off" /\ state[handle] # "armed"
    BY <1>13, <2>1, <2>2 DEF Timer!Signal
  <2> QED BY <2>1, <2>2, <2>3, <2>4, <2>5
<1>14. CASE Timer!Deleted(t)
  BY <1>14 DEF Timer!Deleted
<1>15. CASE Timer!Release(t)
  BY <1>15 DEF Timer!Release
<1>16. CASE Timer!Return(t)
  BY <1>16 DEF Timer!Return
<1>17. CASE Timer!Returned(t)
  <2>1. done' = TRUE /\ timerPc' = [timerPc EXCEPT ![t] = "off"]
    BY <1>17 DEF Timer!Returned, Timer!SignalFor
  <2>2. crossed' \in BOOLEAN /\ (~crossed' => ~crossed /\ lock = Null /\ handle \in {t, Null})
    BY <1>17, Zenon DEF Timer!Returned, Timer!SignalFor
  <2>3. /\ handle' = handle /\ state' = state /\ periodic' = periodic
    BY <1>17 DEF Timer!Returned
  <2>4. ~crossed' => \A u \in Timer!Actor : timerPc'[u] # "create"
    BY <1>17, <2>1, <2>2 DEF Timer!Returned
  <2>5. ~crossed' /\ periodic = {} /\ handle # Null => timerPc'[handle] = "off" /\ state[handle] # "armed"
    BY <1>17, <2>1, <2>2 DEF Timer!Returned
  <2> QED BY <2>1, <2>2, <2>3, <2>4, <2>5
<1>18. CASE t \in Registration /\ Timer!Fire(t)
  BY <1>18 DEF Timer!Fire
<1> QED
  BY <1>1, <1>2, <1>3, <1>4, <1>5, <1>6, <1>7, <1>8, <1>9, <1>10,
     <1>11, <1>12, <1>13, <1>14, <1>15, <1>16, <1>17, <1>18 DEF TimerStep

-----------------------------------------------------------------------------
(* ThreadpoolTimer: the invariant.                                         *)

LEMMA TimerEventInit ==
  ASSUME Timer!Init
  PROVE  TimerSpent /\ TimerCalls /\ TimerEvent
<1>1. TimerSpent
  BY DEF Timer!Init, TimerSpent, Timer!Actor
<1>2. reentrant \in BOOLEAN /\ done \in BOOLEAN /\ crossed \in BOOLEAN
  BY Zenon DEF Timer!Init
<1>3. TimerCalls
  BY <1>2 DEF Timer!Init, TimerCalls, Timer!Actor
<1>4. TimerEvent
  BY <1>2 DEF Timer!Init, TimerEvent, Timer!Actor
<1> QED BY <1>1, <1>3, <1>4

LEMMA TimerInit ==
  ASSUME Timer!Init
  PROVE  TimerInv
<1>1. TimerTyping
  <2>1. timerPc \in [Timer!Actor -> TimerPlaces]
    BY DEF Timer!Init, TimerPlaces
  <2>2. kind \in {"timer", "wait"} /\ closed \in BOOLEAN
    BY Zenon DEF Timer!Init
  <2>3. nRef = 1
    BY DEF Timer!Init
  <2> QED BY <2>1, <2>2, <2>3 DEF Timer!Init, TimerTyping
<1>2. TimerLocal /\ TimerLocked
  BY DEF Timer!Init, TimerLocal, TimerLocked
<1>3. TimerLive
  BY DEF Timer!Init, TimerLive, Timer!Actor
<1>4. Hands = {} /\ Callers = {}
  BY DEF Timer!Init, Hands, Callers, Timer!Actor
<1>5. TimerRefs
  BY <1>4, FS_EmptySet DEF Timer!Init, TimerRefs
<1> QED BY <1>1, <1>2, <1>3, <1>5, TimerEventInit DEF TimerInv

LEMMA TimerNext ==
  ASSUME TimerInv, [Timer!Next]_timerVars
  PROVE  TimerInv'
<1>1. CASE UNCHANGED timerVars
  <2>1. Hands' = Hands /\ Callers' = Callers
    BY <1>1 DEF timerVars, Hands, Callers
  <2>2. TimerTyping' /\ TimerLocal' /\ TimerLocked' /\ TimerLive'
    BY <1>1 DEF TimerInv, timerVars, TimerTyping, TimerLocal, TimerLocked, TimerLive, Deleting, Outlasting
  <2>3. TimerRefs'
    BY <1>1, <2>1 DEF TimerInv, timerVars, TimerRefs
  <2>4. TimerSpent' /\ TimerCalls' /\ TimerEvent'
    BY <1>1 DEF TimerInv, timerVars, TimerSpent, TimerCalls, TimerEvent
  <2> QED BY <2>2, <2>3, <2>4 DEF TimerInv
<1>2. CASE Timer!Next
  <2>1. PICK t \in Timer!Actor : TimerStep(t)
    BY <1>2 DEF Timer!Next, Timer!Inside, TimerStep, Timer!Actor
  <2> QED
    BY <2>1, TimerTypingStep, TimerLocalStep, TimerLockedStep, TimerLiveStep, TimerRefsStep,
       TimerSpentStep, TimerCallsStep, TimerEventStep DEF TimerInv
<1> QED BY <1>1, <1>2

LEMMA CardinalityInTimer == \A S : Timer!Cardinality(S) = Cardinality(S)
  BY Zenon DEF Timer!Cardinality, Cardinality

\* Nobody's reference is forgotten: who may begin or runs a callback has one.
LEMMA TimerCounted ==
  ASSUME TimerInv
  PROVE  Timer!RefsCounted
<1> USE DEF TimerInv, TimerTyping
<1>1. nRef = (IF closed THEN 0 ELSE 1) + (IF handle = Null THEN 0 ELSE 1)
             + Cardinality({t \in Timer!Actor : hand[t] # Null})
             + Cardinality({t \in Timer!Actor : timerPc[t] \notin {"idle", "off", "return", "blocked"}
                                           /\ call[t] \in {"set", "close"}})
  BY DEF TimerRefs, Hands, Callers
<1>2. ASSUME NEW r \in Registration, Timer!Live(r), ~(kind = "wait" /\ closed)
      PROVE  nRef > 0
  <2>1. handle = r \/ \E t \in Timer!Actor : hand[t] = r
    BY <1>2 DEF Timer!Live, TimerLive, Deleting, Outlasting
  <2>2. r # Null
    OBVIOUS
  <2>3. handle # Null \/ Cardinality(Hands) \in Nat \ {0}
    BY <2>1, <2>2, HandsFinite, SomebodyCounts DEF Hands
  <2> QED BY <2>3, HandsFinite DEF TimerRefs
<1> QED BY <1>1, <1>2, CardinalityInTimer DEF Timer!RefsCounted

\* Who stops waiting has seen the event, and nobody else is about to get rid of a registration.
LEMMA TimerUnblocked ==
  ASSUME TimerInv, [Timer!Next]_timerVars, NEW t \in Timer!Actor,
         timerPc[t] = "blocked", timerPc'[t] = "idle",
         \A u \in Client \ {t} : timerPc[u] = "idle",
         periodic = {}, ~reentrant, ~crossed,
         NEW r \in Registration
  PROVE  timerPc[r] = "off" /\ state[r] # "armed"
<1> USE DEF TimerInv, Timer!Actor
<1>1. done
  <2>1. timerPc' # timerPc
    OBVIOUS
  <2>2. PICK u \in Timer!Actor : TimerStep(u)
    BY <2>1 DEF Timer!Next, Timer!Inside, TimerStep, timerVars
  <2>3. CASE u = t
    BY <2>2, <2>3 DEF TimerStep, TimerTyping, Timer!Goto, Timer!Begin, Timer!CanCall, Timer!Set, Timer!Cancel, Timer!WaitFor,
       Timer!Close, Timer!Lock, Timer!Reset, Timer!Create, Timer!CreateFails, Timer!Unblock, Timer!Take, Timer!Delete,
       Timer!Outlast, Timer!Signal, Timer!Deleted, Timer!Release, Timer!Return, Timer!Returned, Timer!Fire
  <2>4. CASE u # t
    BY <2>2, <2>4 DEF TimerStep, TimerTyping, Timer!Goto, Timer!Begin, Timer!CanCall, Timer!Set, Timer!Cancel, Timer!WaitFor,
       Timer!Close, Timer!Lock, Timer!Reset, Timer!Create, Timer!CreateFails, Timer!Unblock, Timer!Take, Timer!Delete,
       Timer!Outlast, Timer!Signal, Timer!Deleted, Timer!Release, Timer!Return, Timer!Returned, Timer!Fire
  <2> QED BY <2>3, <2>4
<1>2. ~closed
  BY DEF TimerCalls
<1>3. \A u \in Timer!Actor : timerPc[u] \notin {"delete", "outlast"}
  BY DEF TimerCalls
<1>4. ~(handle # r /\ (state[r] = "armed" \/ timerPc[r] # "off"))
  BY <1>2, <1>3 DEF TimerLive, Deleting, Outlasting
<1>5. handle = r => timerPc[r] = "off" /\ state[r] # "armed"
  BY <1>1 DEF TimerEvent
<1> QED BY <1>4, <1>5

-----------------------------------------------------------------------------
(* Side by side.                                                           *)

SideInv == (part = "runner" => over \/ RunnerInv) /\ (part = "timer" => TimerInv)

\* The inductive invariant, of the component that runs: for the window the tasks each client has, the lists, the
\* owner of the lock and the window there is (AddRef, Release, TryClean); for a timer or wait what a thread
\* carries and in which call, the lock of a set and where a registration is found (SetThreadpoolTimer).
THEOREM Invariance == SideSpec => []SideInv
<1>1. SideInit => SideInv
  BY RunnerInit, TimerInit DEF SideInit, SideInv
<1>2. SideInv /\ [SideNext]_<<part, vars, runnerVars, timerVars>> => SideInv'
  <2> SUFFICES ASSUME SideInv, [SideNext]_<<part, vars, runnerVars, timerVars>>
               PROVE  SideInv'
    OBVIOUS
  <2>1. part' = part
    BY DEF SideNext
  <2>2. part = "runner" => [Runner!Next]_runnerVars
    BY DEF SideNext
  <2>3. part = "timer" => [Timer!Next]_timerVars
    BY DEF SideNext
  <2>4. part = "runner" => over' \/ RunnerInv'
    BY <2>2, RunnerStep DEF SideInv
  <2>5. part = "timer" => TimerInv'
    BY <2>3, TimerNext DEF SideInv
  <2> QED BY <2>1, <2>4, <2>5 DEF SideInv
<1> QED BY <1>1, <1>2, PTL DEF SideSpec

\* uRef is one for each task and one for the window (ThreadRunner's AddRef and Release); a timer or wait has
\* exactly the references of its handle, its registration and the calls it is in, and is alive while the system
\* may call it back, unless it is a wait that was closed (CloseThreadpoolWait).
THEOREM ReferencesExact == SideSpec => []RefsCounted
<1>1. SideInv => RefsCounted
  BY RunnerCounted, TimerCounted DEF SideInv, RefsCounted
<1> QED BY <1>1, Invariance, PTL

\* While a task is registered there is a window, and it has the runner's data: TryClean never closes it under a
\* task that AddTask has begun to add.
THEOREM ServedAlways == SideSpec => []Served
<1>1. SideInv => Served
  BY RunnerServes DEF SideInv, Served
<1> QED BY <1>1, Invariance, PTL

\* No task of ThreadRunner is freed that a client still has, none is on a list that has been freed, and none is
\* on the lists twice.
THEOREM TasksAliveAlways == SideSpec => []TasksAlive
<1>1. SideInv => TasksAlive
  BY RunnerTasksAlive DEF SideInv, TasksAlive
<1> QED BY <1>1, Invariance, PTL

\* A timer is alive whenever it is called back, whoever closes it and wherever a callback calls into it.
THEOREM TimerAlive == SideSpec => [](part = "timer" /\ kind = "timer" => Timer!AliveWhileFiring)
<1>1. RefsCounted => (part = "timer" /\ kind = "timer" => Timer!AliveWhileFiring)
  BY DEF RefsCounted, Timer!RefsCounted, Timer!AliveWhileFiring
<1> QED BY <1>1, ReferencesExact, PTL

\* Who waits for the callbacks of a timer or a wait (Wait...Callbacks) outlasts them: when the wait ends none runs and
\* none is to come, as long as there is no period, no callback calls and no set has failed under another's registration.
THEOREM CallbacksOutlasted == SideSpec => WaitOutlasts
<1>1. SideInv /\ [SideNext]_<<part, vars, runnerVars, timerVars>> =>
        [\A t \in Timer!Actor :
           /\ timerPc[t] = "blocked" /\ timerPc'[t] = "idle"
           /\ \A u \in Client \ {t} : timerPc[u] = "idle"
           /\ periodic = {} /\ ~reentrant /\ ~crossed
           => \A r \in Registration : timerPc[r] = "off" /\ state[r] # "armed"]_(Timer!vars)
  <2> SUFFICES ASSUME SideInv, [SideNext]_<<part, vars, runnerVars, timerVars>>, Timer!vars' # Timer!vars,
                      NEW t \in Timer!Actor, timerPc[t] = "blocked", timerPc'[t] = "idle",
                      \A u \in Client \ {t} : timerPc[u] = "idle",
                      periodic = {}, ~reentrant, ~crossed,
                      NEW r \in Registration
               PROVE  timerPc[r] = "off" /\ state[r] # "armed"
    OBVIOUS
  <2>1. part = "timer" /\ [Timer!Next]_timerVars
    BY DEF SideNext, timerVars, Timer!vars, Timer!system
  <2> QED BY <2>1, TimerUnblocked DEF SideInv
<1> QED BY <1>1, Invariance, PTL DEF SideSpec, WaitOutlasts, Timer!WaitOutlasts
=============================================================================
