----------------------------- MODULE SharedData -----------------------------
(***************************************************************************)
(* The data that all images of a process with YY-Thunks in them share:     *)
(* GetYY_ThunksSharedData maps it, under a name with the process id, and   *)
(* each image keeps a pointer to its own view.  An image for which that    *)
(* fails uses static data of its own.  GetGlobalKeyedEventHandle stands    *)
(* for the users of the data: it keeps a handle there that the first one   *)
(* to come opens for all.                                                  *)
(*                                                                         *)
(* A mapping has its name as long as a handle to it is open, and its       *)
(* contents as long as there is a handle or a view.  An image's name       *)
(* stands for its s_DefaultSharedData.                                     *)
(***************************************************************************)
EXTENDS Naturals, FiniteSets

CONSTANTS Image, Thread, Mapping, Null

ASSUME NamesAssumption ==
  /\ IsFiniteSet(Image) /\ IsFiniteSet(Thread)
  /\ Image \cap Mapping = {} /\ Null \notin Image \cup Mapping

VARIABLES
  data,            \* s_pYY_ThunksSharedData of each image
  flag,            \* bit 0 of fYY_ThunksInitFlags in each mapping
  event,           \* whether hGlobalKeyedEventHandle is set, in each data
  handles, views,  \* open handles and views of each mapping
  opened,          \* open handles of the keyed event
  pc, at,          \* where each thread is, and in which image, if any
  hSharedData,     \* the mapping it has opened
  pData            \* the data it has mapped or found; both Null when it has none

kernel == <<handles, views, opened>>
vars == <<data, flag, event, kernel, pc, at, hSharedData, pData>>

Init ==
  /\ data = [i \in Image |-> Null]
  /\ flag = [m \in Mapping |-> FALSE]
  /\ event = [d \in Mapping \cup Image |-> FALSE]
  /\ handles = [m \in Mapping |-> 0] /\ views = [m \in Mapping |-> 0]
  /\ opened = 0
  /\ pc = [t \in Thread |-> "idle"]
  /\ at = [t \in Thread |-> Null]
  /\ hSharedData = [t \in Thread |-> Null]
  /\ pData = [t \in Thread |-> Null]

Goto(t, where) == pc' = [pc EXCEPT ![t] = where]
Found(t, d) == pData' = [pData EXCEPT ![t] = d]
Return(t) == Goto(t, "idle") /\ Found(t, Null) /\ at' = [at EXCEPT ![t] = Null]

\* The mapping that CreateFileMappingW opens, or a new one, all zero, if none has the name.
Named == {m \in Mapping : handles[m] > 0}
Fresh == IF Named = {} THEN {m \in Mapping : views[m] = 0} ELSE {}

-----------------------------------------------------------------------------
(* GetYY_ThunksSharedData.                                                 *)

Get(t, i) ==
  /\ pc[t] = "idle"
  /\ at' = [at EXCEPT ![t] = i]
  /\ Found(t, data[i])
  /\ Goto(t, IF data[i] = Null THEN "create" ELSE "event")
  /\ UNCHANGED <<data, flag, event, kernel, hSharedData>>

Create(t) ==
  /\ pc[t] = "create"
  /\ \E m \in Named \cup Fresh :
       /\ handles' = [handles EXCEPT ![m] = @ + 1]
       /\ flag' = [flag EXCEPT ![m] = @ /\ m \in Named]
       /\ event' = [event EXCEPT ![m] = @ /\ m \in Named]
       /\ hSharedData' = [hSharedData EXCEPT ![t] = m]
  /\ Goto(t, "map")
  /\ UNCHANGED <<data, views, opened, at, pData>>

CreateFails(t) ==
  /\ pc[t] = "create"
  /\ Found(t, at[t])
  /\ Goto(t, "publish")
  /\ UNCHANGED <<data, flag, event, kernel, at, hSharedData>>

Map(t) ==
  /\ pc[t] = "map"
  /\ LET m == hSharedData[t] IN
       /\ views' = [views EXCEPT ![m] = @ + 1]
       /\ Found(t, m)
  /\ Goto(t, "flag")
  /\ UNCHANGED <<data, flag, event, handles, opened, at, hSharedData>>

MapFails(t) ==
  /\ pc[t] = "map"
  /\ Found(t, at[t])
  /\ Goto(t, "close")
  /\ UNCHANGED <<data, flag, event, kernel, at, hSharedData>>

Forget(t) == Goto(t, "publish") /\ hSharedData' = [hSharedData EXCEPT ![t] = Null]

\* Mutant: whoever has mapped the data closes its handle.
SetFlagCloses(t) ==
  /\ pc[t] = "flag"
  /\ flag' = [flag EXCEPT ![pData[t]] = TRUE]
  /\ Goto(t, "close")
  /\ UNCHANGED <<data, event, kernel, at, hSharedData, pData>>

\* Whoever sets the bit keeps its handle open for the life of the process.
SetFlag(t) ==
  /\ pc[t] = "flag"
  /\ flag' = [flag EXCEPT ![pData[t]] = TRUE]
  /\ IF flag[pData[t]] THEN Goto(t, "close") /\ UNCHANGED hSharedData ELSE Forget(t)
  /\ UNCHANGED <<data, event, kernel, at, pData>>

Close(t) ==
  /\ pc[t] = "close"
  /\ handles' = [handles EXCEPT ![hSharedData[t]] = @ - 1]
  /\ Forget(t)
  /\ UNCHANGED <<data, flag, event, views, opened, at, pData>>

\* Mutant: who comes second leaves its view.
PublishLeaves(t) ==
  /\ pc[t] = "publish"
  /\ data' = [data EXCEPT ![at[t]] = IF @ = Null THEN pData[t] ELSE @]
  /\ Found(t, data'[at[t]])
  /\ Goto(t, "event")
  /\ UNCHANGED <<flag, event, kernel, at, hSharedData>>

Publish(t) ==
  /\ pc[t] = "publish"
  /\ LET i == at[t] IN
       IF data[i] = Null
       THEN data' = [data EXCEPT ![i] = pData[t]] /\ Goto(t, "event") /\ UNCHANGED pData
       ELSE IF pData[t] = i
            THEN Found(t, data[i]) /\ Goto(t, "event") /\ UNCHANGED data
            ELSE Goto(t, "unmap") /\ UNCHANGED <<data, pData>>
  /\ UNCHANGED <<flag, event, kernel, at, hSharedData>>

Unmap(t) ==
  /\ pc[t] = "unmap"
  /\ views' = [views EXCEPT ![pData[t]] = @ - 1]
  /\ Found(t, data[at[t]])
  /\ Goto(t, "event")
  /\ UNCHANGED <<data, flag, event, handles, opened, at, hSharedData>>

-----------------------------------------------------------------------------
(* GetGlobalKeyedEventHandle.                                              *)

\* A handle is there already, or NtOpenKeyedEvent fails, or it opens one.
OpenEvent(t) ==
  /\ pc[t] = "event"
  /\ \/ Return(t) /\ UNCHANGED opened
     \/ ~event[pData[t]] /\ opened' = opened + 1 /\ Goto(t, "store") /\ UNCHANGED <<at, pData>>
  /\ UNCHANGED <<data, flag, event, handles, views, hSharedData>>

StoreEvent(t) ==
  /\ pc[t] = "store"
  /\ event' = [event EXCEPT ![pData[t]] = TRUE]
  /\ IF event[pData[t]] THEN Goto(t, "closeEvent") /\ UNCHANGED <<at, pData>> ELSE Return(t)
  /\ UNCHANGED <<data, flag, kernel, hSharedData>>

CloseEvent(t) ==
  /\ pc[t] = "closeEvent"
  /\ opened' = opened - 1
  /\ Return(t)
  /\ UNCHANGED <<data, flag, event, handles, views, hSharedData>>

-----------------------------------------------------------------------------
(* The end of __YY_uninitialize_winapi_thunks, with nobody in the image,   *)
(* and FreeYY_ThunksSharedData.  The image may be loaded again.            *)

\* Mutant: the last image closes the mapping's handle too.
UnloadCloses(i) ==
  /\ data[i] \in Mapping
  /\ i \notin {at[t] : t \in Thread}
  /\ views' = [views EXCEPT ![data[i]] = @ - 1]
  /\ handles' = [handles EXCEPT ![data[i]] = IF views[data[i]] = 1 THEN @ - 1 ELSE @]
  /\ data' = [data EXCEPT ![i] = Null]
  /\ UNCHANGED <<flag, event, opened, pc, at, hSharedData, pData>>

Unload(i) ==
  /\ data[i] # Null
  /\ i \notin {at[t] : t \in Thread}
  /\ IF data[i] = i
     THEN /\ opened' = IF event[i] THEN opened - 1 ELSE opened
          /\ event' = [event EXCEPT ![i] = FALSE]
          /\ UNCHANGED views
     ELSE views' = [views EXCEPT ![data[i]] = @ - 1] /\ UNCHANGED <<opened, event>>
  /\ data' = [data EXCEPT ![i] = Null]
  /\ UNCHANGED <<flag, handles, pc, at, hSharedData, pData>>

Call(t) == \E i \in Image : Get(t, i)
Opening(t) == Create(t) \/ CreateFails(t) \/ Map(t) \/ MapFails(t) \/ SetFlag(t) \/ Close(t)
Settling(t) == Publish(t) \/ Unmap(t) \/ OpenEvent(t) \/ StoreEvent(t) \/ CloseEvent(t)

Next == (\E t \in Thread : Call(t) \/ Opening(t) \/ Settling(t)) \/ (\E i \in Image : Unload(i))

Spec == Init /\ [][Next]_vars

-----------------------------------------------------------------------------
(* Properties.                                                             *)

TypeOK ==
  /\ data \in [Image -> Mapping \cup Image \cup {Null}] /\ \A i \in Image : data[i] \in Mapping \cup {i, Null}
  /\ flag \in [Mapping -> BOOLEAN] /\ event \in [Mapping \cup Image -> BOOLEAN]
  /\ handles \in [Mapping -> Nat] /\ views \in [Mapping -> Nat] /\ opened \in Nat
  /\ pc \in [Thread -> {"idle", "create", "map", "flag", "close", "publish", "unmap", "event",
                        "store", "closeEvent"}]
  /\ at \in [Thread -> Image \cup {Null}]
  /\ hSharedData \in [Thread -> Mapping \cup {Null}]
  /\ pData \in [Thread -> Mapping \cup Image \cup {Null}]

HandleOf(m) == {t \in Thread : pc[t] \in {"map", "flag", "close"} /\ hSharedData[t] = m}
ViewOf(m) == {t \in Thread : pc[t] \in {"flag", "close", "publish", "unmap"} /\ pData[t] = m}
ViewedBy(m) == {i \in Image : data[i] = m}

\* However many images and threads come at once, one handle is kept for the mapping whose bit
\* is set, and none besides those of calls in progress (YY_Thunks.cpp:1662).
HandlesCounted ==
  \A m \in Mapping : handles[m] = Cardinality(HandleOf(m)) + (IF flag[m] THEN 1 ELSE 0)

\* A mapping is viewed once by each image that uses it, and besides that only by calls that
\* are still to publish or to give up theirs: no view is leaked by a thread that comes second,
\* and none is unmapped under an image (YY_Thunks.cpp:1679).
ViewsCounted ==
  \A m \in Mapping : views[m] = Cardinality(ViewOf(m)) + Cardinality(ViewedBy(m))

\* Each data has one handle of the keyed event at most, however many threads open one
\* (api-ms-win-core-synch.hpp:222).
EventsCounted ==
  opened = Cardinality({d \in Mapping \cup Image : event[d]})
           + Cardinality({t \in Thread : pc[t] \in {"store", "closeEvent"}})

\* Nothing is leaked and nothing given up under others: the three counts.
NothingLeaked == HandlesCounted /\ ViewsCounted /\ EventsCounted

\* All images that could map the data, and all threads about to, have the same mapping
\* (YY_Thunks.cpp:1656).
OneMapping ==
  \A m, n \in Mapping : views[m] > 0 /\ views[n] > 0 => m = n

\* What is in the data is not lost before the process ends, even while no image is left that
\* uses it (YY_Thunks.cpp:1661).
KeptForLife == [][\A m \in Mapping : flag[m] => flag'[m] /\ (event[m] => event'[m])]_vars

=============================================================================
