------------------------------ MODULE PipePeers ------------------------------
(***************************************************************************)
(* The process ids of the two ends of a named pipe, which Windows before   *)
(* Vista does not keep: CreateNamedPipe and CreateFile write them to a     *)
(* table in shared memory, GetNamedPipeServerProcessId and                 *)
(* GetNamedPipeClientProcessId look them up there.                         *)
(*                                                                         *)
(* A process has one thread here, and all instances fall into one bucket.  *)
(* There are two pools; a process that may not create the first, the       *)
(* global one, falls back on the second.  A step is one access to the      *)
(* shared memory.  A process may die between any two.                      *)
(***************************************************************************)
EXTENDS Naturals, FiniteSets, Sequences

CONSTANTS
  Process, Privileged,   \* those with SeCreateGlobalPrivilege
  SlotsPerBucket,        \* kPipePeerPidSlotsPerBucket, 12 in the code
  MaxInstance,           \* bound: pipe instances created
  MaxGeneration,         \* bound: accesses to the pools
  GenerationBits,        \* the width of a generation, 32 in the code
  Null

ASSUME PrivilegedAssumption == Privileged \subseteq Process
ASSUME BoundsAssumption == SlotsPerBucket \in Nat \ {0} /\ MaxInstance \in Nat
ASSUME WidthAssumption == GenerationBits \in Nat /\ MaxGeneration \in Nat /\ MaxGeneration < 2 ^ GenerationBits
ASSUME NullIsNoProcess == Null \notin Process

VARIABLES
  exists,       \* the pools whose sections exist
  generation,   \* uGeneration in the header of each pool
  slot,         \* the bucket of each pool
  instances,    \* the pipes: who serves each, and who is its client
  frame,        \* the locals of the call a process is in
  at,           \* where it is in that call
  late,         \* the ids that were stored in a slot after it had been replaced
  wasLate       \* there have been some

vars == <<exists, generation, slot, instances, frame, at, late, wasLate>>
ghosts == <<late, wasLate>>

Pool == 1 .. 2
Slot == 1 .. SlotsPerBucket
Instance == 1 .. MaxInstance
Id == Process \cup {Null}

EmptySlot == [index |-> 0, generation |-> 0, server |-> Null, client |-> Null]
NoPack == <<0, 0>>
NoFrame == [what |-> "none", index |-> 0, tries |-> 0, pool |-> 1, generation |-> 0, i |-> 1,
            pack |-> NoPack, empty |-> 0, oldest |-> 0, oldestGeneration |-> 0, seen |-> {},
            slot |-> 0, id |-> Null]

Init ==
  /\ exists = {}
  /\ generation = [p \in Pool |-> 0]
  /\ slot = [p \in Pool |-> [s \in Slot |-> EmptySlot]]
  /\ instances = <<>>
  /\ frame = [p \in Process |-> NoFrame]
  /\ at = [p \in Process |-> "idle"]
  /\ late = {} /\ wasLate = FALSE

Pack(s) == <<s.index, s.generation>>
Goto(p, where) == at' = [at EXCEPT ![p] = where]
Allowed(p) == frame[p].what = "create"   \* _bAllowCreate
Ready(p) == at[p] \in {"idle", "answered"}
Return(p) == Goto(p, "idle") /\ frame' = [frame EXCEPT ![p] = NoFrame]

\* The slot a process works on.
Here(p) == slot[frame[p].pool][frame[p].slot]
Write(p, s) == slot' = [slot EXCEPT ![frame[p].pool][frame[p].slot] = s]

-----------------------------------------------------------------------------
(* The calls.                                                              *)

Call(p, what, i) ==
  /\ frame' = [frame EXCEPT ![p] = [NoFrame EXCEPT !.what = what, !.index = i]]
  /\ Goto(p, "resolve")
  /\ UNCHANGED <<exists, generation, slot, ghosts>>

\* CreateNamedPipe has made a new instance, whose index the kernel counts up.
Create(p) ==
  /\ Ready(p) /\ Len(instances) < MaxInstance
  /\ instances' = Append(instances, [server |-> p, client |-> Null])
  /\ Call(p, "create", Len(instances) + 1)

\* CreateFile has opened it.
Connect(p) ==
  /\ Ready(p)
  /\ \E i \in DOMAIN instances :
       /\ instances[i].client = Null
       /\ instances' = [instances EXCEPT ![i].client = p]
       /\ Call(p, "connect", i)

\* The client asks who serves it, or the server who its client is.
Query(p) ==
  /\ Ready(p)
  /\ \E i \in DOMAIN instances :
       \/ instances[i].client = p /\ Call(p, "queryServer", i)
       \/ instances[i].server = p /\ instances[i].client # Null /\ Call(p, "queryClient", i)
  /\ UNCHANGED instances

\* The process dies; the section outlives it.
Die(p) ==
  /\ at[p] \notin {"idle", "answered", "dead"}
  /\ Goto(p, "dead")
  /\ frame' = [frame EXCEPT ![p] = NoFrame]
  /\ UNCHANGED <<exists, generation, slot, instances, ghosts>>

-----------------------------------------------------------------------------
(* GetPipePeerPidSlot.                                                     *)

\* GetNamedPipeServerProcessId tries again after a while, the server may be late.
NotFoundHere(p) ==
  LET f == frame[p]
      again == [NoFrame EXCEPT !.what = f.what, !.index = f.index, !.tries = 1]
  IN IF f.pool = 1
       THEN frame' = [frame EXCEPT ![p] = [again EXCEPT !.tries = f.tries, !.pool = 2]] /\ Goto(p, "resolve")
     ELSE IF f.what = "queryServer" /\ f.tries = 0
       THEN frame' = [frame EXCEPT ![p] = again] /\ Goto(p, "resolve")
       ELSE Return(p)

\* ResolvePipePeerPidPool and the increment that dates this access.
Resolve(p) ==
  /\ at[p] = "resolve"
  /\ LET k == frame[p].pool
         mayCreate == Allowed(p) /\ (k = 2 \/ p \in Privileged)
     IN IF k \in exists \/ mayCreate
          THEN /\ generation[1] + generation[2] < MaxGeneration
               /\ exists' = exists \cup {k}
               /\ generation' = [generation EXCEPT ![k] = @ + 1]
               /\ frame' = [frame EXCEPT ![p].generation = generation[k] + 1]
               /\ Goto(p, "scan")
          ELSE NotFoundHere(p) /\ UNCHANGED <<exists, generation>>
  /\ UNCHANGED <<slot, instances, ghosts>>

-----------------------------------------------------------------------------
(* FindOrCreatePipePeerPidSlot.                                            *)

Difference(a, b) == (a + 2 ^ GenerationBits - b) % 2 ^ GenerationBits

\* Look at the next slot.  A generation is unsigned, and so is the difference of two.
Scan(p) ==
  /\ at[p] = "scan" /\ frame[p].i \in Slot
  /\ LET f == frame[p]
         s == slot[f.pool][f.i]
         older == f.oldest = 0 \/ Difference(s.generation, f.oldestGeneration) < 0
         next == [f EXCEPT !.i = @ + 1]
     IN IF s.index = f.index
          THEN /\ frame' = [frame EXCEPT ![p] = [f EXCEPT !.slot = f.i, !.pack = Pack(s)]]
               /\ Goto(p, "renew")
          ELSE /\ frame' = [frame EXCEPT ![p] =
                    IF Pack(s) = NoPack
                      THEN [next EXCEPT !.empty = IF @ = 0 THEN f.i ELSE @]
                      ELSE [next EXCEPT !.oldest = IF older THEN f.i ELSE @,
                                        !.oldestGeneration = IF older THEN s.generation ELSE @,
                                        !.seen = @ \cup {s.generation}]]
               /\ UNCHANGED at
  /\ UNCHANGED <<exists, generation, slot, instances, ghosts>>

Work(p, s, where) ==
  /\ frame' = [frame EXCEPT ![p] =
       [NoFrame EXCEPT !.what = frame[p].what, !.index = frame[p].index, !.tries = frame[p].tries,
                       !.pool = frame[p].pool, !.generation = frame[p].generation, !.slot = s]]
  /\ Goto(p, where)

Scanned(p) ==
  /\ at[p] = "scan" /\ frame[p].i \notin Slot
  /\ LET f == frame[p] IN
       IF ~Allowed(p) THEN NotFoundHere(p)
       ELSE IF f.empty # 0 THEN Work(p, f.empty, "claim") ELSE Work(p, f.oldest, "replace")
  /\ UNCHANGED <<exists, generation, slot, instances, ghosts>>

Rescan(p) == Work(p, 0, "scan")
Found(p) == Work(p, frame[p].slot, IF frame[p].what \in {"create", "connect"} THEN "store" ELSE "read")

\* A compare-exchange of the slot's index and generation.
Exchange(p, old, index) ==
  IF Pack(Here(p)) = old
    THEN /\ Write(p, [Here(p) EXCEPT !.index = index, !.generation = frame[p].generation])
         /\ Found(p)
    ELSE Rescan(p) /\ UNCHANGED slot

Renew(p) ==
  /\ at[p] = "renew"
  /\ Exchange(p, frame[p].pack, frame[p].index)
  /\ UNCHANGED <<exists, generation, instances, ghosts>>

Claim(p) ==
  /\ at[p] = "claim"
  /\ Exchange(p, NoPack, frame[p].index)
  /\ UNCHANGED <<exists, generation, instances, ghosts>>

\* Mutant: publishes first and clears the ids afterwards.
ReplacePublishes(p) ==
  /\ at[p] = "replace"
  /\ Write(p, [Here(p) EXCEPT !.index = frame[p].index, !.generation = frame[p].generation])
  /\ Goto(p, "clearServer")
  /\ UNCHANGED <<exists, generation, instances, ghosts, frame>>

\* A full bucket: replace a slot.  Whatever it holds now, its index goes first.
Replace(p) ==
  /\ at[p] = "replace"
  /\ Write(p, [Here(p) EXCEPT !.index = 0, !.generation = frame[p].generation])
  /\ Goto(p, "clearServer")
  /\ UNCHANGED <<exists, generation, instances, ghosts, frame>>

ClearServer(p) ==
  /\ at[p] = "clearServer"
  /\ Write(p, [Here(p) EXCEPT !.server = Null])
  /\ late' = late \ {<<frame[p].pool, frame[p].slot, "server">>}
  /\ Goto(p, "clearClient")
  /\ UNCHANGED <<exists, generation, instances, frame, wasLate>>

ClearClient(p) ==
  /\ at[p] = "clearClient"
  /\ Write(p, [Here(p) EXCEPT !.client = Null])
  /\ late' = late \ {<<frame[p].pool, frame[p].slot, "client">>}
  /\ Goto(p, "publish")
  /\ UNCHANGED <<exists, generation, instances, frame, wasLate>>

\* Another process may have replaced the slot again meanwhile.
Publish(p) ==
  /\ at[p] = "publish"
  /\ Exchange(p, <<0, frame[p].generation>>, frame[p].index)
  /\ UNCHANGED <<exists, generation, instances, ghosts>>

-----------------------------------------------------------------------------
(* RegisterPipeServerProcessId, RegisterPipeClientProcessId and            *)
(* QueryPipePeerProcessId.                                                 *)

\* The slot may have been replaced since it was found.
Store(p) ==
  /\ at[p] = "store"
  /\ LET f == frame[p]
         end == IF f.what = "create" THEN "server" ELSE "client"
     IN /\ Write(p, [Here(p) EXCEPT ![end] = p])
        /\ late' = late \cup (IF Here(p).index = f.index THEN {} ELSE {<<f.pool, f.slot, end>>})
        /\ wasLate' = (wasLate \/ Here(p).index # f.index)
  /\ Return(p)
  /\ UNCHANGED <<exists, generation, instances>>

Read(p) ==
  /\ at[p] = "read"
  /\ frame' = [frame EXCEPT ![p].id = IF frame[p].what = "queryServer" THEN Here(p).server ELSE Here(p).client]
  /\ Goto(p, "check")
  /\ UNCHANGED <<exists, generation, slot, instances, ghosts>>

Answer(p) == Goto(p, "answered") /\ UNCHANGED frame

\* If there is no id yet, the client looks the slot up again, and the server reads it
\* again, once.
TryAgain(p) ==
  LET f == frame[p] IN
    IF f.tries = 1 THEN Return(p)
    ELSE IF f.what = "queryClient"
      THEN frame' = [frame EXCEPT ![p].tries = 1] /\ Goto(p, "read")
      ELSE /\ frame' = [frame EXCEPT ![p] = [NoFrame EXCEPT !.what = f.what, !.index = f.index, !.tries = 1]]
           /\ Goto(p, "resolve")

\* Mutant: takes the id although the slot has been replaced.
CheckNot(p) ==
  /\ at[p] = "check"
  /\ IF frame[p].id # Null THEN Answer(p) ELSE TryAgain(p)
  /\ UNCHANGED <<exists, generation, slot, instances, ghosts>>

\* The id counts if the slot still stands for the same instance.
Check(p) ==
  /\ at[p] = "check"
  /\ IF Here(p).index # frame[p].index THEN Return(p)
     ELSE IF frame[p].id # Null THEN Answer(p) ELSE TryAgain(p)
  /\ UNCHANGED <<exists, generation, slot, instances, ghosts>>

-----------------------------------------------------------------------------
Next == \E p \in Process :
  \/ Create(p) \/ Connect(p) \/ Query(p) \/ Die(p)
  \/ Resolve(p) \/ Scan(p) \/ Scanned(p)
  \/ Renew(p) \/ Claim(p) \/ Replace(p) \/ ClearServer(p) \/ ClearClient(p) \/ Publish(p)
  \/ Store(p) \/ Read(p) \/ Check(p)

Spec == Init /\ [][Next]_vars

-----------------------------------------------------------------------------
(* Properties.                                                             *)

\* No slot carries the ids of an instance it stood for before, wherever the process
\* that replaced it died; except an id that was stored after the slot was replaced.
IdsOfItsInstance ==
  \A k \in Pool, s \in Slot :
    LET h == slot[k][s] IN
      h.index # 0 =>
        /\ h.server \in {Null, instances[h.index].server} \/ <<k, s, "server">> \in late
        /\ h.client \in {Null, instances[h.index].client} \/ <<k, s, "client">> \in late

\* A process that asks for its peer is told the right one or none, though the slot may
\* be replaced between its read of the id and its check; as long as no id came late.
AnswersRight ==
  \A p \in Process :
    at[p] = "answered" /\ ~wasLate =>
      LET i == instances[frame[p].index] IN
        frame[p].id = IF frame[p].what = "queryServer" THEN i.server ELSE i.client

\* A full bucket gives up the slot least recently used: of the generations its scan has
\* read, the one of the slot to be replaced is the least.
OldestGoes ==
  \A p \in Process :
    LET f == frame[p] IN
      (at[p] = "scan" /\ f.i \notin Slot /\ f.empty = 0) => \A g \in f.seen : f.oldestGeneration <= g
=============================================================================
