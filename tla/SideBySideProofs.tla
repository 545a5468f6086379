-------------------------- MODULE SideBySideProofs --------------------------
(***************************************************************************)
(* Proofs about the components that MCSideBySide puts side by side, for    *)
(* any number of processes, slots, instances, accesses and threads.        *)
(*                                                                         *)
(* PipePeers: types, that no slot shows the ids of an instance it stood    *)
(* for before, and that a process is told its right peer or none.  Fls:    *)
(* that a thread's block is referred to by the thread and the list and     *)
(* nobody else, and that each value is called back once.                   *)
(* InterlockedQueue: that it is a FIFO queue, that Pop answers null only   *)
(* when the queue is empty, and that no freed block is used.               *)
(***************************************************************************)
EXTENDS MCSideBySide, Sequences, FiniteSetTheorems, TLAPS

USE BoundsAssumption, WidthAssumption, NullIsNoProcess

-----------------------------------------------------------------------------
(* PipePeers: the inductive invariant.                                     *)

Calls == {"create", "connect", "queryServer", "queryClient"}

\* Where a process is past Resolve; and where it has found a slot.
AtSlot == {"renew", "claim", "replace", "clearServer", "clearClient", "publish", "store", "read", "check"}
Dated == {"scan"} \cup AtSlot

Frame == [what : Calls \cup {"none"}, index : Nat, tries : Nat, pool : Pool, generation : Nat, i : Nat,
          pack : Nat \X Nat, empty : Nat, oldest : Nat, oldestGeneration : Nat, seen : SUBSET Nat,
          slot : Nat, id : Id]

SlotRecord == [index : Nat, generation : Nat, server : Id, client : Id]

TypeInv ==
  /\ exists \subseteq Pool
  /\ generation \in [Pool -> Nat]
  /\ slot \in [Pool -> [Slot -> SlotRecord]]
  /\ instances \in Seq([server : Process, client : Id])
  /\ frame \in [Process -> Frame]
  /\ at \in [Process -> {"idle", "answered", "dead", "resolve"} \cup Dated]

\* The caller is that end of its instance which it registers.
Registers(p, what, i) ==
  /\ what \in Calls /\ i \in DOMAIN instances
  /\ what = "create" => instances[i].server = p
  /\ what = "connect" => instances[i].client = p

Unscanned(f) == f.i = 1 /\ f.empty = 0 /\ f.oldest = 0

\* What a process knows of its own call.
LocalInv(p) ==
  LET f == frame[p] IN
  /\ at[p] \in {"resolve"} \cup Dated => Registers(p, f.what, f.index)
  /\ at[p] = "resolve" => Unscanned(f)
  /\ at[p] \in Dated => f.generation \in 1 .. generation[f.pool]
  /\ at[p] = "scan" => /\ f.i # 0
                       /\ f.empty \in {0} \cup Slot /\ f.oldest \in {0} \cup Slot
                       /\ f.i > 1 /\ f.empty = 0 => f.oldest # 0
  /\ at[p] \in AtSlot => f.slot \in Slot
  /\ at[p] = "renew" => f.pack[1] = f.index
  /\ at[p] = "store" => f.what \in {"create", "connect"}

\* Each access to a pool has a generation of its own.
DatesDiffer ==
  \A p, q \in Process :
    /\ p # q /\ at[p] \in Dated /\ at[q] \in Dated /\ frame[p].pool = frame[q].pool
    => frame[p].generation # frame[q].generation

\* An end of a slot has no id, but perhaps one that came late.
NoServer(k, s) == slot[k][s].server = Null \/ <<k, s, "server">> \in late
NoClient(k, s) == slot[k][s].client = Null \/ <<k, s, "client">> \in late

\* A slot that was never used has no ids; the others have those of their instance.
SlotInv(k, s) ==
  LET h == slot[k][s] IN
  /\ h.index \in {0} \cup DOMAIN instances
  /\ Pack(h) = NoPack => NoServer(k, s) /\ NoClient(k, s)
  /\ h.index # 0 =>
       /\ h.server \in {Null, instances[h.index].server} \/ <<k, s, "server">> \in late
       /\ h.client \in {Null, instances[h.index].client} \/ <<k, s, "client">> \in late

\* A process that replaces a slot and finds it still as it left it has cleared its ids.
ReplaceInv(p) ==
  Pack(Here(p)) = <<0, frame[p].generation>> =>
    /\ at[p] \in {"clearClient", "publish"} => NoServer(frame[p].pool, frame[p].slot)
    /\ at[p] = "publish" => NoClient(frame[p].pool, frame[p].slot)

SlotsInv == \A k \in Pool, s \in Slot : SlotInv(k, s)
ReplacesInv == \A p \in Process : at[p] \in AtSlot => ReplaceInv(p)

IInv ==
  /\ TypeInv
  /\ \A p \in Process : LocalInv(p)
  /\ DatesDiffer
  /\ SlotsInv
  /\ ReplacesInv

-----------------------------------------------------------------------------
(* What the operators on frames do.                                        *)

\* Nobody but p moves.
Others(p) == \A q \in Process \ {p} : frame'[q] = frame[q] /\ at'[q] = at[q]

\* p stays in its call, with the same pool and date.
SameCall(p) ==
  /\ frame'[p].what = frame[p].what /\ frame'[p].index = frame[p].index
  /\ frame'[p].pool = frame[p].pool /\ frame'[p].generation = frame[p].generation

FrameTypes ==
  /\ frame' \in [Process -> Frame]
  /\ at' \in [Process -> {"idle", "answered", "dead", "resolve"} \cup Dated]

\* An instance is a number, and has a server and perhaps a client.
LEMMA InstanceTyped ==
  ASSUME TypeInv, NEW i \in DOMAIN instances
  PROVE  /\ i \in Nat /\ i # 0
         /\ instances \in Seq([server : Process, client : Id])
         /\ instances[i] \in [server : Process, client : Id]
<1> DEFINE T == [server : Process, client : Id]
<1>1. instances \in Seq(T)
  BY DEF TypeInv
<1> HIDE DEF T
<1>2. i \in 1 .. Len(instances)
  BY <1>1
<1>3. instances[i] \in T
  BY <1>1, <1>2
<1> QED
  BY <1>1, <1>2, <1>3 DEF T

\* The frame of a process outside of its calls.
LEMMA NoFrameTyped == NoFrame \in Frame
  BY DEF NoFrame, NoPack, Frame, Pool, Id, Calls

\* Work: p goes on with a slot, or anew with none.
LEMMA WorkFrame ==
  ASSUME TypeInv, NEW p \in Process, NEW s \in Nat, NEW where \in Dated, Work(p, s, where)
  PROVE  /\ FrameTypes /\ Others(p) /\ SameCall(p)
         /\ at'[p] = where /\ frame'[p].slot = s
         /\ Unscanned(frame'[p])
<1> DEFINE f == [NoFrame EXCEPT !.what = frame[p].what, !.index = frame[p].index,
                                !.tries = frame[p].tries, !.pool = frame[p].pool,
                                !.generation = frame[p].generation, !.slot = s]
<1>1. frame[p] \in Frame /\ frame \in [Process -> Frame]
  BY DEF TypeInv
<1>2. f \in Frame
  BY <1>1, NoFrameTyped DEF Frame
<1>3. /\ f.what = frame[p].what /\ f.index = frame[p].index
      /\ f.pool = frame[p].pool /\ f.generation = frame[p].generation
      /\ f.slot = s /\ Unscanned(f)
  BY DEF NoFrame, Unscanned
<1>4. frame' = [frame EXCEPT ![p] = f] /\ Goto(p, where)
  BY DEF Work
<1> HIDE DEF f
<1> QED
  BY <1>1, <1>2, <1>3, <1>4 DEF Goto, FrameTypes, Others, SameCall, TypeInv

\* Return: p is out of its call.
LEMMA ReturnFrame ==
  ASSUME TypeInv, NEW p \in Process, Return(p)
  PROVE  FrameTypes /\ Others(p) /\ at'[p] = "idle"
  BY NoFrameTyped DEF Return, Goto, FrameTypes, Others, TypeInv

\* NotFoundHere: p goes on to the next pool, begins again, or is out of its call.
LEMMA NotFoundFrame ==
  ASSUME TypeInv, NEW p \in Process, NotFoundHere(p)
  PROVE  /\ FrameTypes /\ Others(p)
         /\ at'[p] \in {"idle", "resolve"}
         /\ at'[p] = "resolve" => /\ frame'[p].what = frame[p].what
                                  /\ frame'[p].index = frame[p].index
                                  /\ Unscanned(frame'[p])
                                  /\ frame'[p].pool = 2 \/ frame[p].what = "queryServer"
<1>1. frame[p] \in Frame /\ frame \in [Process -> Frame]
  BY DEF TypeInv
<1>2. CASE Return(p)
  BY <1>2, ReturnFrame
<1>3. CASE ~Return(p)
  <2> DEFINE again == [NoFrame EXCEPT !.what = frame[p].what, !.index = frame[p].index, !.tries = 1]
             over == [again EXCEPT !.tries = frame[p].tries, !.pool = 2]
  <2>1. again \in Frame
    BY <1>1, NoFrameTyped DEF Frame
  <2>4. over \in Frame
    <3>1. 2 \in Pool
      BY DEF Pool
    <3> HIDE DEF again
    <3> QED
      BY <1>1, <2>1, <3>1 DEF Frame
  <2>2. \E f \in {again, over} : /\ frame' = [frame EXCEPT ![p] = f] /\ Goto(p, "resolve")
                                 /\ f = over \/ frame[p].what = "queryServer"
    BY <1>3 DEF NotFoundHere
  <2>3. /\ \A f \in {again, over} : f.what = frame[p].what /\ f.index = frame[p].index /\ Unscanned(f)
        /\ over.pool = 2
    BY DEF NoFrame, Unscanned
  <2> HIDE DEF again, over
  <2> QED
    BY <1>1, <2>1, <2>2, <2>3, <2>4 DEF Goto, FrameTypes, Others, TypeInv
<1> QED
  BY <1>2, <1>3

\* Call: p begins.
LEMMA CallFrame ==
  ASSUME TypeInv, NEW p \in Process, NEW what \in Calls, NEW i \in Nat, Call(p, what, i)
  PROVE  /\ FrameTypes /\ Others(p)
         /\ at'[p] = "resolve" /\ frame'[p].what = what /\ frame'[p].index = i
         /\ Unscanned(frame'[p])
<1> DEFINE f == [NoFrame EXCEPT !.what = what, !.index = i]
<1>1. f \in Frame
  BY NoFrameTyped DEF Frame
<1>2. f.what = what /\ f.index = i /\ Unscanned(f)
  BY DEF NoFrame, Unscanned
<1>3. frame' = [frame EXCEPT ![p] = f] /\ Goto(p, "resolve")
  BY DEF Call
<1> HIDE DEF f
<1> QED
  BY <1>1, <1>2, <1>3 DEF Goto, FrameTypes, Others, TypeInv

\* Exchange: p has the slot, or scans the bucket once more.
LEMMA ExchangeFrame ==
  ASSUME TypeInv, NEW p \in Process, at[p] \in AtSlot, NEW old, NEW i, Exchange(p, old, i)
  PROVE  /\ FrameTypes /\ Others(p) /\ SameCall(p)
         /\ at'[p] \in {"scan", "store", "read"}
         /\ at'[p] = "scan" => Unscanned(frame'[p])
         /\ at'[p] # "scan" => frame'[p].slot = frame[p].slot
         /\ at'[p] = "store" => frame'[p].what \in {"create", "connect"}
         /\ at'[p] = "read" => frame[p].what # "create"
         /\ at'[p] = "scan" => UNCHANGED slot
<1>1. frame[p].slot \in Nat
  BY DEF TypeInv, Frame
<1>2. CASE Rescan(p) /\ UNCHANGED slot
  BY <1>2, WorkFrame DEF Rescan, Dated
<1>3. CASE Found(p)
  BY <1>1, <1>3, WorkFrame DEF Found, Dated, AtSlot, SameCall
<1> QED
  BY <1>2, <1>3 DEF Exchange

\* Goto alone: p goes on with the same frame.
LEMMA GotoFrame ==
  ASSUME TypeInv, NEW p \in Process, NEW where \in {"answered", "dead"} \cup Dated,
         Goto(p, where), UNCHANGED frame
  PROVE  FrameTypes /\ Others(p) /\ SameCall(p) /\ at'[p] = where
  BY DEF Goto, FrameTypes, Others, SameCall, TypeInv

\* TryAgain: p reads the id again, begins again, or is out of its call.
LEMMA TryAgainFrame ==
  ASSUME TypeInv, NEW p \in Process, TryAgain(p)
  PROVE  /\ FrameTypes /\ Others(p)
         /\ at'[p] \in {"idle", "resolve", "read"}
         /\ at'[p] # "idle" => /\ frame'[p].what = frame[p].what
                               /\ frame'[p].index = frame[p].index
         /\ at'[p] = "resolve" => Unscanned(frame'[p])
         /\ at'[p] = "read" => SameCall(p) /\ frame'[p].slot = frame[p].slot
<1>1. frame[p] \in Frame /\ frame \in [Process -> Frame]
  BY DEF TypeInv
<1>2. CASE Return(p)
  BY <1>2, ReturnFrame
<1>3. CASE ~Return(p) /\ frame[p].what = "queryClient"
  <2> DEFINE f == [frame[p] EXCEPT !.tries = 1]
  <2>1. f \in Frame
    BY <1>1 DEF Frame
  <2>2. /\ f.what = frame[p].what /\ f.index = frame[p].index /\ f.slot = frame[p].slot
        /\ f.pool = frame[p].pool /\ f.generation = frame[p].generation
    BY <1>1 DEF Frame
  <2>3. frame' = [frame EXCEPT ![p] = f] /\ Goto(p, "read")
    BY <1>3 DEF TryAgain
  <2> HIDE DEF f
  <2> QED
    BY <1>1, <2>1, <2>2, <2>3 DEF Goto, FrameTypes, Others, SameCall, TypeInv, Dated, AtSlot
<1>4. CASE ~Return(p) /\ frame[p].what # "queryClient"
  <2> DEFINE f == [NoFrame EXCEPT !.what = frame[p].what, !.index = frame[p].index, !.tries = 1]
  <2>1. f \in Frame
    BY <1>1, NoFrameTyped DEF Frame
  <2>2. f.what = frame[p].what /\ f.index = frame[p].index /\ Unscanned(f)
    BY DEF NoFrame, Unscanned
  <2>3. frame' = [frame EXCEPT ![p] = f] /\ Goto(p, "resolve")
    BY <1>4 DEF TryAgain
  <2> HIDE DEF f
  <2> QED
    BY <1>1, <2>1, <2>2, <2>3 DEF Goto, FrameTypes, Others, TypeInv
<1> QED
  BY <1>2, <1>3, <1>4

-----------------------------------------------------------------------------
(* What the steps do to the process that takes them.                       *)

\* A date is given by Resolve alone.
KeepsDate(p) ==
  at'[p] \in Dated => /\ at[p] \in Dated
                      /\ frame'[p].pool = frame[p].pool /\ frame'[p].generation = frame[p].generation

\* A process in a call stays in it, and on its second pool if it may create the slot.
InCall == {"resolve"} \cup Dated
KeepsCall(p) ==
  at'[p] \in InCall =>
    /\ at[p] \in InCall
    /\ frame'[p].what = frame[p].what /\ frame'[p].index = frame[p].index
    /\ frame[p].what = "create" => frame'[p].pool >= frame[p].pool
    /\ at'[p] \in AtSlot => SameCall(p)

Own(p) == FrameTypes /\ Others(p) /\ LocalInv(p)'

\* A process that begins a call registers an end of its own.
LEMMA CreateOwn ==
  ASSUME TypeInv, NEW p \in Process, Create(p)
  PROVE  TypeInv' /\ Own(p) /\ KeepsDate(p)
<1> DEFINE i == Len(instances) + 1
           new == [server |-> p, client |-> Null]
<1>1. i \in Nat /\ "create" \in Calls /\ instances \in Seq([server : Process, client : Id])
  BY DEF TypeInv, Calls
<1>2. new \in [server : Process, client : Id]
  BY DEF Id
<1>3. instances' = Append(instances, new)
  BY DEF Create
<1>4. /\ instances' \in Seq([server : Process, client : Id])
      /\ i \in DOMAIN instances' /\ instances'[i].server = p
  <2>1. instances'[i] = new /\ i \in DOMAIN instances' /\ instances' \in Seq([server : Process, client : Id])
    <3> HIDE DEF new
    <3> QED BY <1>1, <1>2, <1>3
  <2> QED BY <2>1
<1>5. Call(p, "create", i)
  BY DEF Create
<1>6. /\ FrameTypes /\ Others(p)
      /\ at'[p] = "resolve" /\ frame'[p].what = "create" /\ frame'[p].index = i
      /\ Unscanned(frame'[p])
  <2> HIDE DEF i
  <2> QED BY <1>1, <1>5, CallFrame
<1>7. TypeInv'
  BY <1>4, <1>5, <1>6 DEF Call, TypeInv, FrameTypes
<1> HIDE DEF i, new
<1>8. LocalInv(p)'
  BY <1>1, <1>4, <1>6 DEF LocalInv, Registers, Dated, AtSlot
<1> QED
  BY <1>6, <1>7, <1>8 DEF Own, KeepsDate, Dated, AtSlot

\* Who connects is the client of its instance, and the other instances stay.
LEMMA ConnectOwn ==
  ASSUME TypeInv, NEW p \in Process, Connect(p)
  PROVE  /\ TypeInv' /\ Own(p) /\ KeepsDate(p)
         /\ DOMAIN instances' = DOMAIN instances
         /\ \A j \in DOMAIN instances : /\ instances'[j].server = instances[j].server
                                        /\ instances[j].client # Null => instances'[j] = instances[j]
<1>1. PICK i \in DOMAIN instances :
        /\ instances[i].client = Null
        /\ instances' = [instances EXCEPT ![i].client = p]
        /\ Call(p, "connect", i)
  BY DEF Connect
<1> DEFINE new == [instances[i] EXCEPT !.client = p]
<1>2. /\ i \in Nat /\ "connect" \in Calls
      /\ instances \in Seq([server : Process, client : Id]) /\ instances[i] \in [server : Process, client : Id]
  BY InstanceTyped DEF Calls
<1>3. new \in [server : Process, client : Id] /\ new.server = instances[i].server /\ new.client = p
  <2>1. p \in Id
    BY DEF Id
  <2> QED
    BY <1>2, <2>1
<1>4. instances' = [instances EXCEPT ![i] = new]
  BY <1>1
<1> HIDE DEF new
<1>5. /\ instances' \in Seq([server : Process, client : Id]) /\ DOMAIN instances' = DOMAIN instances
      /\ instances'[i] = new
      /\ \A j \in DOMAIN instances \ {i} : instances'[j] = instances[j]
  BY <1>2, <1>3, <1>4
<1>6. /\ FrameTypes /\ Others(p)
      /\ at'[p] = "resolve" /\ frame'[p].what = "connect" /\ frame'[p].index = i
      /\ Unscanned(frame'[p])
  BY <1>1, <1>2, CallFrame
<1>7. TypeInv'
  BY <1>1, <1>5, <1>6 DEF Call, TypeInv, FrameTypes
<1>8. LocalInv(p)'
  BY <1>1, <1>2, <1>3, <1>5, <1>6 DEF LocalInv, Registers, Dated, AtSlot
<1> QED
  BY <1>1, <1>3, <1>5, <1>6, <1>7, <1>8 DEF Own, KeepsDate, Dated, AtSlot

\* Query: p asks about an instance there is.
LEMMA QueryOwn ==
  ASSUME TypeInv, NEW p \in Process, Query(p)
  PROVE  TypeInv' /\ Own(p) /\ KeepsDate(p)
<1>1. PICK i \in DOMAIN instances, what \in {"queryServer", "queryClient"} : Call(p, what, i)
  BY DEF Query
<1>2. i \in Nat /\ what \in Calls
  BY DEF TypeInv, Calls
<1>3. UNCHANGED instances
  BY DEF Query
<1>4. /\ FrameTypes /\ Others(p)
      /\ at'[p] = "resolve" /\ frame'[p].what = what /\ frame'[p].index = i
      /\ Unscanned(frame'[p])
  BY <1>1, <1>2, CallFrame
<1>5. TypeInv'
  BY <1>1, <1>3, <1>4 DEF Call, TypeInv, FrameTypes
<1>6. LocalInv(p)'
  BY <1>2, <1>3, <1>4 DEF LocalInv, Registers, Dated, AtSlot
<1> QED
  BY <1>4, <1>5, <1>6 DEF Own, KeepsDate, Dated, AtSlot

\* Out of its call a process knows nothing.
LEMMA OutOfCall ==
  ASSUME NEW p \in Process, FrameTypes, Others(p), at'[p] \in {"idle", "answered", "dead"}
  PROVE  Own(p) /\ KeepsDate(p)
  BY DEF Own, KeepsDate, LocalInv, Dated, AtSlot

\* At the start of a look-up it knows its instance.
LEMMA AtResolve ==
  ASSUME NEW p \in Process, FrameTypes, Others(p), LocalInv(p), at[p] \in {"resolve"} \cup Dated,
         UNCHANGED instances,
         at'[p] = "resolve", frame'[p].what = frame[p].what, frame'[p].index = frame[p].index,
         Unscanned(frame'[p])
  PROVE  Own(p) /\ KeepsDate(p)
  BY DEF Own, KeepsDate, LocalInv, Registers, Dated, AtSlot

\* Past Resolve it keeps its call and its date.
LEMMA AtDated ==
  ASSUME NEW p \in Process, FrameTypes, Others(p), LocalInv(p), at[p] \in Dated,
         UNCHANGED <<instances, generation>>, SameCall(p), at'[p] \in Dated \ {"renew"},
         at'[p] = "scan" => Unscanned(frame'[p]),
         at'[p] \in AtSlot => frame'[p].slot \in Slot,
         at'[p] = "store" => frame'[p].what \in {"create", "connect"}
  PROVE  Own(p) /\ KeepsDate(p)
  BY DEF Own, KeepsDate, LocalInv, Registers, SameCall, Unscanned, Dated, AtSlot

\* Die: p knows nothing more.
LEMMA DieOwn ==
  ASSUME TypeInv, NEW p \in Process, Die(p)
  PROVE  TypeInv' /\ Own(p) /\ KeepsDate(p)
<1>1. FrameTypes /\ Others(p) /\ at'[p] = "dead"
  BY NoFrameTyped DEF Die, Goto, FrameTypes, Others, TypeInv
<1> QED
  BY <1>1, OutOfCall DEF Die, TypeInv, FrameTypes

\* NotFoundHere: p still knows its instance, or nothing.
LEMMA NotFoundOwn ==
  ASSUME TypeInv, NEW p \in Process, LocalInv(p), at[p] \in {"resolve"} \cup Dated,
         NotFoundHere(p), UNCHANGED instances
  PROVE  /\ FrameTypes /\ Own(p) /\ KeepsDate(p) /\ KeepsCall(p)
         /\ at'[p] \in {"idle", "resolve"}
<1>1. /\ FrameTypes /\ Others(p)
      /\ at'[p] \in {"idle", "resolve"}
      /\ at'[p] = "resolve" => /\ frame'[p].what = frame[p].what
                               /\ frame'[p].index = frame[p].index
                               /\ Unscanned(frame'[p])
                               /\ frame'[p].pool = 2 \/ frame[p].what = "queryServer"
  BY NotFoundFrame
<1>2. at'[p] = "idle" => Own(p) /\ KeepsDate(p)
  BY <1>1, OutOfCall
<1>3. at'[p] = "resolve" => Own(p) /\ KeepsDate(p)
  BY <1>1, AtResolve
<1>4. KeepsCall(p)
  <2>1. frame[p].pool \in 1 .. 2
    BY DEF TypeInv, Frame, Pool
  <2> QED
    BY <1>1, <2>1 DEF KeepsCall, InCall, AtSlot, Dated
<1> QED
  BY <1>1, <1>2, <1>3, <1>4 DEF AtSlot

\* Resolve: p has a date greater than all before, or the pool is not for it.
LEMMA ResolveOwn ==
  ASSUME TypeInv, NEW p \in Process, LocalInv(p), Resolve(p)
  PROVE  /\ TypeInv' /\ Own(p)
         /\ \A k \in Pool : generation'[k] >= generation[k]
         /\ at'[p] \in {"idle", "resolve", "scan"} /\ KeepsCall(p)
         /\ \/ KeepsDate(p)
            \/ /\ frame'[p].generation = generation[frame'[p].pool] + 1
               /\ generation'[frame'[p].pool] = frame'[p].generation
<1> DEFINE k == frame[p].pool
           f == [frame[p] EXCEPT !.generation = generation[k] + 1]
<1>1. /\ frame[p] \in Frame /\ frame \in [Process -> Frame]
      /\ generation \in [Pool -> Nat] /\ exists \subseteq Pool
      /\ k \in Pool /\ at[p] = "resolve"
  BY DEF TypeInv, Frame, Resolve
<1>2. UNCHANGED <<slot, instances>>
  BY DEF Resolve
<1>3. CASE NotFoundHere(p) /\ UNCHANGED <<exists, generation>>
  <2>1. FrameTypes /\ Own(p) /\ KeepsDate(p) /\ at'[p] \in {"idle", "resolve"} /\ KeepsCall(p)
    BY <1>1, <1>2, <1>3, NotFoundOwn
  <2> QED
    BY <1>1, <1>2, <1>3, <2>1 DEF TypeInv, FrameTypes
<1>4. CASE ~(NotFoundHere(p) /\ UNCHANGED <<exists, generation>>)
  <2>1. /\ exists' = exists \cup {k}
        /\ generation' = [generation EXCEPT ![k] = generation[k] + 1]
        /\ frame' = [frame EXCEPT ![p] = f]
        /\ Goto(p, "scan")
    BY <1>4 DEF Resolve
  <2>2. generation[k] \in Nat
    BY <1>1
  <2>3. /\ f \in Frame
        /\ f.generation = generation[k] + 1 /\ f.pool = k
        /\ f.what = frame[p].what /\ f.index = frame[p].index
        /\ f.i = frame[p].i /\ f.empty = frame[p].empty /\ f.oldest = frame[p].oldest
    <3> DEFINE d == generation[k] + 1
    <3>1. d \in Nat
      BY <2>2
    <3> HIDE DEF d
    <3>2. [frame[p] EXCEPT !.generation = d] \in Frame
      BY <1>1, <3>1 DEF Frame
    <3> QED
      BY <1>1, <3>2 DEF Frame, d
  <2> HIDE DEF f
  <2>4. FrameTypes /\ Others(p) /\ frame'[p] = f /\ at'[p] = "scan"
    BY <1>1, <2>1, <2>3 DEF Goto, FrameTypes, Others, TypeInv, Dated
  <2> HIDE DEF k
  <2>5. /\ generation' \in [Pool -> Nat] /\ generation'[k] = generation[k] + 1
        /\ \A j \in Pool : generation'[j] >= generation[j]
    BY <1>1, <2>1, <2>2
  <2>6. TypeInv'
    BY <1>1, <1>2, <2>1, <2>4, <2>5 DEF TypeInv, FrameTypes
  <2>7. f.generation \in 1 .. generation'[f.pool]
    BY <2>2, <2>3, <2>5
  <2>8. Registers(p, f.what, f.index) /\ Unscanned(f)
    BY <1>1, <2>3 DEF LocalInv, Registers, Unscanned
  <2>9. LocalInv(p)'
    BY <1>2, <2>4, <2>7, <2>8 DEF LocalInv, Registers, Unscanned, AtSlot
  <2>10. KeepsCall(p)
    <3>1. k \in Nat
      BY <1>1 DEF Pool
    <3> QED
      BY <1>1, <2>3, <2>4, <3>1 DEF KeepsCall, InCall, AtSlot, k
  <2> QED
    BY <2>3, <2>4, <2>5, <2>6, <2>9, <2>10 DEF Own, AtSlot
<1> QED
  BY <1>3, <1>4

\* Scan: p has found a slot with its index, or has seen one more that is used or empty.
LEMMA ScanOwn ==
  ASSUME TypeInv, NEW p \in Process, LocalInv(p), Scan(p)
  PROVE  /\ TypeInv' /\ Own(p) /\ KeepsDate(p)
         /\ at'[p] \in {"scan", "renew"} /\ SameCall(p)
         /\ at'[p] = "renew" => \E t \in Slot : slot[frame[p].pool][t].index = frame[p].index
<1> DEFINE f == frame[p]
           s == slot[f.pool][f.i]
           next == [f EXCEPT !.i = f.i + 1]
           found == [f EXCEPT !.slot = f.i, !.pack = Pack(s)]
           empty == [next EXCEPT !.empty = IF next.empty = 0 THEN f.i ELSE next.empty]
           older == f.oldest = 0 \/ Difference(s.generation, f.oldestGeneration) < 0
           aged == [next EXCEPT !.oldest = IF older THEN f.i ELSE next.oldest,
                                !.oldestGeneration = IF older THEN s.generation ELSE next.oldestGeneration,
                                !.seen = next.seen \cup {s.generation}]
<1>1. /\ f \in Frame /\ frame \in [Process -> Frame]
      /\ at[p] = "scan" /\ f.i \in Slot /\ f.pool \in Pool
      /\ f.i \in Nat /\ f.i + 1 \in Nat
      /\ UNCHANGED <<exists, generation, slot, instances>>
  <2>1. at[p] = "scan" /\ f.i \in Slot /\ UNCHANGED <<exists, generation, slot, instances>>
    BY DEF Scan
  <2>2. f \in Frame /\ frame \in [Process -> Frame]
    BY DEF TypeInv
  <2> HIDE DEF f
  <2> QED
    BY <2>1, <2>2 DEF Frame, Slot
<1>2. s \in SlotRecord
  BY <1>1 DEF TypeInv
<1>3. Pack(s) \in Nat \X Nat /\ Pack(s)[1] = s.index /\ s.generation \in Nat
  BY <1>2 DEF Pack, SlotRecord
<1>4. \/ s.index = f.index /\ frame' = [frame EXCEPT ![p] = found] /\ Goto(p, "renew")
      \/ frame' = [frame EXCEPT ![p] = empty] /\ at' = at
      \/ frame' = [frame EXCEPT ![p] = aged] /\ at' = at
  <2>1. CASE s.index = f.index
    BY <2>1 DEF Scan
  <2>2. CASE s.index # f.index /\ Pack(s) = NoPack
    BY <2>2 DEF Scan
  <2>3. CASE s.index # f.index /\ Pack(s) # NoPack
    BY <2>3 DEF Scan
  <2> QED
    BY <2>1, <2>2, <2>3
<1> HIDE DEF s
<1>5. /\ found \in Frame
      /\ found.what = f.what /\ found.index = f.index /\ found.pool = f.pool
      /\ found.generation = f.generation /\ found.slot = f.i /\ found.pack = Pack(s)
  BY <1>1, <1>3 DEF Frame
<1>6. /\ next \in Frame
      /\ next.what = f.what /\ next.index = f.index /\ next.pool = f.pool
      /\ next.generation = f.generation /\ next.i = f.i + 1
      /\ next.empty = f.empty /\ next.oldest = f.oldest
  BY <1>1 DEF Frame
<1> HIDE DEF next, older
<1>7. /\ empty \in Frame
      /\ empty.what = f.what /\ empty.index = f.index /\ empty.pool = f.pool
      /\ empty.generation = f.generation /\ empty.i = f.i + 1
      /\ empty.empty = (IF f.empty = 0 THEN f.i ELSE f.empty) /\ empty.oldest = f.oldest
  BY <1>1, <1>6 DEF Frame
<1>8. /\ aged \in Frame
      /\ aged.what = f.what /\ aged.index = f.index /\ aged.pool = f.pool
      /\ aged.generation = f.generation /\ aged.i = f.i + 1
      /\ aged.empty = f.empty /\ aged.oldest \in {f.i, f.oldest}
      /\ f.oldest = 0 => aged.oldest = f.i
  BY <1>1, <1>3, <1>6 DEF Frame, older
<1> HIDE DEF found, empty, aged, f
<1>9. ASSUME s.index = f.index, frame' = [frame EXCEPT ![p] = found], Goto(p, "renew")
      PROVE  /\ TypeInv' /\ Own(p) /\ KeepsDate(p) /\ at'[p] = "renew" /\ SameCall(p)
             /\ \E t \in Slot : slot[frame[p].pool][t].index = frame[p].index
  <2>1. FrameTypes /\ Others(p) /\ at'[p] = "renew" /\ frame'[p] = found
    BY <1>1, <1>5, <1>9 DEF Goto, FrameTypes, Others, TypeInv, Dated, AtSlot
  <2>2. LocalInv(p)' /\ KeepsDate(p)
    BY <1>1, <1>3, <1>5, <1>9, <2>1 DEF LocalInv, KeepsDate, Registers, Dated, AtSlot, f
  <2>3. SameCall(p) /\ slot[f.pool][f.i].index = f.index
    BY <1>5, <1>9, <2>1 DEF SameCall, f, s
  <2> QED
    BY <1>1, <2>1, <2>2, <2>3 DEF Own, TypeInv, FrameTypes, f
<1>10. ASSUME NEW g \in {empty, aged}, frame' = [frame EXCEPT ![p] = g], at' = at
       PROVE  TypeInv' /\ Own(p) /\ KeepsDate(p) /\ at'[p] = "scan" /\ SameCall(p)
  <2>1. FrameTypes /\ Others(p) /\ at'[p] = "scan" /\ frame'[p] = g
    BY <1>1, <1>7, <1>8, <1>10 DEF FrameTypes, Others, TypeInv
  <2>2. /\ g.what = f.what /\ g.index = f.index /\ g.pool = f.pool
        /\ g.generation = f.generation
    BY <1>7, <1>8
  <2>3. /\ Registers(p, f.what, f.index) /\ f.generation \in 1 .. generation[f.pool]
        /\ f.empty \in {0} \cup Slot /\ f.oldest \in {0} \cup Slot
    BY <1>1 DEF LocalInv, Dated, f
  <2>4. /\ g.i # 0
        /\ g.empty \in {0} \cup Slot /\ g.oldest \in {0} \cup Slot
        /\ g.empty = 0 => g.oldest # 0
    BY <1>1, <1>7, <1>8, <2>3, LocalInv(p) DEF Slot, LocalInv, f
  <2>5. LocalInv(p)' /\ KeepsDate(p)
    BY <1>1, <2>1, <2>2, <2>3, <2>4 DEF LocalInv, KeepsDate, Registers, Dated, AtSlot, f
  <2>6. SameCall(p)
    BY <2>1, <2>2 DEF SameCall, f
  <2> QED
    BY <1>1, <2>1, <2>5, <2>6 DEF Own, TypeInv, FrameTypes
<1> QED
  BY <1>4, <1>9, <1>10

\* Scanned: a process that may create the slot has one to claim or to replace.
LEMMA ScannedOwn ==
  ASSUME TypeInv, NEW p \in Process, LocalInv(p), Scanned(p)
  PROVE  /\ TypeInv' /\ Own(p) /\ KeepsDate(p) /\ KeepsCall(p)
         /\ at'[p] \in {"idle", "resolve", "claim", "replace"}
         /\ at'[p] \in AtSlot => Allowed(p)
<1>1. /\ at[p] = "scan" /\ frame[p].i \notin Slot
      /\ UNCHANGED <<exists, generation, slot, instances>>
  BY DEF Scanned
<1>2. frame[p] \in Frame
  BY DEF TypeInv
<1>3. CASE ~Allowed(p) /\ NotFoundHere(p)
  BY <1>1, <1>3, NotFoundOwn DEF TypeInv, FrameTypes, AtSlot, Dated
<1>4. ASSUME NEW s \in Slot, NEW where \in {"claim", "replace"}, Work(p, s, where)
      PROVE  TypeInv' /\ Own(p) /\ KeepsDate(p) /\ KeepsCall(p) /\ at'[p] = where
  <2>1. s \in Nat /\ where \in Dated \ {"renew", "scan", "store"}
    BY DEF Slot, Dated, AtSlot
  <2>2. /\ FrameTypes /\ Others(p) /\ SameCall(p)
        /\ at'[p] = where /\ frame'[p].slot = s
    BY <1>4, <2>1, WorkFrame
  <2>3. Own(p) /\ KeepsDate(p)
    BY <1>1, <2>1, <2>2, AtDated DEF Dated
  <2>4. frame[p].pool \in Nat
    BY <1>2 DEF Frame, Pool
  <2> QED
    BY <1>1, <2>2, <2>3, <2>4 DEF TypeInv, FrameTypes, KeepsCall, InCall, SameCall, Dated
<1>5. frame[p].empty # 0 => frame[p].empty \in Slot
  BY <1>1 DEF LocalInv
<1>6. frame[p].empty = 0 => frame[p].oldest \in Slot
  <2>1. frame[p].i \in Nat /\ frame[p].i # 0 /\ SlotsPerBucket \in Nat \ {0}
    BY <1>1, <1>2 DEF LocalInv, Frame
  <2>2. frame[p].i > 1
    BY <1>1, <2>1 DEF Slot
  <2> QED
    BY <1>1, <2>2 DEF LocalInv
<1> QED
  BY <1>3, <1>4, <1>5, <1>6 DEF Scanned, AtSlot

\* Write changes the slot p works on.
WroteHere(p) ==
  \A k \in Pool, t \in Slot : <<k, t>> # <<frame[p].pool, frame[p].slot>> => slot'[k][t] = slot[k][t]

\* A process that has found a slot knows it, its instance and its date.
LEMMA HereTyped ==
  ASSUME TypeInv, NEW p \in Process, LocalInv(p), at[p] \in AtSlot
  PROVE  /\ frame[p] \in Frame /\ frame[p].pool \in Pool /\ frame[p].slot \in Slot
         /\ frame[p].index \in Nat /\ frame[p].generation \in Nat \ {0}
         /\ Here(p) \in SlotRecord
         /\ Registers(p, frame[p].what, frame[p].index)
<1>1. frame[p] \in Frame
  BY DEF TypeInv
<1>2. /\ frame[p].pool \in Pool /\ frame[p].index \in Nat /\ frame[p].generation \in Nat
  BY <1>1 DEF Frame
<1>3. /\ frame[p].slot \in Slot
      /\ frame[p].generation \in 1 .. generation[frame[p].pool]
      /\ Registers(p, frame[p].what, frame[p].index)
  BY DEF LocalInv, Dated
<1>4. generation[frame[p].pool] \in Nat
  BY <1>2 DEF TypeInv
<1>5. Here(p) \in SlotRecord
  BY <1>2, <1>3 DEF Here, TypeInv
<1> QED
  BY <1>1, <1>2, <1>3, <1>4, <1>5

\* Write leaves the other slots alone.
LEMMA WriteSlot ==
  ASSUME TypeInv, NEW p \in Process, LocalInv(p), at[p] \in AtSlot, NEW s \in SlotRecord, Write(p, s)
  PROVE  /\ slot' \in [Pool -> [Slot -> SlotRecord]]
         /\ slot'[frame[p].pool][frame[p].slot] = s
         /\ WroteHere(p)
<1> DEFINE k == frame[p].pool
           t == frame[p].slot
<1>1. k \in Pool /\ t \in Slot
  BY HereTyped
<1>2. slot \in [Pool -> [Slot -> SlotRecord]]
  BY DEF TypeInv
<1>3. slot' = [slot EXCEPT ![k][t] = s]
  BY DEF Write
<1> QED
  BY <1>1, <1>2, <1>3 DEF WroteHere

\* Exchange: p has its index and date in the slot, or nothing has changed.
LEMMA ExchangeOwn ==
  ASSUME TypeInv, NEW p \in Process, LocalInv(p), at[p] \in AtSlot, NEW old, NEW i \in Nat,
         Exchange(p, old, i), UNCHANGED <<exists, generation, instances>>
  PROVE  /\ TypeInv' /\ Own(p) /\ KeepsDate(p)
         /\ at'[p] \in {"scan", "store", "read"} /\ SameCall(p)
         /\ at'[p] = "read" => frame[p].what # "create"
         /\ at'[p] = "scan" => UNCHANGED slot
         /\ \/ UNCHANGED slot
            \/ /\ Pack(Here(p)) = old /\ WroteHere(p)
               /\ slot'[frame[p].pool][frame[p].slot].index = i
               /\ slot'[frame[p].pool][frame[p].slot].generation = frame[p].generation
               /\ slot'[frame[p].pool][frame[p].slot].server = Here(p).server
               /\ slot'[frame[p].pool][frame[p].slot].client = Here(p).client
<1>1. /\ FrameTypes /\ Others(p) /\ SameCall(p)
      /\ at'[p] \in {"scan", "store", "read"}
      /\ at'[p] = "scan" => Unscanned(frame'[p])
      /\ at'[p] # "scan" => frame'[p].slot = frame[p].slot
      /\ at'[p] = "store" => frame'[p].what \in {"create", "connect"}
      /\ at'[p] = "read" => frame[p].what # "create"
      /\ at'[p] = "scan" => UNCHANGED slot
  BY ExchangeFrame
<1>2. Own(p) /\ KeepsDate(p)
  BY <1>1, HereTyped, AtDated DEF Dated, AtSlot
<1>3. CASE UNCHANGED slot
  BY <1>1, <1>2, <1>3 DEF TypeInv, FrameTypes
<1>4. CASE slot' # slot
  <2> DEFINE s == [Here(p) EXCEPT !.index = i, !.generation = frame[p].generation]
  <2>1. Pack(Here(p)) = old /\ Write(p, s)
    BY <1>4 DEF Exchange
  <2>2. Here(p) \in SlotRecord /\ frame[p].generation \in Nat
    BY HereTyped
  <2>3. /\ s \in SlotRecord /\ s.index = i /\ s.generation = frame[p].generation
        /\ s.server = Here(p).server /\ s.client = Here(p).client
    <3> DEFINE g == frame[p].generation
    <3>1. g \in Nat
      BY <2>2
    <3> HIDE DEF g
    <3> QED
      BY <2>2, <3>1 DEF SlotRecord
  <2> HIDE DEF s
  <2>4. /\ slot' \in [Pool -> [Slot -> SlotRecord]]
        /\ slot'[frame[p].pool][frame[p].slot] = s
        /\ WroteHere(p)
    BY <2>1, <2>3, WriteSlot
  <2> QED
    BY <1>1, <1>2, <2>1, <2>3, <2>4 DEF TypeInv, FrameTypes
<1> QED
  BY <1>3, <1>4

\* Replace, ClearServer and ClearClient: p writes its slot and goes on.
LEMMA WriteOwn ==
  ASSUME TypeInv, NEW p \in Process, LocalInv(p), at[p] \in AtSlot, NEW s \in SlotRecord,
         NEW where \in {"clearServer", "clearClient", "publish"},
         Write(p, s), Goto(p, where), UNCHANGED <<exists, generation, instances, frame>>
  PROVE  /\ TypeInv' /\ Own(p) /\ KeepsDate(p)
         /\ at'[p] = where /\ SameCall(p) /\ WroteHere(p)
         /\ slot'[frame[p].pool][frame[p].slot] = s /\ Here(p)' = s
<1>1. FrameTypes /\ Others(p) /\ SameCall(p) /\ at'[p] = where
  BY GotoFrame DEF Dated, AtSlot
<1>2. frame'[p].slot = frame[p].slot /\ frame[p].slot \in Slot
  BY HereTyped
<1>3. Own(p) /\ KeepsDate(p)
  BY <1>1, <1>2, AtDated DEF Dated, AtSlot
<1>4. /\ slot' \in [Pool -> [Slot -> SlotRecord]]
      /\ slot'[frame[p].pool][frame[p].slot] = s
      /\ WroteHere(p)
  BY WriteSlot
<1> QED
  BY <1>1, <1>3, <1>4 DEF TypeInv, FrameTypes, Here

\* Store: p writes its own id to the end it registers.
LEMMA StoreOwn ==
  ASSUME TypeInv, NEW p \in Process, LocalInv(p), Store(p)
  PROVE  /\ TypeInv' /\ Own(p) /\ KeepsDate(p)
         /\ at'[p] = "idle" /\ WroteHere(p)
         /\ LET h == Here(p)
                n == slot'[frame[p].pool][frame[p].slot]
            IN /\ Pack(n) = Pack(h) /\ n.index = h.index
               /\ frame[p].what = "create" => n.server = p /\ n.client = h.client
               /\ frame[p].what = "connect" => n.server = h.server /\ n.client = p
<1>1. /\ at[p] \in AtSlot /\ Return(p)
      /\ UNCHANGED <<exists, generation, instances>>
      /\ frame[p].what \in {"create", "connect"}
  BY DEF Store, AtSlot, LocalInv
<1>2. Here(p) \in SlotRecord /\ p \in Id
  BY <1>1, HereTyped DEF Id
<1>3. FrameTypes /\ Others(p) /\ at'[p] = "idle"
  BY <1>1, ReturnFrame
<1>4. Own(p) /\ KeepsDate(p)
  BY <1>3, OutOfCall
<1> DEFINE s == IF frame[p].what = "create" THEN [Here(p) EXCEPT !.server = p]
                ELSE [Here(p) EXCEPT !.client = p]
<1>5. Write(p, s)
  BY <1>1 DEF Store
<1>6. /\ s \in SlotRecord /\ s.index = Here(p).index /\ s.generation = Here(p).generation
      /\ frame[p].what = "create" => s.server = p /\ s.client = Here(p).client
      /\ frame[p].what = "connect" => s.server = Here(p).server /\ s.client = p
  BY <1>2 DEF SlotRecord
<1> HIDE DEF s
<1>7. /\ slot' \in [Pool -> [Slot -> SlotRecord]]
      /\ slot'[frame[p].pool][frame[p].slot] = s
      /\ WroteHere(p)
  BY <1>1, <1>5, <1>6, WriteSlot
<1>8. TypeInv'
  BY <1>1, <1>3, <1>7 DEF TypeInv, FrameTypes
<1> QED
  BY <1>3, <1>4, <1>6, <1>7, <1>8 DEF Pack

\* Read: p has the id of the end it asks for.
LEMMA ReadOwn ==
  ASSUME TypeInv, NEW p \in Process, LocalInv(p), Read(p)
  PROVE  /\ TypeInv' /\ Own(p) /\ KeepsDate(p) /\ at'[p] = "check"
         /\ SameCall(p) /\ frame'[p].slot = frame[p].slot
         /\ frame'[p].id = IF frame[p].what = "queryServer" THEN Here(p).server ELSE Here(p).client
<1> DEFINE d == IF frame[p].what = "queryServer" THEN Here(p).server ELSE Here(p).client
           f == [frame[p] EXCEPT !.id = d]
<1>1. /\ at[p] \in AtSlot /\ frame' = [frame EXCEPT ![p] = f] /\ Goto(p, "check")
      /\ UNCHANGED <<exists, generation, slot, instances>>
  BY DEF Read, AtSlot
<1>2. d \in Id
  BY <1>1, HereTyped DEF SlotRecord
<1> HIDE DEF d
<1>3. frame[p] \in Frame /\ frame \in [Process -> Frame] /\ frame[p].slot \in Slot
  BY <1>1, HereTyped DEF TypeInv
<1>4. /\ f \in Frame /\ f.what = frame[p].what /\ f.index = frame[p].index
      /\ f.pool = frame[p].pool /\ f.generation = frame[p].generation /\ f.slot = frame[p].slot
      /\ f.id = d
  BY <1>2, <1>3 DEF Frame
<1> HIDE DEF f
<1>5. /\ FrameTypes /\ Others(p) /\ SameCall(p)
      /\ at'[p] = "check" /\ frame'[p].slot = frame[p].slot
  BY <1>1, <1>3, <1>4 DEF Goto, FrameTypes, Others, SameCall, TypeInv, Dated, AtSlot
<1>6. Own(p) /\ KeepsDate(p)
  BY <1>1, <1>3, <1>5, AtDated DEF Dated, AtSlot
<1> QED
  BY <1>1, <1>3, <1>4, <1>5, <1>6 DEF TypeInv, FrameTypes, d

\* Check: p takes the id if the slot is still its instance's.
LEMMA CheckOwn ==
  ASSUME TypeInv, NEW p \in Process, LocalInv(p), Check(p)
  PROVE  /\ TypeInv' /\ Own(p) /\ KeepsDate(p)
         /\ at'[p] \in {"idle", "resolve", "read", "answered"}
         /\ at'[p] = "answered" =>
              frame' = frame /\ Here(p).index = frame[p].index /\ frame[p].id # Null
         /\ at'[p] \in {"resolve", "read"} =>
              frame'[p].what = frame[p].what /\ frame'[p].index = frame[p].index
         /\ at'[p] = "read" => SameCall(p)
<1>1. at[p] \in AtSlot /\ UNCHANGED <<exists, generation, slot, instances>>
  BY DEF Check, AtSlot
<1>2. frame[p].slot \in Slot
  BY <1>1, HereTyped
<1>3. \/ Return(p)
      \/ Answer(p) /\ Here(p).index = frame[p].index /\ frame[p].id # Null
      \/ TryAgain(p)
  BY DEF Check
<1>4. CASE Return(p)
  <2>1. FrameTypes /\ Others(p) /\ at'[p] = "idle"
    BY <1>4, ReturnFrame
  <2> QED
    BY <1>1, <2>1, OutOfCall DEF TypeInv, FrameTypes
<1>5. CASE Answer(p) /\ Here(p).index = frame[p].index /\ frame[p].id # Null
  <2>1. FrameTypes /\ Others(p) /\ at'[p] = "answered"
    BY <1>5, GotoFrame DEF Answer
  <2> QED
    BY <1>1, <1>5, <2>1, OutOfCall DEF TypeInv, FrameTypes, Answer
<1>6. CASE TryAgain(p)
  <2>1. /\ FrameTypes /\ Others(p)
        /\ at'[p] \in {"idle", "resolve", "read"}
        /\ at'[p] # "idle" => /\ frame'[p].what = frame[p].what
                              /\ frame'[p].index = frame[p].index
        /\ at'[p] = "resolve" => Unscanned(frame'[p])
        /\ at'[p] = "read" => SameCall(p) /\ frame'[p].slot = frame[p].slot
    BY <1>6, TryAgainFrame
  <2>2. at'[p] = "idle" => Own(p) /\ KeepsDate(p)
    BY <2>1, OutOfCall
  <2>3. at'[p] = "resolve" => Own(p) /\ KeepsDate(p)
    BY <1>1, <2>1, AtResolve DEF Dated
  <2>4. at'[p] = "read" => Own(p) /\ KeepsDate(p)
    BY <1>1, <1>2, <2>1, AtDated DEF Dated, AtSlot
  <2> QED
    BY <1>1, <2>1, <2>2, <2>3, <2>4 DEF TypeInv, FrameTypes
<1> QED
  BY <1>3, <1>4, <1>5, <1>6

-----------------------------------------------------------------------------
(* What a step means for the processes that do not take it.                *)

\* An instance keeps its server, and its client when it has one.
InstancesGrow ==
  \A i \in DOMAIN instances :
    /\ i \in DOMAIN instances'
    /\ instances'[i].server = instances[i].server
    /\ instances[i].client # Null => instances'[i].client = instances[i].client

\* Create: the other instances stay.
LEMMA CreateGrows ==
  ASSUME TypeInv, NEW p \in Process, Create(p)
  PROVE  InstancesGrow
<1> DEFINE T == [server : Process, client : Id]
           new == [server |-> p, client |-> Null]
<1>1. instances \in Seq(T) /\ instances' = Append(instances, new)
  BY DEF TypeInv, Create
<1> HIDE DEF T, new
<1> QED
  BY <1>1 DEF InstancesGrow

\* So they do when nothing happens to them.
LEMMA SameInstancesGrow ==
  ASSUME UNCHANGED instances PROVE InstancesGrow
  BY DEF InstancesGrow

\* The others know of their calls what they knew.
LEMMA OthersLocal ==
  ASSUME TypeInv, NEW p \in Process, Own(p), TypeInv', InstancesGrow,
         \A k \in Pool : generation'[k] >= generation[k],
         \A q \in Process : LocalInv(q)
  PROVE  \A q \in Process : LocalInv(q)'
<1> SUFFICES ASSUME NEW q \in Process, q # p PROVE LocalInv(q)'
  BY DEF Own
<1>1. frame'[q] = frame[q] /\ at'[q] = at[q] /\ LocalInv(q)
  BY DEF Own, Others
<1>2. ASSUME Registers(q, frame[q].what, frame[q].index)
      PROVE  /\ frame[q].what \in Calls
             /\ frame[q].index \in DOMAIN instances'
             /\ frame[q].what = "create" => instances'[frame[q].index].server = q
             /\ frame[q].what = "connect" => instances'[frame[q].index].client = q
  BY <1>2 DEF Registers, InstancesGrow
<1>3. ASSUME frame[q].generation \in 1 .. generation[frame[q].pool]
      PROVE  frame[q].generation \in 1 .. generation'[frame[q].pool]
  <2>1. frame[q].pool \in Pool
    BY DEF TypeInv, Frame
  <2>2. generation[frame[q].pool] \in Nat /\ generation'[frame[q].pool] \in Nat
        /\ generation'[frame[q].pool] >= generation[frame[q].pool]
    BY <2>1 DEF TypeInv
  <2> QED
    BY <1>3, <2>2
<1> QED
  BY <1>1, <1>2, <1>3 DEF LocalInv, Registers, Unscanned

\* Dates differ: Resolve gives one greater than all before.
LEMMA DatesStayDifferent ==
  ASSUME TypeInv, NEW p \in Process, Others(p), DatesDiffer, \A q \in Process : LocalInv(q),
         \/ KeepsDate(p)
         \/ frame'[p].pool \in Pool /\ frame'[p].generation = generation[frame'[p].pool] + 1
  PROVE  DatesDiffer'
<1> SUFFICES ASSUME NEW q \in Process, q # p, at'[p] \in Dated, at'[q] \in Dated,
                    frame'[p].pool = frame'[q].pool
             PROVE  frame'[p].generation # frame'[q].generation
  BY DEF DatesDiffer, Others
<1>1. frame'[q] = frame[q] /\ at'[q] = at[q]
  BY DEF Others
<1>2. CASE KeepsDate(p)
  BY <1>1, <1>2 DEF KeepsDate, DatesDiffer
<1>3. CASE frame'[p].pool \in Pool /\ frame'[p].generation = generation[frame'[p].pool] + 1
  <2>1. frame[q].generation \in 1 .. generation[frame'[p].pool]
    BY <1>1 DEF LocalInv
  <2>2. generation[frame'[p].pool] \in Nat
    BY <1>3 DEF TypeInv
  <2> QED
    BY <1>1, <1>3, <2>1, <2>2
<1> QED
  BY <1>2, <1>3

\* No slot is written.
LEMMA SlotsStay ==
  ASSUME TypeInv, \A k \in Pool, s \in Slot : SlotInv(k, s),
         UNCHANGED <<slot, late>>, InstancesGrow
  PROVE  \A k \in Pool, s \in Slot : SlotInv(k, s)'
<1> SUFFICES ASSUME NEW k \in Pool, NEW s \in Slot PROVE SlotInv(k, s)'
  OBVIOUS
<1>1. SlotInv(k, s)
  OBVIOUS
<1> QED
  BY <1>1 DEF SlotInv, NoServer, NoClient, InstancesGrow, Pack

\* Nor is one that is being replaced.
LEMMA ReplaceStays ==
  ASSUME NEW p \in Process, Others(p), at'[p] \notin {"clearClient", "publish"},
         UNCHANGED <<slot, late>>, \A q \in Process : at[q] \in AtSlot => ReplaceInv(q)
  PROVE  \A q \in Process : at'[q] \in AtSlot => ReplaceInv(q)'
<1> SUFFICES ASSUME NEW q \in Process, at'[q] \in AtSlot, q # p PROVE ReplaceInv(q)'
  BY DEF ReplaceInv
<1>1. frame'[q] = frame[q] /\ at'[q] = at[q] /\ ReplaceInv(q)
  BY DEF Others
<1> QED
  BY <1>1 DEF ReplaceInv, Here, NoServer, NoClient

\* One slot is written.
OneSlot(k, s) ==
  \A j \in Pool, t \in Slot :
    <<j, t>> # <<k, s>> =>
      /\ slot'[j][t] = slot[j][t]
      /\ \A end \in {"server", "client"} : <<j, t, end>> \in late' <=> <<j, t, end>> \in late

\* So the invariants of the slots are those of the one written.
LEMMA OneSlotWritten ==
  ASSUME TypeInv, NEW p \in Process, NEW k \in Pool, NEW s \in Slot,
         Others(p), OneSlot(k, s), UNCHANGED instances,
         \A q \in Process : LocalInv(q), SlotsInv, ReplacesInv,
         SlotInv(k, s)',
         at'[p] \in AtSlot => ReplaceInv(p)',
         \A q \in Process \ {p} :
            at[q] \in AtSlot /\ frame[q].pool = k /\ frame[q].slot = s => ReplaceInv(q)'
  PROVE  SlotsInv' /\ ReplacesInv'
<1>1. ASSUME NEW j \in Pool, NEW t \in Slot PROVE SlotInv(j, t)'
  <2>1. CASE j = k /\ t = s
    BY <2>1
  <2>2. CASE ~(j = k /\ t = s)
    <3>1. /\ slot'[j][t] = slot[j][t] /\ SlotInv(j, t)
          /\ \A end \in {"server", "client"} : <<j, t, end>> \in late' <=> <<j, t, end>> \in late
      BY <2>2 DEF OneSlot, SlotsInv
    <3> QED
      BY <3>1 DEF SlotInv, NoServer, NoClient, Pack
  <2> QED
    BY <2>1, <2>2
<1>2. ASSUME NEW q \in Process, at'[q] \in AtSlot, q # p PROVE ReplaceInv(q)'
  <2>1. frame'[q] = frame[q] /\ at'[q] = at[q] /\ ReplaceInv(q) /\ at[q] \in AtSlot
    BY <1>2 DEF Others, ReplacesInv
  <2>2. frame[q].pool \in Pool /\ frame[q].slot \in Slot
    BY <2>1, HereTyped
  <2>3. CASE frame[q].pool = k /\ frame[q].slot = s
    BY <1>2, <2>1, <2>3
  <2>4. CASE ~(frame[q].pool = k /\ frame[q].slot = s)
    <3>1. PICK j \in Pool, t \in Slot : j = frame[q].pool /\ t = frame[q].slot
      BY <2>2
    <3>2. /\ slot'[j][t] = slot[j][t]
          /\ \A end \in {"server", "client"} : <<j, t, end>> \in late' <=> <<j, t, end>> \in late
      BY <2>4, <3>1 DEF OneSlot
    <3> QED
      BY <2>1, <3>1, <3>2 DEF ReplaceInv, Here, NoServer, NoClient, Pack
  <2> QED
    BY <2>3, <2>4
<1> QED
  BY <1>1, <1>2 DEF SlotsInv, ReplacesInv

\* A successful exchange puts p's index, which is none of 0, into its slot: whoever
\* replaces it will see that.
LEMMA ExchangeSlots ==
  ASSUME TypeInv, NEW p \in Process, \A q \in Process : LocalInv(q), at[p] \in AtSlot,
         SlotsInv, ReplacesInv,
         NEW old, Exchange(p, old, frame[p].index),
         UNCHANGED <<exists, generation, instances, late>>,
         ASSUME NEW k \in Pool, NEW s \in Slot, k = frame[p].pool, s = frame[p].slot,
                Pack(slot[k][s]) = old
         PROVE  slot[k][s].index = frame[p].index \/ (NoServer(k, s) /\ NoClient(k, s))
  PROVE  SlotsInv' /\ ReplacesInv'
<1>1. /\ frame[p].index \in Nat /\ LocalInv(p)
      /\ frame[p].index \in DOMAIN instances
  BY HereTyped DEF Registers
<1>2. /\ TypeInv' /\ Own(p)
      /\ at'[p] \notin {"clearClient", "publish"}
      /\ \/ UNCHANGED slot
         \/ /\ Pack(Here(p)) = old /\ WroteHere(p)
            /\ slot'[frame[p].pool][frame[p].slot].index = frame[p].index
            /\ slot'[frame[p].pool][frame[p].slot].generation = frame[p].generation
            /\ slot'[frame[p].pool][frame[p].slot].server = Here(p).server
            /\ slot'[frame[p].pool][frame[p].slot].client = Here(p).client
  BY <1>1, ExchangeOwn
<1>3. Others(p)
  BY <1>2 DEF Own
<1>4. CASE UNCHANGED slot
  BY <1>2, <1>3, <1>4, SlotsStay, ReplaceStays, SameInstancesGrow DEF SlotsInv, ReplacesInv
<1>5. CASE slot' # slot
  <2>1. PICK k \in Pool, s \in Slot : k = frame[p].pool /\ s = frame[p].slot
    BY <1>1, HereTyped
  <2>2. /\ Pack(slot[k][s]) = old
        /\ slot'[k][s].index = frame[p].index
        /\ slot'[k][s].server = slot[k][s].server
        /\ slot'[k][s].client = slot[k][s].client
        /\ OneSlot(k, s)
    BY <1>2, <1>5, <2>1 DEF Here, WroteHere, OneSlot
  <2>3. slot[k][s].index = frame[p].index \/ (NoServer(k, s) /\ NoClient(k, s))
    BY <2>1, <2>2
  <2>4. frame[p].index # 0
    BY <1>1, InstanceTyped
  <2>5. SlotInv(k, s)'
    <3>1. SlotInv(k, s)
      BY DEF SlotsInv
    <3> QED
      BY <1>1, <2>2, <2>3, <2>4, <3>1 DEF SlotInv, NoServer, NoClient, Pack, NoPack
  <2>6. \A q \in Process \ {p} :
           at[q] \in AtSlot /\ frame[q].pool = k /\ frame[q].slot = s => ReplaceInv(q)'
    BY <1>3, <2>2, <2>4 DEF ReplaceInv, Here, Pack, Others
  <2>7. at'[p] \in AtSlot => ReplaceInv(p)'
    BY <1>2 DEF ReplaceInv
  <2> QED
    BY <1>3, <2>1, <2>2, <2>5, <2>6, <2>7, OneSlotWritten
<1> QED
  BY <1>4, <1>5

\* Renew: the slot has p's index already.
LEMMA RenewSlots ==
  ASSUME TypeInv, NEW p \in Process, \A q \in Process : LocalInv(q), SlotsInv, ReplacesInv, Renew(p)
  PROVE  SlotsInv' /\ ReplacesInv'
<1>1. /\ at[p] \in AtSlot /\ Exchange(p, frame[p].pack, frame[p].index)
      /\ UNCHANGED <<exists, generation, instances, late>>
      /\ frame[p].pack[1] = frame[p].index
  BY DEF Renew, ghosts, AtSlot, LocalInv
<1>2. ASSUME NEW k \in Pool, NEW s \in Slot, k = frame[p].pool, s = frame[p].slot,
             Pack(slot[k][s]) = frame[p].pack
      PROVE  slot[k][s].index = frame[p].index \/ (NoServer(k, s) /\ NoClient(k, s))
  BY <1>1, <1>2 DEF Pack
<1> QED
  BY <1>1, <1>2, ExchangeSlots

\* A slot that was never used has no ids.
LEMMA ClaimSlots ==
  ASSUME TypeInv, NEW p \in Process, \A q \in Process : LocalInv(q), SlotsInv, ReplacesInv, Claim(p)
  PROVE  SlotsInv' /\ ReplacesInv'
<1>1. /\ at[p] \in AtSlot /\ Exchange(p, NoPack, frame[p].index)
      /\ UNCHANGED <<exists, generation, instances, late>>
  BY DEF Claim, ghosts, AtSlot
<1>2. ASSUME NEW k \in Pool, NEW s \in Slot, k = frame[p].pool, s = frame[p].slot,
             Pack(slot[k][s]) = NoPack
      PROVE  slot[k][s].index = frame[p].index \/ (NoServer(k, s) /\ NoClient(k, s))
  BY <1>2 DEF SlotsInv, SlotInv
<1> QED
  BY <1>1, <1>2, ExchangeSlots

\* A slot still as p left it has lost both ids since.
LEMMA PublishSlots ==
  ASSUME TypeInv, NEW p \in Process, \A q \in Process : LocalInv(q), SlotsInv, ReplacesInv, Publish(p)
  PROVE  SlotsInv' /\ ReplacesInv'
<1> DEFINE old == <<0, frame[p].generation>>
<1>1. /\ at[p] \in AtSlot /\ Exchange(p, old, frame[p].index)
      /\ UNCHANGED <<exists, generation, instances, late>> /\ at[p] = "publish"
  BY DEF Publish, ghosts, AtSlot
<1>2. ASSUME NEW k \in Pool, NEW s \in Slot, k = frame[p].pool, s = frame[p].slot,
             Pack(slot[k][s]) = old
      PROVE  slot[k][s].index = frame[p].index \/ (NoServer(k, s) /\ NoClient(k, s))
  BY <1>1, <1>2 DEF ReplacesInv, ReplaceInv, Here
<1> HIDE DEF old
<1> QED
  BY <1>1, <1>2, ExchangeSlots

\* Whoever else replaces the slot will see that p's date is not its own.
LEMMA ReplaceSlots ==
  ASSUME TypeInv, NEW p \in Process, \A q \in Process : LocalInv(q), SlotsInv, ReplacesInv,
         DatesDiffer, Replace(p)
  PROVE  SlotsInv' /\ ReplacesInv'
<1> DEFINE n == [Here(p) EXCEPT !.index = 0, !.generation = frame[p].generation]
<1>1. /\ at[p] \in AtSlot /\ Write(p, n) /\ Goto(p, "clearServer")
      /\ UNCHANGED <<exists, generation, instances, late, frame>>
  BY DEF Replace, ghosts, AtSlot
<1>2. Here(p) \in SlotRecord /\ frame[p].generation \in Nat \ {0} /\ LocalInv(p)
  BY <1>1, HereTyped
<1>3. n \in SlotRecord /\ n.index = 0 /\ n.generation = frame[p].generation
  <2> DEFINE g == frame[p].generation
  <2>1. g \in Nat
    BY <1>2
  <2> HIDE DEF g
  <2> QED
    BY <1>2, <2>1 DEF SlotRecord
<1> HIDE DEF n
<1>4. /\ Own(p) /\ WroteHere(p)
      /\ slot'[frame[p].pool][frame[p].slot] = n
  BY <1>1, <1>2, <1>3, WriteOwn
<1>5. Others(p) /\ at'[p] = "clearServer"
  BY <1>1, <1>4 DEF Own, Goto, TypeInv
<1>6. PICK k \in Pool, s \in Slot : k = frame[p].pool /\ s = frame[p].slot
  BY <1>1, <1>2, HereTyped
<1>7. OneSlot(k, s) /\ slot'[k][s] = n
  BY <1>1, <1>4, <1>6 DEF WroteHere, OneSlot
<1>8. SlotInv(k, s)'
  BY <1>2, <1>3, <1>7 DEF SlotInv, Pack, NoPack
<1>9. ASSUME NEW q \in Process \ {p}, at[q] \in AtSlot, frame[q].pool = k, frame[q].slot = s
      PROVE  ReplaceInv(q)'
  <2>1. frame[q].generation # frame[p].generation
    BY <1>1, <1>6, <1>9 DEF DatesDiffer, Dated
  <2>2. Here(q)' = n /\ frame'[q] = frame[q]
    BY <1>1, <1>7, <1>9 DEF Here
  <2> QED
    BY <1>3, <2>1, <2>2 DEF ReplaceInv, Pack
<1>10. at'[p] \in AtSlot => ReplaceInv(p)'
  BY <1>5 DEF ReplaceInv
<1> QED
  BY <1>1, <1>5, <1>6, <1>7, <1>8, <1>9, <1>10, OneSlotWritten

\* ClearServer: the server's id is gone, for whoever replaces the slot.
LEMMA ClearServerSlots ==
  ASSUME TypeInv, NEW p \in Process, \A q \in Process : LocalInv(q), SlotsInv, ReplacesInv,
         ClearServer(p)
  PROVE  SlotsInv' /\ ReplacesInv'
<1> DEFINE n == [Here(p) EXCEPT !.server = Null]
<1>1. /\ at[p] \in AtSlot /\ Write(p, n) /\ Goto(p, "clearClient")
      /\ late' = late \ {<<frame[p].pool, frame[p].slot, "server">>}
      /\ UNCHANGED <<exists, generation, instances, frame>>
  BY DEF ClearServer, AtSlot
<1>2. Here(p) \in SlotRecord /\ LocalInv(p)
  BY <1>1, HereTyped
<1>3. /\ n \in SlotRecord /\ n.index = Here(p).index /\ n.generation = Here(p).generation
      /\ n.server = Null /\ n.client = Here(p).client
  BY <1>2 DEF SlotRecord, Id
<1> HIDE DEF n
<1>4. /\ Own(p) /\ WroteHere(p)
      /\ slot'[frame[p].pool][frame[p].slot] = n
  BY <1>1, <1>2, <1>3, WriteOwn
<1>5. Others(p) /\ at'[p] = "clearClient"
  BY <1>1, <1>4 DEF Own, Goto, TypeInv
<1>6. PICK k \in Pool, s \in Slot : k = frame[p].pool /\ s = frame[p].slot
  BY <1>1, <1>2, HereTyped
<1>7. /\ OneSlot(k, s) /\ slot'[k][s] = n
      /\ Here(p) = slot[k][s]
      /\ <<k, s, "client">> \in late' <=> <<k, s, "client">> \in late
  BY <1>1, <1>4, <1>6 DEF WroteHere, OneSlot, Here
<1>8. SlotInv(k, s)'
  <2>1. SlotInv(k, s)
    BY DEF SlotsInv
  <2> QED
    BY <1>1, <1>3, <1>7, <2>1 DEF SlotInv, Pack, NoPack, NoServer, NoClient
<1>9. ASSUME NEW q \in Process, at[q] \in AtSlot, frame[q].pool = k, frame[q].slot = s
      PROVE  q # p => ReplaceInv(q)'
  <2>1. /\ Here(q)' = n /\ frame'[q] = frame[q] /\ Here(q) = slot[k][s] /\ ReplaceInv(q)
        /\ q # p => at'[q] = at[q]
    BY <1>1, <1>5, <1>7, <1>9 DEF Here, ReplacesInv, Others
  <2> QED
    BY <1>3, <1>7, <1>9, <2>1 DEF ReplaceInv, Pack, NoServer, NoClient
<1>10. at'[p] \in AtSlot => ReplaceInv(p)'
  BY <1>1, <1>3, <1>5, <1>6, <1>7 DEF ReplaceInv, NoServer
<1> QED
  BY <1>1, <1>5, <1>6, <1>7, <1>8, <1>9, <1>10, OneSlotWritten

\* ClearClient: the client's id is gone too.
LEMMA ClearClientSlots ==
  ASSUME TypeInv, NEW p \in Process, \A q \in Process : LocalInv(q), SlotsInv, ReplacesInv,
         ClearClient(p)
  PROVE  SlotsInv' /\ ReplacesInv'
<1> DEFINE n == [Here(p) EXCEPT !.client = Null]
<1>1. /\ at[p] \in AtSlot /\ Write(p, n) /\ Goto(p, "publish") /\ at[p] = "clearClient"
      /\ late' = late \ {<<frame[p].pool, frame[p].slot, "client">>}
      /\ UNCHANGED <<exists, generation, instances, frame>>
  BY DEF ClearClient, AtSlot
<1>2. Here(p) \in SlotRecord /\ LocalInv(p)
  BY <1>1, HereTyped
<1>3. /\ n \in SlotRecord /\ n.index = Here(p).index /\ n.generation = Here(p).generation
      /\ n.client = Null /\ n.server = Here(p).server
  BY <1>2 DEF SlotRecord, Id
<1> HIDE DEF n
<1>4. /\ Own(p) /\ WroteHere(p)
      /\ slot'[frame[p].pool][frame[p].slot] = n
  BY <1>1, <1>2, <1>3, WriteOwn
<1>5. Others(p) /\ at'[p] = "publish"
  BY <1>1, <1>4 DEF Own, Goto, TypeInv
<1>6. PICK k \in Pool, s \in Slot : k = frame[p].pool /\ s = frame[p].slot
  BY <1>1, <1>2, HereTyped
<1>7. /\ OneSlot(k, s) /\ slot'[k][s] = n
      /\ Here(p) = slot[k][s]
      /\ <<k, s, "server">> \in late' <=> <<k, s, "server">> \in late
  BY <1>1, <1>4, <1>6 DEF WroteHere, OneSlot, Here
<1>8. SlotInv(k, s)'
  <2>1. SlotInv(k, s)
    BY DEF SlotsInv
  <2> QED
    BY <1>1, <1>3, <1>7, <2>1 DEF SlotInv, Pack, NoPack, NoServer, NoClient
<1>9. ASSUME NEW q \in Process, at[q] \in AtSlot, frame[q].pool = k, frame[q].slot = s
      PROVE  q # p => ReplaceInv(q)'
  <2>1. /\ Here(q)' = n /\ frame'[q] = frame[q] /\ Here(q) = slot[k][s] /\ ReplaceInv(q)
        /\ q # p => at'[q] = at[q]
    BY <1>1, <1>5, <1>7, <1>9 DEF Here, ReplacesInv, Others
  <2> QED
    BY <1>3, <1>7, <1>9, <2>1 DEF ReplaceInv, Pack, NoServer, NoClient
<1>10. at'[p] \in AtSlot => ReplaceInv(p)'
  <2>1. ReplaceInv(p)
    BY <1>1 DEF ReplacesInv
  <2>2. Here(p)' = n
    BY <1>1, <1>6, <1>7 DEF Here
  <2> QED
    BY <1>1, <1>3, <1>6, <1>7, <2>1, <2>2 DEF ReplaceInv, Pack, NoServer, NoClient
<1> QED
  BY <1>1, <1>5, <1>6, <1>7, <1>8, <1>9, <1>10, OneSlotWritten

\* An id that does not belong to the slot's instance is a late one.
LEMMA StoreSlots ==
  ASSUME TypeInv, NEW p \in Process, \A q \in Process : LocalInv(q), SlotsInv, ReplacesInv, Store(p)
  PROVE  SlotsInv' /\ ReplacesInv'
<1> DEFINE end == IF frame[p].what = "create" THEN "server" ELSE "client"
           r == <<frame[p].pool, frame[p].slot, end>>
<1>1. /\ at[p] = "store" /\ at[p] \in AtSlot
      /\ late' = late \cup (IF Here(p).index = frame[p].index THEN {} ELSE {r})
      /\ UNCHANGED instances
      /\ frame[p].what \in {"create", "connect"}
  BY DEF Store, AtSlot, LocalInv
<1>2. Registers(p, frame[p].what, frame[p].index)
  BY <1>1, HereTyped
<1>3. /\ Own(p) /\ at'[p] = "idle" /\ WroteHere(p)
      /\ LET h == Here(p)
             n == slot'[frame[p].pool][frame[p].slot]
         IN /\ Pack(n) = Pack(h) /\ n.index = h.index
            /\ frame[p].what = "create" => n.server = p /\ n.client = h.client
            /\ frame[p].what = "connect" => n.server = h.server /\ n.client = p
  BY StoreOwn
<1>4. Others(p)
  BY <1>3 DEF Own
<1>5. PICK k \in Pool, s \in Slot : k = frame[p].pool /\ s = frame[p].slot
  BY <1>1, HereTyped
<1> DEFINE h == slot[k][s]
           n == slot'[k][s]
<1>6. /\ r = <<k, s, end>>
      /\ late' = late \cup (IF h.index = frame[p].index THEN {} ELSE {<<k, s, end>>})
  BY <1>1, <1>5 DEF Here
<1>7. /\ OneSlot(k, s)
      /\ Pack(n) = Pack(h) /\ n.index = h.index
      /\ frame[p].what = "create" => n.server = p /\ n.client = h.client
      /\ frame[p].what = "connect" => n.server = h.server /\ n.client = p
  <2>1. OneSlot(k, s)
    BY <1>3, <1>5, <1>6 DEF WroteHere, OneSlot
  <2> QED
    BY <1>3, <1>5, <2>1 DEF Here
<1>8. frame[p].index # 0
  BY <1>2, InstanceTyped DEF Registers
<1>9. /\ NoServer(k, s) /\ h.index = 0 => NoServer(k, s)'
      /\ NoClient(k, s) /\ h.index = 0 => NoClient(k, s)'
  <2>1. CASE frame[p].what = "create"
    BY <1>6, <1>7, <1>8, <2>1 DEF NoServer, NoClient
  <2>2. CASE frame[p].what = "connect"
    BY <1>6, <1>7, <1>8, <2>2 DEF NoServer, NoClient
  <2> QED
    BY <1>1, <2>1, <2>2
<1>10. SlotInv(k, s)'
  <2>1. SlotInv(k, s)
    BY DEF SlotsInv
  <2>2. Pack(h) = NoPack => h.index = 0
    BY DEF Pack, NoPack
  <2>3. Pack(n) = NoPack => NoServer(k, s)' /\ NoClient(k, s)'
    BY <1>7, <1>9, <2>1, <2>2 DEF SlotInv
  <2>4. CASE frame[p].what = "create"
    BY <1>1, <1>2, <1>6, <1>7, <2>1, <2>3, <2>4 DEF SlotInv, Registers
  <2>5. CASE frame[p].what = "connect"
    BY <1>1, <1>2, <1>6, <1>7, <2>1, <2>3, <2>5 DEF SlotInv, Registers
  <2> QED
    BY <1>1, <2>4, <2>5
<1>11. ASSUME NEW q \in Process \ {p}, at[q] \in AtSlot, frame[q].pool = k, frame[q].slot = s
       PROVE  ReplaceInv(q)'
  <2>1. /\ Here(q)' = n /\ frame'[q] = frame[q] /\ Here(q) = h
        /\ at'[q] = at[q] /\ ReplaceInv(q)
    BY <1>4, <1>11 DEF Here, ReplacesInv, Others
  <2>2. Pack(h) = <<0, frame[q].generation>> => h.index = 0
    BY DEF Pack
  <2> HIDE DEF n, h
  <2> QED
    BY <1>7, <1>9, <1>11, <2>1, <2>2 DEF ReplaceInv
<1>12. at'[p] \in AtSlot => ReplaceInv(p)'
  BY <1>3 DEF AtSlot
<1> QED
  BY <1>1, <1>4, <1>5, <1>7, <1>10, <1>11, <1>12, OneSlotWritten

-----------------------------------------------------------------------------
(* The invariant.                                                          *)

\* At first all slots are empty.
LEMMA Initially == Init => IInv
<1> SUFFICES ASSUME Init PROVE IInv
  OBVIOUS
<1>1. EmptySlot \in SlotRecord
  BY DEF EmptySlot, SlotRecord, Id
<1>2. TypeInv
  <2>1. instances \in Seq([server : Process, client : Id])
    BY DEF Init
  <2>2. slot \in [Pool -> [Slot -> SlotRecord]]
    BY <1>1 DEF Init
  <2> QED
    BY <2>1, <2>2, NoFrameTyped DEF Init, TypeInv
<1>3. \A p \in Process : at[p] = "idle"
  BY DEF Init
<1>4. SlotsInv
  <2>1. \A k \in Pool, s \in Slot : slot[k][s] = EmptySlot
    BY DEF Init
  <2> QED
    BY <2>1 DEF SlotsInv, SlotInv, EmptySlot, NoServer, NoClient
<1> QED
  BY <1>2, <1>3, <1>4 DEF IInv, LocalInv, DatesDiffer, ReplacesInv, Dated, AtSlot

\* Every step keeps the types, and what each process knows of its call and its date.
LEMMA NextLocal ==
  ASSUME IInv, [Next]_vars
  PROVE  TypeInv' /\ (\A p \in Process : LocalInv(p)') /\ DatesDiffer'
<1> USE DEF IInv
<1>1. CASE UNCHANGED vars
  BY <1>1 DEF vars, TypeInv, LocalInv, Registers, Unscanned, DatesDiffer
<1>2. ASSUME NEW p \in Process, TypeInv', Own(p), KeepsDate(p), InstancesGrow, UNCHANGED generation
      PROVE  (\A q \in Process : LocalInv(q)') /\ DatesDiffer'
  <2>1. \A k \in Pool : generation'[k] >= generation[k]
    BY <1>2 DEF TypeInv
  <2>2. \A q \in Process : LocalInv(q)'
    BY <1>2, <2>1, OthersLocal
  <2>3. DatesDiffer'
    BY <1>2, DatesStayDifferent DEF Own
  <2> QED
    BY <2>2, <2>3
<1>3. ASSUME NEW p \in Process, Create(p)
      PROVE  TypeInv' /\ (\A q \in Process : LocalInv(q)') /\ DatesDiffer'
  BY <1>2, <1>3, CreateOwn, CreateGrows DEF Create, Call
<1>4. ASSUME NEW p \in Process, Connect(p)
      PROVE  TypeInv' /\ (\A q \in Process : LocalInv(q)') /\ DatesDiffer'
  <2>1. InstancesGrow /\ UNCHANGED generation
    BY <1>4, ConnectOwn DEF InstancesGrow, Connect, Call
  <2> QED
    BY <1>2, <1>4, <2>1, ConnectOwn
<1>5. ASSUME NEW p \in Process, Resolve(p)
      PROVE  TypeInv' /\ (\A q \in Process : LocalInv(q)') /\ DatesDiffer'
  <2>1. InstancesGrow
    BY <1>5, SameInstancesGrow DEF Resolve
  <2>2. /\ TypeInv' /\ Own(p)
        /\ \A k \in Pool : generation'[k] >= generation[k]
        /\ KeepsDate(p) \/ frame'[p].generation = generation[frame'[p].pool] + 1
    BY <1>5, ResolveOwn
  <2>3. \A q \in Process : LocalInv(q)'
    BY <2>1, <2>2, OthersLocal
  <2>4. frame'[p].pool \in Pool
    BY <2>2 DEF TypeInv, Frame
  <2>5. DatesDiffer'
    BY <2>2, <2>4, DatesStayDifferent DEF Own
  <2> QED
    BY <2>2, <2>3, <2>5
<1>6. ASSUME NEW p \in Process,
             \/ Query(p) \/ Die(p) \/ Scan(p) \/ Scanned(p) \/ Store(p) \/ Read(p) \/ Check(p)
      PROVE  TypeInv' /\ (\A q \in Process : LocalInv(q)') /\ DatesDiffer'
  <2>1. UNCHANGED <<instances, generation>>
    BY <1>6 DEF Query, Call, Die, Scan, Scanned, Store, Read, Check
  <2>2. TypeInv' /\ Own(p) /\ KeepsDate(p)
    BY <1>6, QueryOwn, DieOwn, ScanOwn, ScannedOwn, StoreOwn, ReadOwn, CheckOwn
  <2> QED
    BY <1>2, <2>1, <2>2, SameInstancesGrow
<1>7. ASSUME NEW p \in Process, Renew(p) \/ Claim(p) \/ Publish(p)
      PROVE  TypeInv' /\ (\A q \in Process : LocalInv(q)') /\ DatesDiffer'
  <2>1. UNCHANGED <<exists, generation, instances>> /\ at[p] \in AtSlot
    BY <1>7 DEF Renew, Claim, Publish, AtSlot
  <2>2. frame[p].index \in Nat
    BY <2>1, HereTyped
  <2>3. PICK old : Exchange(p, old, frame[p].index)
    BY <1>7 DEF Renew, Claim, Publish
  <2>4. TypeInv' /\ Own(p) /\ KeepsDate(p)
    BY <2>1, <2>2, <2>3, ExchangeOwn
  <2> QED
    BY <1>2, <2>1, <2>4, SameInstancesGrow
<1>8. ASSUME NEW p \in Process, Replace(p) \/ ClearServer(p) \/ ClearClient(p)
      PROVE  TypeInv' /\ (\A q \in Process : LocalInv(q)') /\ DatesDiffer'
  <2>1. UNCHANGED <<exists, generation, instances, frame>> /\ at[p] \in AtSlot
    BY <1>8 DEF Replace, ClearServer, ClearClient, AtSlot
  <2>2. Here(p) \in SlotRecord /\ frame[p].generation \in Nat
    BY <2>1, HereTyped
  <2>3. PICK s \in SlotRecord, where \in {"clearServer", "clearClient", "publish"} :
           Write(p, s) /\ Goto(p, where)
    <3> DEFINE g == frame[p].generation
               s1 == [Here(p) EXCEPT !.index = 0, !.generation = g]
               s2 == [Here(p) EXCEPT !.server = Null]
               s3 == [Here(p) EXCEPT !.client = Null]
    <3>1. g \in Nat
      BY <2>2
    <3>2. \/ Write(p, s1) /\ Goto(p, "clearServer")
          \/ Write(p, s2) /\ Goto(p, "clearClient")
          \/ Write(p, s3) /\ Goto(p, "publish")
      BY <1>8 DEF Replace, ClearServer, ClearClient
    <3> HIDE DEF g
    <3>3. s1 \in SlotRecord /\ s2 \in SlotRecord /\ s3 \in SlotRecord
      BY <2>2, <3>1 DEF SlotRecord, Id
    <3> HIDE DEF s1, s2, s3
    <3> QED
      BY <3>2, <3>3
  <2>4. TypeInv' /\ Own(p) /\ KeepsDate(p)
    BY <2>1, <2>3, WriteOwn
  <2> QED
    BY <1>2, <2>1, <2>4, SameInstancesGrow
<1> QED
  BY <1>1, <1>3, <1>4, <1>5, <1>6, <1>7, <1>8 DEF Next

\* Every step keeps what the slots hold.
LEMMA NextSlots ==
  ASSUME IInv, [Next]_vars
  PROVE  SlotsInv' /\ ReplacesInv'
<1> USE DEF IInv
<1>1. CASE UNCHANGED vars
  BY <1>1 DEF vars, SlotsInv, SlotInv, ReplacesInv, ReplaceInv, Here, NoServer, NoClient, Pack
<1>2. ASSUME NEW p \in Process, UNCHANGED <<slot, late>>, InstancesGrow, Own(p),
             at'[p] \notin {"clearClient", "publish"}
      PROVE  SlotsInv' /\ ReplacesInv'
  BY <1>2, SlotsStay, ReplaceStays DEF SlotsInv, ReplacesInv, Own
<1>3. ASSUME NEW p \in Process, Create(p) PROVE SlotsInv' /\ ReplacesInv'
  <2>1. at'[p] = "resolve"
    BY <1>3 DEF Create, Call, Goto, TypeInv
  <2> QED
    BY <1>2, <1>3, <2>1, CreateOwn, CreateGrows DEF Create, Call, ghosts
<1>4. ASSUME NEW p \in Process, Connect(p) PROVE SlotsInv' /\ ReplacesInv'
  <2>1. InstancesGrow /\ UNCHANGED <<slot, late>> /\ at'[p] = "resolve"
    BY <1>4, ConnectOwn DEF InstancesGrow, Connect, Call, ghosts, Goto, TypeInv
  <2> QED
    BY <1>2, <1>4, <2>1, ConnectOwn
<1>5. ASSUME NEW p \in Process, Query(p) \/ Die(p)
      PROVE  SlotsInv' /\ ReplacesInv'
  <2>1. UNCHANGED <<slot, late, instances>> /\ at'[p] \in {"resolve", "dead"}
    BY <1>5 DEF Query, Call, Die, ghosts, Goto, TypeInv
  <2> QED
    BY <1>2, <1>5, <2>1, QueryOwn, DieOwn, SameInstancesGrow
<1>6. ASSUME NEW p \in Process, Resolve(p) \/ Scan(p) \/ Scanned(p) \/ Read(p) \/ Check(p)
      PROVE  SlotsInv' /\ ReplacesInv'
  <2>1. UNCHANGED <<slot, late, instances>>
    BY <1>6 DEF Resolve, Scan, Scanned, Read, Check, ghosts
  <2>2. Own(p) /\ at'[p] \notin {"clearClient", "publish"}
    BY <1>6, ResolveOwn, ScanOwn, ScannedOwn, ReadOwn, CheckOwn DEF AtSlot
  <2> QED
    BY <1>2, <2>1, <2>2, SameInstancesGrow
<1>7. ASSUME NEW p \in Process,
             \/ Renew(p) \/ Claim(p) \/ Publish(p)
             \/ Replace(p) \/ ClearServer(p) \/ ClearClient(p) \/ Store(p)
      PROVE  SlotsInv' /\ ReplacesInv'
  BY <1>7, RenewSlots, ClaimSlots, PublishSlots, ReplaceSlots, ClearServerSlots, ClearClientSlots,
     StoreSlots
<1> QED
  BY <1>1, <1>3, <1>4, <1>5, <1>6, <1>7 DEF Next

\* The invariant holds whatever the number of processes, slots, instances and accesses,
\* and wherever processes die.
THEOREM Invariance == Spec => []IInv
<1>1. IInv /\ [Next]_vars => IInv'
  BY NextLocal, NextSlots DEF IInv
<1> QED
  BY <1>1, Initially, PTL DEF Spec

\* A slot of the table never shows an id of an instance it stood for before, wherever the
\* process that replaced it died, unless that id was stored after the slot was replaced.
THEOREM IdsKept == Spec => []IdsOfItsInstance
<1>1. IInv => IdsOfItsInstance
  BY DEF IInv, SlotsInv, SlotInv, IdsOfItsInstance
<1> QED
  BY <1>1, Invariance, PTL

-----------------------------------------------------------------------------
(* A process is told its right peer or none, on top of the invariant       *)
(* above.  An id that was read may be trusted if the slot has the right    *)
(* index afterwards, for an instance comes into a pool once: by the call   *)
(* that creates it.  The inductive invariant.                              *)

Taking == {"claim", "replace", "clearServer", "clearClient", "publish"}
OnFound == {"renew", "store", "read", "check"}

\* Only a call that may create the slot takes one, and it does not find its own.
CallInv(p) ==
  /\ at[p] \in {"renew", "read", "check"} => frame[p].what # "create"
  /\ at[p] \in Taking => frame[p].what = "create"

\* An instance is created once.
CreatesDiffer ==
  \A p, q \in Process :
    /\ p # q /\ at[p] \in InCall /\ at[q] \in InCall
    /\ frame[p].what = "create" /\ frame[q].what = "create"
    => frame[p].index # frame[q].index

\* An instance that has no slot yet in a pool where its server may still make one, and
\* which nobody has found there.
Pending(p) == at[p] \in {"resolve", "scan"} \cup Taking /\ frame[p].what = "create"
Unseen(p, k) ==
  /\ \A s \in Slot : slot[k][s].index # frame[p].index
  /\ \A q \in Process : at[q] \in OnFound /\ frame[q].pool = k => frame[q].index # frame[p].index
Unpublished == \A p \in Process : Pending(p) => \A k \in Pool : k >= frame[p].pool => Unseen(p, k)

\* The id a process has is its peer's.
IsPeer(p) ==
  /\ frame[p].id # Null /\ frame[p].index \in DOMAIN instances
  /\ LET i == instances[frame[p].index] IN
       frame[p].id = IF frame[p].what = "queryServer" THEN i.server ELSE i.client

ReadRight ==
  \A p \in Process :
    at[p] = "check" /\ ~wasLate /\ frame[p].id # Null /\ Here(p).index = frame[p].index => IsPeer(p)
ToldRight == \A p \in Process : at[p] = "answered" /\ ~wasLate => IsPeer(p)
LateKnown == late # {} => wasLate

AInv ==
  /\ IInv
  /\ \A p \in Process : CallInv(p)
  /\ CreatesDiffer /\ Unpublished
  /\ ReadRight /\ ToldRight /\ LateKnown

-----------------------------------------------------------------------------
(* The steps within a call.                                                *)

\* p goes on in its call, if it does not end; a slot it writes keeps its index, loses
\* it, or has that of the instance p creates.
GoesOn(p) ==
  /\ KeepsCall(p) /\ CallInv(p)' /\ Others(p) /\ InstancesGrow /\ TypeInv'
  /\ at[p] = "store" => at'[p] \notin InCall
  /\ at'[p] \in OnFound =>
       at[p] \in OnFound \/ Pending(p) \/ \E s \in Slot : slot[frame[p].pool][s].index = frame[p].index
  /\ \A k \in Pool, s \in Slot :
       \/ slot'[k][s].index \in {slot[k][s].index, 0}
       \/ /\ Pending(p) /\ at'[p] \in OnFound
          /\ k = frame[p].pool /\ slot'[k][s].index = frame[p].index

\* Die ends the call.
LEMMA DieGoesOn ==
  ASSUME AInv, NEW p \in Process, Die(p) PROVE GoesOn(p)
<1>1. TypeInv' /\ Own(p) /\ UNCHANGED <<slot, instances>>
  BY DieOwn DEF AInv, IInv, Die
<1>2. at'[p] = "dead"
  BY DEF Die, Goto, AInv, IInv, TypeInv
<1> QED
  BY <1>1, <1>2, SameInstancesGrow
     DEF GoesOn, KeepsCall, CallInv, Own, InCall, Dated, AtSlot, OnFound, Taking

\* Resolve and Scanned: what is pending stays so, perhaps for the next pool alone.
LEMMA ResolveGoesOn ==
  ASSUME AInv, NEW p \in Process, Resolve(p) \/ Scanned(p) PROVE GoesOn(p)
<1>1. /\ TypeInv' /\ Own(p) /\ UNCHANGED <<slot, instances>> /\ KeepsCall(p)
      /\ at'[p] \in {"idle", "resolve", "scan", "claim", "replace"}
      /\ at'[p] \in AtSlot => Allowed(p)
      /\ at[p] \in {"resolve", "scan"}
  <2>1. CASE Resolve(p)
    <3>1. UNCHANGED <<slot, instances>> /\ at[p] = "resolve"
      BY <2>1 DEF Resolve
    <3> QED
      BY <2>1, <3>1, ResolveOwn DEF AInv, IInv, AtSlot
  <2>2. CASE Scanned(p)
    <3>1. UNCHANGED <<slot, instances>> /\ at[p] = "scan"
      BY <2>2 DEF Scanned
    <3> QED
      BY <2>2, <3>1, ScannedOwn DEF AInv, IInv
  <2> QED
    BY <2>1, <2>2
<1> QED
  BY <1>1, SameInstancesGrow
     DEF GoesOn, KeepsCall, CallInv, Own, InCall, Dated, AtSlot, OnFound, Taking, Allowed

\* Scan: an instance whose index is in a slot is not pending.
LEMMA ScanGoesOn ==
  ASSUME AInv, NEW p \in Process, Scan(p) PROVE GoesOn(p)
<1>1. /\ TypeInv' /\ Own(p) /\ UNCHANGED <<slot, instances>> /\ SameCall(p)
      /\ at'[p] \in {"scan", "renew"} /\ at[p] = "scan"
      /\ at'[p] = "renew" => \E s \in Slot : slot[frame[p].pool][s].index = frame[p].index
  BY ScanOwn DEF AInv, IInv, Scan
<1>2. frame[p].pool \in Pool /\ frame[p].pool \in Nat
  BY DEF AInv, IInv, TypeInv, Frame, Pool
<1>3. at'[p] = "renew" => frame[p].what # "create"
  <2> SUFFICES ASSUME at'[p] = "renew", Pending(p) PROVE FALSE
    BY <1>1 DEF Pending
  <2>1. Unseen(p, frame[p].pool)
    BY <1>2 DEF AInv, Unpublished
  <2> QED
    BY <1>1, <2>1 DEF Unseen
<1>4. KeepsCall(p)
  BY <1>1, <1>2 DEF KeepsCall, SameCall, InCall, Dated
<1>5. CallInv(p)'
  BY <1>1, <1>3 DEF CallInv, SameCall, Taking
<1> QED
  BY <1>1, <1>4, <1>5, SameInstancesGrow DEF GoesOn, Own

\* Renew, Claim and Publish: only the last two put an index into a slot that was not
\* there, and they are the server's.
LEMMA ExchangeGoesOn ==
  ASSUME AInv, NEW p \in Process, Renew(p) \/ Claim(p) \/ Publish(p) PROVE GoesOn(p)
<1>1. /\ at[p] \in {"renew", "claim", "publish"}
      /\ UNCHANGED <<exists, generation, instances>>
  BY DEF Renew, Claim, Publish
<1>2. PICK old : /\ Exchange(p, old, frame[p].index)
                 /\ at[p] = "renew" => old[1] = frame[p].index
  <2>1. Renew(p) => frame[p].pack[1] = frame[p].index
    BY DEF Renew, AInv, IInv, LocalInv
  <2> QED
    BY <2>1 DEF Renew, Claim, Publish
<1>3. /\ frame[p].index \in Nat /\ frame[p].pool \in Nat /\ LocalInv(p)
      /\ CallInv(p) /\ TypeInv
  <2>1. TypeInv /\ LocalInv(p) /\ CallInv(p)
    BY DEF AInv, IInv
  <2>2. frame[p] \in Frame
    BY <2>1 DEF TypeInv
  <2> QED
    BY <2>1, <2>2 DEF Frame, Pool
<1>4. /\ TypeInv' /\ Own(p)
      /\ at'[p] \in {"scan", "store", "read"} /\ SameCall(p)
      /\ at'[p] = "read" => frame[p].what # "create"
      /\ at'[p] = "scan" => UNCHANGED slot
      /\ \/ UNCHANGED slot
         \/ /\ Pack(Here(p)) = old /\ WroteHere(p)
            /\ slot'[frame[p].pool][frame[p].slot].index = frame[p].index
  <2>1. at[p] \in AtSlot
    BY <1>1 DEF AtSlot
  <2> QED
    BY <1>1, <1>2, <1>3, <2>1, ExchangeOwn
<1>5. KeepsCall(p) /\ CallInv(p)'
  BY <1>1, <1>3, <1>4 DEF KeepsCall, CallInv, SameCall, InCall, Dated, AtSlot, Taking
<1>6. at[p] \in OnFound \/ Pending(p)
  BY <1>1, <1>3 DEF Pending, CallInv, OnFound, Taking
<1>7. ASSUME NEW k \in Pool, NEW s \in Slot
      PROVE  \/ slot'[k][s].index \in {slot[k][s].index, 0}
             \/ /\ Pending(p) /\ at'[p] \in OnFound
                /\ k = frame[p].pool /\ slot'[k][s].index = frame[p].index
  <2>1. CASE <<k, s>> # <<frame[p].pool, frame[p].slot>> \/ slot' = slot
    BY <1>4, <2>1 DEF WroteHere
  <2>2. CASE k = frame[p].pool /\ s = frame[p].slot /\ slot' # slot
    <3>1. /\ slot'[k][s].index = frame[p].index /\ Pack(slot[k][s]) = old
          /\ at'[p] \in OnFound
      BY <1>4, <2>2 DEF Here, OnFound
    <3>2. CASE at[p] = "renew"
      BY <1>2, <3>1, <3>2 DEF Pack
    <3>3. CASE at[p] # "renew"
      BY <1>1, <1>3, <2>2, <3>1, <3>3 DEF Pending, CallInv, Taking
    <3> QED
      BY <3>2, <3>3
  <2> QED
    BY <2>1, <2>2
<1> QED
  BY <1>1, <1>4, <1>5, <1>6, <1>7, SameInstancesGrow DEF GoesOn, Own

\* Replace, ClearServer and ClearClient: an index may be lost.
LEMMA WriteGoesOn ==
  ASSUME AInv, NEW p \in Process, Replace(p) \/ ClearServer(p) \/ ClearClient(p) PROVE GoesOn(p)
<1>1. /\ at[p] \in AtSlot /\ at[p] \in Taking
      /\ UNCHANGED <<exists, generation, instances, frame>>
  BY DEF Replace, ClearServer, ClearClient, AtSlot, Taking
<1>2. TypeInv /\ LocalInv(p) /\ CallInv(p)
  BY DEF AInv, IInv
<1>3. Here(p) \in SlotRecord /\ frame[p].generation \in Nat /\ frame[p].pool \in Nat
  BY <1>1, <1>2, HereTyped DEF Pool
<1>4. PICK n \in SlotRecord, where \in {"clearServer", "clearClient", "publish"} :
         Write(p, n) /\ Goto(p, where) /\ n.index \in {Here(p).index, 0}
  <2> DEFINE g == frame[p].generation
             n1 == [Here(p) EXCEPT !.index = 0, !.generation = g]
             n2 == [Here(p) EXCEPT !.server = Null]
             n3 == [Here(p) EXCEPT !.client = Null]
  <2>1. \/ Write(p, n1) /\ Goto(p, "clearServer")
        \/ Write(p, n2) /\ Goto(p, "clearClient")
        \/ Write(p, n3) /\ Goto(p, "publish")
    BY DEF Replace, ClearServer, ClearClient
  <2>2. g \in Nat
    BY <1>3
  <2> HIDE DEF g
  <2>3. /\ n1 \in SlotRecord /\ n2 \in SlotRecord /\ n3 \in SlotRecord
        /\ n1.index = 0 /\ n2.index = Here(p).index /\ n3.index = Here(p).index
    BY <1>3, <2>2 DEF SlotRecord, Id
  <2> HIDE DEF n1, n2, n3
  <2> QED
    BY <2>1, <2>3
<1>5. /\ TypeInv' /\ Own(p)
      /\ at'[p] = where /\ SameCall(p) /\ WroteHere(p)
      /\ slot'[frame[p].pool][frame[p].slot] = n
  BY <1>1, <1>2, <1>4, WriteOwn
<1>6. KeepsCall(p) /\ CallInv(p)'
  BY <1>1, <1>2, <1>3, <1>5 DEF KeepsCall, CallInv, SameCall, InCall, Dated, Taking
<1>7. ASSUME NEW k \in Pool, NEW s \in Slot
      PROVE  slot'[k][s].index \in {slot[k][s].index, 0}
  BY <1>4, <1>5 DEF WroteHere, Here
<1> QED
  BY <1>1, <1>5, <1>6, <1>7, SameInstancesGrow DEF GoesOn, Own, OnFound, Taking

\* Store ends the call, and the indices stay.
LEMMA StoreGoesOn ==
  ASSUME AInv, NEW p \in Process, Store(p) PROVE GoesOn(p)
<1>1. /\ TypeInv' /\ Own(p) /\ at'[p] = "idle" /\ WroteHere(p)
      /\ slot'[frame[p].pool][frame[p].slot].index = Here(p).index
      /\ UNCHANGED instances
  BY StoreOwn DEF AInv, IInv, Store
<1>2. ASSUME NEW k \in Pool, NEW s \in Slot
      PROVE  slot'[k][s].index = slot[k][s].index
  BY <1>1 DEF WroteHere, Here
<1> QED
  BY <1>1, <1>2, SameInstancesGrow
     DEF GoesOn, KeepsCall, CallInv, Own, InCall, Dated, AtSlot, OnFound, Taking

\* Read and Check ask for what they asked for.
LEMMA ReadGoesOn ==
  ASSUME AInv, NEW p \in Process, Read(p) \/ Check(p) PROVE GoesOn(p)
<1>1. /\ TypeInv' /\ Own(p) /\ UNCHANGED <<slot, instances>>
      /\ at[p] \in {"read", "check"} /\ at'[p] \in {"check", "idle", "resolve", "read", "answered"}
      /\ at'[p] \in {"resolve", "read"} =>
           frame'[p].what = frame[p].what /\ frame'[p].index = frame[p].index
      /\ at'[p] \in {"read", "check"} => SameCall(p)
  BY ReadOwn, CheckOwn DEF AInv, IInv, Read, Check
<1>2. frame[p].what # "create"
  BY <1>1 DEF AInv, CallInv
<1>3. KeepsCall(p) /\ CallInv(p)'
  BY <1>1, <1>2 DEF KeepsCall, CallInv, SameCall, InCall, Dated, AtSlot, Taking
<1> QED
  BY <1>1, <1>3, SameInstancesGrow DEF GoesOn, Own, OnFound

-----------------------------------------------------------------------------
(* What these steps mean for all processes.                                *)

\* The index of a process in a call is that of an instance.
LEMMA IndexInCall ==
  ASSUME AInv, NEW p \in Process, at[p] \in InCall
  PROVE  frame[p].index \in DOMAIN instances /\ frame[p].index # 0
<1>1. frame[p].index \in DOMAIN instances
  BY DEF AInv, IInv, LocalInv, Registers, InCall
<1> QED
  BY <1>1, InstanceTyped DEF AInv, IInv

\* A step within a call makes nobody's instance pending again, and only the server of a
\* pending one makes it seen.
LEMMA StaysUnpublished ==
  ASSUME AInv, NEW p \in Process, GoesOn(p)
  PROVE  CreatesDiffer' /\ Unpublished'
<1>1. ASSUME NEW q \in Process, at'[q] \in InCall
      PROVE  /\ at[q] \in InCall
             /\ frame'[q].what = frame[q].what /\ frame'[q].index = frame[q].index
             /\ frame[q].what = "create" => frame'[q].pool >= frame[q].pool
  <2>1. frame[q].pool \in Nat
    <3>1. frame[q] \in Frame
      BY DEF AInv, IInv, TypeInv
    <3> QED
      BY <3>1 DEF Frame, Pool
  <2> QED
    BY <1>1, <2>1 DEF GoesOn, KeepsCall, Others
<1>2. CreatesDiffer'
  BY <1>1 DEF AInv, CreatesDiffer
<1>3. ASSUME NEW r \in Process, Pending(r)', NEW k \in Pool, k >= frame'[r].pool
      PROVE  Unseen(r, k)'
  <2>1. at'[r] \in InCall /\ frame'[r].what = "create" /\ at'[r] \notin OnFound
    BY <1>3 DEF Pending, InCall, Dated, AtSlot, OnFound, Taking
  <2>2. /\ at[r] \in InCall /\ frame[r].what = "create" /\ frame'[r].index = frame[r].index
        /\ frame'[r].pool >= frame[r].pool
    BY <1>1, <2>1
  <2>3. Pending(r)
    <3>1. at[r] # "store"
      BY <2>1, <1>3 DEF GoesOn, Others, Pending, Taking
    <3>2. at[r] \notin {"renew", "read", "check"}
      BY <2>2 DEF AInv, CallInv
    <3> QED
      BY <2>2, <3>1, <3>2 DEF Pending, InCall, Dated, AtSlot, Taking
  <2>4. Unseen(r, k)
    <3>1. frame[r].pool \in Nat /\ frame'[r].pool \in Nat /\ k \in Nat
      <4>1. frame[r] \in Frame /\ frame'[r] \in Frame
        BY DEF AInv, IInv, GoesOn, TypeInv
      <4> QED
        BY <4>1 DEF Frame, Pool
    <3>2. k >= frame[r].pool
      BY <1>3, <2>2, <3>1
    <3> QED
      BY <2>3, <3>2 DEF AInv, Unpublished
  <2>5. frame[r].index # 0
    BY <2>2, IndexInCall
  <2>6. ASSUME Pending(p), at'[p] \in OnFound PROVE frame[p].index # frame[r].index
    <3>1. p # r /\ at[p] \in InCall /\ frame[p].what = "create"
      BY <2>1, <2>6 DEF Pending, InCall, Dated, AtSlot, Taking
    <3> QED
      BY <2>2, <3>1 DEF AInv, CreatesDiffer
  <2>7. ASSUME NEW s \in Slot PROVE slot'[k][s].index # frame[r].index
    BY <2>4, <2>5, <2>6 DEF GoesOn, Unseen
  <2>8. ASSUME NEW q \in Process, at'[q] \in OnFound, frame'[q].pool = k
        PROVE  frame'[q].index # frame[r].index
    <3>1. CASE q # p
      BY <2>4, <2>8, <3>1 DEF GoesOn, Others, Unseen
    <3>2. CASE q = p
      <4>1. frame'[p].index = frame[p].index /\ frame'[p].pool = frame[p].pool
        BY <2>8, <3>2 DEF GoesOn, KeepsCall, SameCall, OnFound, InCall, Dated, AtSlot
      <4> QED
        BY <2>4, <2>6, <2>8, <3>2, <4>1 DEF GoesOn, Unseen
    <3> QED
      BY <3>1, <3>2
  <2> QED
    BY <2>2, <2>7, <2>8 DEF Unseen
<1> QED
  BY <1>2, <1>3 DEF Unpublished

\* An id that is a peer's stays so, for an instance keeps its ends.
LEMMA PeerStays ==
  ASSUME NEW q \in Process, IsPeer(q), frame'[q] = frame[q], InstancesGrow
  PROVE  IsPeer(q)'
  BY DEF IsPeer, InstancesGrow

\* What the others have read they may still trust, or the slot's index says otherwise.
LEMMA OthersReadRight ==
  ASSUME AInv, NEW p \in Process, GoesOn(p), wasLate => wasLate',
         NEW q \in Process, q # p, at'[q] = "check", ~wasLate',
         frame'[q].id # Null, Here(q)'.index = frame'[q].index
  PROVE  IsPeer(q)'
<1>1. at[q] = "check" /\ frame'[q] = frame[q]
  BY DEF GoesOn, Others
<1>2. /\ frame[q].pool \in Pool /\ frame[q].slot \in Slot
      /\ frame[q].index # 0 /\ frame[q].pool \in Nat
  BY <1>1, HereTyped, IndexInCall DEF AInv, IInv, AtSlot, InCall, Dated, Pool
<1>3. PICK k \in Pool, s \in Slot : k = frame[q].pool /\ s = frame[q].slot
  BY <1>2
<1>4. Here(q) = slot[k][s] /\ Here(q)' = slot'[k][s]
  BY <1>1, <1>3 DEF Here
<1>5. slot[k][s].index = frame[q].index
  <2>1. CASE slot'[k][s].index \in {slot[k][s].index, 0}
    BY <1>1, <1>2, <1>4, <2>1
  <2>2. CASE Pending(p) /\ k = frame[p].pool /\ slot'[k][s].index = frame[p].index
    <3>1. Unseen(p, k)
      BY <1>2, <1>3, <2>2 DEF AInv, Unpublished
    <3> QED
      BY <1>1, <1>3, <1>4, <2>2, <3>1 DEF Unseen, OnFound
  <2> QED
    BY <2>1, <2>2 DEF GoesOn
<1>6. IsPeer(q)
  BY <1>1, <1>4, <1>5 DEF AInv, ReadRight
<1> QED
  BY <1>1, <1>6, PeerStays DEF GoesOn

\* What AInv adds to IInv.
Answers ==
  /\ \A q \in Process : CallInv(q)
  /\ CreatesDiffer /\ Unpublished
  /\ ReadRight /\ ToldRight /\ LateKnown

LEMMA WithinCall ==
  ASSUME AInv, NEW p \in Process, GoesOn(p), wasLate => wasLate', LateKnown',
         at'[p] = "check" /\ ~wasLate' /\ frame'[p].id # Null /\ Here(p)'.index = frame'[p].index
           => IsPeer(p)',
         at'[p] = "answered" /\ ~wasLate' => IsPeer(p)'
  PROVE  Answers'
<1>1. \A q \in Process \ {p} : frame'[q] = frame[q] /\ at'[q] = at[q]
  BY DEF GoesOn, Others
<1>2. \A q \in Process : CallInv(q)'
  BY <1>1 DEF AInv, CallInv, GoesOn
<1>3. CreatesDiffer' /\ Unpublished'
  BY StaysUnpublished
<1>4. ReadRight'
  BY OthersReadRight DEF ReadRight
<1>5. ToldRight'
  <2> SUFFICES ASSUME NEW q \in Process, q # p, at'[q] = "answered", ~wasLate' PROVE IsPeer(q)'
    BY DEF ToldRight
  <2>1. IsPeer(q)
    BY <1>1 DEF AInv, ToldRight
  <2> QED
    BY <1>1, <2>1, PeerStays DEF GoesOn
<1> QED
  BY <1>2, <1>3, <1>4, <1>5 DEF Answers

\* A call begins: a new instance is in no slot yet.
LEMMA CallBegins ==
  ASSUME AInv, NEW p \in Process, Create(p) \/ Connect(p) \/ Query(p)
  PROVE  Answers'
<1>1. /\ Own(p) /\ InstancesGrow /\ TypeInv' /\ at'[p] = "resolve"
      /\ UNCHANGED <<slot, late, wasLate>>
  <2>1. Own(p) /\ TypeInv'
    BY CreateOwn, ConnectOwn, QueryOwn DEF AInv, IInv
  <2>2. InstancesGrow
    <3>1. CASE Create(p)
      BY <3>1, CreateGrows DEF AInv, IInv
    <3>2. CASE Connect(p)
      BY <3>2, ConnectOwn DEF AInv, IInv, InstancesGrow
    <3>3. CASE Query(p)
      BY <3>3, SameInstancesGrow DEF Query
    <3> QED
      BY <3>1, <3>2, <3>3
  <2>3. at'[p] = "resolve" /\ UNCHANGED <<slot, late, wasLate>>
    BY DEF Create, Connect, Query, Call, ghosts, Goto, AInv, IInv, TypeInv
  <2> QED
    BY <2>1, <2>2, <2>3
<1>2. \A q \in Process \ {p} : frame'[q] = frame[q] /\ at'[q] = at[q]
  BY <1>1 DEF Own, Others
<1>3. frame'[p].what = "create" => frame'[p].index \notin DOMAIN instances \cup {0}
  <2>1. CASE Create(p)
    <3>1. frame'[p].index = Len(instances) + 1
      <4> DEFINE i == Len(instances) + 1
      <4>1. Call(p, "create", i) /\ "create" \in Calls
        BY <2>1 DEF Create, Calls
      <4>2. i \in Nat
        BY DEF AInv, IInv, TypeInv
      <4> HIDE DEF i
      <4>3. frame'[p].index = i
        BY <4>1, <4>2, CallFrame DEF AInv, IInv
      <4> QED
        BY <4>3 DEF i
    <3>2. DOMAIN instances = 1 .. Len(instances) /\ Len(instances) \in Nat
      BY DEF AInv, IInv, TypeInv
    <3> QED
      BY <3>1, <3>2
  <2>2. CASE Connect(p) \/ Query(p)
    <3>1. PICK i \in DOMAIN instances, what \in {"connect", "queryServer", "queryClient"} :
            Call(p, what, i)
      BY <2>2 DEF Connect, Query
    <3>2. i \in Nat /\ what \in Calls
      BY InstanceTyped DEF AInv, IInv, Calls
    <3> QED
      BY <3>1, <3>2, CallFrame DEF AInv, IInv
  <2> QED
    BY <2>1, <2>2
<1>4. \A q \in Process : CallInv(q)'
  BY <1>1, <1>2 DEF AInv, CallInv, Taking
<1>5. CreatesDiffer'
  <2>1. \A q \in Process \ {p} : at'[q] \in InCall => frame'[q].index \in DOMAIN instances
    BY <1>2, IndexInCall
  <2> QED
    BY <1>2, <1>3, <2>1 DEF AInv, CreatesDiffer
<1>6. ASSUME NEW r \in Process, Pending(r)', NEW k \in Pool, k >= frame'[r].pool
      PROVE  Unseen(r, k)'
  <2>1. CASE r = p
    <3>1. frame'[p].index \notin DOMAIN instances \cup {0}
      BY <1>3, <1>6, <2>1 DEF Pending
    <3>2. \A s \in Slot : slot'[k][s].index \in {0} \cup DOMAIN instances
      BY <1>1 DEF AInv, IInv, SlotsInv, SlotInv
    <3>3. \A q \in Process : at'[q] \in OnFound => frame'[q].index \in DOMAIN instances
      BY <1>1, <1>2, IndexInCall DEF OnFound, InCall, Dated, AtSlot
    <3> QED
      BY <2>1, <3>1, <3>2, <3>3 DEF Unseen
  <2>2. CASE r # p
    <3>1. Unseen(r, k)
      BY <1>2, <1>6, <2>2 DEF Pending, AInv, Unpublished
    <3> QED
      BY <1>1, <1>2, <2>2, <3>1 DEF Unseen, OnFound
  <2> QED
    BY <2>1, <2>2
<1>7. ASSUME NEW q \in Process, IsPeer(q), q # p PROVE IsPeer(q)'
  BY <1>1, <1>2, <1>7, PeerStays
<1>8. ReadRight'
  BY <1>1, <1>2, <1>7 DEF AInv, ReadRight, Here
<1>9. ToldRight'
  BY <1>1, <1>2, <1>7 DEF AInv, ToldRight
<1>10. LateKnown'
  BY <1>1 DEF AInv, LateKnown
<1> QED
  BY <1>4, <1>5, <1>6, <1>8, <1>9, <1>10 DEF Answers, Unpublished

\* Every step keeps the answers right.
LEMMA NextAnswers ==
  ASSUME AInv, [Next]_vars
  PROVE  Answers'
<1>1. CASE UNCHANGED vars
  BY <1>1 DEF vars, AInv, Answers, CallInv, CreatesDiffer, Unpublished, Pending, Unseen, ReadRight,
              ToldRight, IsPeer, Here, LateKnown
<1>2. ASSUME NEW p \in Process, Create(p) \/ Connect(p) \/ Query(p)
      PROVE  Answers'
  BY <1>2, CallBegins
<1>3. ASSUME NEW p \in Process,
             \/ Die(p) \/ Resolve(p) \/ Scan(p) \/ Scanned(p) \/ Renew(p) \/ Claim(p) \/ Publish(p)
             \/ Replace(p)
      PROVE  Answers'
  <2>1. GoesOn(p)
    BY <1>3, DieGoesOn, ResolveGoesOn, ScanGoesOn, ExchangeGoesOn, WriteGoesOn
  <2>2. UNCHANGED <<late, wasLate>>
    BY <1>3 DEF Die, Resolve, Scan, Scanned, Renew, Claim, Publish, Replace, ghosts
  <2>3. at'[p] \notin {"check", "answered"}
    <3>1. CASE Die(p) \/ Replace(p)
      BY <3>1 DEF Die, Replace, Goto, AInv, IInv, TypeInv
    <3>2. CASE Resolve(p)
      BY <3>2, ResolveOwn DEF AInv, IInv
    <3>3. CASE Scan(p)
      BY <3>3, ScanOwn DEF AInv, IInv
    <3>4. CASE Scanned(p)
      BY <3>4, ScannedOwn DEF AInv, IInv
    <3>5. CASE Renew(p) \/ Claim(p) \/ Publish(p)
      <4>1. /\ at[p] \in AtSlot /\ UNCHANGED <<exists, generation, instances>>
            /\ \E old : Exchange(p, old, frame[p].index)
        BY <3>5 DEF Renew, Claim, Publish, AtSlot
      <4>2. frame[p].index \in Nat
        BY <4>1, HereTyped DEF AInv, IInv
      <4> QED
        BY <4>1, <4>2, ExchangeOwn DEF AInv, IInv
    <3> QED
      BY <1>3, <3>1, <3>2, <3>3, <3>4, <3>5
  <2>4. LateKnown'
    BY <2>2 DEF AInv, LateKnown
  <2> QED
    BY <2>1, <2>2, <2>3, <2>4, WithinCall
<1>4. ASSUME NEW p \in Process, ClearServer(p) \/ ClearClient(p)
      PROVE  Answers'
  <2>1. GoesOn(p)
    BY <1>4, WriteGoesOn
  <2>2. at'[p] \in {"clearClient", "publish"}
    BY <1>4 DEF ClearServer, ClearClient, Goto, AInv, IInv, TypeInv
  <2>3. UNCHANGED wasLate /\ LateKnown'
    BY <1>4 DEF ClearServer, ClearClient, AInv, LateKnown
  <2> QED
    BY <2>1, <2>2, <2>3, WithinCall
<1>5. ASSUME NEW p \in Process, Store(p) PROVE Answers'
  <2>1. GoesOn(p) /\ at'[p] = "idle"
    BY <1>5, StoreGoesOn, StoreOwn DEF AInv, IInv
  <2>2. (wasLate => wasLate') /\ LateKnown'
    BY <1>5 DEF Store, AInv, LateKnown
  <2> QED
    BY <2>1, <2>2, WithinCall
<1>6. ASSUME NEW p \in Process, Read(p) PROVE Answers'
  <2>1. GoesOn(p)
    BY <1>6, ReadGoesOn
  <2>2. /\ at'[p] = "check" /\ SameCall(p) /\ frame'[p].slot = frame[p].slot
        /\ frame'[p].id = IF frame[p].what = "queryServer" THEN Here(p).server ELSE Here(p).client
        /\ at[p] = "read" /\ UNCHANGED <<slot, instances, late, wasLate>>
    BY <1>6, ReadOwn DEF AInv, IInv, Read, ghosts
  <2>3. ASSUME ~wasLate', frame'[p].id # Null, Here(p)'.index = frame'[p].index
        PROVE  IsPeer(p)'
    <3>1. /\ frame[p].pool \in Pool /\ frame[p].slot \in Slot
          /\ frame[p].index \in DOMAIN instances /\ frame[p].index # 0
      BY <2>2, HereTyped, IndexInCall DEF AInv, IInv, AtSlot, InCall, Dated
    <3>2. late = {} /\ Here(p)' = Here(p)
      BY <2>2, <2>3 DEF AInv, LateKnown, Here, SameCall
    <3>3. LET i == instances[frame[p].index] IN
            Here(p).server \in {Null, i.server} /\ Here(p).client \in {Null, i.client}
      BY <2>2, <2>3, <3>1, <3>2 DEF AInv, IInv, SlotsInv, SlotInv, Here, SameCall
    <3> QED
      BY <2>2, <2>3, <3>1, <3>3 DEF IsPeer, SameCall
  <2>4. LateKnown'
    BY <2>2 DEF AInv, LateKnown
  <2> QED
    BY <2>1, <2>2, <2>3, <2>4, WithinCall
<1>7. ASSUME NEW p \in Process, Check(p) PROVE Answers'
  <2>1. GoesOn(p)
    BY <1>7, ReadGoesOn
  <2>2. /\ at'[p] \in {"idle", "resolve", "read", "answered"}
        /\ at'[p] = "answered" =>
             frame' = frame /\ Here(p).index = frame[p].index /\ frame[p].id # Null
        /\ at[p] = "check" /\ UNCHANGED <<instances, late, wasLate>>
    BY <1>7, CheckOwn DEF AInv, IInv, Check, ghosts
  <2>3. at'[p] = "answered" /\ ~wasLate' => IsPeer(p)'
    BY <2>2 DEF AInv, ReadRight, IsPeer
  <2>4. LateKnown'
    BY <2>2 DEF AInv, LateKnown
  <2> QED
    BY <2>1, <2>2, <2>3, <2>4, WithinCall
<1> QED
  BY <1>1, <1>2, <1>3, <1>4, <1>5, <1>6, <1>7 DEF Next

\* The invariant holds whatever the number of processes, slots, instances and accesses,
\* and wherever processes die.
THEOREM AnswersInvariance == Spec => []AInv
<1>1. Init => AInv
  BY Initially DEF Init, AInv, CallInv, CreatesDiffer, InCall, Dated, AtSlot, Unpublished, Pending, Taking,
                   ReadRight, ToldRight, LateKnown
<1>2. AInv /\ [Next]_vars => AInv'
  BY NextLocal, NextSlots, NextAnswers DEF AInv, IInv, Answers
<1> QED
  BY <1>1, <1>2, PTL DEF Spec

\* A process that asks for its peer is told the right one or none, though slots are
\* replaced while it looks, as long as no id came late.
THEOREM RightPeer == Spec => []AnswersRight
<1>1. AInv => AnswersRight
  BY DEF AInv, ToldRight, IsPeer, AnswersRight
<1> QED
  BY <1>1, AnswersInvariance, PTL

-----------------------------------------------------------------------------
(* Fls: the inductive invariant.                                           *)

USE RootAssumption

\* The nodes on the list, and its first one, which FlsFree has in item while it empties the list.
Listed == {t \in Thread : node[t].prev # Null}
First == IF pc[Root] = "freeCall" THEN item ELSE node[Root].next
Holding == {"setLink", "setUnlock", "exitUnlink", "exitUnlock"}

Everywhere == Thread \cup {Root}
Places == {"idle", "freeLock", "freeTake", "freeCall", "running", "setLock", "setLink", "setUnlock",
"exitLock",
           "exitUnlink", "exitUnlock", "exitCall", "exitRelease", "gone"}
Node == [next : Thread \cup {Null}, prev : Thread \cup {Root, Null}, data : BOOLEAN]
Nodes == node \in [Everywhere -> Node]

StorageTyping ==
  /\ used \in BOOLEAN /\ locked \in BOOLEAN /\ pfnCallback \in BOOLEAN /\ allocated \in BOOLEAN
  /\ Nodes
  /\ hasBlock \in [Thread -> BOOLEAN] /\ uRef \in [Thread -> Int]
  /\ pc \in [Everywhere -> Places]
  /\ item \in Thread \cup {Null}
  /\ owed \in [Thread -> {"nothing", "call", "called twice"}]

\* The index is in use from FlsAlloc to FlsFree; the lock has one holder, and none
\* once FlsFree has seen it free.
LockInv ==
  /\ used <=> allocated /\ pc[Root] = "idle"
  /\ pc[Root] # "idle" => allocated
  /\ \A t \in Thread : pc[t] \in Holding => locked
  /\ \A t, u \in Thread : pc[t] \in Holding /\ pc[u] \in Holding => t = u
  /\ pc[Root] \in {"freeTake", "freeCall"} \/ ~allocated => \A t \in Thread : pc[t] \notin Holding
  /\ pc[Root] \in {"idle", "freeLock", "freeTake", "freeCall"}

\* Where a thread is, its block and its node.
Placed(t) ==
  /\ pc[t] \notin {"idle", "freeLock", "freeTake", "freeCall"}
  /\ pc[t] \in Storage!Linking => t \notin Listed
  /\ pc[t] = "exitUnlink" \/ (pc[t] = "exitLock" /\ used) => t \in Listed
  /\ pc[t] \in {"exitLock", "exitUnlink", "exitUnlock", "exitCall", "exitRelease"} => hasBlock[t]
  /\ node[t].data => t \in Listed \/ pc[t] \in {"exitUnlock", "exitCall"}
  /\ owed[t] # "called twice" /\ (owed[t] = "call" <=> node[t].data)
ThreadInv == \A t \in Thread : Placed(t)

\* A thread's block has a reference of its own and one for the list.
OnList(t) == t \in Listed \/ pc[t] \in Storage!Linking
Counted(t) ==
  /\ hasBlock[t] /\ OnList(t) => uRef[t] = 2
  /\ (hasBlock[t] /\ ~OnList(t)) \/ (~hasBlock[t] /\ OnList(t)) => uRef[t] = 1
  /\ ~hasBlock[t] /\ ~OnList(t) => uRef[t] = 0
CountInv == \A t \in Thread : Counted(t)

\* The list is doubly linked, and every node that has a predecessor is on it.
ListInv ==
  /\ First # Null => First \in Listed
  /\ \A t \in Listed : node[t].next # Null => node[t].next \in Listed /\ node[node[t].next].prev = t
  /\ \A t \in Listed :
       t # First /\ node[t].prev # Root => node[t].prev \in Listed /\ node[node[t].prev].next = t
  /\ \A t \in Listed : t # First => node[t].prev # Root
  /\ First # Null => node[First].prev \notin Listed

\* Root is before the first one, except while FlsFree empties the list, and the list
\* is empty when the index is free.
EndsInv ==
  /\ First # Null /\ pc[Root] # "freeCall" => node[First].prev = Root
  /\ ~allocated => Listed = {}
  /\ pc[Root] = "freeCall" => node[Root].next = Null

\* It ends, and every node on it is reached from the first.
ClosedFrom(S) ==
  /\ First # Null => First \in S
  /\ \A t \in S \cap Listed : node[t].next # Null => node[t].next \in S
ReachInv == \A S \in SUBSET Thread : ClosedFrom(S) => Listed \subseteq S

StorageInv == StorageTyping /\ LockInv /\ ThreadInv /\ CountInv /\ ListInv /\ EndsInv /\ ReachInv

-----------------------------------------------------------------------------
(* What a step does, place by place.                                       *)

\* The links and the value of a node stay as they are.
Same(n) == node'[n].next = node[n].next /\ node'[n].prev = node[n].prev /\ node'[n].data = node[n].data
Moves(t, where) == pc'[t] = where /\ \A n \in Everywhere : n # t => pc'[n] = pc[n]
Drops(t) == uRef'[t] = uRef[t] - 1 /\ \A n \in Thread : n # t => uRef'[n] = uRef[n]
CalledWith(t, pfn) ==
  /\ owed'[t] = IF ~node[t].data THEN owed[t]
                ELSE IF ~pfn \/ owed[t] = "call" THEN "nothing" ELSE "called twice"
  /\ \A n \in Thread : n # t => owed'[n] = owed[n]
Linked(t) ==
  /\ \A n \in Everywhere :
       node'[n].next = IF n = Root THEN t ELSE IF n = t THEN node[Root].next ELSE node[n].next
  /\ \A n \in Everywhere :
       node'[n].prev = IF n = t THEN Root ELSE IF n = node[Root].next THEN t ELSE node[n].prev
  /\ \A n \in Everywhere : node'[n].data = IF n = t THEN TRUE ELSE node[n].data
Unlinked(t) ==
  /\ \A n \in Everywhere : node'[n].next =
       IF n = t THEN Null ELSE IF n = node[t].prev THEN node[t].next ELSE node[n].next
  /\ \A n \in Everywhere : node'[n].prev =
       IF n = t THEN Null ELSE IF n = node[t].next THEN node[t].prev ELSE node[n].prev
  /\ \A n \in Everywhere : node'[n].data = node[n].data

FlsAllocDoes ==
  /\ pc[Root] = "idle" /\ ~allocated /\ allocated' /\ used' /\ ~locked' /\ pfnCallback' \in BOOLEAN
  /\ (\A t \in Thread : pc[t] # "exitLock") /\ Nodes' /\ node'[Root].next = Null /\ (\A n \in Thread : Same(n))
  /\ UNCHANGED <<hasBlock, uRef, pc, item, owed>>
FlsFreeDoes ==
  /\ pc[Root] = "idle" /\ used /\ ~used' /\ Moves(Root, "freeLock")
  /\ UNCHANGED <<locked, pfnCallback, allocated, node, hasBlock, uRef, item, owed>>
FreeLockDoes ==
  /\ pc[Root] = "freeLock" /\ ~locked /\ ~locked' /\ Moves(Root, "freeTake")
  /\ UNCHANGED <<used, pfnCallback, allocated, node, hasBlock, uRef, item, owed>>
FreeTakeDoes ==
  /\ pc[Root] = "freeTake" /\ Moves(Root, "freeCall") /\ item' = node[Root].next
  /\ Nodes' /\ node'[Root].next = Null /\ (\A n \in Thread : Same(n))
  /\ UNCHANGED <<used, locked, pfnCallback, allocated, hasBlock, uRef, owed>>
FreeCallDoes ==
  /\ pc[Root] = "freeCall" /\ item \in Thread /\ item' = node[item].next
  /\ Nodes' /\ (\A n \in Everywhere : n # item => Same(n))
  /\ node'[item].next = Null /\ node'[item].prev = Null /\ ~node'[item].data
  /\ Drops(item) /\ CalledWith(item, pfnCallback)
  /\ UNCHANGED <<used, locked, pfnCallback, allocated, hasBlock, pc>>
FreeDoneDoes ==
  /\ pc[Root] = "freeCall" /\ item = Null /\ ~allocated' /\ Moves(Root, "idle")
  /\ UNCHANGED <<used, locked, pfnCallback, node, hasBlock, uRef, item, owed>>
SetAgainDoes(t) ==
  /\ pc[t] = "running" /\ t \in Listed /\ Nodes' /\ (\A n \in Everywhere : n # t => Same(n))
  /\ node'[t].next = node[t].next /\ node'[t].prev = node[t].prev /\ (owed'[t] = "call" <=> node'[t].data)
  /\ owed'[t] \in {"nothing", "call"} /\ (\A n \in Thread : n # t => owed'[n] = owed[n])
  /\ UNCHANGED <<used, locked, pfnCallback, allocated, hasBlock, uRef, pc, item>>
SetFirstDoes(t) ==
  /\ pc[t] = "running" /\ t \notin Listed /\ Moves(t, "setLock") /\ hasBlock'[t]
  /\ uRef'[t] = IF hasBlock[t] THEN uRef[t] + 1 ELSE 2
  /\ \A n \in Thread : n # t => uRef'[n] = uRef[n] /\ hasBlock'[n] = hasBlock[n]
  /\ UNCHANGED <<used, locked, pfnCallback, allocated, node, item, owed>>
SetLockDoes(t) ==
  /\ pc[t] = "setLock"
  /\ \/ used /\ ~locked /\ locked' /\ Moves(t, "setLink") /\ uRef' = uRef
     \/ ~used /\ locked' = locked /\ Moves(t, "running") /\ Drops(t)
  /\ UNCHANGED <<used, pfnCallback, allocated, node, hasBlock, item, owed>>
SetLinkDoes(t) ==
  /\ pc[t] = "setLink" /\ Moves(t, "setUnlock") /\ Nodes' /\ Linked(t)
  /\ owed'[t] = "call" /\ (\A n \in Thread : n # t => owed'[n] = owed[n])
  /\ UNCHANGED <<used, locked, pfnCallback, allocated, hasBlock, uRef, item>>
SetUnlockDoes(t) ==
  /\ pc[t] = "setUnlock" /\ Moves(t, "running") /\ ~locked'
  /\ UNCHANGED <<used, pfnCallback, allocated, node, hasBlock, uRef, item, owed>>
ExitDoes(t) ==
  /\ pc[t] = "running"
  /\ \/ Moves(t, "gone")
     \/ hasBlock[t] /\ node[t].data /\ Moves(t, "exitLock")
     \/ hasBlock[t] /\ Moves(t, "exitRelease")
  /\ UNCHANGED <<used, locked, pfnCallback, allocated, node, hasBlock, uRef, item, owed>>
ExitLockDoes(t) ==
  /\ pc[t] = "exitLock"
  /\ \/ used /\ ~locked /\ locked' /\ Moves(t, "exitUnlink")
     \/ ~used /\ locked' = locked /\ Moves(t, "exitRelease")
  /\ UNCHANGED <<used, pfnCallback, allocated, node, hasBlock, uRef, item, owed>>
ExitUnlinkDoes(t) ==
  /\ pc[t] = "exitUnlink" /\ Moves(t, "exitUnlock") /\ Nodes' /\ Unlinked(t)
  /\ UNCHANGED <<used, locked, pfnCallback, allocated, hasBlock, uRef, item, owed>>
ExitUnlockDoes(t) ==
  /\ pc[t] = "exitUnlock" /\ Moves(t, "exitCall") /\ ~locked'
  /\ UNCHANGED <<used, pfnCallback, allocated, node, hasBlock, uRef, item, owed>>
ExitCallDoes(t) ==
  /\ pc[t] = "exitCall" /\ Moves(t, "exitRelease") /\ Drops(t) /\ CalledWith(t, TRUE)
  /\ Nodes' /\ (\A n \in Everywhere : n # t => Same(n))
  /\ node'[t].next = node[t].next /\ node'[t].prev = node[t].prev /\ ~node'[t].data
  /\ UNCHANGED <<used, locked, pfnCallback, allocated, hasBlock, item>>
ExitReleaseDoes(t) ==
  /\ pc[t] = "exitRelease" /\ Moves(t, "gone") /\ Drops(t) /\ ~hasBlock'[t]
  /\ \A n \in Thread : n # t => hasBlock'[n] = hasBlock[n]
  /\ UNCHANGED <<used, locked, pfnCallback, allocated, node, item, owed>>

-----------------------------------------------------------------------------
(* Each action keeps the types and does what the operator above says.      *)

LEMMA NodeNext ==
  ASSUME NEW r \in Node, NEW v \in Thread \cup {Null}, NEW s, s = [r EXCEPT !.next = v]
  PROVE  s \in Node /\ s.next = v /\ s.prev = r.prev /\ s.data = r.data
  BY DEF Node

LEMMA NodeData ==
  ASSUME NEW r \in Node, NEW v \in BOOLEAN, NEW s, s = [r EXCEPT !.data = v]
  PROVE  s \in Node /\ s.next = r.next /\ s.prev = r.prev /\ s.data = v
  BY DEF Node

LEMMA AllocNodes ==
  ASSUME Nodes, Storage!FlsAlloc
  PROVE  Nodes' /\ node'[Root].next = Null /\ (\A n \in Thread : Same(n))
<1> DEFINE r == [node[Root] EXCEPT !.next = Null]
<1>1. node' = [node EXCEPT ![Root] = r]
  BY DEF Storage!FlsAlloc
<1>2. node[Root] \in Node
  BY DEF Nodes, Everywhere
<1>3. r \in Node /\ r.next = Null
  BY <1>2, NodeNext
<1> HIDE DEF r
<1> QED BY <1>1, <1>3 DEF Nodes, Everywhere, Same

LEMMA TakeNodes ==
  ASSUME Nodes, Storage!FreeTake
  PROVE  Nodes' /\ node'[Root].next = Null /\ (\A n \in Thread : Same(n))
<1> DEFINE r == [node[Root] EXCEPT !.next = Null]
<1>1. node' = [node EXCEPT ![Root] = r]
  BY DEF Storage!FreeTake
<1>2. node[Root] \in Node
  BY DEF Nodes, Everywhere
<1>3. r \in Node /\ r.next = Null
  BY <1>2, NodeNext
<1> HIDE DEF r
<1> QED BY <1>1, <1>3 DEF Nodes, Everywhere, Same

LEMMA CallNodes ==
  ASSUME Nodes, item \in Thread, Storage!FreeCall
  PROVE  /\ Nodes' /\ \A n \in Everywhere : n # item => Same(n)
         /\ node'[item].next = Null /\ node'[item].prev = Null /\ ~node'[item].data
<1>1. node' = [node EXCEPT ![item] = Storage!Free]
  BY DEF Storage!FreeCall
<1>2. Storage!Free \in Node /\ Storage!Free.next = Null /\ Storage!Free.prev = Null /\ ~Storage!Free.data
  BY DEF Storage!Free, Node
<1> QED BY <1>1, <1>2 DEF Nodes, Everywhere, Same

LEMMA DataNodes ==
  ASSUME Nodes, NEW t \in Thread, NEW d \in BOOLEAN, node' = [node EXCEPT ![t].data = d]
  PROVE  /\ Nodes' /\ \A n \in Everywhere : n # t => Same(n)
         /\ node'[t].next = node[t].next /\ node'[t].prev = node[t].prev /\ node'[t].data = d
<1> DEFINE r == [node[t] EXCEPT !.data = d]
<1>1. node' = [node EXCEPT ![t] = r]
  OBVIOUS
<1>2. node[t] \in Node
  BY DEF Nodes, Everywhere
<1>3. r \in Node /\ r.next = node[t].next /\ r.prev = node[t].prev /\ r.data = d
  BY <1>2, NodeData
<1> HIDE DEF r
<1> QED BY <1>1, <1>3 DEF Nodes, Everywhere, Same

LEMMA LinkNodes ==
  ASSUME Nodes, NEW t \in Thread, node[Root].next # t, Storage!SetLink(t)
  PROVE  Nodes' /\ Linked(t)
<1> DEFINE next == node[Root].next
           new(n) == [next |-> CASE n = Root -> t [] n = t -> next [] n \notin {Root, t} -> node[n].next,
                      prev |-> CASE n = t -> Root [] n = next -> t [] n \notin {t, next} -> node[n].prev,
                      data |-> IF n = t THEN TRUE ELSE node[n].data]
<1>1. node' = [n \in Everywhere |-> new(n)]
  BY DEF Storage!SetLink, Nodes
<1>2. \A n \in Everywhere : node[n].next \in Thread \cup {Null} /\ node[n].prev \in Thread \cup {Root, Null}
                            /\ node[n].data \in BOOLEAN
  BY DEF Nodes, Node
<1>4. ASSUME NEW n \in Everywhere
      PROVE  /\ new(n).next = IF n = Root THEN t ELSE IF n = t THEN next ELSE node[n].next
             /\ new(n).prev = IF n = t THEN Root ELSE IF n = next THEN t ELSE node[n].prev
             /\ new(n).data = IF n = t THEN TRUE ELSE node[n].data
             /\ new(n) \in Node
  <2>1. Root \in Everywhere /\ t \in Everywhere /\ next \in Thread \cup {Null} /\ t # Root
    BY <1>2 DEF Everywhere
  <2> DEFINE a == CASE n = Root -> t [] n = t -> next [] n \notin {Root, t} -> node[n].next
             b == CASE n = t -> Root [] n = next -> t [] n \notin {t, next} -> node[n].prev
             c == IF n = t THEN TRUE ELSE node[n].data
  <2>2. a = (IF n = Root THEN t ELSE IF n = t THEN next ELSE node[n].next)
    BY <2>1
  <2>3. b = (IF n = t THEN Root ELSE IF n = next THEN t ELSE node[n].prev)
    OBVIOUS
  <2>4. new(n) = [next |-> a, prev |-> b, data |-> c]
    OBVIOUS
  <2>5. a \in Thread \cup {Null} /\ b \in Thread \cup {Root, Null} /\ c \in BOOLEAN
    BY <1>2, <2>1, <2>2, <2>3
  <2> HIDE DEF a, b, c
  <2>6. new(n) \in Node /\ new(n).next = a /\ new(n).prev = b /\ new(n).data = c
    BY <2>4, <2>5 DEF Node
  <2> QED BY <2>2, <2>3, <2>6 DEF c
<1> HIDE DEF new
<1> QED BY <1>1, <1>4 DEF Nodes, Linked

LEMMA UnlinkNodes ==
  ASSUME Nodes, NEW t \in Thread, Storage!ExitUnlink(t)
  PROVE  Nodes' /\ Unlinked(t)
<1> DEFINE a(n) == IF n = t THEN Null ELSE IF n = node[t].prev THEN node[t].next ELSE node[n].next
           b(n) == IF n = t THEN Null ELSE IF n = node[t].next THEN node[t].prev ELSE node[n].prev
           new(n) == [node[n] EXCEPT !.next = a(n), !.prev = b(n)]
<1>1. node' = [n \in Everywhere |-> new(n)]
  BY DEF Storage!ExitUnlink, Nodes
<1>2. \A n \in Everywhere : node[n] \in Node /\ node[n].next \in Thread \cup {Null}
                            /\ node[n].prev \in Thread \cup {Root, Null}
  BY DEF Nodes, Node
<1>3. ASSUME NEW n \in Everywhere
      PROVE  new(n) \in Node /\ new(n).next = a(n) /\ new(n).prev = b(n) /\ new(n).data = node[n].data
  <2>1. a(n) \in Thread \cup {Null} /\ b(n) \in Thread \cup {Root, Null}
    BY <1>2 DEF Everywhere
  <2>2. node[n] \in Node
    BY <1>2
  <2> HIDE DEF a, b
  <2>3. PICK v \in Thread \cup {Null}, p \in Thread \cup {Root, Null}, r \in Node :
          v = a(n) /\ p = b(n) /\ r = node[n]
    BY <2>1, <2>2
  <2>4. new(n) = [r EXCEPT !.next = v, !.prev = p]
    BY <2>3
  <2> HIDE DEF new
  <2>5. new(n) \in Node /\ new(n).next = v /\ new(n).prev = p /\ new(n).data = r.data
    BY <2>4 DEF Node
  <2> QED BY <2>3, <2>5
<1> HIDE DEF new
<1> QED BY <1>1, <1>3 DEF Nodes, Unlinked

LEMMA FlsAllocEffect ==
  ASSUME StorageTyping, ~broken', Storage!FlsAlloc
  PROVE  /\ StorageTyping'
         /\ FlsAllocDoes
<1>1. Nodes' /\ node'[Root].next = Null /\ (\A n \in Thread : Same(n))
  BY AllocNodes DEF StorageTyping
<1> HIDE DEF Nodes
<1>2. /\ StorageTyping'
      /\ pc[Root] = "idle" /\ ~allocated /\ allocated' /\ used' /\ ~locked' /\ pfnCallback' \in BOOLEAN
      /\ (\A t \in Thread : pc[t] # "exitLock")
      /\ UNCHANGED <<hasBlock, uRef, pc, item, owed>>
  BY <1>1 DEF StorageTyping, Listed, Moves, Drops, CalledWith, Storage!bits, Storage!refs, Everywhere,
     Places, Storage!FlsAlloc
<1> QED BY <1>1, <1>2 DEF FlsAllocDoes

LEMMA FlsFreeEffect ==
  ASSUME StorageTyping, ~broken', Storage!FlsFree
  PROVE  /\ StorageTyping'
         /\ FlsFreeDoes
  BY DEF StorageTyping, Nodes, Listed, Moves, Drops, CalledWith, Storage!bits, Storage!refs, Places,
     Everywhere, Storage!FlsFree, Storage!Goto, FlsFreeDoes

LEMMA FreeLockEffect ==
  ASSUME StorageTyping, ~broken', Storage!FreeLock
  PROVE  /\ StorageTyping'
         /\ FreeLockDoes
  BY DEF StorageTyping, Nodes, Listed, Moves, Drops, CalledWith, Storage!bits, Storage!refs, Places,
     Everywhere, Storage!FreeLock, Storage!Goto, FreeLockDoes

LEMMA FreeTakeEffect ==
  ASSUME StorageTyping, ~broken', Storage!FreeTake
  PROVE  /\ StorageTyping'
         /\ FreeTakeDoes
<1>1. Nodes' /\ node'[Root].next = Null /\ (\A n \in Thread : Same(n))
  BY TakeNodes DEF StorageTyping
<1>3. node[Root].next \in Thread \cup {Null}
  BY DEF StorageTyping, Nodes, Node, Everywhere
<1> HIDE DEF Nodes
<1>2. /\ StorageTyping'
      /\ pc[Root] = "freeTake" /\ Moves(Root, "freeCall") /\ item' = node[Root].next
      /\ UNCHANGED <<used, locked, pfnCallback, allocated, hasBlock, uRef, owed>>
  BY <1>1, <1>3 DEF StorageTyping, Listed, Moves, Drops, CalledWith, Storage!bits, Storage!refs, Everywhere,
     Places, Storage!FreeTake, Storage!Goto
<1> QED BY <1>1, <1>2 DEF FreeTakeDoes

LEMMA FreeCallEffect ==
  ASSUME StorageTyping, ~broken', Storage!FreeCall
  PROVE  /\ StorageTyping'
         /\ FreeCallDoes
<1>1. item \in Thread /\ item' = node[item].next
  BY DEF StorageTyping, Storage!FreeCall
<1>2. /\ Nodes' /\ (\A n \in Everywhere : n # item => Same(n))
      /\ node'[item].next = Null /\ node'[item].prev = Null /\ ~node'[item].data
  BY <1>1, CallNodes DEF StorageTyping
<1>3. node[item].next \in Thread \cup {Null} /\ node[item].data \in BOOLEAN
  BY <1>1 DEF StorageTyping, Nodes, Node, Everywhere
<1>4. CalledWith(item, pfnCallback) /\ owed' \in [Thread -> {"nothing", "call", "called twice"}]
  BY <1>1, <1>3 DEF StorageTyping, CalledWith, Storage!FreeCall, Storage!CallBack
<1>5. Drops(item) /\ uRef' \in [Thread -> Int]
  <2>1. uRef \in [Thread -> Int]
    BY DEF StorageTyping
  <2> QED BY <1>1, <2>1 DEF Drops, Storage!FreeCall, Storage!Release
<1>6. pc[Root] = "freeCall" /\ UNCHANGED <<used, locked, pfnCallback, allocated, hasBlock, pc>>
  BY DEF Storage!FreeCall, Storage!Release, Storage!bits
<1> QED BY <1>1, <1>2, <1>3, <1>4, <1>5, <1>6 DEF StorageTyping, FreeCallDoes

LEMMA FreeDoneEffect ==
  ASSUME StorageTyping, ~broken', Storage!FreeDone
  PROVE  /\ StorageTyping'
         /\ FreeDoneDoes
  BY DEF StorageTyping, Nodes, Listed, Moves, Drops, CalledWith, Storage!bits, Storage!refs, Places,
     Everywhere, Storage!FreeDone, Storage!Goto, FreeDoneDoes

LEMMA SetAgainEffect ==
  ASSUME StorageTyping, ~broken', NEW t \in Thread, Storage!SetAgain(t)
  PROVE  /\ StorageTyping'
         /\ SetAgainDoes(t)
<1>1. PICK d \in BOOLEAN : node' = [node EXCEPT ![t].data = d]
                           /\ owed' = [owed EXCEPT ![t] = IF d THEN "call" ELSE "nothing"]
  BY DEF Storage!SetAgain
<1>2. /\ Nodes' /\ (\A n \in Everywhere : n # t => Same(n))
      /\ node'[t].next = node[t].next /\ node'[t].prev = node[t].prev /\ node'[t].data = d
  BY <1>1, DataNodes DEF StorageTyping
<1>3. /\ (owed'[t] = "call" <=> d) /\ owed'[t] \in {"nothing", "call"}
      /\ \A n \in Thread : n # t => owed'[n] = owed[n]
      /\ owed' \in [Thread -> {"nothing", "call", "called twice"}]
  BY <1>1 DEF StorageTyping
<1>4. pc[t] = "running" /\ t \in Listed /\ UNCHANGED <<used, locked, pfnCallback, allocated, hasBlock, uRef,
pc, item>>
  BY DEF Storage!SetAgain, Listed, Storage!bits, Storage!refs
<1> QED BY <1>2, <1>3, <1>4 DEF StorageTyping, SetAgainDoes

LEMMA SetFirstEffect ==
  ASSUME StorageTyping, ~broken', NEW t \in Thread, Storage!SetFirst(t)
  PROVE  /\ StorageTyping'
         /\ SetFirstDoes(t)
<1>1. /\ pc \in [Everywhere -> Places]
      /\ uRef \in [Thread -> Int] /\ hasBlock \in [Thread -> BOOLEAN] /\ t \in Everywhere
  BY DEF StorageTyping, Everywhere
<1>2. pc[t] = "running" /\ Moves(t, "setLock") /\ pc' \in [Everywhere -> Places]
  BY <1>1 DEF Moves, Places, Everywhere, Storage!SetFirst, Storage!Goto
<1>3. /\ hasBlock'[t] /\ uRef'[t] = IF hasBlock[t] THEN uRef[t] + 1 ELSE 2
      /\ \A n \in Thread : n # t => uRef'[n] = uRef[n] /\ hasBlock'[n] = hasBlock[n]
      /\ uRef' \in [Thread -> Int] /\ hasBlock' \in [Thread -> BOOLEAN]
  BY <1>1 DEF Storage!SetFirst
<1>4. t \notin Listed /\ UNCHANGED <<used, locked, pfnCallback, allocated, node, item, owed>>
  BY DEF Listed, Storage!SetFirst, Storage!bits
<1> QED BY <1>2, <1>3, <1>4 DEF StorageTyping, Nodes, SetFirstDoes

LEMMA SetLockEffect ==
  ASSUME StorageTyping, ~broken', NEW t \in Thread, Storage!SetLock(t)
  PROVE  /\ StorageTyping'
         /\ SetLockDoes(t)
<1>1. /\ pc \in [Everywhere -> Places]
      /\ uRef \in [Thread -> Int] /\ t \in Everywhere /\ used \in BOOLEAN /\ locked \in BOOLEAN
  BY DEF StorageTyping, Everywhere
<1>2. pc[t] = "setLock" /\ UNCHANGED <<used, pfnCallback, allocated, node, hasBlock, item, owed>>
  BY DEF Storage!SetLock, Storage!Lock, Storage!Release, Storage!refs
<1>3. CASE used
  <2>1. ~locked /\ locked' = TRUE /\ Moves(t, "setLink") /\ pc' \in [Everywhere -> Places] /\ uRef' = uRef
    BY <1>1, <1>3 DEF Moves, Places, Everywhere, Storage!SetLock, Storage!Lock, Storage!Goto, Storage!refs
  <2> QED BY <1>2, <1>3, <2>1 DEF StorageTyping, Nodes, SetLockDoes
<1>4. CASE ~used
  <2>1. locked' = locked /\ Moves(t, "running") /\ pc' \in [Everywhere -> Places]
    BY <1>1, <1>4 DEF Moves, Places, Everywhere, Storage!SetLock, Storage!Lock, Storage!Goto
  <2>2. Drops(t) /\ uRef' \in [Thread -> Int]
    BY <1>1, <1>4 DEF Drops, Storage!SetLock, Storage!Release
  <2> QED BY <1>2, <1>4, <2>1, <2>2 DEF StorageTyping, Nodes, SetLockDoes
<1> QED BY <1>3, <1>4 DEF SetLockDoes

LEMMA SetLinkEffect ==
  ASSUME StorageTyping, ~broken', NEW t \in Thread, Storage!SetLink(t), node[Root].next # t
  PROVE  /\ StorageTyping'
         /\ SetLinkDoes(t)
<1>1. Nodes' /\ Linked(t)
  BY LinkNodes DEF StorageTyping, Linked
<1> HIDE DEF Nodes
<1>2. /\ StorageTyping'
      /\ pc[t] = "setLink" /\ Moves(t, "setUnlock")
      /\ owed'[t] = "call" /\ (\A n \in Thread : n # t => owed'[n] = owed[n])
      /\ UNCHANGED <<used, locked, pfnCallback, allocated, hasBlock, uRef, item>>
  BY <1>1 DEF StorageTyping, Listed, Moves, Drops, CalledWith, Storage!bits, Storage!refs, Everywhere,
     Places, Storage!SetLink, Storage!Goto
<1> QED BY <1>1, <1>2 DEF SetLinkDoes

LEMMA SetUnlockEffect ==
  ASSUME StorageTyping, ~broken', NEW t \in Thread, Storage!SetUnlock(t)
  PROVE  /\ StorageTyping'
         /\ SetUnlockDoes(t)
  BY DEF StorageTyping, Nodes, Listed, Moves, Drops, CalledWith, Storage!bits, Storage!refs, Places,
     Everywhere, Storage!SetUnlock, Storage!Unlock, Storage!Goto, SetUnlockDoes

LEMMA ExitEffect ==
  ASSUME StorageTyping, ~broken', NEW t \in Thread, Storage!Exit(t)
  PROVE  /\ StorageTyping'
         /\ ExitDoes(t)
<1>1. Moves(t, "gone") \/ (hasBlock[t] /\ node[t].data /\ Moves(t, "exitLock"))
      \/ (hasBlock[t] /\ Moves(t, "exitRelease"))
  <2>1. hasBlock[t] \in BOOLEAN /\ node[t].data \in BOOLEAN /\ pfnCallback \in BOOLEAN
    BY DEF StorageTyping, Nodes, Node, Everywhere
  <2>2. CASE ~hasBlock[t]
    BY <2>2 DEF StorageTyping, Nodes, Listed, Moves, Drops, CalledWith, Storage!bits, Storage!refs, Places,
       Everywhere, Storage!Exit, Storage!Goto
  <2>3. CASE hasBlock[t] /\ node[t].data /\ pfnCallback
    BY <2>3 DEF StorageTyping, Nodes, Listed, Moves, Drops, CalledWith, Storage!bits, Storage!refs, Places,
       Everywhere, Storage!Exit, Storage!Goto
  <2>4. CASE hasBlock[t] /\ ~(node[t].data /\ pfnCallback)
    BY <2>4 DEF StorageTyping, Nodes, Listed, Moves, Drops, CalledWith, Storage!bits, Storage!refs, Places,
       Everywhere, Storage!Exit, Storage!Goto
  <2> QED BY <2>1, <2>2, <2>3, <2>4
<1>2. pc' \in [Everywhere -> Places]
  <2>1. \A n \in Everywhere : pc'[n] \in Places
    BY <1>1 DEF StorageTyping, Moves, Places, Everywhere
  <2> QED BY <2>1 DEF StorageTyping, Storage!Exit, Storage!Goto
<1>3. pc[t] = "running" /\ UNCHANGED <<used, locked, pfnCallback, allocated, node, hasBlock, uRef, item,
owed>>
  BY DEF Storage!Exit, Storage!bits, Storage!refs
<1>4. StorageTyping'
  BY <1>2, <1>3 DEF StorageTyping, Nodes
<1> QED BY <1>1, <1>3, <1>4 DEF ExitDoes

LEMMA ExitLockEffect ==
  ASSUME StorageTyping, ~broken', NEW t \in Thread, Storage!ExitLock(t)
  PROVE  /\ StorageTyping'
         /\ ExitLockDoes(t)
<1>1. /\ pc \in [Everywhere -> Places]
      /\ t \in Everywhere /\ used \in BOOLEAN /\ locked \in BOOLEAN
  BY DEF StorageTyping, Everywhere
<1>2. pc[t] = "exitLock" /\ UNCHANGED <<used, pfnCallback, allocated, node, hasBlock, uRef, item, owed>>
  BY DEF Storage!ExitLock, Storage!Lock, Storage!refs
<1>3. CASE used
  <2>1. ~locked /\ locked' = TRUE /\ Moves(t, "exitUnlink") /\ pc' \in [Everywhere -> Places]
    BY <1>1, <1>3 DEF Moves, Places, Everywhere, Storage!ExitLock, Storage!Lock, Storage!Goto
  <2> QED BY <1>2, <1>3, <2>1 DEF StorageTyping, Nodes, ExitLockDoes
<1>4. CASE ~used
  <2>1. locked' = locked /\ Moves(t, "exitRelease") /\ pc' \in [Everywhere -> Places]
    BY <1>1, <1>4 DEF Moves, Places, Everywhere, Storage!ExitLock, Storage!Lock, Storage!Goto
  <2> QED BY <1>2, <1>4, <2>1 DEF StorageTyping, Nodes, ExitLockDoes
<1> QED BY <1>3, <1>4 DEF ExitLockDoes

LEMMA ExitUnlinkEffect ==
  ASSUME StorageTyping, ~broken', NEW t \in Thread, Storage!ExitUnlink(t)
  PROVE  /\ StorageTyping'
         /\ ExitUnlinkDoes(t)
<1>1. Nodes' /\ Unlinked(t)
  BY UnlinkNodes DEF StorageTyping, Unlinked
<1> HIDE DEF Nodes
<1>2. /\ StorageTyping'
      /\ pc[t] = "exitUnlink" /\ Moves(t, "exitUnlock")
      /\ UNCHANGED <<used, locked, pfnCallback, allocated, hasBlock, uRef, item, owed>>
  BY <1>1 DEF StorageTyping, Listed, Moves, Drops, CalledWith, Storage!bits, Storage!refs, Everywhere,
     Places, Storage!ExitUnlink, Storage!Goto
<1> QED BY <1>1, <1>2 DEF ExitUnlinkDoes

LEMMA ExitUnlockEffect ==
  ASSUME StorageTyping, ~broken', NEW t \in Thread, Storage!ExitUnlock(t)
  PROVE  /\ StorageTyping'
         /\ ExitUnlockDoes(t)
  BY DEF StorageTyping, Nodes, Listed, Moves, Drops, CalledWith, Storage!bits, Storage!refs, Places,
     Everywhere, Storage!ExitUnlock, Storage!Unlock, Storage!Goto, ExitUnlockDoes

LEMMA ExitCallEffect ==
  ASSUME StorageTyping, ~broken', NEW t \in Thread, Storage!ExitCall(t)
  PROVE  /\ StorageTyping'
         /\ ExitCallDoes(t)
<1>1. /\ Nodes' /\ (\A n \in Everywhere : n # t => Same(n))
      /\ node'[t].next = node[t].next /\ node'[t].prev = node[t].prev /\ ~node'[t].data
  BY DataNodes DEF StorageTyping, Storage!ExitCall
<1>2. node[t].data \in BOOLEAN
  BY DEF StorageTyping, Nodes, Node, Everywhere
<1>3. CalledWith(t, TRUE) /\ owed' \in [Thread -> {"nothing", "call", "called twice"}]
  BY <1>2 DEF StorageTyping, CalledWith, Storage!ExitCall, Storage!CallBack
<1>4. Drops(t) /\ uRef' \in [Thread -> Int]
  <2>1. uRef \in [Thread -> Int]
    BY DEF StorageTyping
  <2> QED BY <2>1 DEF Drops, Storage!ExitCall, Storage!Release
<1>5. /\ pc[t] = "exitCall" /\ Moves(t, "exitRelease")
      /\ pc' \in [Everywhere -> Places]
      /\ UNCHANGED <<used, locked, pfnCallback, allocated, hasBlock, item>>
  BY DEF StorageTyping, Places, Everywhere, Moves, Storage!ExitCall, Storage!Release, Storage!Goto,
     Storage!bits
<1> QED BY <1>1, <1>3, <1>4, <1>5 DEF StorageTyping, ExitCallDoes

LEMMA ExitReleaseEffect ==
  ASSUME StorageTyping, ~broken', NEW t \in Thread, Storage!ExitRelease(t)
  PROVE  /\ StorageTyping'
         /\ ExitReleaseDoes(t)
<1>1. /\ pc \in [Everywhere -> Places]
      /\ uRef \in [Thread -> Int] /\ hasBlock \in [Thread -> BOOLEAN] /\ t \in Everywhere
  BY DEF StorageTyping, Everywhere
<1>2. pc[t] = "exitRelease" /\ Moves(t, "gone") /\ pc' \in [Everywhere -> Places]
  BY <1>1 DEF Moves, Places, Everywhere, Storage!ExitRelease, Storage!Goto
<1>3. /\ Drops(t) /\ ~hasBlock'[t] /\ (\A n \in Thread : n # t => hasBlock'[n] = hasBlock[n])
      /\ uRef' \in [Thread -> Int] /\ hasBlock' \in [Thread -> BOOLEAN]
  BY <1>1 DEF Drops, Storage!ExitRelease
<1>4. UNCHANGED <<used, locked, pfnCallback, allocated, node, item, owed>>
  BY DEF Storage!ExitRelease, Storage!bits
<1> QED BY <1>2, <1>3, <1>4 DEF StorageTyping, Nodes, ExitReleaseDoes

-----------------------------------------------------------------------------
(* Places and references: what each step does to a thread's.               *)

\* A node comes onto the list or leaves it.
Joins(t) == \A n \in Thread : (n \in Listed)' <=> n \in Listed \/ n = t
Leaves(t) == \A n \in Thread : (n \in Listed)' <=> n \in Listed /\ n # t

LEMMA LinkJoins ==
  ASSUME StorageTyping, LockInv, ListInv, EndsInv, NEW t \in Thread, Placed(t), SetLinkDoes(t)
  PROVE  Joins(t) /\ t \notin Listed /\ First = node[Root].next /\ (First # Null => First \in Listed)
<1>1. pc[t] = "setLink" /\ Linked(t)
  BY DEF SetLinkDoes
<1>2. t \notin Listed
  BY <1>1 DEF Placed, Storage!Linking
<1>3. First = node[Root].next /\ (First # Null => First \in Listed)
  BY <1>1 DEF LockInv, ListInv, EndsInv, First, Holding
<1>4. ASSUME NEW n \in Thread
      PROVE  node'[n].prev # Null <=> node[n].prev # Null \/ n = t
  <2>1. node'[n].prev = IF n = t THEN Root ELSE IF n = node[Root].next THEN t ELSE node[n].prev
    BY <1>1 DEF Linked, Everywhere
  <2>2. n = node[Root].next => node[n].prev # Null
    BY <1>3 DEF Listed
  <2> QED BY <2>1, <2>2
<1>5. Joins(t)
  BY <1>4 DEF Joins, Listed
<1> QED BY <1>2, <1>3, <1>5

LEMMA UnlinkLeaves ==
  ASSUME StorageTyping, LockInv, ListInv, EndsInv, NEW t \in Thread, Placed(t), ExitUnlinkDoes(t)
  PROVE  Leaves(t) /\ t \in Listed
<1>1. pc[t] = "exitUnlink" /\ Unlinked(t)
  BY DEF ExitUnlinkDoes
<1>2. t \in Listed
  BY <1>1 DEF Placed
<1>3. node[t].prev # Null /\ (node[t].next # Null => node[t].next \in Listed)
  BY <1>2 DEF ListInv, EndsInv, Listed
<1>4. ASSUME NEW n \in Thread
      PROVE  node'[n].prev # Null <=> node[n].prev # Null /\ n # t
  <2>1. node'[n].prev = IF n = t THEN Null ELSE IF n = node[t].next THEN node[t].prev ELSE node[n].prev
    BY <1>1 DEF Unlinked, Everywhere
  <2>2. n = node[t].next => node[n].prev # Null
    BY <1>3 DEF Listed
  <2> QED BY <1>3, <2>1, <2>2
<1>5. Leaves(t)
  BY <1>4 DEF Leaves, Listed
<1> QED BY <1>2, <1>5

LEMMA CallLeaves ==
  ASSUME StorageTyping, LockInv, ListInv, EndsInv, FreeCallDoes
  PROVE  Leaves(item) /\ item \in Listed /\ First = item /\ item \in Thread
<1>1. pc[Root] = "freeCall" /\ item \in Thread /\ node'[item].prev = Null
      /\ \A n \in Everywhere : n # item => Same(n)
  BY DEF FreeCallDoes
<1>2. First = item /\ item \in Listed
  BY <1>1 DEF First, ListInv, EndsInv
<1>3. ASSUME NEW n \in Thread
      PROVE  node'[n].prev # Null <=> node[n].prev # Null /\ n # item
  BY <1>1 DEF Same, Everywhere
<1>4. Leaves(item)
  BY <1>3 DEF Leaves, Listed
<1> QED BY <1>1, <1>2, <1>4

LEMMA FlsAllocPlaces ==
  ASSUME StorageTyping, LockInv, ListInv, EndsInv, NEW u \in Thread, Placed(u), FlsAllocDoes
  PROVE  Placed(u)'
  BY DEF Placed, Everywhere, Storage!Linking, Listed, Same, LockInv, FlsAllocDoes

LEMMA FlsFreePlaces ==
  ASSUME StorageTyping, LockInv, ListInv, EndsInv, NEW u \in Thread, Placed(u), FlsFreeDoes
  PROVE  Placed(u)'
  BY DEF Placed, Everywhere, Storage!Linking, Listed, Moves, FlsFreeDoes

LEMMA FreeLockPlaces ==
  ASSUME StorageTyping, LockInv, ListInv, EndsInv, NEW u \in Thread, Placed(u), FreeLockDoes
  PROVE  Placed(u)'
  BY DEF Placed, Everywhere, Storage!Linking, Listed, Moves, FreeLockDoes

LEMMA FreeTakePlaces ==
  ASSUME StorageTyping, LockInv, ListInv, EndsInv, NEW u \in Thread, Placed(u), FreeTakeDoes
  PROVE  Placed(u)'
  BY DEF Placed, Everywhere, Storage!Linking, Listed, Same, Moves, FreeTakeDoes

LEMMA FreeCallPlaces ==
  ASSUME StorageTyping, LockInv, ListInv, EndsInv, NEW u \in Thread, Placed(u), FreeCallDoes
  PROVE  Placed(u)'
<1>1. ((u \in Listed)' <=> u \in Listed /\ u # item) /\ item \in Listed
  BY CallLeaves DEF Leaves
<1>2. pc[Root] = "freeCall" /\ pc' = pc /\ hasBlock' = hasBlock /\ used' = used
  BY DEF FreeCallDoes
<1>3. ~used /\ pc[u] \notin {"exitUnlink", "exitUnlock"}
  BY <1>2 DEF LockInv, Holding
<1>4. CASE u = item
  <2>1. ~node'[u].data /\ CalledWith(u, pfnCallback)
    BY <1>4 DEF FreeCallDoes
  <2>2. owed'[u] = IF ~node[u].data THEN owed[u] ELSE "nothing"
    BY <2>1 DEF Placed, CalledWith
  <2> QED BY <1>1, <1>2, <1>3, <1>4, <2>1, <2>2 DEF Placed, Storage!Linking
<1>5. CASE u # item
  <2>1. node'[u].data = node[u].data /\ owed'[u] = owed[u]
    BY <1>5 DEF FreeCallDoes, Same, Everywhere, CalledWith
  <2> QED BY <1>1, <1>2, <1>3, <1>5, <2>1 DEF Placed, Storage!Linking
<1> QED BY <1>4, <1>5

LEMMA FreeDonePlaces ==
  ASSUME StorageTyping, LockInv, ListInv, EndsInv, NEW u \in Thread, Placed(u), FreeDoneDoes
  PROVE  Placed(u)'
  BY DEF Placed, Everywhere, Storage!Linking, Listed, Moves, FreeDoneDoes

LEMMA SetAgainPlaces ==
  ASSUME StorageTyping, LockInv, ListInv, EndsInv, NEW u \in Thread, Placed(u), NEW t \in Thread, Placed(t),
         SetAgainDoes(t)
  PROVE  Placed(u)'
  BY DEF Placed, Everywhere, Storage!Linking, Listed, Same, SetAgainDoes

LEMMA SetFirstPlaces ==
  ASSUME StorageTyping, LockInv, ListInv, EndsInv, NEW u \in Thread, Placed(u), NEW t \in Thread, Placed(t),
         SetFirstDoes(t)
  PROVE  Placed(u)'
  BY DEF Placed, Everywhere, Storage!Linking, Listed, Moves, SetFirstDoes

LEMMA SetLockPlaces ==
  ASSUME StorageTyping, LockInv, ListInv, EndsInv, NEW u \in Thread, Placed(u), NEW t \in Thread, Placed(t),
         SetLockDoes(t)
  PROVE  Placed(u)'
  BY DEF Placed, Everywhere, Storage!Linking, Listed, Moves, SetLockDoes

LEMMA SetLinkPlaces ==
  ASSUME StorageTyping, LockInv, ListInv, EndsInv, NEW u \in Thread, Placed(u), NEW t \in Thread, Placed(t),
         SetLinkDoes(t)
  PROVE  Placed(u)'
<1>1. (u \in Listed)' <=> u \in Listed \/ u = t
  BY LinkJoins DEF Joins
<1>2. node'[u].data = IF u = t THEN TRUE ELSE node[u].data
  BY DEF SetLinkDoes, Linked, Everywhere
<1> QED BY <1>1, <1>2 DEF Placed, Everywhere, Storage!Linking, SetLinkDoes, Moves

LEMMA SetUnlockPlaces ==
  ASSUME StorageTyping, LockInv, ListInv, EndsInv, NEW u \in Thread, Placed(u), NEW t \in Thread, Placed(t),
         SetUnlockDoes(t)
  PROVE  Placed(u)'
  BY DEF Placed, Everywhere, Storage!Linking, Listed, Moves, SetUnlockDoes

LEMMA ExitPlaces ==
  ASSUME StorageTyping, LockInv, ListInv, EndsInv, NEW u \in Thread, Placed(u), NEW t \in Thread, Placed(t),
         ExitDoes(t)
  PROVE  Placed(u)'
  BY DEF Placed, Everywhere, Storage!Linking, Listed, Moves, ExitDoes

LEMMA ExitLockPlaces ==
  ASSUME StorageTyping, LockInv, ListInv, EndsInv, NEW u \in Thread, Placed(u), NEW t \in Thread, Placed(t),
         ExitLockDoes(t)
  PROVE  Placed(u)'
  BY DEF Placed, Everywhere, Storage!Linking, Listed, Moves, ExitLockDoes

LEMMA ExitUnlinkPlaces ==
  ASSUME StorageTyping, LockInv, ListInv, EndsInv, NEW u \in Thread, Placed(u), NEW t \in Thread, Placed(t),
         ExitUnlinkDoes(t)
  PROVE  Placed(u)'
<1>1. (u \in Listed)' <=> u \in Listed /\ u # t
  BY UnlinkLeaves DEF Leaves
<1>2. node'[u].data = node[u].data
  BY DEF ExitUnlinkDoes, Unlinked, Everywhere
<1> QED BY <1>1, <1>2 DEF Placed, Everywhere, Storage!Linking, ExitUnlinkDoes, Moves

LEMMA ExitUnlockPlaces ==
  ASSUME StorageTyping, LockInv, ListInv, EndsInv, NEW u \in Thread, Placed(u), NEW t \in Thread, Placed(t),
         ExitUnlockDoes(t)
  PROVE  Placed(u)'
  BY DEF Placed, Everywhere, Storage!Linking, Listed, Moves, ExitUnlockDoes

LEMMA ExitCallPlaces ==
  ASSUME StorageTyping, LockInv, ListInv, EndsInv, NEW u \in Thread, Placed(u), NEW t \in Thread, Placed(t),
         ExitCallDoes(t)
  PROVE  Placed(u)'
  BY DEF Placed, Everywhere, Storage!Linking, Listed, Same, CalledWith, Moves, ExitCallDoes

LEMMA ExitReleasePlaces ==
  ASSUME StorageTyping, LockInv, ListInv, EndsInv, NEW u \in Thread, Placed(u), NEW t \in Thread, Placed(t),
         ExitReleaseDoes(t)
  PROVE  Placed(u)'
  BY DEF Placed, Everywhere, Storage!Linking, Listed, Moves, ExitReleaseDoes

LEMMA FlsAllocCounts ==
  ASSUME StorageTyping, LockInv, ListInv, EndsInv, NEW u \in Thread, Placed(u), Counted(u), FlsAllocDoes
  PROVE  Counted(u)'
  BY DEF StorageTyping, Placed, Counted, OnList, Listed, Everywhere, Storage!Linking, Moves, Same,
     FlsAllocDoes

LEMMA FlsFreeCounts ==
  ASSUME StorageTyping, LockInv, ListInv, EndsInv, NEW u \in Thread, Placed(u), Counted(u), FlsFreeDoes
  PROVE  Counted(u)'
  BY DEF StorageTyping, Placed, Counted, OnList, Listed, Everywhere, Storage!Linking, Moves, FlsFreeDoes

LEMMA FreeLockCounts ==
  ASSUME StorageTyping, LockInv, ListInv, EndsInv, NEW u \in Thread, Placed(u), Counted(u), FreeLockDoes
  PROVE  Counted(u)'
  BY DEF StorageTyping, Placed, Counted, OnList, Listed, Everywhere, Storage!Linking, Moves, FreeLockDoes

LEMMA FreeTakeCounts ==
  ASSUME StorageTyping, LockInv, ListInv, EndsInv, NEW u \in Thread, Placed(u), Counted(u), FreeTakeDoes
  PROVE  Counted(u)'
  BY DEF StorageTyping, Placed, Counted, OnList, Listed, Everywhere, Storage!Linking, Moves, Same,
     FreeTakeDoes

LEMMA FreeCallCounts ==
  ASSUME StorageTyping, LockInv, ListInv, EndsInv, NEW u \in Thread, Placed(u), Counted(u), FreeCallDoes
  PROVE  Counted(u)'
<1>1. ((u \in Listed)' <=> u \in Listed /\ u # item) /\ item \in Listed
  BY CallLeaves DEF Leaves
<1>2. /\ uRef[u] \in Int /\ pc' = pc /\ hasBlock' = hasBlock
      /\ uRef'[u] = IF u = item THEN uRef[u] - 1 ELSE uRef[u]
  BY DEF StorageTyping, FreeCallDoes, Drops
<1>3. CASE u = item
  <2>1. OnList(u) /\ ~OnList(u)' /\ uRef'[u] = uRef[u] - 1
    BY <1>1, <1>2, <1>3 DEF OnList, Placed
  <2>2. uRef[u] = IF hasBlock[u] THEN 2 ELSE 1
    BY <2>1 DEF Counted
  <2> QED BY <1>2, <2>1, <2>2 DEF Counted
<1>4. CASE u # item
  BY <1>1, <1>2, <1>4 DEF Counted, OnList
<1> QED BY <1>3, <1>4

LEMMA FreeDoneCounts ==
  ASSUME StorageTyping, LockInv, ListInv, EndsInv, NEW u \in Thread, Placed(u), Counted(u), FreeDoneDoes
  PROVE  Counted(u)'
  BY DEF StorageTyping, Placed, Counted, OnList, Listed, Everywhere, Storage!Linking, Moves, FreeDoneDoes

LEMMA SetAgainCounts ==
  ASSUME StorageTyping, LockInv, ListInv, EndsInv, NEW u \in Thread, Placed(u), Counted(u),
         NEW t \in Thread, Placed(t), SetAgainDoes(t)
  PROVE  Counted(u)'
  BY DEF StorageTyping, Placed, Counted, OnList, Listed, Everywhere, Storage!Linking, Moves, Same,
     SetAgainDoes

LEMMA SetFirstCounts ==
  ASSUME StorageTyping, LockInv, ListInv, EndsInv, NEW u \in Thread, Placed(u), Counted(u),
         NEW t \in Thread, Placed(t), SetFirstDoes(t)
  PROVE  Counted(u)'
<1>1. CASE u = t
  <2>1. ~OnList(t) /\ OnList(t)' /\ hasBlock'[t] /\ uRef'[t] = IF hasBlock[t] THEN uRef[t] + 1 ELSE 2
    BY DEF Placed, OnList, Listed, Everywhere, Storage!Linking, Moves, SetFirstDoes
  <2>2. hasBlock[t] => uRef[t] = 1
    BY <1>1, <2>1 DEF Counted
  <2> QED BY <1>1, <2>1, <2>2 DEF Counted
<1>2. CASE u # t
  BY <1>2 DEF Placed, Counted, OnList, Listed, Everywhere, Storage!Linking, Moves, SetFirstDoes
<1> QED BY <1>1, <1>2

LEMMA SetLockCounts ==
  ASSUME StorageTyping, LockInv, ListInv, EndsInv, NEW u \in Thread, Placed(u), Counted(u),
         NEW t \in Thread, Placed(t), SetLockDoes(t)
  PROVE  Counted(u)'
<1>1. CASE u = t
  <2>1. OnList(t) /\ hasBlock' = hasBlock
    BY DEF Placed, OnList, Listed, Everywhere, Storage!Linking, Moves, SetLockDoes
  <2>2. CASE used
    <3>1. OnList(t)' /\ uRef' = uRef
      BY <2>2 DEF Placed, OnList, Listed, Everywhere, Storage!Linking, Moves, SetLockDoes
    <3> QED BY <1>1, <2>1, <3>1 DEF Counted
  <2>3. CASE ~used
    <3>1. ~OnList(t)' /\ uRef'[t] = uRef[t] - 1
      BY <2>3 DEF Placed, OnList, Listed, Everywhere, Storage!Linking, Moves, Drops, SetLockDoes
    <3>2. uRef[t] = IF hasBlock[t] THEN 2 ELSE 1
      BY <1>1, <2>1 DEF Counted
    <3> QED BY <1>1, <2>1, <3>1, <3>2 DEF Counted
  <2> QED BY <2>2, <2>3
<1>2. CASE u # t
  BY <1>2 DEF Placed, Counted, OnList, Listed, Everywhere, Storage!Linking, Moves, Drops, SetLockDoes
<1> QED BY <1>1, <1>2

LEMMA SetLinkCounts ==
  ASSUME StorageTyping, LockInv, ListInv, EndsInv, NEW u \in Thread, Placed(u), Counted(u),
         NEW t \in Thread, Placed(t), SetLinkDoes(t)
  PROVE  Counted(u)'
<1>1. (u \in Listed)' <=> u \in Listed \/ u = t
  BY LinkJoins DEF Joins
<1> QED BY <1>1 DEF StorageTyping, Counted, OnList, Placed, Everywhere, Storage!Linking, SetLinkDoes, Moves

LEMMA SetUnlockCounts ==
  ASSUME StorageTyping, LockInv, ListInv, EndsInv, NEW u \in Thread, Placed(u), Counted(u),
         NEW t \in Thread, Placed(t), SetUnlockDoes(t)
  PROVE  Counted(u)'
  BY DEF StorageTyping, Placed, Counted, OnList, Listed, Everywhere, Storage!Linking, Moves, SetUnlockDoes

LEMMA ExitCounts ==
  ASSUME StorageTyping, LockInv, ListInv, EndsInv, NEW u \in Thread, Placed(u), Counted(u),
         NEW t \in Thread, Placed(t), ExitDoes(t)
  PROVE  Counted(u)'
  BY DEF StorageTyping, Placed, Counted, OnList, Listed, Everywhere, Storage!Linking, Moves, ExitDoes

LEMMA ExitLockCounts ==
  ASSUME StorageTyping, LockInv, ListInv, EndsInv, NEW u \in Thread, Placed(u), Counted(u),
         NEW t \in Thread, Placed(t), ExitLockDoes(t)
  PROVE  Counted(u)'
  BY DEF StorageTyping, Placed, Counted, OnList, Listed, Everywhere, Storage!Linking, Moves, ExitLockDoes

LEMMA ExitUnlinkCounts ==
  ASSUME StorageTyping, LockInv, ListInv, EndsInv, NEW u \in Thread, Placed(u), Counted(u),
         NEW t \in Thread, Placed(t), ExitUnlinkDoes(t)
  PROVE  Counted(u)'
<1>1. ((u \in Listed)' <=> u \in Listed /\ u # t) /\ t \in Listed
  BY UnlinkLeaves DEF Leaves
<1> QED BY <1>1 DEF StorageTyping, Counted, OnList, Placed, Everywhere, Storage!Linking, ExitUnlinkDoes, Moves

LEMMA ExitUnlockCounts ==
  ASSUME StorageTyping, LockInv, ListInv, EndsInv, NEW u \in Thread, Placed(u), Counted(u),
         NEW t \in Thread, Placed(t), ExitUnlockDoes(t)
  PROVE  Counted(u)'
  BY DEF StorageTyping, Placed, Counted, OnList, Listed, Everywhere, Storage!Linking, Moves, ExitUnlockDoes

LEMMA ExitCallCounts ==
  ASSUME StorageTyping, LockInv, ListInv, EndsInv, NEW u \in Thread, Placed(u), Counted(u),
         NEW t \in Thread, Placed(t), ExitCallDoes(t)
  PROVE  Counted(u)'
<1>1. CASE u = t
  <2>1. OnList(t) /\ ~OnList(t)' /\ hasBlock[t] /\ hasBlock' = hasBlock /\ uRef'[t] = uRef[t] - 1
    BY DEF Placed, OnList, Listed, Everywhere, Storage!Linking, Moves, Same, Drops, ExitCallDoes
  <2>2. uRef[t] = 2
    BY <1>1, <2>1 DEF Counted
  <2> QED BY <1>1, <2>1, <2>2 DEF Counted
<1>2. CASE u # t
  BY <1>2 DEF Placed, Counted, OnList, Listed, Everywhere, Storage!Linking, Moves, Same, Drops, ExitCallDoes
<1> QED BY <1>1, <1>2

LEMMA ExitReleaseCounts ==
  ASSUME StorageTyping, LockInv, ListInv, EndsInv, NEW u \in Thread, Placed(u), Counted(u),
         NEW t \in Thread, Placed(t), ExitReleaseDoes(t)
  PROVE  Counted(u)'
<1>1. CASE u = t
  <2>1. (OnList(t)' <=> OnList(t)) /\ hasBlock[t] /\ ~hasBlock'[t] /\ uRef'[t] = uRef[t] - 1
    BY DEF Placed, OnList, Listed, Everywhere, Storage!Linking, Moves, Drops, ExitReleaseDoes
  <2>2. uRef[t] = IF OnList(t) THEN 2 ELSE 1
    BY <1>1, <2>1 DEF Counted
  <2> QED BY <1>1, <2>1, <2>2 DEF Counted
<1>2. CASE u # t
  BY <1>2 DEF Placed, Counted, OnList, Listed, Everywhere, Storage!Linking, Moves, Drops, ExitReleaseDoes
<1> QED BY <1>1, <1>2

-----------------------------------------------------------------------------
(* The list: each step keeps its links, and that every node is reached.    *)

LEMMA NoFirst ==
  ASSUME ReachInv, First = Null
  PROVE  Listed = {}
<1>1. ClosedFrom({}) /\ {} \in SUBSET Thread
  BY DEF ClosedFrom
<1> QED BY <1>1 DEF ReachInv

LEMMA ListKept ==
  ASSUME ListInv, ReachInv, First' = First,
         \A n \in Thread : node'[n].next = node[n].next /\ node'[n].prev = node[n].prev
  PROVE  ListInv' /\ ReachInv' /\ Listed' = Listed
<1>1. Listed' = Listed
  BY DEF Listed
<1>2. ListInv'
  <2>1. Listed \subseteq Thread
    BY DEF Listed
  <2> QED BY <1>1, <2>1 DEF ListInv
<1>3. ReachInv'
  <2>1. Listed \subseteq Thread
    BY DEF Listed
  <2> QED BY <1>1, <2>1 DEF ReachInv, ClosedFrom
<1> QED BY <1>1, <1>2, <1>3

LEMMA FlsAllocLinks ==
  ASSUME StorageTyping, LockInv, ListInv, EndsInv, ReachInv, FlsAllocDoes
  PROVE  ListInv' /\ EndsInv' /\ ReachInv'
<1>1. Listed = {} /\ pc[Root] = "idle"
  BY DEF FlsAllocDoes, EndsInv
<1>2. First = Null /\ First' = Null
  BY <1>1 DEF FlsAllocDoes, First, ListInv
<1>3. ListInv' /\ ReachInv' /\ Listed' = Listed
  BY <1>2, ListKept DEF FlsAllocDoes, Same
<1> QED BY <1>1, <1>2, <1>3 DEF EndsInv, FlsAllocDoes

LEMMA FlsFreeLinks ==
  ASSUME StorageTyping, LockInv, ListInv, EndsInv, ReachInv, FlsFreeDoes
  PROVE  ListInv' /\ EndsInv' /\ ReachInv'
<1>1. First' = First
  BY DEF FlsFreeDoes, Moves, First
<1>2. ListInv' /\ ReachInv' /\ Listed' = Listed
  BY <1>1, ListKept DEF FlsFreeDoes
<1> QED BY <1>1, <1>2 DEF EndsInv, FlsFreeDoes, Moves

LEMMA FreeLockLinks ==
  ASSUME StorageTyping, LockInv, ListInv, EndsInv, ReachInv, FreeLockDoes
  PROVE  ListInv' /\ EndsInv' /\ ReachInv'
<1>1. First' = First
  BY DEF FreeLockDoes, Moves, First
<1>2. ListInv' /\ ReachInv' /\ Listed' = Listed
  BY <1>1, ListKept DEF FreeLockDoes
<1> QED BY <1>1, <1>2 DEF EndsInv, FreeLockDoes, Moves

LEMMA FreeTakeLinks ==
  ASSUME StorageTyping, LockInv, ListInv, EndsInv, ReachInv, FreeTakeDoes
  PROVE  ListInv' /\ EndsInv' /\ ReachInv'
<1>1. First' = First
  BY DEF FreeTakeDoes, Moves, Everywhere, First
<1>2. ListInv' /\ ReachInv' /\ Listed' = Listed
  BY <1>1, ListKept DEF FreeTakeDoes, Same
<1> QED BY <1>1, <1>2 DEF EndsInv, FreeTakeDoes, Moves

LEMMA FreeCallLinks ==
  ASSUME StorageTyping, LockInv, ListInv, EndsInv, ReachInv, FreeCallDoes
  PROVE  ListInv' /\ EndsInv' /\ ReachInv'
<1>1. Leaves(item) /\ item \in Listed /\ First = item /\ item \in Thread /\ Listed \subseteq Thread
  BY CallLeaves DEF Listed
<1>2. /\ First' = node[item].next /\ pc' = pc /\ pc[Root] = "freeCall" /\ allocated' = allocated
      /\ \A n \in Everywhere : n # item => node'[n].next = node[n].next /\ node'[n].prev = node[n].prev
  BY DEF FreeCallDoes, First, Same
<1>3. \A n : n \in Listed' <=> n \in Listed /\ n # item
  BY <1>1 DEF Leaves, Listed
<1>4. ListInv'
  <2>1. First' # Null => First' \in Listed'
    BY <1>1, <1>2, <1>3 DEF ListInv
  <2>2. ASSUME NEW n \in Listed', node'[n].next # Null
        PROVE  node'[n].next \in Listed' /\ node'[node'[n].next].prev = n
    BY <1>1, <1>2, <1>3, <2>2 DEF ListInv, Everywhere
  <2>3. ASSUME NEW n \in Listed', n # First', node'[n].prev # Root
        PROVE  node'[n].prev \in Listed' /\ node'[node'[n].prev].next = n
    BY <1>1, <1>2, <1>3, <2>3 DEF ListInv, Everywhere
  <2>4. ASSUME NEW n \in Listed', n # First'
        PROVE  node'[n].prev # Root
    BY <1>1, <1>2, <1>3, <2>4 DEF ListInv, Everywhere
  <2>5. First' # Null => node'[First'].prev \notin Listed'
    BY <1>1, <1>2, <1>3, <2>1 DEF ListInv, Everywhere
  <2> QED BY <2>1, <2>2, <2>3, <2>4, <2>5 DEF ListInv
<1>5. EndsInv'
  <2>1. allocated /\ Root # item /\ node[Root].next = Null
    BY <1>1, <1>2 DEF LockInv, EndsInv
  <2> QED BY <1>2, <2>1 DEF EndsInv, Everywhere
<1>6. ASSUME NEW S \in SUBSET Thread, ClosedFrom(S)'
      PROVE  Listed' \subseteq S
  <2>1. \A n \in S \cup {item} : n \in Listed /\ node[n].next # Null => node[n].next \in S \cup {item}
    <3>1. SUFFICES ASSUME NEW n \in S \cup {item}, n \in Listed, node[n].next # Null
                   PROVE  node[n].next \in S
      OBVIOUS
    <3>2. CASE n = item
      BY <1>2, <1>6, <3>1, <3>2 DEF ClosedFrom
    <3>3. CASE n # item
      BY <1>1, <1>2, <1>3, <1>6, <3>1, <3>3 DEF ClosedFrom, Everywhere
    <3> QED BY <3>2, <3>3
  <2>2. ClosedFrom(S \cup {item}) /\ S \cup {item} \in SUBSET Thread
    BY <1>1, <2>1 DEF ClosedFrom
  <2> QED BY <1>3, <2>2 DEF ReachInv
<1> QED BY <1>4, <1>5, <1>6 DEF ReachInv

LEMMA FreeDoneLinks ==
  ASSUME StorageTyping, LockInv, ListInv, EndsInv, ReachInv, FreeDoneDoes
  PROVE  ListInv' /\ EndsInv' /\ ReachInv'
<1>1. First = Null /\ First' = Null
  BY DEF FreeDoneDoes, Moves, Everywhere, First, EndsInv
<1>2. ListInv' /\ ReachInv' /\ Listed' = Listed
  BY <1>1, ListKept DEF FreeDoneDoes
<1>3. Listed = {}
  BY <1>1, NoFirst
<1> QED BY <1>1, <1>2, <1>3 DEF EndsInv, FreeDoneDoes, Moves

LEMMA SetAgainLinks ==
  ASSUME StorageTyping, LockInv, ListInv, EndsInv, ReachInv, NEW t \in Thread, Placed(t), SetAgainDoes(t)
  PROVE  ListInv' /\ EndsInv' /\ ReachInv'
<1>1. /\ First' = First /\ pc'[Root] = pc[Root] /\ allocated' = allocated
      /\ \A n \in Everywhere : node'[n].next = node[n].next /\ node'[n].prev = node[n].prev
  BY DEF SetAgainDoes, Same, Everywhere, First
<1>2. ListInv' /\ ReachInv' /\ Listed' = Listed
  BY <1>1, ListKept DEF Everywhere
<1>3. First # Null => First \in Everywhere
  BY DEF ListInv, Listed, Everywhere
<1> QED BY <1>1, <1>2, <1>3 DEF EndsInv, Everywhere

LEMMA SetFirstLinks ==
  ASSUME StorageTyping, LockInv, ListInv, EndsInv, ReachInv, NEW t \in Thread, Placed(t), SetFirstDoes(t)
  PROVE  ListInv' /\ EndsInv' /\ ReachInv'
<1>1. /\ First' = First /\ pc'[Root] = pc[Root] /\ allocated' = allocated
      /\ \A n \in Everywhere : node'[n].next = node[n].next /\ node'[n].prev = node[n].prev
  BY DEF SetFirstDoes, Moves, Everywhere, First
<1>2. ListInv' /\ ReachInv' /\ Listed' = Listed
  BY <1>1, ListKept DEF Everywhere
<1>3. First # Null => First \in Everywhere
  BY DEF ListInv, Listed, Everywhere
<1> QED BY <1>1, <1>2, <1>3 DEF EndsInv, Everywhere

LEMMA SetLockLinks ==
  ASSUME StorageTyping, LockInv, ListInv, EndsInv, ReachInv, NEW t \in Thread, Placed(t), SetLockDoes(t)
  PROVE  ListInv' /\ EndsInv' /\ ReachInv'
<1>1. /\ First' = First /\ pc'[Root] = pc[Root] /\ allocated' = allocated
      /\ \A n \in Everywhere : node'[n].next = node[n].next /\ node'[n].prev = node[n].prev
  BY DEF SetLockDoes, Moves, Everywhere, First
<1>2. ListInv' /\ ReachInv' /\ Listed' = Listed
  BY <1>1, ListKept DEF Everywhere
<1>3. First # Null => First \in Everywhere
  BY DEF ListInv, Listed, Everywhere
<1> QED BY <1>1, <1>2, <1>3 DEF EndsInv, Everywhere

LEMMA SetLinkLinks ==
  ASSUME StorageTyping, LockInv, ListInv, EndsInv, ReachInv, NEW t \in Thread, Placed(t), SetLinkDoes(t)
  PROVE  ListInv' /\ EndsInv' /\ ReachInv'
<1>1. /\ Joins(t) /\ t \notin Listed /\ First = node[Root].next
      /\ (First # Null => First \in Listed) /\ Listed \subseteq Thread
  BY LinkJoins DEF Listed
<1>2. Linked(t) /\ pc[t] = "setLink" /\ pc'[Root] = pc[Root] /\ allocated' = allocated
  BY DEF SetLinkDoes, Moves, Everywhere
<1>3. pc[Root] # "freeCall" /\ allocated
  BY <1>2 DEF LockInv, Holding
<1>4. First' = t
  BY <1>2, <1>3 DEF First, Linked, Everywhere
<1>5. \A n : n \in Listed' <=> n \in Listed \/ n = t
  BY <1>1 DEF Joins, Listed
<1>6. /\ node'[t].next = First /\ node'[t].prev = Root
      /\ \A n \in Thread : n # t => /\ node'[n].next = node[n].next
                                    /\ node'[n].prev = IF n = First THEN t ELSE node[n].prev
  BY <1>1, <1>2 DEF Linked, Everywhere
<1>7. First # Null => node[First].prev = Root
  BY <1>3 DEF EndsInv
<1>8. ListInv'
  <2>1. First' # Null => First' \in Listed'
    BY <1>4, <1>5
  <2>2. ASSUME NEW n \in Listed', node'[n].next # Null
        PROVE  node'[n].next \in Listed' /\ node'[node'[n].next].prev = n
    <3>1. CASE n = t
      BY <1>1, <1>5, <1>6, <2>2, <3>1
    <3>2. CASE n # t
      <4>1. n \in Listed /\ node'[n].next = node[n].next /\ n \in Thread
        BY <1>1, <1>5, <1>6, <3>2
      <4>2. node[n].next \in Listed /\ node[node[n].next].prev = n
        BY <2>2, <4>1 DEF ListInv
      <4>3. node[n].next # First /\ node[n].next # t
        BY <1>1, <1>7, <4>1, <4>2
      <4> QED BY <1>1, <1>5, <1>6, <4>1, <4>2, <4>3
    <3> QED BY <3>1, <3>2
  <2>3. ASSUME NEW n \in Listed', n # First', node'[n].prev # Root
        PROVE  node'[n].prev \in Listed' /\ node'[node'[n].prev].next = n
    <3>1. n \in Listed /\ n \in Thread /\ n # t
      BY <1>1, <1>4, <1>5, <2>3
    <3>2. CASE n = First
      BY <1>5, <1>6, <3>1, <3>2
    <3>3. CASE n # First
      <4>1. node'[n].prev = node[n].prev
        BY <1>6, <3>1, <3>3
      <4>2. node[n].prev \in Listed /\ node[node[n].prev].next = n
        BY <2>3, <3>1, <3>3, <4>1 DEF ListInv
      <4> QED BY <1>1, <1>5, <1>6, <4>1, <4>2
    <3> QED BY <3>2, <3>3
  <2>4. ASSUME NEW n \in Listed', n # First'
        PROVE  node'[n].prev # Root
    BY <1>1, <1>4, <1>5, <1>6, <2>4 DEF ListInv
  <2>5. First' # Null => node'[First'].prev \notin Listed'
    BY <1>1, <1>4, <1>5, <1>6
  <2> QED BY <2>1, <2>2, <2>3, <2>4, <2>5 DEF ListInv
<1>9. EndsInv'
  BY <1>2, <1>3, <1>4, <1>6 DEF EndsInv
<1>10. ASSUME NEW S \in SUBSET Thread, ClosedFrom(S)'
       PROVE  Listed' \subseteq S
  <2>1. t \in S
    BY <1>4, <1>10 DEF ClosedFrom
  <2>2. First # Null => First \in S
    BY <1>5, <1>6, <1>10, <2>1 DEF ClosedFrom
  <2>3. ASSUME NEW n \in S \cap Listed, node[n].next # Null
        PROVE  node[n].next \in S
    BY <1>1, <1>5, <1>6, <1>10, <2>3 DEF ClosedFrom
  <2>4. Listed \subseteq S
    BY <2>2, <2>3 DEF ReachInv, ClosedFrom
  <2> QED BY <1>5, <2>1, <2>4
<1> QED BY <1>8, <1>9, <1>10 DEF ReachInv

LEMMA SetUnlockLinks ==
  ASSUME StorageTyping, LockInv, ListInv, EndsInv, ReachInv, NEW t \in Thread, Placed(t), SetUnlockDoes(t)
  PROVE  ListInv' /\ EndsInv' /\ ReachInv'
<1>1. /\ First' = First /\ pc'[Root] = pc[Root] /\ allocated' = allocated
      /\ \A n \in Everywhere : node'[n].next = node[n].next /\ node'[n].prev = node[n].prev
  BY DEF SetUnlockDoes, Moves, Everywhere, First
<1>2. ListInv' /\ ReachInv' /\ Listed' = Listed
  BY <1>1, ListKept DEF Everywhere
<1>3. First # Null => First \in Everywhere
  BY DEF ListInv, Listed, Everywhere
<1> QED BY <1>1, <1>2, <1>3 DEF EndsInv, Everywhere

LEMMA ExitLinks ==
  ASSUME StorageTyping, LockInv, ListInv, EndsInv, ReachInv, NEW t \in Thread, Placed(t), ExitDoes(t)
  PROVE  ListInv' /\ EndsInv' /\ ReachInv'
<1>1. /\ First' = First /\ pc'[Root] = pc[Root] /\ allocated' = allocated
      /\ \A n \in Everywhere : node'[n].next = node[n].next /\ node'[n].prev = node[n].prev
  BY DEF ExitDoes, Moves, Everywhere, First
<1>2. ListInv' /\ ReachInv' /\ Listed' = Listed
  BY <1>1, ListKept DEF Everywhere
<1>3. First # Null => First \in Everywhere
  BY DEF ListInv, Listed, Everywhere
<1> QED BY <1>1, <1>2, <1>3 DEF EndsInv, Everywhere

LEMMA ExitLockLinks ==
  ASSUME StorageTyping, LockInv, ListInv, EndsInv, ReachInv, NEW t \in Thread, Placed(t), ExitLockDoes(t)
  PROVE  ListInv' /\ EndsInv' /\ ReachInv'
<1>1. /\ First' = First /\ pc'[Root] = pc[Root] /\ allocated' = allocated
      /\ \A n \in Everywhere : node'[n].next = node[n].next /\ node'[n].prev = node[n].prev
  BY DEF ExitLockDoes, Moves, Everywhere, First
<1>2. ListInv' /\ ReachInv' /\ Listed' = Listed
  BY <1>1, ListKept DEF Everywhere
<1>3. First # Null => First \in Everywhere
  BY DEF ListInv, Listed, Everywhere
<1> QED BY <1>1, <1>2, <1>3 DEF EndsInv, Everywhere

LEMMA ExitUnlinkLinks ==
  ASSUME StorageTyping, LockInv, ListInv, EndsInv, ReachInv, NEW t \in Thread, Placed(t), ExitUnlinkDoes(t)
  PROVE  ListInv' /\ EndsInv' /\ ReachInv'
<1>1. Leaves(t) /\ t \in Listed /\ Listed \subseteq Thread
  BY UnlinkLeaves DEF Listed
<1>2. Unlinked(t) /\ pc[t] = "exitUnlink" /\ pc'[Root] = pc[Root] /\ allocated' = allocated
  BY DEF ExitUnlinkDoes, Moves, Everywhere
<1>3. pc[Root] # "freeCall" /\ allocated
  BY <1>2 DEF LockInv, Holding
<1> DEFINE prev == node[t].prev
           next == node[t].next
<1>4. \A n : n \in Listed' <=> n \in Listed /\ n # t
  BY <1>1 DEF Leaves, Listed
<1>5. \A n \in Thread : n # t => /\ node'[n].next = IF n = prev THEN next ELSE node[n].next
                                 /\ node'[n].prev = IF n = next THEN prev ELSE node[n].prev
  BY <1>2 DEF Unlinked, Everywhere
<1>6. First # Null => node[First].prev = Root
  BY <1>3 DEF EndsInv
<1>7. First = node[Root].next /\ First' = IF prev = Root THEN next ELSE First
  BY <1>2, <1>3 DEF First, Unlinked, Everywhere
<1>8. prev # Null /\ Null \notin Listed /\ Root \notin Listed /\ First # Null
  <2>1. Listed # {}
    BY <1>1
  <2> QED BY <1>1, <2>1, NoFirst DEF Listed
<1>9. /\ t = First => prev = Root
      /\ t # First => prev \in Listed /\ node[prev].next = t
  BY <1>1, <1>6, <1>8 DEF ListInv
<1>10. next # Null => next \in Listed /\ node[next].prev = t /\ next # t
  <2>1. next # Null => next \in Listed /\ node[next].prev = t
    BY <1>1 DEF ListInv
  <2>2. ASSUME next = t
        PROVE  FALSE
    <3>1. prev = t /\ t # First /\ First \in Listed
      BY <1>1, <1>8, <1>9, <2>1, <2>2 DEF ListInv
    <3>2. ASSUME NEW n \in (Thread \ {t}) \cap Listed, node[n].next # Null
          PROVE  node[n].next \in Thread \ {t}
      BY <1>1, <3>1, <3>2 DEF ListInv
    <3>3. ClosedFrom(Thread \ {t})
      BY <1>1, <3>1, <3>2 DEF ClosedFrom
    <3> QED BY <1>1, <3>3 DEF ReachInv
  <2> QED BY <2>1, <2>2
<1>11. prev # t /\ First \in Listed
  BY <1>1, <1>8, <1>9, <1>10 DEF ListInv
<1>12. (t = First => First' = next) /\ (t # First => First' = First)
  BY <1>7, <1>8, <1>9
<1>13. ListInv'
  <2>1. First' # Null => First' \in Listed'
    BY <1>4, <1>10, <1>11, <1>12
  <2>2. ASSUME NEW n \in Listed', node'[n].next # Null
        PROVE  node'[n].next \in Listed' /\ node'[node'[n].next].prev = n
    <3>1. n \in Listed /\ n # t /\ n \in Thread
      BY <1>1, <1>4
    <3>2. CASE n = prev
      <4>1. node'[n].next = next /\ next # Null
        BY <1>5, <2>2, <3>1, <3>2
      <4> QED BY <1>1, <1>4, <1>5, <1>10, <3>2, <4>1
    <3>3. CASE n # prev
      <4>1. node'[n].next = node[n].next
        BY <1>5, <3>1, <3>3
      <4>2. node[n].next \in Listed /\ node[node[n].next].prev = n
        BY <2>2, <3>1, <4>1 DEF ListInv
      <4>3. node[n].next # t /\ node[n].next # next
        BY <1>8, <1>10, <3>1, <3>3, <4>2
      <4> QED BY <1>1, <1>4, <1>5, <4>1, <4>2, <4>3
    <3> QED BY <3>2, <3>3
  <2>3. ASSUME NEW n \in Listed', n # First'
        PROVE  n \in Listed /\ n # t /\ n \in Thread /\ n # First
    BY <1>1, <1>4, <1>12, <2>3
  <2>4. ASSUME NEW n \in Listed', n # First', node'[n].prev # Root
        PROVE  node'[n].prev \in Listed' /\ node'[node'[n].prev].next = n
    <3>1. n \in Listed /\ n # t /\ n \in Thread /\ n # First
      BY <2>3, <2>4
    <3>2. CASE n = next
      <4>1. node'[n].prev = prev
        BY <1>5, <3>1, <3>2
      <4> QED BY <1>1, <1>4, <1>5, <1>9, <1>11, <2>4, <3>2, <4>1
    <3>3. CASE n # next
      <4>1. node'[n].prev = node[n].prev
        BY <1>5, <3>1, <3>3
      <4>2. node[n].prev \in Listed /\ node[node[n].prev].next = n
        BY <2>4, <3>1, <4>1 DEF ListInv
      <4>3. node[n].prev # t /\ node[n].prev # prev
        BY <1>8, <1>9, <3>1, <3>3, <4>2
      <4> QED BY <1>1, <1>4, <1>5, <4>1, <4>2, <4>3
    <3> QED BY <3>2, <3>3
  <2>5. ASSUME NEW n \in Listed', n # First'
        PROVE  node'[n].prev # Root
    <3>1. n \in Listed /\ n # t /\ n \in Thread /\ n # First /\ node[n].prev # Root
      BY <2>3, <2>5 DEF ListInv
    <3> QED BY <1>5, <1>8, <1>9, <1>12, <2>5, <3>1
  <2>6. First' # Null => node'[First'].prev \notin Listed' /\ node'[First'].prev = Root
    BY <1>1, <1>4, <1>5, <1>6, <1>8, <1>9, <1>10, <1>11, <1>12
  <2> QED BY <2>1, <2>2, <2>4, <2>5, <2>6 DEF ListInv
<1>14. EndsInv'
  BY <1>1, <1>2, <1>3, <1>4, <1>5, <1>6, <1>8, <1>9, <1>10, <1>11, <1>12 DEF EndsInv
<1>15. ASSUME NEW S \in SUBSET Thread, ClosedFrom(S)'
       PROVE  Listed' \subseteq S
  <2>1. \A n \in S \cap Listed : n # t /\ n # prev /\ node[n].next # Null => node[n].next \in S
    BY <1>1, <1>4, <1>5, <1>15 DEF ClosedFrom
  <2>2. prev \in S \cap Listed /\ next # Null => next \in S
    BY <1>1, <1>4, <1>5, <1>11, <1>15 DEF ClosedFrom
  <2>3. First' # Null => First' \in S
    BY <1>15 DEF ClosedFrom
  <2>4. CASE t = First \/ prev \in S
    <3>1. next # Null => next \in S
      BY <1>9, <1>12, <2>2, <2>3, <2>4, <1>1
    <3>2. First \in S \cup {t}
      BY <1>8, <1>12, <2>3
    <3>3. ASSUME NEW n \in (S \cup {t}) \cap Listed, node[n].next # Null
          PROVE  node[n].next \in S \cup {t}
      <4>1. CASE n = t
        BY <3>1, <3>3, <4>1
      <4>2. CASE n = prev
        BY <1>8, <1>9, <3>3, <4>2
      <4>3. CASE n # t /\ n # prev
        BY <2>1, <3>3, <4>3
      <4> QED BY <4>1, <4>2, <4>3
    <3>4. ClosedFrom(S \cup {t}) /\ S \cup {t} \in SUBSET Thread
      BY <3>2, <3>3, <1>1 DEF ClosedFrom
    <3> QED BY <1>4, <3>4 DEF ReachInv
  <2>5. CASE t # First /\ prev \notin S
    <3>1. First \in S \ {t}
      BY <1>8, <1>12, <2>3, <2>5
    <3>2. ASSUME NEW n \in (S \ {t}) \cap Listed, node[n].next # Null
          PROVE  node[n].next \in S \ {t}
      <4>1. node[n].next \in S
        BY <2>1, <2>5, <3>2
      <4>2. node[n].next # t
        BY <2>5, <3>2 DEF ListInv
      <4> QED BY <4>1, <4>2
    <3>3. ClosedFrom(S \ {t}) /\ S \ {t} \in SUBSET Thread
      BY <3>1, <3>2 DEF ClosedFrom
    <3> QED BY <1>4, <3>3 DEF ReachInv
  <2> QED BY <2>4, <2>5
<1> QED BY <1>13, <1>14, <1>15 DEF ReachInv

LEMMA ExitUnlockLinks ==
  ASSUME StorageTyping, LockInv, ListInv, EndsInv, ReachInv, NEW t \in Thread, Placed(t), ExitUnlockDoes(t)
  PROVE  ListInv' /\ EndsInv' /\ ReachInv'
<1>1. /\ First' = First /\ pc'[Root] = pc[Root] /\ allocated' = allocated
      /\ \A n \in Everywhere : node'[n].next = node[n].next /\ node'[n].prev = node[n].prev
  BY DEF ExitUnlockDoes, Moves, Everywhere, First
<1>2. ListInv' /\ ReachInv' /\ Listed' = Listed
  BY <1>1, ListKept DEF Everywhere
<1>3. First # Null => First \in Everywhere
  BY DEF ListInv, Listed, Everywhere
<1> QED BY <1>1, <1>2, <1>3 DEF EndsInv, Everywhere

LEMMA ExitCallLinks ==
  ASSUME StorageTyping, LockInv, ListInv, EndsInv, ReachInv, NEW t \in Thread, Placed(t), ExitCallDoes(t)
  PROVE  ListInv' /\ EndsInv' /\ ReachInv'
<1>1. /\ First' = First /\ pc'[Root] = pc[Root] /\ allocated' = allocated
      /\ \A n \in Everywhere : node'[n].next = node[n].next /\ node'[n].prev = node[n].prev
  BY DEF ExitCallDoes, Moves, Same, Everywhere, First
<1>2. ListInv' /\ ReachInv' /\ Listed' = Listed
  BY <1>1, ListKept DEF Everywhere
<1>3. First # Null => First \in Everywhere
  BY DEF ListInv, Listed, Everywhere
<1> QED BY <1>1, <1>2, <1>3 DEF EndsInv, Everywhere

LEMMA ExitReleaseLinks ==
  ASSUME StorageTyping, LockInv, ListInv, EndsInv, ReachInv, NEW t \in Thread, Placed(t), ExitReleaseDoes(t)
  PROVE  ListInv' /\ EndsInv' /\ ReachInv'
<1>1. /\ First' = First /\ pc'[Root] = pc[Root] /\ allocated' = allocated
      /\ \A n \in Everywhere : node'[n].next = node[n].next /\ node'[n].prev = node[n].prev
  BY DEF ExitReleaseDoes, Moves, Everywhere, First
<1>2. ListInv' /\ ReachInv' /\ Listed' = Listed
  BY <1>1, ListKept DEF Everywhere
<1>3. First # Null => First \in Everywhere
  BY DEF ListInv, Listed, Everywhere
<1> QED BY <1>1, <1>2, <1>3 DEF EndsInv, Everywhere

-----------------------------------------------------------------------------
(* The flags and the lock.                                                 *)

LEMMA NotFirst ==
  ASSUME LockInv, ListInv, NEW t \in Thread, Placed(t), pc[t] = "setLink"
  PROVE  node[Root].next # t
<1>1. t \notin Listed /\ pc[Root] \notin {"freeTake", "freeCall"}
  BY DEF LockInv, Placed, Holding, Storage!Linking
<1> QED BY <1>1 DEF ListInv, First

LEMMA FlsAllocBits ==
  ASSUME StorageTyping, LockInv, FlsAllocDoes
  PROVE  LockInv'
  BY DEF StorageTyping, LockInv, Holding, Everywhere, FlsAllocDoes

LEMMA FlsFreeBits ==
  ASSUME StorageTyping, LockInv, FlsFreeDoes
  PROVE  LockInv'
  BY DEF StorageTyping, LockInv, Holding, Everywhere, Moves, FlsFreeDoes

LEMMA FreeLockBits ==
  ASSUME StorageTyping, LockInv, FreeLockDoes
  PROVE  LockInv'
  BY DEF StorageTyping, LockInv, Holding, Everywhere, Moves, FreeLockDoes

LEMMA FreeTakeBits ==
  ASSUME StorageTyping, LockInv, FreeTakeDoes
  PROVE  LockInv'
  BY DEF StorageTyping, LockInv, Holding, Everywhere, Moves, FreeTakeDoes

LEMMA FreeCallBits ==
  ASSUME StorageTyping, LockInv, FreeCallDoes
  PROVE  LockInv'
  BY DEF StorageTyping, LockInv, Holding, Everywhere, FreeCallDoes

LEMMA FreeDoneBits ==
  ASSUME StorageTyping, LockInv, FreeDoneDoes
  PROVE  LockInv'
  BY DEF StorageTyping, LockInv, Holding, Everywhere, Moves, FreeDoneDoes

LEMMA SetAgainBits ==
  ASSUME StorageTyping, LockInv, NEW t \in Thread, Placed(t), SetAgainDoes(t)
  PROVE  LockInv'
  BY DEF StorageTyping, LockInv, Holding, Everywhere, SetAgainDoes

LEMMA SetFirstBits ==
  ASSUME StorageTyping, LockInv, NEW t \in Thread, Placed(t), SetFirstDoes(t)
  PROVE  LockInv'
  BY DEF StorageTyping, LockInv, Holding, Everywhere, Moves, SetFirstDoes

LEMMA SetLockBits ==
  ASSUME StorageTyping, LockInv, NEW t \in Thread, Placed(t), SetLockDoes(t)
  PROVE  LockInv'
  BY DEF StorageTyping, LockInv, Holding, Everywhere, Moves, SetLockDoes

LEMMA SetLinkBits ==
  ASSUME StorageTyping, LockInv, NEW t \in Thread, Placed(t), SetLinkDoes(t)
  PROVE  LockInv'
  BY DEF StorageTyping, LockInv, Holding, Everywhere, Moves, SetLinkDoes

LEMMA SetUnlockBits ==
  ASSUME StorageTyping, LockInv, NEW t \in Thread, Placed(t), SetUnlockDoes(t)
  PROVE  LockInv'
  BY DEF StorageTyping, LockInv, Holding, Everywhere, Moves, SetUnlockDoes

LEMMA ExitBits ==
  ASSUME StorageTyping, LockInv, NEW t \in Thread, Placed(t), ExitDoes(t)
  PROVE  LockInv'
  BY DEF StorageTyping, LockInv, Holding, Everywhere, Moves, ExitDoes

LEMMA ExitLockBits ==
  ASSUME StorageTyping, LockInv, NEW t \in Thread, Placed(t), ExitLockDoes(t)
  PROVE  LockInv'
  BY DEF StorageTyping, LockInv, Holding, Everywhere, Moves, ExitLockDoes

LEMMA ExitUnlinkBits ==
  ASSUME StorageTyping, LockInv, NEW t \in Thread, Placed(t), ExitUnlinkDoes(t)
  PROVE  LockInv'
  BY DEF StorageTyping, LockInv, Holding, Everywhere, Moves, ExitUnlinkDoes

LEMMA ExitUnlockBits ==
  ASSUME StorageTyping, LockInv, NEW t \in Thread, Placed(t), ExitUnlockDoes(t)
  PROVE  LockInv'
  BY DEF StorageTyping, LockInv, Holding, Everywhere, Moves, ExitUnlockDoes

LEMMA ExitCallBits ==
  ASSUME StorageTyping, LockInv, NEW t \in Thread, Placed(t), ExitCallDoes(t)
  PROVE  LockInv'
  BY DEF StorageTyping, LockInv, Holding, Everywhere, Moves, ExitCallDoes

LEMMA ExitReleaseBits ==
  ASSUME StorageTyping, LockInv, NEW t \in Thread, Placed(t), ExitReleaseDoes(t)
  PROVE  LockInv'
  BY DEF StorageTyping, LockInv, Holding, Everywhere, Moves, ExitReleaseDoes

-----------------------------------------------------------------------------
(* All together.                                                          *)

LEMMA BrokenForGood ==
  ASSUME Storage!Next, ~broken'
  PROVE  ~broken
  BY DEF Storage!Next, Storage!FlsAlloc, Storage!FlsFree, Storage!Goto, Storage!FreeLock, Storage!FreeTake,
     Storage!FreeCall, Storage!CallBack, Storage!Release, Storage!FreeDone, Storage!SetAgain,
     Storage!SetFirst, Storage!SetLock, Storage!Lock, Storage!SetLink, Storage!SetUnlock, Storage!Unlock,
     Storage!Exit, Storage!ExitLock, Storage!ExitUnlink, Storage!ExitUnlock, Storage!ExitCall,
     Storage!ExitRelease

LEMMA StorageStep ==
  ASSUME StorageInv, Storage!Next, ~broken'
  PROVE  StorageInv'
<1> USE DEF StorageInv, ThreadInv, CountInv
<1>1. CASE Storage!FlsAlloc
  <2>1. StorageTyping' /\ FlsAllocDoes
    BY <1>1, FlsAllocEffect
  <2> QED BY <2>1, FlsAllocBits, FlsAllocPlaces, FlsAllocCounts, FlsAllocLinks
<1>2. CASE Storage!FlsFree
  <2>1. StorageTyping' /\ FlsFreeDoes
    BY <1>2, FlsFreeEffect
  <2> QED BY <2>1, FlsFreeBits, FlsFreePlaces, FlsFreeCounts, FlsFreeLinks
<1>3. CASE Storage!FreeLock
  <2>1. StorageTyping' /\ FreeLockDoes
    BY <1>3, FreeLockEffect
  <2> QED BY <2>1, FreeLockBits, FreeLockPlaces, FreeLockCounts, FreeLockLinks
<1>4. CASE Storage!FreeTake
  <2>1. StorageTyping' /\ FreeTakeDoes
    BY <1>4, FreeTakeEffect
  <2> QED BY <2>1, FreeTakeBits, FreeTakePlaces, FreeTakeCounts, FreeTakeLinks
<1>5. CASE Storage!FreeCall
  <2>1. StorageTyping' /\ FreeCallDoes
    BY <1>5, FreeCallEffect
  <2> QED BY <2>1, FreeCallBits, FreeCallPlaces, FreeCallCounts, FreeCallLinks
<1>6. CASE Storage!FreeDone
  <2>1. StorageTyping' /\ FreeDoneDoes
    BY <1>6, FreeDoneEffect
  <2> QED BY <2>1, FreeDoneBits, FreeDonePlaces, FreeDoneCounts, FreeDoneLinks
<1>7. ASSUME NEW t \in Thread, Storage!SetAgain(t)
      PROVE  StorageInv'
  <2>1. StorageTyping' /\ SetAgainDoes(t)
    BY <1>7, SetAgainEffect
  <2>2. Placed(t)
    OBVIOUS
  <2> QED BY <2>1, <2>2, SetAgainBits, SetAgainPlaces, SetAgainCounts, SetAgainLinks
<1>8. ASSUME NEW t \in Thread, Storage!SetFirst(t)
      PROVE  StorageInv'
  <2>1. StorageTyping' /\ SetFirstDoes(t)
    BY <1>8, SetFirstEffect
  <2>2. Placed(t)
    OBVIOUS
  <2> QED BY <2>1, <2>2, SetFirstBits, SetFirstPlaces, SetFirstCounts, SetFirstLinks
<1>9. ASSUME NEW t \in Thread, Storage!SetLock(t)
      PROVE  StorageInv'
  <2>1. StorageTyping' /\ SetLockDoes(t)
    BY <1>9, SetLockEffect
  <2>2. Placed(t)
    OBVIOUS
  <2> QED BY <2>1, <2>2, SetLockBits, SetLockPlaces, SetLockCounts, SetLockLinks
<1>10. ASSUME NEW t \in Thread, Storage!SetLink(t)
       PROVE  StorageInv'
  <2>1. StorageTyping' /\ SetLinkDoes(t)
    <3>1. node[Root].next # t
      BY <1>10, NotFirst DEF Storage!SetLink
    <3> QED BY <1>10, <3>1, SetLinkEffect
  <2>2. Placed(t)
    OBVIOUS
  <2> QED BY <2>1, <2>2, SetLinkBits, SetLinkPlaces, SetLinkCounts, SetLinkLinks
<1>11. ASSUME NEW t \in Thread, Storage!SetUnlock(t)
       PROVE  StorageInv'
  <2>1. StorageTyping' /\ SetUnlockDoes(t)
    BY <1>11, SetUnlockEffect
  <2>2. Placed(t)
    OBVIOUS
  <2> QED BY <2>1, <2>2, SetUnlockBits, SetUnlockPlaces, SetUnlockCounts, SetUnlockLinks
<1>12. ASSUME NEW t \in Thread, Storage!Exit(t)
       PROVE  StorageInv'
  <2>1. StorageTyping' /\ ExitDoes(t)
    BY <1>12, ExitEffect
  <2>2. Placed(t)
    OBVIOUS
  <2> QED BY <2>1, <2>2, ExitBits, ExitPlaces, ExitCounts, ExitLinks
<1>13. ASSUME NEW t \in Thread, Storage!ExitLock(t)
       PROVE  StorageInv'
  <2>1. StorageTyping' /\ ExitLockDoes(t)
    BY <1>13, ExitLockEffect
  <2>2. Placed(t)
    OBVIOUS
  <2> QED BY <2>1, <2>2, ExitLockBits, ExitLockPlaces, ExitLockCounts, ExitLockLinks
<1>14. ASSUME NEW t \in Thread, Storage!ExitUnlink(t)
       PROVE  StorageInv'
  <2>1. StorageTyping' /\ ExitUnlinkDoes(t)
    BY <1>14, ExitUnlinkEffect
  <2>2. Placed(t)
    OBVIOUS
  <2> QED BY <2>1, <2>2, ExitUnlinkBits, ExitUnlinkPlaces, ExitUnlinkCounts, ExitUnlinkLinks
<1>15. ASSUME NEW t \in Thread, Storage!ExitUnlock(t)
       PROVE  StorageInv'
  <2>1. StorageTyping' /\ ExitUnlockDoes(t)
    BY <1>15, ExitUnlockEffect
  <2>2. Placed(t)
    OBVIOUS
  <2> QED BY <2>1, <2>2, ExitUnlockBits, ExitUnlockPlaces, ExitUnlockCounts, ExitUnlockLinks
<1>16. ASSUME NEW t \in Thread, Storage!ExitCall(t)
       PROVE  StorageInv'
  <2>1. StorageTyping' /\ ExitCallDoes(t)
    BY <1>16, ExitCallEffect
  <2>2. Placed(t)
    OBVIOUS
  <2> QED BY <2>1, <2>2, ExitCallBits, ExitCallPlaces, ExitCallCounts, ExitCallLinks
<1>17. ASSUME NEW t \in Thread, Storage!ExitRelease(t)
       PROVE  StorageInv'
  <2>1. StorageTyping' /\ ExitReleaseDoes(t)
    BY <1>17, ExitReleaseEffect
  <2>2. Placed(t)
    OBVIOUS
  <2> QED BY <2>1, <2>2, ExitReleaseBits, ExitReleasePlaces, ExitReleaseCounts, ExitReleaseLinks
<1> QED
  BY <1>1, <1>2, <1>3, <1>4, <1>5, <1>6, <1>7, <1>8, <1>9,
     <1>10, <1>11, <1>12, <1>13, <1>14, <1>15, <1>16, <1>17 DEF Storage!Next

LEMMA StorageStart ==
  ASSUME Storage!Init
  PROVE  StorageInv
<1>1. \A n \in Everywhere : /\ node[n].next = Null /\ node[n].prev = Null
                            /\ node[n].data = FALSE /\ node[n] \in Node
  BY DEF Storage!Init, Storage!Free, Everywhere, Node
<1>2. StorageTyping
  <2>1. Nodes
    BY <1>1 DEF Storage!Init, Nodes, Everywhere
  <2>2. pc \in [Everywhere -> Places]
    BY DEF Storage!Init, Everywhere, Places
  <2>3. /\ hasBlock \in [Thread -> BOOLEAN] /\ uRef \in [Thread -> Int]
        /\ owed \in [Thread -> {"nothing", "call", "called twice"}]
    BY DEF Storage!Init
  <2> QED BY <2>1, <2>2, <2>3 DEF Storage!Init, StorageTyping
<1>3. Listed = {}
  BY <1>1 DEF Listed, Everywhere
<1>4. pc[Root] = "idle" /\ First = Null /\ node[Root].next = Null
  BY <1>1 DEF Storage!Init, First, Everywhere
<1>5. LockInv
  BY <1>4 DEF Storage!Init, LockInv, Holding
<1>6. ASSUME NEW t \in Thread
      PROVE  Placed(t) /\ Counted(t)
  BY <1>1, <1>3 DEF Storage!Init, Placed, Counted, OnList, Everywhere, Storage!Linking
<1>7. ListInv /\ EndsInv /\ ReachInv
  BY <1>3, <1>4 DEF ListInv, EndsInv, ReachInv
<1> QED BY <1>2, <1>5, <1>6, <1>7 DEF StorageInv, ThreadInv, CountInv

LEMMA StorageSame ==
  ASSUME StorageInv, UNCHANGED storageVars
  PROVE  StorageInv'
<1> USE DEF storageVars
<1>1. StorageTyping' /\ LockInv'
  BY DEF StorageInv, StorageTyping, Nodes, LockInv
<1>2. Listed' = Listed /\ First' = First
  BY DEF Listed, First
<1>3. ASSUME NEW t \in Thread
      PROVE  Placed(t)' /\ Counted(t)'
  BY <1>2 DEF StorageInv, ThreadInv, CountInv, Placed, Counted, OnList
<1>4. ListInv' /\ EndsInv' /\ ReachInv'
  BY <1>2 DEF StorageInv, ListInv, EndsInv, ReachInv, ClosedFrom
<1> QED BY <1>1, <1>3, <1>4 DEF StorageInv, ThreadInv, CountInv

-----------------------------------------------------------------------------
(* What the invariant says of references and of callbacks.                 *)

LEMMA CardinalityInStorage == \A S : Storage!Cardinality(S) = Cardinality(S)
  BY Zenon DEF Storage!Cardinality, Cardinality

LEMMA HoldersCounted ==
  ASSUME CountInv, NEW t \in Thread
  PROVE  uRef[t] = Storage!Cardinality(Storage!Holders(t))
<1>1. \A h : h \in Storage!Holders(t) <=> (h = "self" /\ hasBlock[t]) \/ (h = "list" /\ OnList(t))
  BY DEF Storage!Holders, OnList, Listed
<1>2. Counted(t)
  BY DEF CountInv
<1>3. CASE hasBlock[t] /\ OnList(t)
  <2>1. Storage!Holders(t) = {"self"} \cup {"list"}
    BY <1>1, <1>3
  <2>2. Cardinality({"self"} \cup {"list"}) = 2
    <3>1. IsFiniteSet({"self"}) /\ Cardinality({"self"}) = 1 /\ "list" \notin {"self"}
      BY FS_Singleton
    <3>2. Cardinality({"self"} \cup {"list"}) = Cardinality({"self"}) + 1
      BY <3>1, FS_AddElement
    <3> QED BY <3>1, <3>2
  <2> QED BY <1>2, <1>3, <2>1, <2>2, CardinalityInStorage DEF Counted
<1>4. CASE hasBlock[t] /\ ~OnList(t)
  <2>1. Storage!Holders(t) = {"self"}
    BY <1>1, <1>4
  <2> QED BY <1>2, <1>4, <2>1, FS_Singleton, CardinalityInStorage DEF Counted
<1>5. CASE ~hasBlock[t] /\ OnList(t)
  <2>1. Storage!Holders(t) = {"list"}
    BY <1>1, <1>5
  <2> QED BY <1>2, <1>5, <2>1, FS_Singleton, CardinalityInStorage DEF Counted
<1>6. CASE ~hasBlock[t] /\ ~OnList(t)
  <2>1. Storage!Holders(t) = {}
    BY <1>1, <1>6
  <2> QED BY <1>2, <1>6, <2>1, FS_EmptySet, CardinalityInStorage DEF Counted
<1> QED BY <1>3, <1>4, <1>5, <1>6

LEMMA EachCalledOnce ==
  ASSUME StorageInv
  PROVE  /\ \A t \in Thread : owed[t] # "called twice"
         /\ ~allocated => \A t \in Thread : owed[t] = "call" => pc[t] \in {"exitUnlock", "exitCall"}
  BY DEF StorageInv, ThreadInv, Placed, EndsInv

-----------------------------------------------------------------------------
\* While the storage part runs and nothing is broken, its invariant holds.
StorageSafe == part = "storage" => broken \/ StorageInv

\* The invariant holds while nothing is broken, whichever part runs.
THEOREM StorageInvariance == SideSpec => []StorageSafe
<1>1. SideInit => StorageSafe
  BY StorageStart DEF SideInit, StorageSafe
<1>2. StorageSafe /\ [SideNext]_<<part, vars, queueVars, storageVars>> => StorageSafe'
  <2> SUFFICES ASSUME StorageSafe, part' = "storage", ~broken',
                      [SideNext]_<<part, vars, queueVars, storageVars>>
               PROVE  StorageInv'
    BY DEF StorageSafe
  <2>1. CASE part = "storage" /\ Storage!Next
    BY <2>1, BrokenForGood, StorageStep DEF StorageSafe
  <2>2. CASE UNCHANGED <<part, vars, queueVars, storageVars>>
    <3>1. UNCHANGED storageVars /\ part = "storage" /\ ~broken
      BY <2>2 DEF storageVars
    <3> QED BY <3>1, StorageSame DEF StorageSafe
  <2> QED BY <2>1, <2>2 DEF SideNext
<1> QED BY <1>1, <1>2, PTL DEF SideSpec

\* A thread's block has one reference for the thread and one for the list and no other,
\* so it is freed with the last of them (FlsDataBlock::Release).
THEOREM BlocksCountedAlways == SideSpec => []BlocksCounted
<1>1. StorageSafe => BlocksCounted
  BY HoldersCounted DEF StorageSafe, StorageInv, BlocksCounted, Storage!BlocksCounted
<1> QED BY <1>1, StorageInvariance, PTL

\* No value is called back twice by FlsFree and an exiting thread, and none that was set
\* is left behind when the index is free.
THEOREM CalledBackOnceAlways == SideSpec => []CalledBackOnce
<1>1. StorageSafe => CalledBackOnce
  BY EachCalledOnce DEF StorageSafe, CalledBackOnce, Storage!CalledBackOnce
<1> QED BY <1>1, StorageInvariance, PTL

-----------------------------------------------------------------------------
(* InterlockedQueue: the inductive invariant.                              *)

HIDE BoundsAssumption
HIDE WidthAssumption
HIDE NullIsNoProcess
HIDE RootAssumption
USE QueueAssumption

QueueBlock == [uLastReadIndex : Nat, uLastWriteIndex : Nat, pNextBlock : Nat,
               arrLoopBuffer : [0 .. kMaxBlockSize - 1 -> Nat], before : Nat]

QueueTyping ==
  /\ block \in Seq(QueueBlock)
  /\ pFirstReadBlock \in Nat /\ pLastWriteBlock \in Nat
  /\ pusher \in {"idle", "new", "publish", "full", "link", "move", "write", "count"}
  /\ popper \in {"idle", "empty", "read", "advance", "next", "delete"}
  /\ pushed \in Nat /\ tmp \in Nat
  /\ wasEmpty \in BOOLEAN /\ null \in BOOLEAN
  /\ freed \subseteq Nat

\* Where the two ends are: the pusher's is the newest block, from Link to MoveOn the one before.
QueueEndsInv ==
  /\ pusher = "new" => Len(block) = 0
  /\ Len(block) = 0 => pusher \in {"idle", "new"} /\ pLastWriteBlock = 0
  /\ Len(block) > 0 => pLastWriteBlock = IF pusher = "move" THEN Len(block) - 1 ELSE Len(block)
  /\ pusher = "move" => Len(block) > 1
  /\ pusher = "publish" => Len(block) = 1 /\ block[1].uLastWriteIndex = 0
  /\ pFirstReadBlock <= Len(block)
  /\ pFirstReadBlock = 0 <=> Len(block) = 0 \/ pusher = "publish"
  /\ pFirstReadBlock = 0 => popper = "idle"

\* The blocks: linked in order, not overfull, unread where Pop has not been, and each one's
\* entries after those of the blocks before it.
LinksInv ==
  \A b \in 1 .. Len(block) : block[b].pNextBlock = IF b < Len(block) THEN b + 1 ELSE 0
FillInv ==
  \A b \in 1 .. Len(block) :
    /\ block[b].uLastReadIndex <= block[b].uLastWriteIndex
    /\ block[b].uLastWriteIndex <= block[b].uLastReadIndex + kMaxBlockSize
    /\ b > pFirstReadBlock => block[b].uLastReadIndex = 0
OrderInv ==
  \A b, c \in 1 .. Len(block) : b < c =>
    /\ block[b].before + block[b].uLastWriteIndex <= block[c].before
    /\ c = b + 1 => block[b].before + block[b].uLastWriteIndex = block[c].before
ChainInv == LinksInv /\ FillInv /\ OrderInv

\* Every entry in the queue has a block, and stands in its place of the ring.
CoveredInv ==
  \A n \in Queue!First + 1 .. Queue!Last : \E b \in pFirstReadBlock .. Len(block) : Queue!Holds(b, n)
ValuesInv ==
  \A b \in 1 .. Len(block) : \A i \in block[b].uLastReadIndex .. block[b].uLastWriteIndex - 1 :
    b >= pFirstReadBlock => block[b].arrLoopBuffer[i % kMaxBlockSize] = block[b].before + i + 1

PushInv ==
  /\ pushed <= MaxPush
  /\ pushed = IF pusher = "idle" THEN Queue!Last ELSE Queue!Last + 1
  /\ pusher \in {"write", "count"} =>
       block[Len(block)].uLastWriteIndex < block[Len(block)].uLastReadIndex + kMaxBlockSize
  /\ pusher = "move" => block[Len(block)].uLastWriteIndex = 0
  /\ pusher = "count" =>
       block[Len(block)].arrLoopBuffer[block[Len(block)].uLastWriteIndex % kMaxBlockSize] = pushed

\* A block that Pop has found empty and that has a next block is still empty, or Push has filled it
\* since; so it is when Push is about to link the next one.
PopInv ==
  /\ popper \in {"read", "advance"} =>
       block[pFirstReadBlock].uLastReadIndex < block[pFirstReadBlock].uLastWriteIndex
  /\ popper = "advance" => tmp = Queue!First + 1
  /\ popper = "next" /\ (pusher = "link" \/ pFirstReadBlock < Len(block)) =>
       block[pFirstReadBlock].uLastWriteIndex - block[pFirstReadBlock].uLastReadIndex
         \in {0, kMaxBlockSize}

\* What was in the queue when a Pop began is still ahead of it.
NullInv ==
  /\ popper # "idle" => ~null
  /\ null => wasEmpty
  /\ popper \in {"empty", "delete"} /\ ~wasEmpty =>
       \E b \in pFirstReadBlock .. Len(block) : block[b].uLastReadIndex < block[b].uLastWriteIndex
  /\ popper = "next" /\ ~wasEmpty =>
       \E b \in pFirstReadBlock + 1 .. Len(block) : block[b].uLastReadIndex < block[b].uLastWriteIndex

\* Pop deletes what it has left behind.
FreedInv ==
  /\ \A b \in freed : b < pFirstReadBlock
  /\ popper = "delete" => tmp < pFirstReadBlock

QueueInv ==
  /\ QueueTyping /\ QueueEndsInv /\ ChainInv /\ CoveredInv /\ ValuesInv
  /\ PushInv /\ PopInv /\ NullInv /\ FreedInv

-----------------------------------------------------------------------------
(* The places of a ring.                                                   *)

LEMMA Division ==
  ASSUME NEW k \in Nat, k > 0, NEW x \in Int
  PROVE  x = k * (x \div k) + (x % k) /\ x \div k \in Int
BY SMTT(30)

LEMMA Place ==
  ASSUME NEW x \in Nat
  PROVE  x % kMaxBlockSize \in 0 .. kMaxBlockSize - 1
OBVIOUS

LEMMA PlacesDiffer ==
  ASSUME NEW x \in Nat, NEW y \in Nat, x < y, y < x + kMaxBlockSize
  PROVE  x % kMaxBlockSize # y % kMaxBlockSize
<1> SUFFICES ASSUME x % kMaxBlockSize = y % kMaxBlockSize PROVE FALSE
  OBVIOUS
<1>1. PICK p \in Int : x = kMaxBlockSize * p + (x % kMaxBlockSize)
  <2>1. x = kMaxBlockSize * (x \div kMaxBlockSize) + (x % kMaxBlockSize) /\ x \div kMaxBlockSize \in Int
    BY Division
  <2> QED BY Zenon, <2>1
<1>2. PICK q \in Int : y = kMaxBlockSize * q + (y % kMaxBlockSize)
  <2>1. y = kMaxBlockSize * (y \div kMaxBlockSize) + (y % kMaxBlockSize) /\ y \div kMaxBlockSize \in Int
    BY Division
  <2> QED BY Zenon, <2>1
<1>3. x % kMaxBlockSize \in Int
  OBVIOUS
<1>4. y - x = kMaxBlockSize * (q - p)
  BY <1>1, <1>2, <1>3
<1>5. q - p \in Int /\ q - p > 0
  BY <1>4
<1>6. kMaxBlockSize * (q - p) >= kMaxBlockSize
  BY <1>5
<1> QED BY <1>4, <1>6

-----------------------------------------------------------------------------
(* What the actions that write to the blocks do, field by field.           *)

\* Another block takes the place of block b; a block is added.
LEMMA Replaced ==
  ASSUME block \in Seq(QueueBlock), NEW b \in 1 .. Len(block), NEW r \in QueueBlock,
         block' = [block EXCEPT ![b] = r]
  PROVE  /\ block' \in Seq(QueueBlock) /\ Len(block') = Len(block)
         /\ block'[b] = r /\ \A c \in 1 .. Len(block) : c # b => block'[c] = block[c]
OBVIOUS

LEMMA Added ==
  ASSUME block \in Seq(QueueBlock), NEW r \in QueueBlock, block' = Append(block, r)
  PROVE  /\ block' \in Seq(QueueBlock) /\ Len(block') = Len(block) + 1
         /\ block'[Len(block) + 1] = r /\ \A c \in 1 .. Len(block) : block'[c] = block[c]
OBVIOUS

LEMMA NewBlock ==
  ASSUME NEW n \in Nat
  PROVE  /\ Queue!Block(n) \in QueueBlock
         /\ Queue!Block(n).uLastReadIndex = 0 /\ Queue!Block(n).uLastWriteIndex = 0
         /\ Queue!Block(n).pNextBlock = 0 /\ Queue!Block(n).before = n
BY DEF Queue!Block, Queue!None, QueueBlock

\* A block with another value in one field.
LEMMA LinkChanged ==
  ASSUME NEW o \in QueueBlock, NEW v \in Nat, NEW r, r = [o EXCEPT !.pNextBlock = v]
  PROVE  /\ r \in QueueBlock
         /\ r.uLastReadIndex = o.uLastReadIndex /\ r.uLastWriteIndex = o.uLastWriteIndex
         /\ r.pNextBlock = v /\ r.before = o.before /\ r.arrLoopBuffer = o.arrLoopBuffer
BY DEF QueueBlock

LEMMA WrittenChanged ==
  ASSUME NEW o \in QueueBlock, NEW r, r = [o EXCEPT !.uLastWriteIndex = @ + 1]
  PROVE  /\ r \in QueueBlock
         /\ r.uLastReadIndex = o.uLastReadIndex /\ r.uLastWriteIndex = o.uLastWriteIndex + 1
         /\ r.pNextBlock = o.pNextBlock /\ r.before = o.before /\ r.arrLoopBuffer = o.arrLoopBuffer
BY DEF QueueBlock

LEMMA ReadChanged ==
  ASSUME NEW o \in QueueBlock, NEW r, r = [o EXCEPT !.uLastReadIndex = @ + 1]
  PROVE  /\ r \in QueueBlock
         /\ r.uLastReadIndex = o.uLastReadIndex + 1 /\ r.uLastWriteIndex = o.uLastWriteIndex
         /\ r.pNextBlock = o.pNextBlock /\ r.before = o.before /\ r.arrLoopBuffer = o.arrLoopBuffer
BY DEF QueueBlock

NewFirstDoes ==
  /\ pusher = "new" /\ pusher' = "publish" /\ pLastWriteBlock' = Len(block) + 1
  /\ block' \in Seq(QueueBlock) /\ Len(block') = Len(block) + 1
  /\ \A c \in 1 .. Len(block) : block'[c] = block[c]
  /\ block'[Len(block) + 1].uLastReadIndex = 0 /\ block'[Len(block) + 1].uLastWriteIndex = 0
  /\ block'[Len(block) + 1].pNextBlock = 0 /\ block'[Len(block) + 1].before = 0
  /\ UNCHANGED <<pFirstReadBlock, freed, popper, pushed, tmp, taken, wasEmpty, null>>

LinkDoes ==
  /\ pusher = "link" /\ pusher' = "move" /\ pLastWriteBlock' = pLastWriteBlock
  /\ block' \in Seq(QueueBlock) /\ Len(block') = Len(block) + 1
  /\ \A c \in 1 .. Len(block) :
       /\ block'[c].uLastReadIndex = block[c].uLastReadIndex
       /\ block'[c].uLastWriteIndex = block[c].uLastWriteIndex
       /\ block'[c].pNextBlock = IF c = pLastWriteBlock THEN Len(block) + 1 ELSE block[c].pNextBlock
       /\ block'[c].before = block[c].before
       /\ block'[c].arrLoopBuffer = block[c].arrLoopBuffer
  /\ block'[Len(block) + 1].uLastReadIndex = 0 /\ block'[Len(block) + 1].uLastWriteIndex = 0
  /\ block'[Len(block) + 1].pNextBlock = 0 /\ block'[Len(block) + 1].before = Queue!Last
  /\ UNCHANGED <<pFirstReadBlock, freed, popper, pushed, tmp, taken, wasEmpty, null>>

WriteDoes ==
  /\ pusher = "write" /\ pusher' = "count" /\ pLastWriteBlock' = pLastWriteBlock
  /\ block' \in Seq(QueueBlock) /\ Len(block') = Len(block)
  /\ \A c \in 1 .. Len(block) :
       /\ block'[c].uLastReadIndex = block[c].uLastReadIndex
       /\ block'[c].uLastWriteIndex = block[c].uLastWriteIndex
       /\ block'[c].pNextBlock = block[c].pNextBlock
       /\ block'[c].before = block[c].before
       /\ \A j \in 0 .. kMaxBlockSize - 1 :
            block'[c].arrLoopBuffer[j] =
              IF c = pLastWriteBlock /\ j = block[c].uLastWriteIndex % kMaxBlockSize
              THEN pushed ELSE block[c].arrLoopBuffer[j]
  /\ UNCHANGED <<pFirstReadBlock, freed, popper, pushed, tmp, taken, wasEmpty, null>>

CountDoes ==
  /\ pusher = "count" /\ pusher' = "idle" /\ pLastWriteBlock' = pLastWriteBlock
  /\ block' \in Seq(QueueBlock) /\ Len(block') = Len(block)
  /\ \A c \in 1 .. Len(block) :
       /\ block'[c].uLastReadIndex = block[c].uLastReadIndex
       /\ block'[c].uLastWriteIndex =
            IF c = pLastWriteBlock THEN block[c].uLastWriteIndex + 1 ELSE block[c].uLastWriteIndex
       /\ block'[c].pNextBlock = block[c].pNextBlock
       /\ block'[c].before = block[c].before
       /\ block'[c].arrLoopBuffer = block[c].arrLoopBuffer
  /\ UNCHANGED <<pFirstReadBlock, freed, popper, pushed, tmp, taken, wasEmpty, null>>

AdvanceDoes ==
  /\ popper = "advance" /\ popper' = "idle" /\ taken' = <<tmp>> /\ tmp' = 0
  /\ block' \in Seq(QueueBlock) /\ Len(block') = Len(block)
  /\ \A c \in 1 .. Len(block) :
       /\ block'[c].uLastReadIndex =
            IF c = pFirstReadBlock THEN block[c].uLastReadIndex + 1 ELSE block[c].uLastReadIndex
       /\ block'[c].uLastWriteIndex = block[c].uLastWriteIndex
       /\ block'[c].pNextBlock = block[c].pNextBlock
       /\ block'[c].before = block[c].before
       /\ block'[c].arrLoopBuffer = block[c].arrLoopBuffer
  /\ UNCHANGED <<pFirstReadBlock, pLastWriteBlock, freed, pusher, pushed, wasEmpty, null>>

\* Len and the fields are natural numbers.
LEMMA SequenceFields ==
  ASSUME NEW s \in Seq(QueueBlock)
  PROVE  /\ Len(s) \in Nat /\ (s = <<>> <=> Len(s) = 0)
         /\ \A c \in 1 .. Len(s) :
              /\ s[c] \in QueueBlock
              /\ s[c].uLastReadIndex \in Nat /\ s[c].uLastWriteIndex \in Nat
              /\ s[c].pNextBlock \in Nat /\ s[c].before \in Nat
              /\ s[c].arrLoopBuffer \in [0 .. kMaxBlockSize - 1 -> Nat]
<1>1. Len(s) \in Nat /\ (s = <<>> <=> Len(s) = 0) /\ \A c \in 1 .. Len(s) : s[c] \in QueueBlock
  OBVIOUS
<1> QED BY <1>1 DEF QueueBlock

LEMMA Fields ==
  ASSUME block \in Seq(QueueBlock)
  PROVE  /\ Len(block) \in Nat
         /\ \A c \in 1 .. Len(block) :
              /\ block[c] \in QueueBlock
              /\ block[c].uLastReadIndex \in Nat /\ block[c].uLastWriteIndex \in Nat
              /\ block[c].pNextBlock \in Nat /\ block[c].before \in Nat
              /\ block[c].arrLoopBuffer \in [0 .. kMaxBlockSize - 1 -> Nat]
         /\ Queue!Last \in Nat
         /\ Queue!Last = IF Len(block) = 0 THEN 0
                         ELSE block[Len(block)].before + block[Len(block)].uLastWriteIndex
<1>1. Len(block) \in Nat /\ (block = <<>> <=> Len(block) = 0)
  BY SequenceFields
<1>2. CASE Len(block) = 0
  BY <1>1, <1>2, SequenceFields DEF Queue!Last
<1>3. CASE Len(block) # 0
  <2>1. Len(block) \in 1 .. Len(block)
    BY <1>1, <1>3
  <2>2. block[Len(block)].before \in Nat /\ block[Len(block)].uLastWriteIndex \in Nat
    BY <2>1, SequenceFields
  <2> QED BY <1>1, <1>3, <2>2, SequenceFields DEF Queue!Last
<1> QED BY <1>2, <1>3

LEMMA NewFirstEffect ==
  ASSUME QueueTyping, Queue!NewFirst
  PROVE  NewFirstDoes
<1>1. block' = Append(block, Queue!Block(0))
  BY DEF Queue!NewFirst
<1>2. block \in Seq(QueueBlock)
  BY DEF QueueTyping
<1> QED BY <1>1, <1>2, NewBlock, Added DEF Queue!NewFirst, Queue!popLocals, NewFirstDoes

LEMMA LinkEffect ==
  ASSUME QueueTyping, QueueEndsInv, Queue!Link
  PROVE  LinkDoes
<1> DEFINE r == [block[pLastWriteBlock] EXCEPT !.pNextBlock = Len(block) + 1]
           s == [block EXCEPT ![pLastWriteBlock] = r]
<1>1. pusher = "link" /\ block' = Append(s, Queue!Block(Queue!Last))
  BY DEF Queue!Link
<1>2. /\ block \in Seq(QueueBlock) /\ Len(block) \in Nat /\ Queue!Last \in Nat
      /\ \A c \in 1 .. Len(block) : block[c] \in QueueBlock
  BY Fields DEF QueueTyping
<1>3. pLastWriteBlock \in 1 .. Len(block)
  BY <1>1, <1>2 DEF QueueEndsInv
<1>4. /\ r \in QueueBlock /\ r.uLastReadIndex = block[pLastWriteBlock].uLastReadIndex
      /\ r.uLastWriteIndex = block[pLastWriteBlock].uLastWriteIndex
      /\ r.pNextBlock = Len(block) + 1 /\ r.before = block[pLastWriteBlock].before
      /\ r.arrLoopBuffer = block[pLastWriteBlock].arrLoopBuffer
  <2>1. block[pLastWriteBlock] \in QueueBlock /\ Len(block) + 1 \in Nat
    BY <1>2, <1>3
  <2> QED BY <2>1, LinkChanged
<1>5. /\ s \in Seq(QueueBlock) /\ Len(s) = Len(block) /\ s[pLastWriteBlock] = r
      /\ \A c \in 1 .. Len(block) : c # pLastWriteBlock => s[c] = block[c]
  <2> HIDE DEF r
  <2> QED BY <1>2, <1>3, <1>4
<1> HIDE DEF r, s
<1>6. /\ block' \in Seq(QueueBlock) /\ Len(block') = Len(s) + 1
      /\ block'[Len(s) + 1] = Queue!Block(Queue!Last) /\ \A c \in 1 .. Len(s) : block'[c] = s[c]
  BY <1>1, <1>2, <1>5, NewBlock
<1>7. /\ block'[Len(block) + 1].uLastReadIndex = 0 /\ block'[Len(block) + 1].uLastWriteIndex = 0
      /\ block'[Len(block) + 1].pNextBlock = 0 /\ block'[Len(block) + 1].before = Queue!Last
  BY <1>2, <1>5, <1>6, NewBlock
<1>8. \A c \in 1 .. Len(block) :
       /\ block'[c].uLastReadIndex = block[c].uLastReadIndex
       /\ block'[c].uLastWriteIndex = block[c].uLastWriteIndex
       /\ block'[c].pNextBlock = IF c = pLastWriteBlock THEN Len(block) + 1 ELSE block[c].pNextBlock
       /\ block'[c].before = block[c].before
       /\ block'[c].arrLoopBuffer = block[c].arrLoopBuffer
  BY <1>4, <1>5, <1>6
<1> QED BY <1>1, <1>5, <1>6, <1>7, <1>8 DEF Queue!Link, Queue!popLocals, LinkDoes

LEMMA WriteEffect ==
  ASSUME QueueTyping, QueueEndsInv, Queue!Write
  PROVE  WriteDoes
<1> DEFINE p == block[pLastWriteBlock].uLastWriteIndex % kMaxBlockSize
           a == [block[pLastWriteBlock].arrLoopBuffer EXCEPT ![p] = pushed]
           r == [block[pLastWriteBlock] EXCEPT !.arrLoopBuffer = a]
<1>1. pusher = "write" /\ block' = [block EXCEPT ![pLastWriteBlock] = r]
  BY DEF Queue!Write
<1>2. /\ block \in Seq(QueueBlock) /\ Len(block) \in Nat /\ pushed \in Nat
      /\ \A c \in 1 .. Len(block) :
           /\ block[c] \in QueueBlock /\ block[c].uLastWriteIndex \in Nat
           /\ block[c].arrLoopBuffer \in [0 .. kMaxBlockSize - 1 -> Nat]
  BY Fields DEF QueueTyping
<1>3. pLastWriteBlock \in 1 .. Len(block)
  BY <1>1, <1>2 DEF QueueEndsInv
<1>4. p \in 0 .. kMaxBlockSize - 1
  BY <1>2, <1>3, Place
<1> HIDE DEF p
<1>5. /\ a \in [0 .. kMaxBlockSize - 1 -> Nat]
      /\ \A j \in 0 .. kMaxBlockSize - 1 :
           a[j] = IF j = p THEN pushed ELSE block[pLastWriteBlock].arrLoopBuffer[j]
  BY <1>2, <1>3, <1>4
<1> HIDE DEF a
<1>6. /\ r \in QueueBlock /\ r.uLastReadIndex = block[pLastWriteBlock].uLastReadIndex
      /\ r.uLastWriteIndex = block[pLastWriteBlock].uLastWriteIndex
      /\ r.pNextBlock = block[pLastWriteBlock].pNextBlock
      /\ r.before = block[pLastWriteBlock].before /\ r.arrLoopBuffer = a
  BY <1>2, <1>3, <1>5 DEF QueueBlock
<1> HIDE DEF r
<1>7. /\ block' \in Seq(QueueBlock) /\ Len(block') = Len(block) /\ block'[pLastWriteBlock] = r
      /\ \A c \in 1 .. Len(block) : c # pLastWriteBlock => block'[c] = block[c]
  BY <1>1, <1>2, <1>3, <1>6, Replaced
<1>8. \A c \in 1 .. Len(block) :
       /\ block'[c].uLastReadIndex = block[c].uLastReadIndex
       /\ block'[c].uLastWriteIndex = block[c].uLastWriteIndex
       /\ block'[c].pNextBlock = block[c].pNextBlock
       /\ block'[c].before = block[c].before
       /\ \A j \in 0 .. kMaxBlockSize - 1 :
            block'[c].arrLoopBuffer[j] =
              IF c = pLastWriteBlock /\ j = block[c].uLastWriteIndex % kMaxBlockSize
              THEN pushed ELSE block[c].arrLoopBuffer[j]
  <2> TAKE c \in 1 .. Len(block)
  <2>1. CASE c = pLastWriteBlock
    BY <1>5, <1>6, <1>7, <2>1 DEF p
  <2>2. CASE c # pLastWriteBlock
    BY <1>7, <2>2
  <2> QED BY <2>1, <2>2
<1> QED BY <1>1, <1>7, <1>8 DEF Queue!Write, Queue!popLocals, WriteDoes

LEMMA CountEffect ==
  ASSUME QueueTyping, QueueEndsInv, Queue!CountEntry
  PROVE  CountDoes
<1> DEFINE r == [block[pLastWriteBlock] EXCEPT !.uLastWriteIndex = @ + 1]
<1>1. pusher = "count" /\ block' = [block EXCEPT ![pLastWriteBlock] = r]
  BY DEF Queue!CountEntry
<1>2. /\ block \in Seq(QueueBlock) /\ Len(block) \in Nat
      /\ \A c \in 1 .. Len(block) : block[c] \in QueueBlock
  BY Fields DEF QueueTyping
<1>3. pLastWriteBlock \in 1 .. Len(block)
  BY <1>1, <1>2 DEF QueueEndsInv
<1>4. /\ r \in QueueBlock /\ r.uLastReadIndex = block[pLastWriteBlock].uLastReadIndex
      /\ r.uLastWriteIndex = block[pLastWriteBlock].uLastWriteIndex + 1
      /\ r.pNextBlock = block[pLastWriteBlock].pNextBlock
      /\ r.before = block[pLastWriteBlock].before
      /\ r.arrLoopBuffer = block[pLastWriteBlock].arrLoopBuffer
  BY <1>2, <1>3, WrittenChanged
<1> HIDE DEF r
<1>5. /\ block' \in Seq(QueueBlock) /\ Len(block') = Len(block) /\ block'[pLastWriteBlock] = r
      /\ \A c \in 1 .. Len(block) : c # pLastWriteBlock => block'[c] = block[c]
  BY <1>1, <1>2, <1>3, <1>4, Replaced
<1>6. \A c \in 1 .. Len(block) :
       /\ block'[c].uLastReadIndex = block[c].uLastReadIndex
       /\ block'[c].uLastWriteIndex =
            IF c = pLastWriteBlock THEN block[c].uLastWriteIndex + 1 ELSE block[c].uLastWriteIndex
       /\ block'[c].pNextBlock = block[c].pNextBlock
       /\ block'[c].before = block[c].before
       /\ block'[c].arrLoopBuffer = block[c].arrLoopBuffer
  BY <1>4, <1>5
<1> QED BY <1>1, <1>5, <1>6 DEF Queue!CountEntry, Queue!popLocals, CountDoes

LEMMA AdvanceEffect ==
  ASSUME QueueTyping, QueueEndsInv, Queue!Advance
  PROVE  AdvanceDoes
<1> DEFINE r == [block[pFirstReadBlock] EXCEPT !.uLastReadIndex = @ + 1]
<1>1. popper = "advance" /\ block' = [block EXCEPT ![pFirstReadBlock] = r]
  BY DEF Queue!Advance
<1>2. /\ block \in Seq(QueueBlock) /\ Len(block) \in Nat
      /\ \A c \in 1 .. Len(block) : block[c] \in QueueBlock
  BY Fields DEF QueueTyping
<1>3. pFirstReadBlock \in 1 .. Len(block)
  BY <1>1, <1>2 DEF QueueEndsInv, QueueTyping
<1>4. /\ r \in QueueBlock /\ r.uLastReadIndex = block[pFirstReadBlock].uLastReadIndex + 1
      /\ r.uLastWriteIndex = block[pFirstReadBlock].uLastWriteIndex
      /\ r.pNextBlock = block[pFirstReadBlock].pNextBlock
      /\ r.before = block[pFirstReadBlock].before
      /\ r.arrLoopBuffer = block[pFirstReadBlock].arrLoopBuffer
  BY <1>2, <1>3, ReadChanged
<1> HIDE DEF r
<1>5. /\ block' \in Seq(QueueBlock) /\ Len(block') = Len(block) /\ block'[pFirstReadBlock] = r
      /\ \A c \in 1 .. Len(block) : c # pFirstReadBlock => block'[c] = block[c]
  BY <1>1, <1>2, <1>3, <1>4, Replaced
<1>6. \A c \in 1 .. Len(block) :
       /\ block'[c].uLastReadIndex =
            IF c = pFirstReadBlock THEN block[c].uLastReadIndex + 1 ELSE block[c].uLastReadIndex
       /\ block'[c].uLastWriteIndex = block[c].uLastWriteIndex
       /\ block'[c].pNextBlock = block[c].pNextBlock
       /\ block'[c].before = block[c].before
       /\ block'[c].arrLoopBuffer = block[c].arrLoopBuffer
  BY <1>4, <1>5
<1> QED BY <1>1, <1>5, <1>6 DEF Queue!Advance, Queue!pushLocals, Queue!None, AdvanceDoes

-----------------------------------------------------------------------------
(* Steps that do not write to the blocks.                                  *)

EndsStay == Queue!First' = Queue!First /\ Queue!Last' = Queue!Last

LEMMA BlocksStay ==
  ASSUME QueueInv, block' = block, pFirstReadBlock' = pFirstReadBlock
  PROVE  /\ ChainInv' /\ CoveredInv' /\ ValuesInv'
         /\ Queue!First' = Queue!First /\ Queue!Last' = Queue!Last
<1>1. Queue!First' = Queue!First /\ Queue!Last' = Queue!Last
  BY DEF Queue!First, Queue!Last
<1>2. ChainInv'
  BY DEF QueueInv, ChainInv, LinksInv, FillInv, OrderInv
<1>3. CoveredInv'
  BY <1>1 DEF QueueInv, CoveredInv, Queue!Holds
<1>4. ValuesInv'
  BY DEF QueueInv, ValuesInv
<1> QED BY <1>1, <1>2, <1>3, <1>4

LEMMA FirstTyped ==
  ASSUME QueueTyping, QueueEndsInv
  PROVE  Queue!First \in Nat /\ Queue!Last \in Nat
<1>1. Queue!Last \in Nat /\ Len(block) \in Nat
  BY Fields DEF QueueTyping
<1>2. CASE pFirstReadBlock = 0
  BY <1>1, <1>2 DEF Queue!First, Queue!None
<1>3. CASE pFirstReadBlock # 0
  <2>1. pFirstReadBlock \in 1 .. Len(block)
    BY <1>1, <1>3 DEF QueueTyping, QueueEndsInv
  <2>2. block[pFirstReadBlock].before \in Nat /\ block[pFirstReadBlock].uLastReadIndex \in Nat
    BY <2>1, Fields DEF QueueTyping
  <2> QED BY <1>1, <1>3, <2>2 DEF Queue!First, Queue!None
<1> QED BY <1>2, <1>3

\* What the queue has, some block has.
LEMMA SomeUnread ==
  ASSUME QueueInv, Queue!Contents # <<>>
  PROVE  /\ pFirstReadBlock # 0
         /\ \E b \in pFirstReadBlock .. Len(block) : block[b].uLastReadIndex < block[b].uLastWriteIndex
<1>1. QueueTyping /\ QueueEndsInv /\ ChainInv /\ CoveredInv
  BY DEF QueueInv
<1>2. Queue!First \in Nat /\ Queue!Last \in Nat
  BY <1>1, FirstTyped
<1>3. Queue!First < Queue!Last
  <2> SUFFICES ASSUME ~(Queue!First < Queue!Last) PROVE FALSE
    OBVIOUS
  <2>1. 1 .. Queue!Last - Queue!First = {}
    BY <1>2
  <2> QED BY <2>1 DEF Queue!Contents
<1>4. pFirstReadBlock # 0
  BY <1>2, <1>3 DEF Queue!First, Queue!None
<1>5. PICK b \in pFirstReadBlock .. Len(block) : Queue!Holds(b, Queue!First + 1)
  BY <1>1, <1>2, <1>3 DEF CoveredInv
<1>6. b \in 1 .. Len(block) /\ Len(block) \in Nat
  BY <1>1, <1>4, Fields DEF QueueTyping
<1>7. /\ block[b].uLastReadIndex \in Nat /\ block[b].uLastWriteIndex \in Nat /\ block[b].before \in Nat
  BY <1>1, <1>6, Fields DEF QueueTyping
<1>8. block[b].uLastReadIndex < block[b].uLastWriteIndex
  <2>1. CASE b = pFirstReadBlock
    BY <1>2, <1>4, <1>5, <1>7, <2>1 DEF Queue!First, Queue!None, Queue!Holds
  <2>2. CASE b # pFirstReadBlock
    <3>1. block[b].uLastReadIndex = 0
      BY <1>1, <1>5, <1>6, <2>2 DEF ChainInv, LinksInv, FillInv, OrderInv, QueueTyping
    <3>2. block[b].before < Queue!First + 1 /\ Queue!First + 1 <= block[b].before + block[b].uLastWriteIndex
      BY <1>5 DEF Queue!Holds
    <3> QED BY <1>2, <1>7, <3>1, <3>2
  <2> QED BY <2>1, <2>2
<1> QED BY <1>4, <1>8

LEMMA BeginPushKeeps ==
  ASSUME QueueInv, Queue!BeginPush
  PROVE  QueueInv' /\ EndsStay
<1>1. /\ QueueTyping /\ QueueEndsInv /\ ChainInv /\ CoveredInv /\ ValuesInv
      /\ PushInv /\ PopInv /\ NullInv /\ FreedInv
  BY DEF QueueInv
<1>2. block' = block /\ pFirstReadBlock' = pFirstReadBlock
  BY DEF Queue!BeginPush, Queue!popLocals
<1>3. /\ ChainInv' /\ CoveredInv' /\ ValuesInv'
      /\ Queue!First' = Queue!First /\ Queue!Last' = Queue!Last
  BY <1>2, BlocksStay
<1>4. /\ Len(block) \in Nat
      /\ \A c \in 1 .. Len(block) :
           /\ block[c].uLastReadIndex \in Nat /\ block[c].uLastWriteIndex \in Nat
           /\ block[c].before \in Nat /\ block[c].arrLoopBuffer \in [0 .. kMaxBlockSize - 1 -> Nat]
      /\ Queue!Last \in Nat /\ (Len(block) > 0 => Len(block) \in 1 .. Len(block))
  BY <1>1, Fields DEF QueueTyping
<1>5. QueueTyping'
  BY <1>1, <1>2, <1>4 DEF QueueTyping, Queue!BeginPush, Queue!popLocals, Queue!None
<1>6. QueueEndsInv'
  BY <1>1, <1>2, <1>4 DEF QueueTyping, QueueEndsInv, Queue!BeginPush, Queue!popLocals, Queue!None
<1>7. PushInv'
  BY <1>1, <1>2, <1>3, <1>4 DEF QueueTyping, QueueEndsInv, ChainInv, LinksInv, FillInv, OrderInv,
     PushInv, Queue!BeginPush, Queue!popLocals, Queue!None
<1>8. PopInv'
  BY <1>1, <1>2, <1>3, <1>4 DEF QueueTyping, QueueEndsInv, ChainInv, LinksInv, FillInv, OrderInv,
     PopInv, Queue!First, Queue!BeginPush, Queue!popLocals, Queue!None
<1>9. NullInv'
  BY <1>1, <1>2, <1>3, <1>4 DEF QueueTyping, QueueEndsInv, NullInv, Queue!BeginPush,
     Queue!popLocals, Queue!None
<1>10. FreedInv'
  BY <1>1, <1>2 DEF QueueTyping, FreedInv, Queue!BeginPush, Queue!popLocals, Queue!None
<1> QED BY <1>3, <1>5, <1>6, <1>7, <1>8, <1>9, <1>10 DEF QueueInv, EndsStay

LEMMA TestFullKeeps ==
  ASSUME QueueInv, Queue!TestFull
  PROVE  QueueInv' /\ EndsStay
<1>1. /\ QueueTyping /\ QueueEndsInv /\ ChainInv /\ CoveredInv /\ ValuesInv
      /\ PushInv /\ PopInv /\ NullInv /\ FreedInv
  BY DEF QueueInv
<1>2. block' = block /\ pFirstReadBlock' = pFirstReadBlock
  BY DEF Queue!TestFull, Queue!popLocals
<1>3. /\ ChainInv' /\ CoveredInv' /\ ValuesInv'
      /\ Queue!First' = Queue!First /\ Queue!Last' = Queue!Last
  BY <1>2, BlocksStay
<1>4. /\ Len(block) \in Nat
      /\ \A c \in 1 .. Len(block) :
           /\ block[c].uLastReadIndex \in Nat /\ block[c].uLastWriteIndex \in Nat
           /\ block[c].before \in Nat /\ block[c].arrLoopBuffer \in [0 .. kMaxBlockSize - 1 -> Nat]
      /\ Queue!Last \in Nat /\ (Len(block) > 0 => Len(block) \in 1 .. Len(block))
  BY <1>1, Fields DEF QueueTyping
<1>0. pusher' = "write" =>
       block[Len(block)].uLastWriteIndex < block[Len(block)].uLastReadIndex + kMaxBlockSize
  <2>1. pLastWriteBlock = Len(block) /\ Len(block) \in 1 .. Len(block)
    BY <1>1, <1>4 DEF QueueEndsInv, Queue!TestFull
  <2>2. block[Len(block)].uLastWriteIndex <= block[Len(block)].uLastReadIndex + kMaxBlockSize
    BY <1>1, <2>1 DEF ChainInv, LinksInv, FillInv, OrderInv
  <2>3. block[Len(block)].uLastWriteIndex \in Nat /\ block[Len(block)].uLastReadIndex \in Nat
    BY <1>4, <2>1
  <2>4. pusher' = "write" => block[Len(block)].uLastReadIndex + kMaxBlockSize # block[Len(block)].uLastWriteIndex
    BY <2>1 DEF Queue!TestFull, Queue!IsFull
  <2> QED BY <2>2, <2>3, <2>4
<1>a. pusher' = "link" =>
        block[Len(block)].uLastWriteIndex - block[Len(block)].uLastReadIndex = kMaxBlockSize
  <2>1. pLastWriteBlock = Len(block) /\ Len(block) \in 1 .. Len(block)
    BY <1>1, <1>4 DEF QueueEndsInv, Queue!TestFull
  <2>2. block[Len(block)].uLastWriteIndex \in Nat /\ block[Len(block)].uLastReadIndex \in Nat
    BY <1>4, <2>1
  <2> QED BY <2>1, <2>2 DEF Queue!TestFull, Queue!IsFull
<1>5. QueueTyping'
  BY <1>1, <1>2, <1>4, <1>0 DEF QueueTyping, Queue!TestFull, Queue!popLocals, Queue!IsFull
<1>6. QueueEndsInv'
  BY <1>1, <1>2, <1>4 DEF QueueTyping, QueueEndsInv, Queue!TestFull, Queue!popLocals, Queue!IsFull
<1>7. PushInv'
  BY <1>1, <1>2, <1>3, <1>4, <1>0 DEF QueueTyping, QueueEndsInv, ChainInv, LinksInv, FillInv,
     OrderInv, PushInv, Queue!TestFull, Queue!popLocals, Queue!IsFull
<1>8. PopInv'
  <2>1. popper = "next" /\ pusher' = "link" =>
          block[pFirstReadBlock].uLastWriteIndex - block[pFirstReadBlock].uLastReadIndex
            \in {0, kMaxBlockSize}
    <3>1. CASE pFirstReadBlock = Len(block)
      BY <1>a, <3>1
    <3>2. CASE pFirstReadBlock < Len(block)
      BY <1>1, <3>2 DEF PopInv
    <3> QED BY <1>1, <1>4, <3>1, <3>2 DEF QueueEndsInv, QueueTyping
  <2>2. pusher' \in {"link", "write"} /\ popper' = popper /\ tmp' = tmp
    BY DEF Queue!TestFull, Queue!popLocals
  <2> QED BY <1>1, <1>2, <1>3, <2>1, <2>2 DEF PopInv
<1>9. NullInv'
  BY <1>1, <1>2, <1>3, <1>4, <1>0 DEF QueueTyping, QueueEndsInv, NullInv, Queue!TestFull,
     Queue!popLocals, Queue!IsFull
<1>10. FreedInv'
  BY <1>1, <1>2 DEF QueueTyping, FreedInv, Queue!TestFull, Queue!popLocals, Queue!IsFull
<1> QED BY <1>3, <1>5, <1>6, <1>7, <1>8, <1>9, <1>10 DEF QueueInv, EndsStay

LEMMA MoveOnKeeps ==
  ASSUME QueueInv, Queue!MoveOn
  PROVE  QueueInv' /\ EndsStay
<1>1. /\ QueueTyping /\ QueueEndsInv /\ ChainInv /\ CoveredInv /\ ValuesInv
      /\ PushInv /\ PopInv /\ NullInv /\ FreedInv
  BY DEF QueueInv
<1>2. block' = block /\ pFirstReadBlock' = pFirstReadBlock
  BY DEF Queue!MoveOn, Queue!popLocals
<1>3. /\ ChainInv' /\ CoveredInv' /\ ValuesInv'
      /\ Queue!First' = Queue!First /\ Queue!Last' = Queue!Last
  BY <1>2, BlocksStay
<1>4. /\ Len(block) \in Nat
      /\ \A c \in 1 .. Len(block) :
           /\ block[c].uLastReadIndex \in Nat /\ block[c].uLastWriteIndex \in Nat
           /\ block[c].before \in Nat /\ block[c].arrLoopBuffer \in [0 .. kMaxBlockSize - 1 -> Nat]
      /\ Queue!Last \in Nat /\ (Len(block) > 0 => Len(block) \in 1 .. Len(block))
  BY <1>1, Fields DEF QueueTyping
<1>5. QueueTyping'
  BY <1>1, <1>2, <1>4 DEF QueueTyping, Queue!MoveOn, Queue!popLocals
<1>6. QueueEndsInv'
  BY <1>1, <1>2, <1>4 DEF QueueTyping, QueueEndsInv, Queue!MoveOn, Queue!popLocals
<1>7. PushInv'
  BY <1>1, <1>2, <1>3, <1>4 DEF QueueTyping, QueueEndsInv, ChainInv, LinksInv, FillInv, OrderInv,
     PushInv, Queue!MoveOn, Queue!popLocals
<1>8. PopInv'
  BY <1>1, <1>2, <1>3, <1>4 DEF QueueTyping, QueueEndsInv, ChainInv, LinksInv, FillInv, OrderInv,
     PopInv, Queue!First, Queue!MoveOn, Queue!popLocals, Queue!None
<1>9. NullInv'
  BY <1>1, <1>2, <1>3, <1>4 DEF QueueTyping, QueueEndsInv, NullInv, Queue!MoveOn, Queue!popLocals
<1>10. FreedInv'
  BY <1>1, <1>2 DEF QueueTyping, FreedInv, Queue!MoveOn, Queue!popLocals
<1> QED BY <1>3, <1>5, <1>6, <1>7, <1>8, <1>9, <1>10 DEF QueueInv, EndsStay

LEMMA BeginPopKeeps ==
  ASSUME QueueInv, Queue!BeginPop
  PROVE  QueueInv' /\ EndsStay
<1>1. /\ QueueTyping /\ QueueEndsInv /\ ChainInv /\ CoveredInv /\ ValuesInv
      /\ PushInv /\ PopInv /\ NullInv /\ FreedInv
  BY DEF QueueInv
<1>2. block' = block /\ pFirstReadBlock' = pFirstReadBlock
  BY DEF Queue!BeginPop
<1>3. /\ ChainInv' /\ CoveredInv' /\ ValuesInv'
      /\ Queue!First' = Queue!First /\ Queue!Last' = Queue!Last
  BY <1>2, BlocksStay
<1>4. /\ Len(block) \in Nat
      /\ \A c \in 1 .. Len(block) :
           /\ block[c].uLastReadIndex \in Nat /\ block[c].uLastWriteIndex \in Nat
           /\ block[c].before \in Nat /\ block[c].arrLoopBuffer \in [0 .. kMaxBlockSize - 1 -> Nat]
      /\ Queue!Last \in Nat /\ (Len(block) > 0 => Len(block) \in 1 .. Len(block))
  BY <1>1, Fields DEF QueueTyping
<1>0. ~wasEmpty' =>
         /\ pFirstReadBlock # 0
         /\ \E b \in pFirstReadBlock .. Len(block) : block[b].uLastReadIndex < block[b].uLastWriteIndex
  BY SomeUnread DEF Queue!BeginPop
<1>5. QueueTyping'
  BY <1>1, <1>2, <1>4, <1>0 DEF QueueTyping, Queue!BeginPop, Queue!pushLocals, Queue!None
<1>6. QueueEndsInv'
  BY <1>1, <1>2, <1>4 DEF QueueTyping, QueueEndsInv, Queue!BeginPop, Queue!pushLocals, Queue!None
<1>7. PushInv'
  BY <1>1, <1>2, <1>3, <1>4, <1>0 DEF QueueTyping, QueueEndsInv, ChainInv, LinksInv, FillInv,
     OrderInv, PushInv, Queue!BeginPop, Queue!pushLocals, Queue!None
<1>8. PopInv'
  BY <1>1, <1>2, <1>3, <1>4, <1>0 DEF QueueTyping, QueueEndsInv, ChainInv, LinksInv, FillInv,
     OrderInv, PopInv, Queue!First, Queue!BeginPop, Queue!pushLocals, Queue!None
<1>9. NullInv'
  BY <1>1, <1>2, <1>3, <1>4, <1>0 DEF QueueTyping, QueueEndsInv, NullInv, Queue!BeginPop,
     Queue!pushLocals, Queue!None
<1>10. FreedInv'
  BY <1>1, <1>2 DEF QueueTyping, FreedInv, Queue!BeginPop, Queue!pushLocals, Queue!None
<1> QED BY <1>3, <1>5, <1>6, <1>7, <1>8, <1>9, <1>10 DEF QueueInv, EndsStay

LEMMA TestEmptyKeeps ==
  ASSUME QueueInv, Queue!TestEmpty
  PROVE  QueueInv' /\ EndsStay
<1>1. /\ QueueTyping /\ QueueEndsInv /\ ChainInv /\ CoveredInv /\ ValuesInv
      /\ PushInv /\ PopInv /\ NullInv /\ FreedInv
  BY DEF QueueInv
<1>2. block' = block /\ pFirstReadBlock' = pFirstReadBlock
  BY DEF Queue!TestEmpty
<1>3. /\ ChainInv' /\ CoveredInv' /\ ValuesInv'
      /\ Queue!First' = Queue!First /\ Queue!Last' = Queue!Last
  BY <1>2, BlocksStay
<1>4. /\ Len(block) \in Nat
      /\ \A c \in 1 .. Len(block) :
           /\ block[c].uLastReadIndex \in Nat /\ block[c].uLastWriteIndex \in Nat
           /\ block[c].before \in Nat /\ block[c].arrLoopBuffer \in [0 .. kMaxBlockSize - 1 -> Nat]
      /\ Queue!Last \in Nat /\ (Len(block) > 0 => Len(block) \in 1 .. Len(block))
  BY <1>1, Fields DEF QueueTyping
<1>5. QueueTyping'
  BY <1>1, <1>2, <1>4 DEF QueueTyping, Queue!TestEmpty, Queue!pushLocals, Queue!IsEmpty
<1>6. QueueEndsInv'
  BY <1>1, <1>2, <1>4 DEF QueueTyping, QueueEndsInv, Queue!TestEmpty, Queue!pushLocals,
     Queue!IsEmpty
<1>7. PushInv'
  BY <1>1, <1>2, <1>3, <1>4 DEF QueueTyping, QueueEndsInv, ChainInv, LinksInv, FillInv, OrderInv,
     PushInv, Queue!TestEmpty, Queue!pushLocals, Queue!IsEmpty
<1>8. PopInv'
  BY <1>1, <1>2, <1>3, <1>4 DEF QueueTyping, QueueEndsInv, ChainInv, LinksInv, FillInv, OrderInv,
     PopInv, Queue!First, Queue!TestEmpty, Queue!pushLocals, Queue!None, Queue!IsEmpty
<1>9. NullInv'
  BY <1>1, <1>2, <1>3, <1>4 DEF QueueTyping, QueueEndsInv, NullInv, Queue!TestEmpty,
     Queue!pushLocals, Queue!IsEmpty
<1>10. FreedInv'
  BY <1>1, <1>2 DEF QueueTyping, FreedInv, Queue!TestEmpty, Queue!pushLocals, Queue!IsEmpty
<1> QED BY <1>3, <1>5, <1>6, <1>7, <1>8, <1>9, <1>10 DEF QueueInv, EndsStay

LEMMA ReadKeeps ==
  ASSUME QueueInv, Queue!Read
  PROVE  QueueInv' /\ EndsStay
<1>1. /\ QueueTyping /\ QueueEndsInv /\ ChainInv /\ CoveredInv /\ ValuesInv
      /\ PushInv /\ PopInv /\ NullInv /\ FreedInv
  BY DEF QueueInv
<1>2. block' = block /\ pFirstReadBlock' = pFirstReadBlock
  BY DEF Queue!Read
<1>3. /\ ChainInv' /\ CoveredInv' /\ ValuesInv'
      /\ Queue!First' = Queue!First /\ Queue!Last' = Queue!Last
  BY <1>2, BlocksStay
<1>4. /\ Len(block) \in Nat
      /\ \A c \in 1 .. Len(block) :
           /\ block[c].uLastReadIndex \in Nat /\ block[c].uLastWriteIndex \in Nat
           /\ block[c].before \in Nat /\ block[c].arrLoopBuffer \in [0 .. kMaxBlockSize - 1 -> Nat]
      /\ Queue!Last \in Nat /\ (Len(block) > 0 => Len(block) \in 1 .. Len(block))
  BY <1>1, Fields DEF QueueTyping
<1>0. tmp' = Queue!First + 1 /\ tmp' \in Nat
  <2>1. pFirstReadBlock \in 1 .. Len(block) /\ pFirstReadBlock # 0 /\ popper = "read"
    BY <1>1, <1>4 DEF Queue!Read, QueueTyping, QueueEndsInv
  <2> DEFINE r == block[pFirstReadBlock].uLastReadIndex
  <2>2. /\ r \in Nat /\ block[pFirstReadBlock].uLastWriteIndex \in Nat
        /\ block[pFirstReadBlock].before \in Nat /\ r < block[pFirstReadBlock].uLastWriteIndex
    BY <1>1, <1>4, <2>1 DEF PopInv
  <2>3. r \in block[pFirstReadBlock].uLastReadIndex .. block[pFirstReadBlock].uLastWriteIndex - 1
    BY <2>2
  <2>4. block[pFirstReadBlock].arrLoopBuffer[r % kMaxBlockSize] = block[pFirstReadBlock].before + r + 1
    BY <1>1, <2>1, <2>3 DEF ValuesInv, QueueTyping
  <2>5. tmp' = block[pFirstReadBlock].arrLoopBuffer[r % kMaxBlockSize]
    BY DEF Queue!Read
  <2> QED BY <2>1, <2>2, <2>4, <2>5 DEF Queue!First, Queue!None
<1>5. QueueTyping'
  BY <1>1, <1>2, <1>4, <1>0 DEF QueueTyping, Queue!Read, Queue!pushLocals
<1>6. QueueEndsInv'
  BY <1>1, <1>2, <1>4 DEF QueueTyping, QueueEndsInv, Queue!Read, Queue!pushLocals
<1>7. PushInv'
  BY <1>1, <1>2, <1>3, <1>4, <1>0 DEF QueueTyping, QueueEndsInv, ChainInv, LinksInv, FillInv,
     OrderInv, PushInv, Queue!Read, Queue!pushLocals
<1>8. PopInv'
  BY <1>1, <1>2, <1>3, <1>4, <1>0 DEF QueueTyping, QueueEndsInv, ChainInv, LinksInv, FillInv,
     OrderInv, PopInv, Queue!First, Queue!Read, Queue!pushLocals, Queue!None
<1>9. NullInv'
  BY <1>1, <1>2, <1>3, <1>4, <1>0 DEF QueueTyping, QueueEndsInv, NullInv, Queue!Read,
     Queue!pushLocals
<1>10. FreedInv'
  BY <1>1, <1>2 DEF QueueTyping, FreedInv, Queue!Read, Queue!pushLocals
<1> QED BY <1>3, <1>5, <1>6, <1>7, <1>8, <1>9, <1>10 DEF QueueInv, EndsStay

LEMMA DeleteKeeps ==
  ASSUME QueueInv, Queue!Delete
  PROVE  QueueInv' /\ EndsStay
<1>1. /\ QueueTyping /\ QueueEndsInv /\ ChainInv /\ CoveredInv /\ ValuesInv
      /\ PushInv /\ PopInv /\ NullInv /\ FreedInv
  BY DEF QueueInv
<1>2. block' = block /\ pFirstReadBlock' = pFirstReadBlock
  BY DEF Queue!Delete
<1>3. /\ ChainInv' /\ CoveredInv' /\ ValuesInv'
      /\ Queue!First' = Queue!First /\ Queue!Last' = Queue!Last
  BY <1>2, BlocksStay
<1>4. /\ Len(block) \in Nat
      /\ \A c \in 1 .. Len(block) :
           /\ block[c].uLastReadIndex \in Nat /\ block[c].uLastWriteIndex \in Nat
           /\ block[c].before \in Nat /\ block[c].arrLoopBuffer \in [0 .. kMaxBlockSize - 1 -> Nat]
      /\ Queue!Last \in Nat /\ (Len(block) > 0 => Len(block) \in 1 .. Len(block))
  BY <1>1, Fields DEF QueueTyping
<1>5. QueueTyping'
  BY <1>1, <1>2, <1>4 DEF QueueTyping, Queue!Delete, Queue!pushLocals, Queue!None
<1>6. QueueEndsInv'
  BY <1>1, <1>2, <1>4 DEF QueueTyping, QueueEndsInv, Queue!Delete, Queue!pushLocals, Queue!None
<1>7. PushInv'
  BY <1>1, <1>2, <1>3, <1>4 DEF QueueTyping, QueueEndsInv, ChainInv, LinksInv, FillInv, OrderInv,
     PushInv, Queue!Delete, Queue!pushLocals, Queue!None
<1>8. PopInv'
  BY <1>1, <1>2, <1>3, <1>4 DEF QueueTyping, QueueEndsInv, ChainInv, LinksInv, FillInv, OrderInv,
     PopInv, Queue!First, Queue!Delete, Queue!pushLocals, Queue!None
<1>9. NullInv'
  BY <1>1, <1>2, <1>3, <1>4 DEF QueueTyping, QueueEndsInv, NullInv, Queue!Delete,
     Queue!pushLocals, Queue!None
<1>10. FreedInv'
  BY <1>1, <1>2 DEF QueueTyping, FreedInv, Queue!Delete, Queue!pushLocals, Queue!None
<1> QED BY <1>3, <1>5, <1>6, <1>7, <1>8, <1>9, <1>10 DEF QueueInv, EndsStay

LEMMA NewFirstKeeps ==
  ASSUME QueueInv, NewFirstDoes
  PROVE  QueueInv' /\ EndsStay
<1>1. /\ QueueTyping /\ QueueEndsInv /\ ChainInv /\ CoveredInv /\ ValuesInv
      /\ PushInv /\ PopInv /\ NullInv /\ FreedInv
  BY DEF QueueInv
<1>2. /\ Len(block) \in Nat
      /\ \A c \in 1 .. Len(block) :
           /\ block[c].uLastReadIndex \in Nat /\ block[c].uLastWriteIndex \in Nat
           /\ block[c].pNextBlock \in Nat /\ block[c].before \in Nat
           /\ block[c].arrLoopBuffer \in [0 .. kMaxBlockSize - 1 -> Nat]
      /\ Queue!Last \in Nat /\ Queue!First \in Nat
      /\ Queue!Last = IF Len(block) = 0 THEN 0
                      ELSE block[Len(block)].before + block[Len(block)].uLastWriteIndex
      /\ (Len(block) > 0 => Len(block) \in 1 .. Len(block))
  BY <1>1, Fields, FirstTyped DEF QueueTyping
<1>0. /\ block' \in Seq(QueueBlock) /\ Len(block') \in Nat /\ (block' = <<>> <=> Len(block') = 0)
      /\ \A c \in 1 .. Len(block') :
           /\ block'[c].uLastReadIndex \in Nat /\ block'[c].uLastWriteIndex \in Nat /\ block'[c].before \in Nat
  BY SequenceFields DEF NewFirstDoes
<1>4. Len(block) = 0 /\ Len(block') = 1 /\ pFirstReadBlock = 0 /\ pFirstReadBlock' = 0
  BY <1>1 DEF NewFirstDoes, QueueEndsInv
<1>5. /\ block'[1].uLastReadIndex = 0 /\ block'[1].uLastWriteIndex = 0
      /\ block'[1].pNextBlock = 0 /\ block'[1].before = 0
  BY <1>4 DEF NewFirstDoes
<1>3. Queue!Last = 0 /\ Queue!Last' = 0 /\ Queue!First = 0 /\ Queue!First' = 0
  BY <1>0, <1>2, <1>4, <1>5 DEF Queue!First, Queue!Last, Queue!None
<1>11. QueueTyping'
  BY <1>0, <1>1, <1>2, <1>3, <1>4, <1>5 DEF QueueTyping, NewFirstDoes
<1>12. QueueEndsInv'
  BY <1>0, <1>1, <1>2, <1>3, <1>4, <1>5 DEF QueueTyping, QueueEndsInv, NewFirstDoes
<1>13. ChainInv'
  BY <1>0, <1>1, <1>2, <1>3, <1>4, <1>5 DEF QueueTyping, QueueEndsInv, ChainInv, LinksInv,
     FillInv, OrderInv, NewFirstDoes
<1>14. CoveredInv'
  BY <1>0, <1>1, <1>2, <1>3, <1>4, <1>5 DEF QueueTyping, QueueEndsInv, CoveredInv, Queue!Holds,
     NewFirstDoes
<1>15. ValuesInv'
  BY <1>0, <1>1, <1>2, <1>3, <1>4, <1>5 DEF QueueTyping, QueueEndsInv, ValuesInv, NewFirstDoes
<1>16. PushInv'
  BY <1>0, <1>1, <1>2, <1>3, <1>4, <1>5 DEF QueueTyping, QueueEndsInv, PushInv, NewFirstDoes
<1>17. PopInv'
  BY <1>0, <1>1, <1>2, <1>3, <1>4, <1>5 DEF QueueTyping, QueueEndsInv, PopInv, NewFirstDoes
<1>18. NullInv'
  BY <1>0, <1>1, <1>2, <1>3, <1>4, <1>5 DEF QueueTyping, QueueEndsInv, NullInv, NewFirstDoes
<1>19. FreedInv'
  BY <1>0, <1>1, <1>2, <1>3, <1>4, <1>5 DEF QueueTyping, FreedInv, NewFirstDoes
<1> QED BY <1>3, <1>11, <1>12, <1>13, <1>14, <1>15, <1>16, <1>17, <1>18, <1>19 DEF QueueInv,
           EndsStay

LEMMA LinkKeeps ==
  ASSUME QueueInv, LinkDoes
  PROVE  QueueInv' /\ EndsStay
<1>1. /\ QueueTyping /\ QueueEndsInv /\ ChainInv /\ CoveredInv /\ ValuesInv
      /\ PushInv /\ PopInv /\ NullInv /\ FreedInv
  BY DEF QueueInv
<1>2. /\ Len(block) \in Nat
      /\ \A c \in 1 .. Len(block) :
           /\ block[c].uLastReadIndex \in Nat /\ block[c].uLastWriteIndex \in Nat
           /\ block[c].pNextBlock \in Nat /\ block[c].before \in Nat
           /\ block[c].arrLoopBuffer \in [0 .. kMaxBlockSize - 1 -> Nat]
      /\ Queue!Last \in Nat /\ Queue!First \in Nat
      /\ Queue!Last = IF Len(block) = 0 THEN 0
                      ELSE block[Len(block)].before + block[Len(block)].uLastWriteIndex
      /\ (Len(block) > 0 => Len(block) \in 1 .. Len(block))
  BY <1>1, Fields, FirstTyped DEF QueueTyping
<1>0. /\ block' \in Seq(QueueBlock) /\ Len(block') \in Nat /\ (block' = <<>> <=> Len(block') = 0)
      /\ \A c \in 1 .. Len(block') :
           /\ block'[c].uLastReadIndex \in Nat /\ block'[c].uLastWriteIndex \in Nat /\ block'[c].before \in Nat
  BY SequenceFields DEF LinkDoes
<1>4. /\ Len(block) > 0 /\ pLastWriteBlock = Len(block) /\ Len(block') = Len(block) + 1
      /\ pFirstReadBlock \in 1 .. Len(block) /\ pFirstReadBlock' = pFirstReadBlock
  BY <1>1, <1>2 DEF LinkDoes, QueueEndsInv, QueueTyping
<1>5. \A c \in 1 .. Len(block) :
       /\ block'[c].uLastReadIndex = block[c].uLastReadIndex
       /\ block'[c].uLastWriteIndex = block[c].uLastWriteIndex
       /\ block'[c].before = block[c].before
       /\ block'[c].pNextBlock = IF c = Len(block) THEN Len(block) + 1 ELSE block[c].pNextBlock
  BY <1>4 DEF LinkDoes
<1>6. /\ block'[Len(block) + 1].uLastReadIndex = 0 /\ block'[Len(block) + 1].uLastWriteIndex = 0
      /\ block'[Len(block) + 1].pNextBlock = 0 /\ block'[Len(block) + 1].before = Queue!Last
  BY DEF LinkDoes
<1>3. Queue!Last' = Queue!Last /\ Queue!First' = Queue!First
  BY <1>0, <1>2, <1>4, <1>5, <1>6 DEF Queue!First, Queue!Last, Queue!None
<1>11. QueueTyping'
  BY <1>0, <1>1, <1>2, <1>3, <1>4, <1>5, <1>6 DEF QueueTyping, LinkDoes
<1>12. QueueEndsInv'
  BY <1>0, <1>1, <1>2, <1>3, <1>4, <1>5, <1>6 DEF QueueTyping, QueueEndsInv, LinkDoes
<1>13. ChainInv'
  <2>0. LinksInv /\ FillInv /\ OrderInv /\ \A b \in 1 .. Len(block') : b \in 1 .. Len(block) \/ b = Len(block) + 1
    BY <1>1, <1>2, <1>4 DEF ChainInv
  <2>1. LinksInv'
    <3> SUFFICES ASSUME NEW b \in 1 .. Len(block')
                 PROVE  block'[b].pNextBlock = IF b < Len(block') THEN b + 1 ELSE 0
      BY DEF LinksInv
    <3>1. CASE b = Len(block) + 1
      BY <1>2, <1>4, <1>6, <3>1
    <3>2. CASE b \in 1 .. Len(block)
      <4>1. block[b].pNextBlock = IF b < Len(block) THEN b + 1 ELSE 0
        BY <2>0, <3>2 DEF LinksInv
      <4> QED BY <1>2, <1>4, <1>5, <3>2, <4>1
    <3> QED BY <2>0, <3>1, <3>2
  <2>2. FillInv'
    <3> SUFFICES ASSUME NEW b \in 1 .. Len(block')
                 PROVE  /\ block'[b].uLastReadIndex <= block'[b].uLastWriteIndex
                        /\ block'[b].uLastWriteIndex <= block'[b].uLastReadIndex + kMaxBlockSize
                        /\ b > pFirstReadBlock' => block'[b].uLastReadIndex = 0
      BY DEF FillInv
    <3>1. CASE b = Len(block) + 1
      BY <1>6, <3>1
    <3>2. CASE b \in 1 .. Len(block)
      BY <1>4, <1>5, <2>0, <3>2 DEF FillInv
    <3> QED BY <2>0, <3>1, <3>2
  <2>3. OrderInv'
    <3> SUFFICES ASSUME NEW b \in 1 .. Len(block'), NEW c \in 1 .. Len(block'), b < c
                 PROVE  /\ block'[b].before + block'[b].uLastWriteIndex <= block'[c].before
                        /\ c = b + 1 => block'[b].before + block'[b].uLastWriteIndex = block'[c].before
      BY DEF OrderInv
    <3>1. b \in 1 .. Len(block) /\ block'[b].before = block[b].before
          /\ block'[b].uLastWriteIndex = block[b].uLastWriteIndex
          /\ block[b].before \in Nat /\ block[b].uLastWriteIndex \in Nat
      <4>1. b \in 1 .. Len(block)
        BY <1>2, <1>4
      <4> QED BY <1>2, <1>5, <4>1
    <3>2. CASE c \in 1 .. Len(block)
      BY <1>5, <2>0, <3>1, <3>2 DEF OrderInv
    <3>3. CASE c = Len(block) + 1 /\ b = Len(block)
      BY <1>2, <1>4, <1>6, <3>1, <3>3
    <3>4. CASE c = Len(block) + 1 /\ b < Len(block)
      <4>1. block[b].before + block[b].uLastWriteIndex <= block[Len(block)].before
        BY <1>2, <1>4, <2>0, <3>1, <3>4 DEF OrderInv
      <4>2. block[Len(block)].before \in Nat /\ block[Len(block)].uLastWriteIndex \in Nat
            /\ block'[c].before = block[Len(block)].before + block[Len(block)].uLastWriteIndex
        BY <1>2, <1>4, <1>6, <3>4
      <4>3. c # b + 1
        BY <1>2, <3>1, <3>4
      <4>4. block[b].before + block[b].uLastWriteIndex <= block[Len(block)].before + block[Len(block)].uLastWriteIndex
        BY <1>2, <1>4, <3>1, <4>1, <4>2
      <4> QED BY <3>1, <4>2, <4>3, <4>4
    <3> QED BY <1>2, <2>0, <3>1, <3>2, <3>3, <3>4
  <2> QED BY <2>1, <2>2, <2>3 DEF ChainInv
<1>14. CoveredInv'
  <2> SUFFICES ASSUME NEW n \in Queue!First' + 1 .. Queue!Last'
               PROVE  \E b \in pFirstReadBlock' .. Len(block') : Queue!Holds(b, n)'
    BY DEF CoveredInv
  <2>1. ASSUME n \in Queue!First + 1 .. Queue!Last PROVE \E b \in pFirstReadBlock' .. Len(block') : Queue!Holds(b, n)'
    <3>1. PICK b \in pFirstReadBlock .. Len(block) : Queue!Holds(b, n)
      BY <1>1, <2>1 DEF CoveredInv
    <3>2. b \in 1 .. Len(block) /\ b \in pFirstReadBlock' .. Len(block')
      BY <1>2, <1>4, <3>1
    <3>3. Queue!Holds(b, n)'
      BY <1>2, <1>5, <3>1, <3>2 DEF Queue!Holds
    <3> QED BY <3>2, <3>3
  <2> QED BY <1>2, <1>3, <2>1
<1>15. ValuesInv'
  <2> SUFFICES ASSUME NEW b \in 1 .. Len(block'), NEW i \in block'[b].uLastReadIndex .. block'[b].uLastWriteIndex - 1,
                      b >= pFirstReadBlock'
               PROVE  block'[b].arrLoopBuffer[i % kMaxBlockSize] = block'[b].before + i + 1
    BY DEF ValuesInv
  <2>1. CASE b = Len(block) + 1
    BY <1>6, <2>1
  <2>2. CASE b \in 1 .. Len(block)
    <3>1. block'[b].arrLoopBuffer = block[b].arrLoopBuffer
      BY <2>2 DEF LinkDoes
    <3> QED BY <1>1, <1>4, <1>5, <2>2, <3>1 DEF ValuesInv
  <2> QED BY <1>2, <1>4, <2>1, <2>2
<1>16. PushInv'
  BY <1>0, <1>1, <1>2, <1>3, <1>4, <1>5, <1>6 DEF QueueTyping, QueueEndsInv, PushInv, LinkDoes
<1>17. PopInv'
  BY <1>0, <1>1, <1>2, <1>3, <1>4, <1>5, <1>6 DEF QueueTyping, QueueEndsInv, PopInv, LinkDoes
<1>18. NullInv'
  BY <1>0, <1>1, <1>2, <1>3, <1>4, <1>5, <1>6 DEF QueueTyping, QueueEndsInv, NullInv, LinkDoes
<1>19. FreedInv'
  BY <1>0, <1>1, <1>2, <1>3, <1>4, <1>5, <1>6 DEF QueueTyping, FreedInv, LinkDoes
<1> QED BY <1>3, <1>11, <1>12, <1>13, <1>14, <1>15, <1>16, <1>17, <1>18, <1>19 DEF QueueInv,
           EndsStay

LEMMA WriteKeeps ==
  ASSUME QueueInv, WriteDoes
  PROVE  QueueInv' /\ EndsStay
<1>1. /\ QueueTyping /\ QueueEndsInv /\ ChainInv /\ CoveredInv /\ ValuesInv
      /\ PushInv /\ PopInv /\ NullInv /\ FreedInv
  BY DEF QueueInv
<1>2. /\ Len(block) \in Nat
      /\ \A c \in 1 .. Len(block) :
           /\ block[c].uLastReadIndex \in Nat /\ block[c].uLastWriteIndex \in Nat
           /\ block[c].pNextBlock \in Nat /\ block[c].before \in Nat
           /\ block[c].arrLoopBuffer \in [0 .. kMaxBlockSize - 1 -> Nat]
      /\ Queue!Last \in Nat /\ Queue!First \in Nat
      /\ Queue!Last = IF Len(block) = 0 THEN 0
                      ELSE block[Len(block)].before + block[Len(block)].uLastWriteIndex
      /\ (Len(block) > 0 => Len(block) \in 1 .. Len(block))
  BY <1>1, Fields, FirstTyped DEF QueueTyping
<1>0. /\ block' \in Seq(QueueBlock) /\ Len(block') \in Nat /\ (block' = <<>> <=> Len(block') = 0)
      /\ \A c \in 1 .. Len(block') :
           /\ block'[c].uLastReadIndex \in Nat /\ block'[c].uLastWriteIndex \in Nat /\ block'[c].before \in Nat
  BY SequenceFields DEF WriteDoes
<1>4. /\ Len(block) > 0 /\ pLastWriteBlock = Len(block) /\ Len(block') = Len(block)
      /\ pFirstReadBlock \in 1 .. Len(block) /\ pFirstReadBlock' = pFirstReadBlock
  BY <1>1, <1>2 DEF WriteDoes, QueueEndsInv, QueueTyping
<1>5. \A c \in 1 .. Len(block) :
       /\ block'[c].uLastReadIndex = block[c].uLastReadIndex
       /\ block'[c].uLastWriteIndex = block[c].uLastWriteIndex
       /\ block'[c].before = block[c].before
       /\ block'[c].pNextBlock = block[c].pNextBlock
  BY DEF WriteDoes
<1>3. Queue!Last' = Queue!Last /\ Queue!First' = Queue!First
  BY <1>0, <1>2, <1>4, <1>5 DEF Queue!First, Queue!Last, Queue!None
<1>6. pusher = "write" /\ block[Len(block)].uLastWriteIndex < block[Len(block)].uLastReadIndex + kMaxBlockSize
  BY <1>1 DEF WriteDoes, PushInv
<1>7. \A c \in 1 .. Len(block) : \A j \in 0 .. kMaxBlockSize - 1 :
        block'[c].arrLoopBuffer[j] =
          IF c = Len(block) /\ j = block[c].uLastWriteIndex % kMaxBlockSize
          THEN pushed ELSE block[c].arrLoopBuffer[j]
  BY <1>4 DEF WriteDoes
<1>11. QueueTyping'
  BY <1>0, <1>1, <1>2, <1>3, <1>4, <1>5 DEF QueueTyping, WriteDoes
<1>12. QueueEndsInv'
  BY <1>0, <1>1, <1>2, <1>3, <1>4, <1>5 DEF QueueTyping, QueueEndsInv, WriteDoes
<1>13. ChainInv'
  <2>1. LinksInv'
    BY <1>0, <1>1, <1>2, <1>4, <1>5 DEF ChainInv, LinksInv
  <2>2. FillInv'
    BY <1>0, <1>1, <1>2, <1>4, <1>5 DEF ChainInv, FillInv, PushInv, PopInv, QueueTyping
  <2>3. OrderInv'
    BY <1>0, <1>1, <1>2, <1>4, <1>5 DEF ChainInv, OrderInv, QueueTyping
  <2> QED BY <2>1, <2>2, <2>3 DEF ChainInv
<1>14. CoveredInv'
  <2> SUFFICES ASSUME NEW n \in Queue!First' + 1 .. Queue!Last'
               PROVE  \E b \in pFirstReadBlock' .. Len(block') : Queue!Holds(b, n)'
    BY DEF CoveredInv
  <2>1. ASSUME n \in Queue!First + 1 .. Queue!Last PROVE \E b \in pFirstReadBlock' .. Len(block') : Queue!Holds(b, n)'
    <3>1. PICK b \in pFirstReadBlock .. Len(block) : Queue!Holds(b, n)
      BY <1>1, <2>1 DEF CoveredInv
    <3>2. b \in 1 .. Len(block) /\ b \in pFirstReadBlock' .. Len(block')
      BY <1>2, <1>4, <3>1
    <3>3. Queue!Holds(b, n)'
      BY <1>2, <1>5, <3>1, <3>2 DEF Queue!Holds
    <3> QED BY <3>2, <3>3
  <2> QED BY <1>2, <1>3, <2>1
<1>15. ValuesInv'
  <2> SUFFICES ASSUME NEW b \in 1 .. Len(block'), NEW i \in block'[b].uLastReadIndex .. block'[b].uLastWriteIndex - 1,
                      b >= pFirstReadBlock'
               PROVE  block'[b].arrLoopBuffer[i % kMaxBlockSize] = block'[b].before + i + 1
    BY DEF ValuesInv
  <2>1. b \in 1 .. Len(block) /\ i \in block[b].uLastReadIndex .. block[b].uLastWriteIndex - 1 /\ i \in Nat
    BY <1>2, <1>4, <1>5, SMTT(30)
  <2>2. block[b].arrLoopBuffer[i % kMaxBlockSize] = block[b].before + i + 1
    BY <1>1, <1>4, <2>1 DEF ValuesInv
  <2>3. i % kMaxBlockSize \in 0 .. kMaxBlockSize - 1
    BY <2>1, Place
  <2>4. b = Len(block) => i % kMaxBlockSize # block[b].uLastWriteIndex % kMaxBlockSize
    <3> SUFFICES ASSUME b = Len(block) PROVE i % kMaxBlockSize # block[b].uLastWriteIndex % kMaxBlockSize
      OBVIOUS
    <3>1. block[b].uLastWriteIndex \in Nat /\ block[b].uLastReadIndex \in Nat
      BY <1>2, <2>1
    <3>2. i < block[b].uLastWriteIndex /\ block[b].uLastWriteIndex < i + kMaxBlockSize
      BY <1>6, <2>1, <3>1
    <3> QED BY <2>1, <3>1, <3>2, PlacesDiffer
  <2> QED BY <1>5, <1>7, <2>1, <2>2, <2>3, <2>4
<1>16. PushInv'
  <2>1. block[Len(block)].uLastWriteIndex % kMaxBlockSize \in 0 .. kMaxBlockSize - 1
    BY <1>2, <1>4, Place
  <2>2. block'[Len(block)].arrLoopBuffer[block'[Len(block)].uLastWriteIndex % kMaxBlockSize] = pushed
    BY <1>2, <1>4, <1>5, <1>7, <2>1
  <2> QED BY <1>1, <1>2, <1>3, <1>4, <1>5, <1>6, <2>2 DEF PushInv, WriteDoes
<1>17. PopInv'
  BY <1>0, <1>1, <1>2, <1>3, <1>4, <1>5 DEF QueueTyping, QueueEndsInv, PopInv, WriteDoes
<1>18. NullInv'
  <2>1. \A b \in 1 .. Len(block) : block[b].uLastReadIndex < block[b].uLastWriteIndex
           => block'[b].uLastReadIndex < block'[b].uLastWriteIndex
    BY <1>2, <1>4, <1>5
  <2>2. popper' = popper /\ null' = null /\ wasEmpty' = wasEmpty
    BY DEF WriteDoes
  <2>3. ASSUME NEW p \in Nat, \E b \in p .. Len(block) : block[b].uLastReadIndex < block[b].uLastWriteIndex, p > 0
        PROVE  \E b \in p .. Len(block') : block'[b].uLastReadIndex < block'[b].uLastWriteIndex
    <3>1. PICK b \in p .. Len(block) : block[b].uLastReadIndex < block[b].uLastWriteIndex
      BY <2>3
    <3>2. b \in 1 .. Len(block) /\ b \in p .. Len(block')
      BY <1>2, <1>4, <2>3, <3>1
    <3> QED BY <2>1, <3>1, <3>2
  <2>4. pFirstReadBlock \in Nat /\ pFirstReadBlock > 0 /\ pFirstReadBlock + 1 \in Nat /\ pFirstReadBlock + 1 > 0
    BY <1>2, <1>4
  <2>5. popper \in {"empty", "delete"} /\ ~wasEmpty =>
          \E b \in pFirstReadBlock .. Len(block') : block'[b].uLastReadIndex < block'[b].uLastWriteIndex
    BY <1>1, <2>3, <2>4 DEF NullInv
  <2>6. popper = "next" /\ ~wasEmpty =>
          \E b \in pFirstReadBlock + 1 .. Len(block') : block'[b].uLastReadIndex < block'[b].uLastWriteIndex
    BY <1>1, <2>3, <2>4 DEF NullInv
  <2> QED BY <1>1, <1>4, <2>2, <2>5, <2>6 DEF NullInv
<1>19. FreedInv'
  BY <1>0, <1>1, <1>2, <1>3, <1>4, <1>5 DEF QueueTyping, FreedInv, WriteDoes
<1> QED BY <1>3, <1>11, <1>12, <1>13, <1>14, <1>15, <1>16, <1>17, <1>18, <1>19 DEF QueueInv,
           EndsStay

LEMMA CountKeeps ==
  ASSUME QueueInv, CountDoes
  PROVE  QueueInv' /\ Queue!Last' = Queue!Last + 1 /\ Queue!First' = Queue!First
<1>1. /\ QueueTyping /\ QueueEndsInv /\ ChainInv /\ CoveredInv /\ ValuesInv
      /\ PushInv /\ PopInv /\ NullInv /\ FreedInv
  BY DEF QueueInv
<1>2. /\ Len(block) \in Nat
      /\ \A c \in 1 .. Len(block) :
           /\ block[c].uLastReadIndex \in Nat /\ block[c].uLastWriteIndex \in Nat
           /\ block[c].pNextBlock \in Nat /\ block[c].before \in Nat
           /\ block[c].arrLoopBuffer \in [0 .. kMaxBlockSize - 1 -> Nat]
      /\ Queue!Last \in Nat /\ Queue!First \in Nat
      /\ Queue!Last = IF Len(block) = 0 THEN 0
                      ELSE block[Len(block)].before + block[Len(block)].uLastWriteIndex
      /\ (Len(block) > 0 => Len(block) \in 1 .. Len(block))
  BY <1>1, Fields, FirstTyped DEF QueueTyping
<1>0. /\ block' \in Seq(QueueBlock) /\ Len(block') \in Nat /\ (block' = <<>> <=> Len(block') = 0)
      /\ \A c \in 1 .. Len(block') :
           /\ block'[c].uLastReadIndex \in Nat /\ block'[c].uLastWriteIndex \in Nat /\ block'[c].before \in Nat
  BY SequenceFields DEF CountDoes
<1>4. /\ Len(block) > 0 /\ pLastWriteBlock = Len(block) /\ Len(block') = Len(block)
      /\ pFirstReadBlock \in 1 .. Len(block) /\ pFirstReadBlock' = pFirstReadBlock
  BY <1>1, <1>2 DEF CountDoes, QueueEndsInv, QueueTyping
<1>5. \A c \in 1 .. Len(block) :
       /\ block'[c].uLastReadIndex = block[c].uLastReadIndex
       /\ block'[c].uLastWriteIndex = IF c = Len(block) THEN block[c].uLastWriteIndex + 1 ELSE block[c].uLastWriteIndex
       /\ block'[c].before = block[c].before
       /\ block'[c].pNextBlock = block[c].pNextBlock
  BY <1>4 DEF CountDoes
<1>3. Queue!Last' = Queue!Last + 1 /\ Queue!First' = Queue!First
  BY <1>0, <1>2, <1>4, <1>5 DEF Queue!First, Queue!Last, Queue!None
<1>6. /\ pusher = "count" /\ pushed = Queue!Last + 1
      /\ block[Len(block)].uLastWriteIndex < block[Len(block)].uLastReadIndex + kMaxBlockSize
      /\ block[Len(block)].arrLoopBuffer[block[Len(block)].uLastWriteIndex % kMaxBlockSize] = pushed
  BY <1>1 DEF CountDoes, PushInv
<1>11. QueueTyping'
  BY <1>0, <1>1 DEF QueueTyping, CountDoes
<1>12. QueueEndsInv'
  BY <1>0, <1>1, <1>2, <1>3, <1>4, <1>5, <1>6 DEF QueueTyping, QueueEndsInv, CountDoes
<1>13. ChainInv'
  <2>1. LinksInv'
    BY <1>0, <1>1, <1>2, <1>4, <1>5, <1>6 DEF ChainInv, LinksInv
  <2>2. FillInv'
    <3> SUFFICES ASSUME NEW b \in 1 .. Len(block)
                 PROVE  /\ block'[b].uLastReadIndex <= block'[b].uLastWriteIndex
                        /\ block'[b].uLastWriteIndex <= block'[b].uLastReadIndex + kMaxBlockSize
                        /\ b > pFirstReadBlock => block'[b].uLastReadIndex = 0
      BY <1>4 DEF FillInv
    <3>1. /\ block[b].uLastReadIndex <= block[b].uLastWriteIndex
          /\ block[b].uLastWriteIndex <= block[b].uLastReadIndex + kMaxBlockSize
          /\ b > pFirstReadBlock => block[b].uLastReadIndex = 0
          /\ block[b].uLastReadIndex \in Nat /\ block[b].uLastWriteIndex \in Nat
      BY <1>1, <1>2 DEF ChainInv, FillInv
    <3>2. CASE b = Len(block)
      BY <1>4, <1>5, <1>6, <3>1, <3>2
    <3>3. CASE b # Len(block)
      BY <1>5, <3>1, <3>3
    <3> QED BY <3>2, <3>3
  <2>3. OrderInv'
    <3> SUFFICES ASSUME NEW b \in 1 .. Len(block), NEW c \in 1 .. Len(block), b < c
                 PROVE  /\ block'[b].before + block'[b].uLastWriteIndex <= block'[c].before
                        /\ c = b + 1 => block'[b].before + block'[b].uLastWriteIndex = block'[c].before
      BY <1>4 DEF OrderInv
    <3>1. /\ block[b].before + block[b].uLastWriteIndex <= block[c].before
          /\ c = b + 1 => block[b].before + block[b].uLastWriteIndex = block[c].before
      BY <1>1 DEF ChainInv, OrderInv
    <3>2. block'[b].before = block[b].before /\ block'[c].before = block[c].before
          /\ block'[b].uLastWriteIndex = block[b].uLastWriteIndex
      BY <1>2, <1>5
    <3> QED BY <3>1, <3>2
  <2> QED BY <2>1, <2>2, <2>3 DEF ChainInv
<1>14. CoveredInv'
  <2> SUFFICES ASSUME NEW n \in Queue!First' + 1 .. Queue!Last'
               PROVE  \E b \in pFirstReadBlock' .. Len(block') : Queue!Holds(b, n)'
    BY DEF CoveredInv
  <2>1. ASSUME n \in Queue!First + 1 .. Queue!Last PROVE \E b \in pFirstReadBlock' .. Len(block') : Queue!Holds(b, n)'
    <3>1. PICK b \in pFirstReadBlock .. Len(block) : Queue!Holds(b, n)
      BY <1>1, <2>1 DEF CoveredInv
    <3>2. b \in 1 .. Len(block) /\ b \in pFirstReadBlock' .. Len(block')
      BY <1>2, <1>4, <3>1
    <3>3. Queue!Holds(b, n)'
      BY <1>2, <1>5, <3>1, <3>2 DEF Queue!Holds
    <3> QED BY <3>2, <3>3
  <2>2. CASE n = Queue!Last'
    <3>1. Len(block) \in pFirstReadBlock' .. Len(block') /\ Len(block) \in 1 .. Len(block)
      BY <1>2, <1>4
    <3>2. PICK b \in pFirstReadBlock' .. Len(block') : b = Len(block)
      BY <3>1
    <3>3. Queue!Holds(b, n)'
      BY <1>2, <1>3, <1>4, <1>5, <2>2, <3>1, <3>2 DEF Queue!Holds
    <3> QED BY <3>3
  <2>3. n \in Queue!First + 1 .. Queue!Last \/ n = Queue!Last'
    BY <1>2, <1>3
  <2> QED BY <2>1, <2>2, <2>3
<1>15. ValuesInv'
  <2> SUFFICES ASSUME NEW b \in 1 .. Len(block'), NEW i \in block'[b].uLastReadIndex .. block'[b].uLastWriteIndex - 1,
                      b >= pFirstReadBlock'
               PROVE  block'[b].arrLoopBuffer[i % kMaxBlockSize] = block'[b].before + i + 1
    BY DEF ValuesInv
  <2>0. b \in 1 .. Len(block)
    BY <1>4
  <2>1. /\ b \in 1 .. Len(block) /\ i \in Nat /\ block'[b].arrLoopBuffer = block[b].arrLoopBuffer
        /\ block'[b].uLastReadIndex = block[b].uLastReadIndex
    <3>1. block'[b].uLastReadIndex \in Nat /\ block'[b].uLastWriteIndex \in Nat
      BY <1>0
    <3>2. i \in Nat
      BY <3>1
    <3> QED BY <2>0, <3>2 DEF CountDoes
  <2>2. CASE i \in block[b].uLastReadIndex .. block[b].uLastWriteIndex - 1
    BY <1>1, <1>4, <1>5, <2>1, <2>2 DEF ValuesInv
  <2>3. CASE b = Len(block) /\ i = block[b].uLastWriteIndex
    BY <1>2, <1>4, <1>5, <1>6, <2>1, <2>3
  <2>4. i \in block[b].uLastReadIndex .. block[b].uLastWriteIndex - 1 \/ (b = Len(block) /\ i = block[b].uLastWriteIndex)
    BY <1>2, <1>5, <2>1
  <2> QED BY <2>2, <2>3, <2>4
<1>16. PushInv'
  BY <1>0, <1>1, <1>2, <1>3, <1>4, <1>5, <1>6 DEF QueueTyping, QueueEndsInv, PushInv, CountDoes
<1>17. PopInv'
  <2>1. /\ block'[pFirstReadBlock].uLastReadIndex = block[pFirstReadBlock].uLastReadIndex
        /\ block'[pFirstReadBlock].uLastWriteIndex = IF pFirstReadBlock = Len(block)
             THEN block[pFirstReadBlock].uLastWriteIndex + 1 ELSE block[pFirstReadBlock].uLastWriteIndex
    BY <1>4, <1>5
  <2>2. pusher' = "idle" /\ popper' = popper /\ tmp' = tmp
    BY <1>1 DEF CountDoes, QueueTyping
  <2> QED BY <1>1, <1>2, <1>3, <1>4, <2>1, <2>2, SMTT(30) DEF PopInv, QueueTyping
<1>18. NullInv'
  <2>1. \A b \in 1 .. Len(block) : block[b].uLastReadIndex < block[b].uLastWriteIndex
           => block'[b].uLastReadIndex < block'[b].uLastWriteIndex
    BY <1>2, <1>4, <1>5
  <2>2. popper' = popper /\ null' = null /\ wasEmpty' = wasEmpty
    BY DEF CountDoes
  <2>3. ASSUME NEW p \in Nat, \E b \in p .. Len(block) : block[b].uLastReadIndex < block[b].uLastWriteIndex, p > 0
        PROVE  \E b \in p .. Len(block') : block'[b].uLastReadIndex < block'[b].uLastWriteIndex
    <3>1. PICK b \in p .. Len(block) : block[b].uLastReadIndex < block[b].uLastWriteIndex
      BY <2>3
    <3>2. b \in 1 .. Len(block) /\ b \in p .. Len(block')
      BY <1>2, <1>4, <2>3, <3>1
    <3> QED BY <2>1, <3>1, <3>2
  <2>4. pFirstReadBlock \in Nat /\ pFirstReadBlock > 0 /\ pFirstReadBlock + 1 \in Nat /\ pFirstReadBlock + 1 > 0
    BY <1>2, <1>4
  <2>5. popper \in {"empty", "delete"} /\ ~wasEmpty =>
          \E b \in pFirstReadBlock .. Len(block') : block'[b].uLastReadIndex < block'[b].uLastWriteIndex
    BY <1>1, <2>3, <2>4 DEF NullInv
  <2>6. popper = "next" /\ ~wasEmpty =>
          \E b \in pFirstReadBlock + 1 .. Len(block') : block'[b].uLastReadIndex < block'[b].uLastWriteIndex
    BY <1>1, <2>3, <2>4 DEF NullInv
  <2> QED BY <1>1, <1>4, <2>2, <2>5, <2>6 DEF NullInv
<1>19. FreedInv'
  BY <1>0, <1>1, <1>2, <1>3, <1>4, <1>5, <1>6 DEF QueueTyping, FreedInv, CountDoes
<1> QED BY <1>3, <1>11, <1>12, <1>13, <1>14, <1>15, <1>16, <1>17, <1>18, <1>19 DEF QueueInv

LEMMA AdvanceKeeps ==
  ASSUME QueueInv, AdvanceDoes
  PROVE  QueueInv' /\ Queue!Last' = Queue!Last /\ Queue!First' = Queue!First + 1
<1>1. /\ QueueTyping /\ QueueEndsInv /\ ChainInv /\ CoveredInv /\ ValuesInv
      /\ PushInv /\ PopInv /\ NullInv /\ FreedInv
  BY DEF QueueInv
<1>2. /\ Len(block) \in Nat
      /\ \A c \in 1 .. Len(block) :
           /\ block[c].uLastReadIndex \in Nat /\ block[c].uLastWriteIndex \in Nat
           /\ block[c].pNextBlock \in Nat /\ block[c].before \in Nat
           /\ block[c].arrLoopBuffer \in [0 .. kMaxBlockSize - 1 -> Nat]
      /\ Queue!Last \in Nat /\ Queue!First \in Nat
      /\ Queue!Last = IF Len(block) = 0 THEN 0
                      ELSE block[Len(block)].before + block[Len(block)].uLastWriteIndex
      /\ (Len(block) > 0 => Len(block) \in 1 .. Len(block))
  BY <1>1, Fields, FirstTyped DEF QueueTyping
<1>0. /\ block' \in Seq(QueueBlock) /\ Len(block') \in Nat /\ (block' = <<>> <=> Len(block') = 0)
      /\ \A c \in 1 .. Len(block') :
           /\ block'[c].uLastReadIndex \in Nat /\ block'[c].uLastWriteIndex \in Nat /\ block'[c].before \in Nat
  BY SequenceFields DEF AdvanceDoes
<1>4. /\ Len(block) > 0 /\ Len(block') = Len(block)
      /\ pFirstReadBlock \in 1 .. Len(block) /\ pFirstReadBlock' = pFirstReadBlock
  BY <1>1, <1>2 DEF AdvanceDoes, QueueEndsInv, QueueTyping
<1>5. \A c \in 1 .. Len(block) :
       /\ block'[c].uLastReadIndex = IF c = pFirstReadBlock THEN block[c].uLastReadIndex + 1 ELSE block[c].uLastReadIndex
       /\ block'[c].uLastWriteIndex = block[c].uLastWriteIndex
       /\ block'[c].before = block[c].before
       /\ block'[c].pNextBlock = block[c].pNextBlock
  BY DEF AdvanceDoes
<1>3. Queue!Last' = Queue!Last /\ Queue!First' = Queue!First + 1
  <2>1. Queue!Last' = Queue!Last
    BY <1>0, <1>2, <1>4, <1>5 DEF Queue!Last
  <2>2. /\ Queue!First = block[pFirstReadBlock].before + block[pFirstReadBlock].uLastReadIndex
        /\ Queue!First' = block'[pFirstReadBlock].before + block'[pFirstReadBlock].uLastReadIndex
    BY <1>4 DEF Queue!First, Queue!None
  <2>3. /\ block'[pFirstReadBlock].before = block[pFirstReadBlock].before
        /\ block'[pFirstReadBlock].uLastReadIndex = block[pFirstReadBlock].uLastReadIndex + 1
        /\ block[pFirstReadBlock].before \in Nat /\ block[pFirstReadBlock].uLastReadIndex \in Nat
    BY <1>2, <1>4, <1>5
  <2> QED BY <2>1, <2>2, <2>3
<1>6. /\ popper = "advance" /\ tmp = Queue!First + 1
      /\ block[pFirstReadBlock].uLastReadIndex < block[pFirstReadBlock].uLastWriteIndex
  BY <1>1 DEF AdvanceDoes, PopInv
<1>11. QueueTyping'
  BY <1>0, <1>1, <1>2, <1>3, <1>4, <1>5, <1>6 DEF QueueTyping, AdvanceDoes
<1>12. QueueEndsInv'
  BY <1>0, <1>1, <1>2, <1>3, <1>4, <1>5, <1>6 DEF QueueTyping, QueueEndsInv, AdvanceDoes
<1>13. ChainInv'
  <2>1. LinksInv'
    BY <1>0, <1>1, <1>2, <1>4, <1>5, <1>6 DEF ChainInv, LinksInv
  <2>2. FillInv'
    <3> SUFFICES ASSUME NEW b \in 1 .. Len(block)
                 PROVE  /\ block'[b].uLastReadIndex <= block'[b].uLastWriteIndex
                        /\ block'[b].uLastWriteIndex <= block'[b].uLastReadIndex + kMaxBlockSize
                        /\ b > pFirstReadBlock => block'[b].uLastReadIndex = 0
      BY <1>4 DEF FillInv
    <3>1. /\ block[b].uLastReadIndex <= block[b].uLastWriteIndex
          /\ block[b].uLastWriteIndex <= block[b].uLastReadIndex + kMaxBlockSize
          /\ b > pFirstReadBlock => block[b].uLastReadIndex = 0
          /\ block[b].uLastReadIndex \in Nat /\ block[b].uLastWriteIndex \in Nat
      BY <1>1, <1>2 DEF ChainInv, FillInv
    <3>2. CASE b = pFirstReadBlock
      BY <1>4, <1>5, <1>6, <3>1, <3>2
    <3>3. CASE b # pFirstReadBlock
      BY <1>5, <3>1, <3>3
    <3> QED BY <3>2, <3>3
  <2>3. OrderInv'
    <3> SUFFICES ASSUME NEW b \in 1 .. Len(block), NEW c \in 1 .. Len(block), b < c
                 PROVE  /\ block'[b].before + block'[b].uLastWriteIndex <= block'[c].before
                        /\ c = b + 1 => block'[b].before + block'[b].uLastWriteIndex = block'[c].before
      BY <1>4 DEF OrderInv
    <3>1. /\ block[b].before + block[b].uLastWriteIndex <= block[c].before
          /\ c = b + 1 => block[b].before + block[b].uLastWriteIndex = block[c].before
      BY <1>1 DEF ChainInv, OrderInv
    <3>2. block'[b].before = block[b].before /\ block'[c].before = block[c].before
          /\ block'[b].uLastWriteIndex = block[b].uLastWriteIndex
      BY <1>2, <1>5
    <3> QED BY <3>1, <3>2
  <2> QED BY <2>1, <2>2, <2>3 DEF ChainInv
<1>14. CoveredInv'
  <2> SUFFICES ASSUME NEW n \in Queue!First' + 1 .. Queue!Last'
               PROVE  \E b \in pFirstReadBlock' .. Len(block') : Queue!Holds(b, n)'
    BY DEF CoveredInv
  <2>1. ASSUME n \in Queue!First + 1 .. Queue!Last PROVE \E b \in pFirstReadBlock' .. Len(block') : Queue!Holds(b, n)'
    <3>1. PICK b \in pFirstReadBlock .. Len(block) : Queue!Holds(b, n)
      BY <1>1, <2>1 DEF CoveredInv
    <3>2. b \in 1 .. Len(block) /\ b \in pFirstReadBlock' .. Len(block')
      BY <1>2, <1>4, <3>1
    <3>3. Queue!Holds(b, n)'
      BY <1>2, <1>5, <3>1, <3>2 DEF Queue!Holds
    <3> QED BY <3>2, <3>3
  <2> QED BY <1>2, <1>3, <2>1
<1>15. ValuesInv'
  <2> SUFFICES ASSUME NEW b \in 1 .. Len(block'), NEW i \in block'[b].uLastReadIndex .. block'[b].uLastWriteIndex - 1,
                      b >= pFirstReadBlock'
               PROVE  block'[b].arrLoopBuffer[i % kMaxBlockSize] = block'[b].before + i + 1
    BY DEF ValuesInv
  <2>1. b \in 1 .. Len(block) /\ block'[b].arrLoopBuffer = block[b].arrLoopBuffer
    BY <1>4 DEF AdvanceDoes
  <2>2. /\ block[b].uLastReadIndex \in Nat /\ block[b].uLastWriteIndex \in Nat
        /\ block'[b].uLastReadIndex \in {block[b].uLastReadIndex, block[b].uLastReadIndex + 1}
        /\ block'[b].uLastWriteIndex = block[b].uLastWriteIndex
        /\ block'[b].before = block[b].before
    BY <1>2, <1>5, <2>1
  <2>3. i \in block[b].uLastReadIndex .. block[b].uLastWriteIndex - 1
    BY <2>2
  <2> QED BY <1>1, <1>4, <2>1, <2>2, <2>3 DEF ValuesInv
<1>16. PushInv'
  <2>1. /\ block'[Len(block)].uLastReadIndex >= block[Len(block)].uLastReadIndex
        /\ block'[Len(block)].uLastWriteIndex = block[Len(block)].uLastWriteIndex
        /\ block'[Len(block)].arrLoopBuffer = block[Len(block)].arrLoopBuffer
        /\ block[Len(block)].uLastReadIndex \in Nat /\ block[Len(block)].uLastWriteIndex \in Nat
        /\ block'[Len(block)].uLastReadIndex \in Nat
    <3>1. Len(block) \in 1 .. Len(block)
      BY <1>2, <1>4
    <3>2. /\ block[Len(block)].uLastReadIndex \in Nat /\ block[Len(block)].uLastWriteIndex \in Nat
          /\ block'[Len(block)].uLastReadIndex \in {block[Len(block)].uLastReadIndex, block[Len(block)].uLastReadIndex + 1}
      BY <1>2, <1>5, <3>1
    <3>3. /\ block'[Len(block)].uLastWriteIndex = block[Len(block)].uLastWriteIndex
          /\ block'[Len(block)].arrLoopBuffer = block[Len(block)].arrLoopBuffer
      BY <3>1 DEF AdvanceDoes
    <3> QED BY <3>2, <3>3
  <2> QED BY <1>1, <1>2, <1>3, <1>4, <2>1, SMTT(30) DEF PushInv, AdvanceDoes
<1>17. PopInv'
  BY <1>0, <1>1, <1>2, <1>3, <1>4, <1>5, <1>6 DEF QueueTyping, QueueEndsInv, PopInv, AdvanceDoes
<1>18. NullInv'
  BY <1>0, <1>1, <1>2, <1>3, <1>4, <1>5, <1>6 DEF QueueTyping, QueueEndsInv, NullInv, AdvanceDoes
<1>19. FreedInv'
  BY <1>0, <1>1, <1>2, <1>3, <1>4, <1>5, <1>6 DEF QueueTyping, FreedInv, AdvanceDoes
<1> QED BY <1>3, <1>11, <1>12, <1>13, <1>14, <1>15, <1>16, <1>17, <1>18, <1>19 DEF QueueInv

LEMMA PublishFirstKeeps ==
  ASSUME QueueInv, Queue!PublishFirst
  PROVE  QueueInv' /\ EndsStay
<1>1. /\ QueueTyping /\ QueueEndsInv /\ ChainInv /\ CoveredInv /\ ValuesInv
      /\ PushInv /\ PopInv /\ NullInv /\ FreedInv
  BY DEF QueueInv
<1>2. /\ Len(block) \in Nat
      /\ \A c \in 1 .. Len(block) :
           /\ block[c].uLastReadIndex \in Nat /\ block[c].uLastWriteIndex \in Nat
           /\ block[c].pNextBlock \in Nat /\ block[c].before \in Nat
           /\ block[c].arrLoopBuffer \in [0 .. kMaxBlockSize - 1 -> Nat]
      /\ Queue!Last \in Nat /\ Queue!First \in Nat
      /\ Queue!Last = IF Len(block) = 0 THEN 0
                      ELSE block[Len(block)].before + block[Len(block)].uLastWriteIndex
      /\ (Len(block) > 0 => Len(block) \in 1 .. Len(block))
  BY <1>1, Fields, FirstTyped DEF QueueTyping
<1>4. /\ pusher = "publish" /\ Len(block) = 1 /\ block' = block /\ pFirstReadBlock = 0 /\ pFirstReadBlock' = 1
      /\ pLastWriteBlock = 1
  BY <1>1 DEF Queue!PublishFirst, QueueEndsInv
<1>5. block[1].uLastWriteIndex = 0 /\ block[1].uLastReadIndex = 0
  BY <1>1, <1>2, <1>4 DEF QueueEndsInv, ChainInv, FillInv
<1>3. Queue!Last' = Queue!Last /\ Queue!First' = Queue!First /\ Queue!First = Queue!Last
  BY <1>2, <1>4, <1>5 DEF Queue!First, Queue!Last, Queue!None
<1>11. QueueTyping'
  BY <1>1, <1>2, <1>3, <1>4, <1>5 DEF QueueTyping, Queue!PublishFirst
<1>12. QueueEndsInv'
  BY <1>1, <1>2, <1>3, <1>4, <1>5 DEF QueueTyping, QueueEndsInv, Queue!PublishFirst
<1>13. ChainInv'
  BY <1>1, <1>2, <1>3, <1>4, <1>5 DEF QueueTyping, QueueEndsInv, ChainInv, LinksInv, FillInv,
     OrderInv, Queue!PublishFirst
<1>14. CoveredInv'
  BY <1>2, <1>3 DEF CoveredInv
<1>15. ValuesInv'
  BY <1>1, <1>2, <1>3, <1>4, <1>5 DEF QueueTyping, QueueEndsInv, ValuesInv, Queue!PublishFirst
<1>16. PushInv'
  BY <1>1, <1>2, <1>3, <1>4, <1>5 DEF QueueTyping, QueueEndsInv, PushInv, Queue!PublishFirst
<1>17. PopInv'
  BY <1>1, <1>2, <1>3, <1>4, <1>5 DEF QueueTyping, QueueEndsInv, PopInv, Queue!PublishFirst
<1>18. NullInv'
  BY <1>1, <1>2, <1>3, <1>4, <1>5 DEF QueueTyping, QueueEndsInv, NullInv, Queue!PublishFirst
<1>19. FreedInv'
  BY <1>1, <1>2, <1>3, <1>4, <1>5 DEF QueueTyping, FreedInv, Queue!PublishFirst
<1> QED BY <1>3, <1>11, <1>12, <1>13, <1>14, <1>15, <1>16, <1>17, <1>18, <1>19 DEF QueueInv,
           EndsStay

LEMMA TestNextKeeps ==
  ASSUME QueueInv, Queue!TestNext
  PROVE  /\ QueueInv' /\ Queue!Last' = Queue!Last
         /\ \/ Queue!First' = Queue!First
            \/ Queue!First' = Queue!First + kMaxBlockSize /\ ~Queue!IsEmpty(pFirstReadBlock)
<1>1. /\ QueueTyping /\ QueueEndsInv /\ ChainInv /\ CoveredInv /\ ValuesInv
      /\ PushInv /\ PopInv /\ NullInv /\ FreedInv
  BY DEF QueueInv
<1>2. /\ Len(block) \in Nat
      /\ \A c \in 1 .. Len(block) :
           /\ block[c].uLastReadIndex \in Nat /\ block[c].uLastWriteIndex \in Nat
           /\ block[c].pNextBlock \in Nat /\ block[c].before \in Nat
           /\ block[c].arrLoopBuffer \in [0 .. kMaxBlockSize - 1 -> Nat]
      /\ Queue!Last \in Nat /\ Queue!First \in Nat
      /\ Queue!Last = IF Len(block) = 0 THEN 0
                      ELSE block[Len(block)].before + block[Len(block)].uLastWriteIndex
      /\ (Len(block) > 0 => Len(block) \in 1 .. Len(block))
  BY <1>1, Fields, FirstTyped DEF QueueTyping
<1>4. popper = "next" /\ block' = block /\ pFirstReadBlock \in 1 .. Len(block)
  BY <1>1, <1>2 DEF Queue!TestNext, Queue!pushLocals, QueueEndsInv, QueueTyping
<1>5. /\ pFirstReadBlock < Len(block) => /\ pFirstReadBlock' = pFirstReadBlock + 1 /\ popper' = "delete"
                                        /\ tmp' = pFirstReadBlock /\ null' = null
      /\ pFirstReadBlock = Len(block) => /\ pFirstReadBlock' = pFirstReadBlock /\ popper' = "idle"
                                        /\ tmp' = tmp /\ null' = TRUE
  BY <1>1, <1>2, <1>4 DEF Queue!TestNext, Queue!None, ChainInv, LinksInv
<1>6. pFirstReadBlock < Len(block) =>
        /\ block[pFirstReadBlock].uLastWriteIndex - block[pFirstReadBlock].uLastReadIndex
             \in {0, kMaxBlockSize}
        /\ block[pFirstReadBlock + 1].uLastReadIndex = 0
        /\ block[pFirstReadBlock + 1].before = block[pFirstReadBlock].before + block[pFirstReadBlock].uLastWriteIndex
  BY <1>1, <1>2, <1>4 DEF PopInv, ChainInv, FillInv, OrderInv
<1>3. /\ Queue!Last' = Queue!Last
      /\ Queue!First' = IF pFirstReadBlock < Len(block)
                          THEN block[pFirstReadBlock].before + block[pFirstReadBlock].uLastWriteIndex
                          ELSE Queue!First
      /\ Queue!First = block[pFirstReadBlock].before + block[pFirstReadBlock].uLastReadIndex
  <2>1. Queue!Last' = Queue!Last
    BY <1>4 DEF Queue!Last
  <2> QED BY <2>1, <1>2, <1>4, <1>5, <1>6 DEF Queue!First, Queue!None
<1>8. /\ Queue!First' \in {Queue!First, Queue!First + kMaxBlockSize}
      /\ Queue!First' # Queue!First => ~Queue!IsEmpty(pFirstReadBlock)
  <2>1. /\ block[pFirstReadBlock].uLastReadIndex \in Nat /\ block[pFirstReadBlock].uLastWriteIndex \in Nat
        /\ block[pFirstReadBlock].before \in Nat
    BY <1>2, <1>4
  <2>2. CASE pFirstReadBlock < Len(block)
    <3>1. \/ block[pFirstReadBlock].uLastWriteIndex = block[pFirstReadBlock].uLastReadIndex
          \/ block[pFirstReadBlock].uLastWriteIndex = block[pFirstReadBlock].uLastReadIndex + kMaxBlockSize
      BY <1>6, <2>1, <2>2
    <3> QED BY <1>3, <2>1, <2>2, <3>1 DEF Queue!IsEmpty
  <2>3. CASE pFirstReadBlock = Len(block)
    BY <1>3, <2>3
  <2> QED BY <1>4, <2>2, <2>3
<1>7. pFirstReadBlock' \in pFirstReadBlock .. Len(block)
  BY <1>2, <1>4, <1>5
<1>11. QueueTyping'
  BY <1>1, <1>2, <1>3, <1>4, <1>5, <1>6 DEF QueueTyping, Queue!TestNext, Queue!pushLocals,
     Queue!None
<1>12. QueueEndsInv'
  BY <1>1, <1>2, <1>3, <1>4, <1>5, <1>6 DEF QueueTyping, QueueEndsInv, Queue!TestNext,
     Queue!pushLocals, Queue!None
<1>13. ChainInv'
  BY <1>1, <1>2, <1>3, <1>4, <1>5, <1>6 DEF QueueTyping, QueueEndsInv, ChainInv, LinksInv,
     FillInv, OrderInv, Queue!TestNext, Queue!pushLocals, Queue!None
<1>14. CoveredInv'
  <2> SUFFICES ASSUME NEW n \in Queue!First' + 1 .. Queue!Last
               PROVE  \E b \in pFirstReadBlock' .. Len(block) : Queue!Holds(b, n)'
    BY <1>3, <1>4 DEF CoveredInv
  <2>0. n \in Queue!First + 1 .. Queue!Last
    <3>1. /\ Queue!First \in Nat /\ Queue!First' \in Nat /\ Queue!Last \in Nat
          /\ Queue!First <= Queue!First'
      BY <1>2, <1>8
    <3>2. \A f, g, l \in Nat : f <= g => g + 1 .. l \subseteq f + 1 .. l
      OBVIOUS
    <3> QED BY Zenon, <3>1, <3>2
  <2>1. PICK b \in pFirstReadBlock .. Len(block) : Queue!Holds(b, n)
    BY <1>1, <2>0 DEF CoveredInv
  <2>2. Queue!Holds(b, n)'
    BY <1>4, <2>1 DEF Queue!Holds
  <2>3. CASE pFirstReadBlock = Len(block)
    BY <1>4, <1>5, <2>1, <2>2, <2>3
  <2>4. CASE pFirstReadBlock < Len(block)
    <3>1. b # pFirstReadBlock
      BY <1>2, <1>3, <1>4, <2>1, <2>4 DEF Queue!Holds
    <3> QED BY <1>2, <1>4, <1>5, <2>1, <2>2, <2>4, <3>1
  <2> QED BY <1>2, <1>4, <2>3, <2>4
<1>15. ValuesInv'
  <2> SUFFICES ASSUME NEW b \in 1 .. Len(block), NEW i \in block[b].uLastReadIndex .. block[b].uLastWriteIndex - 1,
                      b >= pFirstReadBlock'
               PROVE  block[b].arrLoopBuffer[i % kMaxBlockSize] = block[b].before + i + 1
    BY <1>4 DEF ValuesInv
  <2>1. b >= pFirstReadBlock
    BY <1>2, <1>4, <1>7
  <2> QED BY <1>1, <2>1 DEF ValuesInv
<1>16. PushInv'
  BY <1>1, <1>2, <1>3, <1>4, <1>5, <1>6 DEF QueueTyping, QueueEndsInv, PushInv, Queue!TestNext,
     Queue!pushLocals, Queue!None
<1>17. PopInv'
  BY <1>1, <1>2, <1>3, <1>4, <1>5, <1>6 DEF QueueTyping, QueueEndsInv, PopInv, Queue!TestNext,
     Queue!pushLocals, Queue!None
<1>18. NullInv'
  BY <1>1, <1>2, <1>3, <1>4, <1>5, <1>6 DEF QueueTyping, QueueEndsInv, NullInv, Queue!TestNext,
     Queue!pushLocals, Queue!None
<1>19. FreedInv'
  BY <1>1, <1>2, <1>4, <1>5 DEF FreedInv, QueueTyping, Queue!TestNext
<1> QED BY <1>3, <1>8, <1>11, <1>12, <1>13, <1>14, <1>15, <1>16, <1>17, <1>18, <1>19 DEF QueueInv

-----------------------------------------------------------------------------
(* What is in the queue are the entries after First up to Last, in order.  *)

\* An entry that is not yet read has been counted.
LEMMA UnreadCounted ==
  ASSUME QueueInv, NEW b \in 1 .. Len(block)
  PROVE  block[b].before + block[b].uLastWriteIndex <= Queue!Last
<1>1. QueueTyping /\ OrderInv
  BY DEF QueueInv, ChainInv
<1>2. /\ Len(block) \in 1 .. Len(block)
      /\ Queue!Last = block[Len(block)].before + block[Len(block)].uLastWriteIndex
      /\ block[b].before \in Nat /\ block[b].uLastWriteIndex \in Nat
      /\ block[Len(block)].before \in Nat /\ block[Len(block)].uLastWriteIndex \in Nat
  BY <1>1, Fields DEF QueueTyping
<1>3. CASE b = Len(block)
  BY <1>2, <1>3
<1>4. CASE b # Len(block)
  <2>1. b < Len(block)
    BY <1>2, <1>4
  <2>2. block[b].before + block[b].uLastWriteIndex <= block[Len(block)].before
    BY <1>1, <1>2, <2>1 DEF OrderInv
  <2> QED BY <1>2, <2>2
<1> QED BY <1>3, <1>4

Between(f, l) == [i \in 1 .. l - f |-> f + i]

LEMMA EntryStands ==
  ASSUME QueueInv, NEW n \in Queue!First + 1 .. Queue!Last
  PROVE  Queue!Value(n) = n
<1>1. QueueTyping /\ QueueEndsInv /\ ChainInv /\ CoveredInv /\ ValuesInv
  BY DEF QueueInv
<1>2. Queue!First \in Nat /\ Queue!Last \in Nat /\ Len(block) \in Nat /\ pFirstReadBlock \in Nat
  BY <1>1, FirstTyped, Fields DEF QueueTyping
<1>3. pFirstReadBlock # 0
  BY <1>2 DEF Queue!First, Queue!None
<1>4. PICK b \in pFirstReadBlock .. Len(block) :
        /\ Queue!Holds(b, n)
        /\ Queue!Value(n) = block[b].arrLoopBuffer[(n - 1 - block[b].before) % kMaxBlockSize]
  BY <1>1 DEF CoveredInv, Queue!Value
<1>5. b \in 1 .. Len(block) /\ b >= pFirstReadBlock
  BY <1>2, <1>3
<1>6. block[b].uLastReadIndex \in Nat /\ block[b].uLastWriteIndex \in Nat /\ block[b].before \in Nat
  BY <1>1, <1>5, Fields DEF QueueTyping
<1>7. block[b].before < n /\ n <= block[b].before + block[b].uLastWriteIndex
  BY <1>4 DEF Queue!Holds
<1>8. block[b].before + block[b].uLastReadIndex < n
  <2>1. CASE b = pFirstReadBlock
    BY <1>2, <1>3, <1>6, <2>1 DEF Queue!First, Queue!None
  <2>2. CASE b # pFirstReadBlock
    <3>1. block[b].uLastReadIndex = 0
      BY <1>1, <1>2, <1>5, <2>2 DEF ChainInv, FillInv
    <3> QED BY <1>6, <1>7, <3>1
  <2> QED BY <2>1, <2>2
<1>9. n - 1 - block[b].before \in block[b].uLastReadIndex .. block[b].uLastWriteIndex - 1
  BY <1>2, <1>6, <1>7, <1>8
<1>10. Queue!Value(n) = block[b].before + (n - 1 - block[b].before) + 1
  BY <1>1, <1>4, <1>5, <1>9 DEF ValuesInv
<1> QED BY <1>2, <1>6, <1>10

LEMMA ContentsBetween ==
  ASSUME QueueInv
  PROVE  /\ Queue!Contents = Between(Queue!First, Queue!Last)
         /\ Queue!First \in Nat /\ Queue!Last \in Nat /\ Queue!First <= Queue!Last
<1>1. QueueTyping /\ QueueEndsInv /\ FillInv
  BY DEF QueueInv, ChainInv
<1>2. Queue!First \in Nat /\ Queue!Last \in Nat
  BY <1>1, FirstTyped
<1>3. \A i \in 1 .. Queue!Last - Queue!First : Queue!Value(Queue!First + i) = Queue!First + i
  BY <1>2, EntryStands
<1>4. Queue!First <= Queue!Last
  <2>1. CASE pFirstReadBlock = 0
    BY <1>2, <2>1 DEF Queue!First, Queue!None
  <2>2. CASE pFirstReadBlock # 0
    <3>1. pFirstReadBlock \in 1 .. Len(block)
      BY <1>1, <2>2, Fields DEF QueueTyping, QueueEndsInv
    <3>2. /\ block[pFirstReadBlock].before \in Nat /\ block[pFirstReadBlock].uLastReadIndex \in Nat
          /\ block[pFirstReadBlock].uLastWriteIndex \in Nat
          /\ block[pFirstReadBlock].uLastReadIndex <= block[pFirstReadBlock].uLastWriteIndex
          /\ Queue!First = block[pFirstReadBlock].before + block[pFirstReadBlock].uLastReadIndex
      BY <1>1, <2>2, <3>1, Fields DEF QueueTyping, FillInv, Queue!First, Queue!None
    <3>3. block[pFirstReadBlock].before + block[pFirstReadBlock].uLastWriteIndex <= Queue!Last
      BY <3>1, UnreadCounted
    <3> QED BY <1>2, <3>2, <3>3
  <2> QED BY <2>1, <2>2
<1> QED BY <1>2, <1>3, <1>4 DEF Queue!Contents, Between

-----------------------------------------------------------------------------
(* The queue's steps together.                                             *)

\* What a step does to the abstract queue.
Puts ==
  /\ Queue!Last' = Queue!Last + 1 /\ Queue!First' = Queue!First
  /\ pushed = Queue!Last + 1 /\ taken' = taken
  /\ Queue!FoundNothing' => Queue!FoundNothing
Takes ==
  /\ Queue!Last' = Queue!Last /\ Queue!First' = Queue!First + 1
  /\ Queue!First < Queue!Last /\ taken' = <<Queue!First + 1>>
  /\ ~Queue!FoundNothing /\ ~Queue!FoundNothing'
Loses ==
  /\ Queue!Last' = Queue!Last /\ Queue!First' = Queue!First + kMaxBlockSize
  /\ Queue!FoundNothing /\ ~Queue!FoundNothing' /\ taken' = taken
Stays ==
  /\ EndsStay /\ taken' = taken
  /\ Queue!FoundNothing' => Queue!FoundNothing \/ Queue!First = Queue!Last

\* Push does not touch the block that Pop reads from, but for its ring; its count is CountEntry's.
LEMMA PushFinds ==
  ASSUME EndsStay, popper' = popper,
         popper = "next" => /\ pFirstReadBlock' = pFirstReadBlock
                            /\ block'[pFirstReadBlock].uLastReadIndex = block[pFirstReadBlock].uLastReadIndex
                            /\ block'[pFirstReadBlock].uLastWriteIndex = block[pFirstReadBlock].uLastWriteIndex
  PROVE  Queue!FoundNothing' => Queue!FoundNothing
BY DEF EndsStay, Queue!FoundNothing, Queue!IsEmpty

LEMMA PushStep ==
  ASSUME QueueInv, Queue!Push
  PROVE  QueueInv' /\ (Puts \/ Stays)
<1>1. QueueTyping /\ QueueEndsInv /\ ChainInv /\ PushInv
  BY DEF QueueInv
<1>0. popper = "next" => pFirstReadBlock \in 1 .. Len(block)
  BY <1>1, Fields DEF QueueEndsInv, QueueTyping
<1>2. CASE Queue!BeginPush
  BY <1>2, BeginPushKeeps, PushFinds DEF Stays, Queue!BeginPush, Queue!popLocals
<1>3. CASE Queue!NewFirst
  BY <1>0, <1>1, <1>3, NewFirstEffect, NewFirstKeeps, PushFinds DEF Stays, NewFirstDoes
<1>4. CASE Queue!PublishFirst
  <2>1. popper # "next"
    BY <1>1, <1>4 DEF Queue!PublishFirst, QueueEndsInv
  <2> QED BY <1>4, <2>1, PublishFirstKeeps, PushFinds DEF Stays, Queue!PublishFirst
<1>5. CASE Queue!TestFull
  BY <1>5, TestFullKeeps, PushFinds DEF Stays, Queue!TestFull, Queue!popLocals
<1>6. CASE Queue!Link
  BY <1>0, <1>1, <1>6, LinkEffect, LinkKeeps, PushFinds DEF Stays, LinkDoes
<1>7. CASE Queue!MoveOn
  BY <1>7, MoveOnKeeps, PushFinds DEF Stays, Queue!MoveOn, Queue!popLocals
<1>8. CASE Queue!Write
  BY <1>0, <1>1, <1>8, WriteEffect, WriteKeeps, PushFinds DEF Stays, WriteDoes
<1>9. CASE Queue!CountEntry
  <2>1. CountDoes
    BY <1>1, <1>9, CountEffect
  <2>2. pushed = Queue!Last + 1 /\ taken' = taken
    BY <1>1, <2>1 DEF CountDoes, PushInv
  <2>3. QueueInv' /\ Queue!Last' = Queue!Last + 1 /\ Queue!First' = Queue!First
    BY <2>1, CountKeeps
  <2>4. Queue!FoundNothing' => Queue!FoundNothing
    <3> SUFFICES ASSUME popper = "next", Queue!IsEmpty(pFirstReadBlock), ~Queue!IsEmpty(pFirstReadBlock)'
                 PROVE  Queue!First = Queue!Last
      <4>1. popper' = popper /\ pFirstReadBlock' = pFirstReadBlock
        BY <2>1 DEF CountDoes
      <4>2. Queue!First' # Queue!Last'
        <5>1. Queue!First \in Nat /\ Queue!Last \in Nat /\ Queue!First <= Queue!Last
          BY ContentsBetween
        <5> QED BY <2>3, <5>1
      <4> QED BY <4>1, <4>2 DEF Queue!FoundNothing
    <3>1. pFirstReadBlock = Len(block) /\ pFirstReadBlock # 0
      BY <1>0, <1>1, <2>1 DEF CountDoes, QueueEndsInv, Queue!IsEmpty
    <3> QED BY <1>1, <3>1, Fields DEF QueueTyping, Queue!First, Queue!None, Queue!IsEmpty
  <2> QED BY <2>2, <2>3, <2>4 DEF Puts
<1> QED BY <1>2, <1>3, <1>4, <1>5, <1>6, <1>7, <1>8, <1>9 DEF Queue!Push

LEMMA PopStep ==
  ASSUME QueueInv, Queue!Pop
  PROVE  QueueInv' /\ (Takes \/ Loses \/ Stays)
<1>1. QueueTyping /\ QueueEndsInv /\ PopInv
  BY DEF QueueInv
<1>2. CASE Queue!BeginPop
  BY <1>2, BeginPopKeeps DEF Stays, Queue!BeginPop, Queue!FoundNothing
<1>3. CASE Queue!TestEmpty
  <2>1. Queue!FoundNothing' => Queue!First' = Queue!Last'
    BY <1>3 DEF Queue!TestEmpty, Queue!pushLocals, Queue!FoundNothing, Queue!IsEmpty
  <2> QED BY <1>3, <2>1, TestEmptyKeeps DEF Stays, EndsStay, Queue!TestEmpty
<1>4. CASE Queue!Read
  BY <1>4, ReadKeeps DEF Stays, Queue!Read, Queue!FoundNothing
<1>5. CASE Queue!Advance
  <2>1. AdvanceDoes
    BY <1>1, <1>5, AdvanceEffect
  <2>2. /\ tmp = Queue!First + 1 /\ taken' = <<tmp>>
        /\ block[pFirstReadBlock].uLastReadIndex < block[pFirstReadBlock].uLastWriteIndex
    BY <1>1, <2>1 DEF AdvanceDoes, PopInv
  <2>3. pFirstReadBlock \in 1 .. Len(block)
    BY <1>1, <2>1, Fields DEF AdvanceDoes, QueueEndsInv, QueueTyping
  <2>4. /\ block[pFirstReadBlock].before \in Nat /\ block[pFirstReadBlock].uLastReadIndex \in Nat
        /\ block[pFirstReadBlock].uLastWriteIndex \in Nat /\ Queue!Last \in Nat
    BY <1>1, <2>3, Fields DEF QueueTyping
  <2>5. Queue!First = block[pFirstReadBlock].before + block[pFirstReadBlock].uLastReadIndex
    BY <2>3 DEF Queue!First, Queue!None
  <2>6. Queue!First < Queue!Last
    <3>1. block[pFirstReadBlock].before + block[pFirstReadBlock].uLastWriteIndex <= Queue!Last
      BY <2>3, UnreadCounted
    <3> QED BY <2>2, <2>4, <2>5, <3>1
  <2>7. ~Queue!FoundNothing /\ ~Queue!FoundNothing'
    BY <2>1 DEF AdvanceDoes, Queue!FoundNothing
  <2> QED BY <2>1, <2>2, <2>6, <2>7, AdvanceKeeps DEF Takes
<1>6. CASE Queue!TestNext
  <2>1. /\ popper = "next" /\ taken' = taken /\ ~Queue!FoundNothing'
        /\ ~Queue!IsEmpty(pFirstReadBlock) => Queue!FoundNothing
    BY <1>6 DEF Queue!TestNext, Queue!FoundNothing
  <2> QED BY <1>6, <2>1, TestNextKeeps DEF Stays, Loses, EndsStay
<1>7. CASE Queue!Delete
  BY <1>7, DeleteKeeps DEF Stays, Queue!Delete, Queue!FoundNothing
<1> QED BY <1>2, <1>3, <1>4, <1>5, <1>6, <1>7 DEF Queue!Pop

LEMMA QueueStart ==
  ASSUME Queue!Init
  PROVE  QueueInv
<1>1. /\ block = <<>> /\ Len(block) = 0 /\ block \in Seq(QueueBlock)
      /\ pFirstReadBlock = 0 /\ pLastWriteBlock = 0 /\ freed = {}
      /\ pusher = "idle" /\ popper = "idle" /\ pushed = 0 /\ tmp = 0
      /\ wasEmpty = TRUE /\ null = FALSE
  BY DEF Queue!Init, Queue!None
<1>2. Queue!Last = 0 /\ Queue!First = 0
  BY <1>1 DEF Queue!Last, Queue!First, Queue!None
<1>3. QueueTyping /\ QueueEndsInv
  <2>1. QueueTyping
    BY <1>1 DEF QueueTyping
  <2>2. QueueEndsInv
    BY <1>1 DEF QueueEndsInv
  <2> QED BY <2>1, <2>2
<1>4. ChainInv /\ ValuesInv
  BY <1>1 DEF ChainInv, LinksInv, FillInv, OrderInv, ValuesInv
<1>5. CoveredInv
  BY <1>2 DEF CoveredInv
<1>6. PushInv /\ PopInv /\ NullInv /\ FreedInv
  BY <1>1, <1>2 DEF PushInv, PopInv, NullInv, FreedInv
<1> QED BY <1>3, <1>4, <1>5, <1>6 DEF QueueInv

LEMMA QueueSame ==
  ASSUME QueueInv, UNCHANGED queueVars
  PROVE  QueueInv' /\ Stays
<1>1. /\ block' = block /\ pFirstReadBlock' = pFirstReadBlock /\ pLastWriteBlock' = pLastWriteBlock
      /\ freed' = freed /\ pusher' = pusher /\ popper' = popper /\ pushed' = pushed /\ tmp' = tmp
      /\ taken' = taken /\ wasEmpty' = wasEmpty /\ null' = null
  BY DEF queueVars
<1>2. /\ ChainInv' /\ CoveredInv' /\ ValuesInv'
      /\ Queue!First' = Queue!First /\ Queue!Last' = Queue!Last
  BY <1>1, BlocksStay
<1>3. QueueTyping' /\ QueueEndsInv'
  BY <1>1 DEF QueueInv, QueueTyping, QueueEndsInv
<1>4. PushInv' /\ PopInv'
  BY <1>1, <1>2 DEF QueueInv, PushInv, PopInv
<1>5. NullInv' /\ FreedInv'
  BY <1>1 DEF QueueInv, NullInv, FreedInv
<1>6. Queue!FoundNothing' => Queue!FoundNothing
  BY <1>1, <1>2 DEF Queue!FoundNothing, Queue!IsEmpty
<1> QED BY <1>1, <1>2, <1>3, <1>4, <1>5, <1>6 DEF QueueInv, Stays, EndsStay

LEMMA QueueStep ==
  ASSUME QueueInv, [SideNext]_<<part, vars, queueVars, storageVars>>
  PROVE  QueueInv' /\ (Puts \/ Takes \/ Loses \/ Stays)
<1>1. CASE Queue!Next
  BY <1>1, PushStep, PopStep DEF Queue!Next
<1>2. CASE UNCHANGED queueVars
  BY <1>2, QueueSame
<1> QED BY <1>1, <1>2 DEF SideNext

THEOREM QueueInvariance == SideSpec => []QueueInv
<1>1. SideInit => QueueInv
  BY QueueStart DEF SideInit
<1>2. QueueInv /\ [SideNext]_<<part, vars, queueVars, storageVars>> => QueueInv'
  BY QueueStep
<1> QED BY <1>1, <1>2, PTL DEF SideSpec

\* A Pop that returns nullptr found the queue empty when it began: it overlooks no entry in a
\* later block.  A block that it deletes full was filled after the call began.
THEOREM NullOnlyWhenEmptyAlways == SideSpec => []NullOnlyWhenEmpty
<1>1. QueueInv => NullOnlyWhenEmpty
  BY DEF QueueInv, NullInv, NullOnlyWhenEmpty, Queue!NullOnlyWhenEmpty
<1> QED BY <1>1, QueueInvariance, PTL

\* Neither thread uses a block that Pop has deleted.
THEOREM BlocksLiveAlways == SideSpec => []Queue!BlocksLive
<1>1. QueueInv => Queue!BlocksLive
  <2> SUFFICES ASSUME QueueInv PROVE Queue!BlocksLive
    OBVIOUS
  <2>1. /\ Len(block) \in Nat /\ pFirstReadBlock \in Nat /\ pFirstReadBlock <= Len(block)
        /\ \A b \in freed : b \in Nat /\ b < pFirstReadBlock
    BY Fields DEF QueueInv, QueueTyping, QueueEndsInv, FreedInv
  <2>2. pFirstReadBlock \notin freed /\ Len(block) \notin freed
    BY <2>1
  <2>3. pusher \in {"full", "link", "write", "count"} => pLastWriteBlock = Len(block)
    BY <2>1 DEF QueueInv, QueueEndsInv
  <2> QED BY <2>2, <2>3 DEF Queue!BlocksLive
<1> QED BY <1>1, QueueInvariance, PTL

-----------------------------------------------------------------------------
(* InterlockedQueue implements Fifo.                                       *)

ContentsInv ==
  /\ Queue!Contents = Between(Queue!First, Queue!Last)
  /\ Queue!First \in Nat /\ Queue!Last \in Nat /\ Queue!First <= Queue!Last

LEMMA ContentsKnown == SideSpec => []ContentsInv
<1>1. QueueInv => ContentsInv
  BY ContentsBetween DEF ContentsInv
<1> QED BY <1>1, QueueInvariance, PTL

LEMMA OneMore ==
  ASSUME NEW f \in Nat, NEW l \in Nat, f <= l
  PROVE  Between(f, l + 1) = Append(Between(f, l), l + 1)
BY DEF Between

LEMMA OneLess ==
  ASSUME NEW f \in Nat, NEW l \in Nat, f < l
  PROVE  /\ Between(f, l) # <<>> /\ Head(Between(f, l)) = f + 1
         /\ Tail(Between(f, l)) = Between(f + 1, l)
<1> DEFINE s == Between(f, l)
<1>1. s \in Seq(Nat) /\ Len(s) = l - f /\ l - f \in Nat \ {0} /\ \A i \in 1 .. l - f : s[i] = f + i
  BY DEF Between
<1> HIDE DEF s
<1>2. s # <<>> /\ Head(s) = f + 1
  BY <1>1
<1>3. Tail(s) \in Seq(Nat) /\ Len(Tail(s)) = l - f - 1 /\ \A i \in 1 .. l - f - 1 : Tail(s)[i] = s[i + 1]
  BY <1>1
<1>4. \A i \in 1 .. l - f - 1 : Tail(s)[i] = f + 1 + i
  BY <1>1, <1>3
<1>5. \A t \in Seq(Nat) : t = [i \in 1 .. Len(t) |-> t[i]]
  OBVIOUS
<1>6. Tail(s) = [i \in 1 .. l - f - 1 |-> f + 1 + i]
  BY <1>3, <1>4, <1>5
<1>7. l - f - 1 = l - (f + 1)
  OBVIOUS
<1> QED BY <1>2, <1>6, <1>7 DEF s, Between

LEMMA BlockLess ==
  ASSUME NEW f \in Nat, NEW l \in Nat, NEW k \in Nat, f + k <= l
  PROVE  /\ Len(Between(f, l)) = l - f
         /\ SubSeq(Between(f, l), k + 1, l - f) = Between(f + k, l)
<1> DEFINE s == Between(f, l)
           t == SubSeq(s, k + 1, l - f)
<1>1. s \in Seq(Nat) /\ Len(s) = l - f /\ \A i \in 1 .. l - f : s[i] = f + i
  BY DEF Between
<1> HIDE DEF s
<1>2. k + 1 \in Nat /\ l - f \in Nat /\ (l - f) - (k + 1) + 1 = l - (f + k)
  OBVIOUS
<1>3. t \in Seq(Nat) /\ Len(t) = l - (f + k) /\ \A i \in 1 .. l - (f + k) : t[i] = s[k + i]
  BY <1>1, <1>2
<1>4. \A i \in 1 .. l - (f + k) : t[i] = f + k + i
  BY <1>1, <1>3
<1>5. \A u \in Seq(Nat) : u = [i \in 1 .. Len(u) |-> u[i]]
  OBVIOUS
<1> HIDE DEF t
<1>6. t = [i \in 1 .. l - (f + k) |-> f + k + i]
  BY <1>3, <1>4, <1>5
<1> QED BY <1>1, <1>6 DEF s, t, Between

\* The entries come out of the queue once, in the order in which they went in: none is repeated or
\* overtaken where Push and Pop meet at the ends of a block, and none is lost but the first
\* kMaxBlockSize of a queue that Pop has found empty and into which more were put before it looked
\* for a next block.
THEOREM QueueImplementsFifo == SideSpec => ImplementsFifo
<1>1. SideInit => Queue!Contents = <<>> /\ taken = <<>> /\ Queue!FoundNothing = FALSE
  <2> SUFFICES ASSUME SideInit
               PROVE  Queue!Contents = <<>> /\ taken = <<>> /\ Queue!FoundNothing = FALSE
    OBVIOUS
  <2>1. QueueInv /\ taken = <<>> /\ Queue!First = 0 /\ Queue!Last = 0
    BY QueueStart DEF SideInit, Queue!Init, Queue!First, Queue!Last, Queue!None
  <2>2. ~Queue!FoundNothing
    BY DEF SideInit, Queue!Init, Queue!FoundNothing
  <2> QED BY <2>1, <2>2 DEF Queue!Contents
<1>2. QueueInv /\ QueueInv' /\ ContentsInv' /\ [SideNext]_<<part, vars, queueVars, storageVars>>
      => [Queue!F!Next]_<<Queue!Contents, taken, Queue!FoundNothing>>
  <2> SUFFICES ASSUME QueueInv, QueueInv', ContentsInv', Puts \/ Takes \/ Loses \/ Stays
               PROVE  [Queue!F!Next]_<<Queue!Contents, taken, Queue!FoundNothing>>
    BY QueueStep
  <2> DEFINE f == Queue!First
             l == Queue!Last
  <2>1. Queue!Contents = Between(f, l) /\ f \in Nat /\ l \in Nat /\ f <= l
    BY ContentsBetween
  <2>2. Queue!Contents' = Between(f', l')
    BY DEF ContentsInv, Between
  <2>3. CASE Puts
    <3>1. Queue!Contents' = Append(Queue!Contents, l + 1) /\ taken' = taken
      BY <2>1, <2>2, <2>3, OneMore DEF Puts
    <3>2. l + 1 \in 1 .. MaxPush
      BY <2>1, <2>3 DEF Puts, QueueInv, PushInv
    <3> QED BY <2>3, <3>1, <3>2 DEF Puts, Queue!F!Put, Queue!F!Next
  <2>4. CASE Takes
    <3>1. /\ Queue!Contents # <<>> /\ taken' = <<Head(Queue!Contents)>>
          /\ Queue!Contents' = Tail(Queue!Contents)
      BY <2>1, <2>2, <2>4, OneLess DEF Takes
    <3>2. ~Queue!FoundNothing /\ ~Queue!FoundNothing'
      BY <2>4 DEF Takes
    <3>3. Queue!FoundNothing' = Queue!FoundNothing
      BY Zenon, <3>2 DEF Queue!FoundNothing
    <3>4. Queue!F!Take
      BY Zenon, <3>1, <3>2, <3>3 DEF Queue!F!Take
    <3> QED BY <3>4 DEF Queue!F!Next
  <2>5. CASE Loses
    <3>1. f + kMaxBlockSize <= l
      BY <2>5 DEF Loses, ContentsInv
    <3>2. /\ Len(Queue!Contents) >= kMaxBlockSize
          /\ Queue!Contents' = SubSeq(Queue!Contents, kMaxBlockSize + 1, Len(Queue!Contents))
      BY <2>1, <2>2, <2>5, <3>1, BlockLess DEF Loses
    <3>3. Queue!FoundNothing /\ Queue!FoundNothing' = FALSE /\ taken' = taken
      BY <2>5 DEF Loses
    <3> QED BY <3>2, <3>3 DEF Queue!F!Lose, Queue!F!Next
  <2>6. CASE Stays
    <3>1. Queue!Contents' = Queue!Contents /\ taken' = taken
      BY <2>1, <2>2, <2>6 DEF Stays, EndsStay
    <3>2. CASE Queue!FoundNothing' /\ Queue!First = Queue!Last
      <4>1. Queue!Contents = <<>>
        BY <2>1, <3>2 DEF Queue!Contents
      <4>2. Queue!FoundNothing' = TRUE
        BY <3>2
      <4> QED BY <3>1, <4>1, <4>2 DEF Queue!F!FindNothing, Queue!F!Next
    <3>3. CASE Queue!FoundNothing' /\ Queue!FoundNothing
      <4>1. Queue!FoundNothing' = Queue!FoundNothing
        BY <3>3
      <4> QED BY <3>1, <4>1
    <3>4. CASE ~Queue!FoundNothing'
      <4>1. Queue!FoundNothing' = FALSE
        BY <3>4
      <4> QED BY <3>1, <4>1 DEF Queue!F!LookAgain, Queue!F!Next
    <3> QED BY <2>6, <3>2, <3>3, <3>4 DEF Stays
  <2> QED BY <2>3, <2>4, <2>5, <2>6
<1> QED
  BY <1>1, <1>2, QueueInvariance, ContentsKnown, PTL DEF SideSpec, ImplementsFifo,
     Queue!ImplementsFifo, Queue!F!Spec, Queue!F!Init
=============================================================================
