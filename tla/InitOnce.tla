------------------------------ MODULE InitOnce ------------------------------
(***************************************************************************)
(* One-time initialisation as Vista introduced it, in the version that     *)
(* YY-Thunks runs on Windows XP: RtlRunOnceBeginInitialize,                *)
(* RtlpRunOnceWaitForInit, RtlpRunOnceWakeAll and RtlRunOnceComplete of    *)
(* src/Thunks/api-ms-win-core-synch.hpp, called through the raw pair       *)
(* InitOnceBeginInitialize / InitOnceComplete or InitOnceExecuteOnce.      *)
(*                                                                         *)
(* One INIT_ONCE word is shared by the threads.  Its two low bits are      *)
(*    0  nothing was done            1  a thread is initialising (sync)    *)
(*    2  done                        3  threads are initialising (async)   *)
(* and the other bits hold the newest waiter's stack block in state 1 and  *)
(* the context in state 2.  A step is one access to the word, to a wait    *)
(* block or to the keyed event; locals are cleared when a call returns.    *)
(***************************************************************************)
CONSTANTS Thread,     \* the threads that share the INIT_ONCE
          Context,    \* contexts a completer may store: aligned pointers
          BadContext, \* contexts with one of the two reserved bits set
          Null        \* the null pointer: an empty stack, no context

\* Contexts, stack blocks and the null pointer are different addresses.
ContextsApart ==
  /\ Null \notin Thread \cup Context \cup BadContext
  /\ Context \cap BadContext = {}
  /\ Context \cap Thread = {}

VARIABLES word,   \* lpInitOnce: the state bits and the pointer above them
          pc,     \* where each thread is
          api,    \* the function it called: "raw" or "execute"
          flags,  \* dwFlags of the call
          cur,    \* the local Current (the word as last seen)
          next,   \* the pointer in the thread's stack block (&Current)
          wake,   \* WakeAddress in RtlpRunOnceWakeAll
          ctx,    \* lpContext: handed to Complete, or returned by Begin
          ret     \* what the thread's last call answered

vars == <<word, pc, api, flags, cur, next, wake, ctx, ret>>

States == {"none", "sync", "done", "async"}

Pointers == Thread \cup Context \cup {Null}

Words == [state : States, ptr : Pointers]

Word(s, p) == [state |-> s, ptr |-> p]

Blank == Word("none", Null)

PCs == {"idle", "begin", "try", "waitinit", "pushed", "blocked", "woken",
        "owner", "complete", "wake", "raised"}

\* The statuses, as far as callers must tell them apart.  SUCCESS says that the
\* initialisation is done; every error but INVALID_OWNER is FAILED, and so is
\* the success of a Complete that recorded a failure.
Answers == {"NONE", "SUCCESS", "FAILED", "INVALID_OWNER"}

Init ==
  /\ word = Blank
  /\ pc = [t \in Thread |-> "idle"]
  /\ api = [t \in Thread |-> "raw"]
  /\ flags = [t \in Thread |-> "0"]
  /\ cur = [t \in Thread |-> Blank]
  /\ next = [t \in Thread |-> Null]
  /\ wake = [t \in Thread |-> Null]
  /\ ctx = [t \in Thread |-> Null]
  /\ ret = [t \in Thread |-> "NONE"]

-----------------------------------------------------------------------------
\* A call returns: its answer, the context it hands out, where the thread goes.
Return(t, answer, c, where) ==
  /\ ret' = [ret EXCEPT ![t] = answer]
  /\ ctx' = [ctx EXCEPT ![t] = c]
  /\ pc' = [pc EXCEPT ![t] = where]
  /\ api' = [api EXCEPT ![t] = "raw"]
  /\ flags' = [flags EXCEPT ![t] = "0"]
  /\ cur' = [cur EXCEPT ![t] = Blank]

\* InitOnceExecuteOnce turns an error status of the two calls it makes into a
\* non-continuable exception.
ReturnError(t, answer) ==
  Return(t, answer, Null, IF api[t] = "execute" THEN "raised" ELSE "idle")

ReturnDone(t, w) == Return(t, "SUCCESS", w.ptr, "idle")

\* STATUS_PENDING: the caller must run the initialisation.
Become(t) ==
  /\ pc' = [pc EXCEPT ![t] = "owner"]
  /\ cur' = [cur EXCEPT ![t] = Blank]
  /\ UNCHANGED <<api, flags, ctx, ret>>

Goto(t, where) == pc' = [pc EXCEPT ![t] = where]

(* RtlRunOnceBeginInitialize: the call, with the flags check.              *)
Call(t, a, f) ==
  /\ pc[t] = "idle"
  /\ a = "execute" => f = "0"
  /\ IF f = "CHECK_ONLY|ASYNC"
       THEN Return(t, "FAILED", Null, "idle")
       ELSE /\ Goto(t, "begin")
            /\ api' = [api EXCEPT ![t] = a]
            /\ flags' = [flags EXCEPT ![t] = f]
            /\ ret' = [ret EXCEPT ![t] = "NONE"]
            /\ ctx' = [ctx EXCEPT ![t] = Null]
            /\ UNCHANGED cur
  /\ UNCHANGED <<word, next, wake>>

\* Mutant: tests the ASYNC bit alone, so state 3 passes for done.
BeginReadAsyncBit(t) ==
  /\ pc[t] = "begin"
  /\ \/ word.state \in {"done", "async"} /\ ReturnDone(t, word)
     \/ /\ word.state \in {"none", "sync"}
        /\ Goto(t, "try")
        /\ cur' = [cur EXCEPT ![t] = word]
        /\ UNCHANGED <<api, flags, ctx, ret>>
  /\ UNCHANGED <<word, next, wake>>

(* The first read of the word, the fast path and the CHECK_ONLY exit.      *)
BeginRead(t) ==
  /\ pc[t] = "begin"
  /\ \/ word.state = "done" /\ ReturnDone(t, word)
     \/ /\ word.state # "done"
        /\ flags[t] = "CHECK_ONLY"
        /\ ReturnError(t, "FAILED")
     \/ /\ word.state # "done"
        /\ flags[t] # "CHECK_ONLY"
        /\ Goto(t, "try")
        /\ cur' = [cur EXCEPT ![t] = word]
        /\ UNCHANGED <<api, flags, ctx, ret>>
  /\ UNCHANGED <<word, next, wake>>

(* One turn of the for loop on the local copy of the word.                 *)
Claim(t) ==
  /\ pc[t] = "try"
  /\ cur[t].state = "none"
  /\ IF word = cur[t]
       THEN /\ word' = Word(IF flags[t] = "ASYNC" THEN "async" ELSE "sync", Null)
            /\ Become(t)
       ELSE /\ cur' = [cur EXCEPT ![t] = word]
            /\ UNCHANGED <<word, pc, api, flags, ctx, ret>>
  /\ UNCHANGED <<next, wake>>

MeetSync(t) ==
  /\ pc[t] = "try"
  /\ cur[t].state = "sync"
  /\ IF flags[t] = "ASYNC"
       THEN ReturnError(t, "FAILED")
       ELSE /\ Goto(t, "waitinit")
            /\ UNCHANGED <<api, flags, cur, ctx, ret>>
  /\ UNCHANGED <<word, next, wake>>

MeetDoneOrAsync(t) ==
  /\ pc[t] = "try"
  /\ \/ cur[t].state = "done" /\ ReturnDone(t, cur[t])
     \/ /\ cur[t].state = "async"
        /\ IF flags[t] = "ASYNC" THEN Become(t) ELSE ReturnError(t, "FAILED")
  /\ UNCHANGED <<word, next, wake>>

-----------------------------------------------------------------------------
(* RtlpRunOnceWaitForInit: push the stack block, block on it, look again.  *)

\* The do-while tests the word it saw: wait again while a sync attempt runs.
LookAgain(t) ==
  /\ cur' = [cur EXCEPT ![t] = word]
  /\ Goto(t, IF word.state = "sync" THEN "waitinit" ELSE "try")

Push(t) ==
  /\ pc[t] = "waitinit"
  /\ IF word = cur[t]
       THEN /\ word' = Word("sync", t)
            /\ next' = [next EXCEPT ![t] = cur[t].ptr]
            /\ Goto(t, "pushed")
            /\ cur' = [cur EXCEPT ![t] = Blank]
       ELSE /\ LookAgain(t)
            /\ UNCHANGED <<word, next>>
  /\ UNCHANGED <<api, flags, wake, ctx, ret>>

\* NtWaitForKeyedEvent enters the kernel; ReleaseNext ends the wait.
Block(t) ==
  /\ pc[t] = "pushed"
  /\ Goto(t, "blocked")
  /\ UNCHANGED <<word, api, flags, cur, next, wake, ctx, ret>>

Reread(t) ==
  /\ pc[t] = "woken"
  /\ LookAgain(t)
  /\ UNCHANGED <<word, api, flags, next, wake, ctx, ret>>

-----------------------------------------------------------------------------
(* RtlRunOnceComplete, by a thread whose Begin returned PENDING: the       *)
(* parameter checks, the read of the word and the switch on its state.     *)

\* dwNewFlags & CHECK_ONLY: set for a synchronous completion or failure.
CompletesSync(f) == f \in {"0", "INIT_FAILED"}
\* dwNewFlags & ASYNC: set for a completion that stores a context.
Stores(f) == f \in {"0", "ASYNC"}

\* The flags and the context are accepted.
ValidComplete(f, c) ==
  /\ f # "ASYNC|INIT_FAILED"
  /\ c # Null => Stores(f) /\ c \notin BadContext

\* A refused call changes nothing: the caller stays the owner and may try
\* again, but InitOnceExecuteOnce raises.
Refuse(t) ==
  IF api[t] = "execute" THEN ReturnError(t, "FAILED")
                        ELSE UNCHANGED <<pc, api, flags, cur, ctx, ret>>

Complete(t, f, c) ==
  /\ pc[t] = "owner"
  /\ api[t] = "execute" => f = "0" \/ (f = "INIT_FAILED" /\ c = Null)
  /\ \/ ~ValidComplete(f, c) /\ Refuse(t)
     \/ /\ ValidComplete(f, c)
        /\ word.state = IF CompletesSync(f) THEN "async" ELSE "sync"
        /\ Refuse(t)
     \/ /\ ValidComplete(f, c)
        /\ word.state = IF CompletesSync(f) THEN "sync" ELSE "async"
        /\ Goto(t, "complete")
        /\ cur' = [cur EXCEPT ![t] = word]
        /\ flags' = [flags EXCEPT ![t] = f]
        /\ ctx' = [ctx EXCEPT ![t] = c]
        /\ UNCHANGED <<api, ret>>
     \/ /\ ValidComplete(f, c)
        /\ word.state \in {"none", "done"}
        /\ ReturnError(t, "FAILED")
  /\ UNCHANGED <<word, next, wake>>

NewWord(t) == IF Stores(flags[t]) THEN Word("done", ctx[t]) ELSE Blank

\* Mutant: wakes the stack it read before the exchange.
PublishStale(t) ==
  /\ pc[t] = "complete"
  /\ cur[t].state = "sync"
  /\ word' = NewWord(t)
  /\ wake' = [wake EXCEPT ![t] = cur[t].ptr]
  /\ Goto(t, "wake")
  /\ cur' = [cur EXCEPT ![t] = Blank]
  /\ UNCHANGED <<api, flags, ctx, ret, next>>

\* Mutant: a failure is recorded without waking the waiters.
PublishQuietFailure(t) ==
  /\ pc[t] = "complete"
  /\ cur[t].state = "sync"
  /\ word' = NewWord(t)
  /\ wake' = [wake EXCEPT ![t] = IF Stores(flags[t]) THEN word.ptr ELSE Null]
  /\ Goto(t, "wake")
  /\ cur' = [cur EXCEPT ![t] = Blank]
  /\ UNCHANGED <<api, flags, ctx, ret, next>>

\* The synchronous completion: InterlockedExchange, then the wake-up of all.
Publish(t) ==
  /\ pc[t] = "complete"
  /\ cur[t].state = "sync"
  /\ word' = NewWord(t)
  /\ IF word.state = "sync"
       THEN /\ wake' = [wake EXCEPT ![t] = word.ptr]
            /\ Goto(t, "wake")
            /\ cur' = [cur EXCEPT ![t] = Blank]
            /\ UNCHANGED <<api, flags, ctx, ret>>
       ELSE /\ ReturnError(t, "INVALID_OWNER")
            /\ UNCHANGED wake
  /\ UNCHANGED next

\* The asynchronous completion: the first CAS wins, the others get
\* STATUS_OBJECT_NAME_COLLISION.
PublishAsync(t) ==
  /\ pc[t] = "complete"
  /\ cur[t].state = "async"
  /\ IF word = cur[t]
       THEN word' = NewWord(t) /\ Return(t, "SUCCESS", ctx[t], "idle")
       ELSE UNCHANGED word /\ ReturnError(t, "FAILED")
  /\ UNCHANGED <<next, wake>>

\* RtlpRunOnceWakeAll: read the block's link, then NtReleaseKeyedEvent on it,
\* which itself blocks until the owner of the block is in the kernel.
ReleaseNext(t) ==
  /\ pc[t] = "wake"
  /\ wake[t] \in Thread
  /\ pc[wake[t]] = "blocked"
  /\ pc' = [pc EXCEPT ![wake[t]] = "woken"]
  /\ wake' = [wake EXCEPT ![t] = next[wake[t]]]
  /\ next' = [next EXCEPT ![wake[t]] = Null]
  /\ UNCHANGED <<word, api, flags, cur, ctx, ret>>

CompleteReturn(t) ==
  /\ pc[t] = "wake"
  /\ wake[t] = Null
  /\ IF Stores(flags[t]) THEN Return(t, "SUCCESS", ctx[t], "idle")
                         ELSE Return(t, "FAILED", Null, "idle")
  /\ UNCHANGED <<word, next, wake>>

-----------------------------------------------------------------------------
BeginFlags == {"0", "CHECK_ONLY", "ASYNC", "CHECK_ONLY|ASYNC"}

CompleteFlags == {"0", "ASYNC", "INIT_FAILED", "ASYNC|INIT_FAILED"}

Flags == BeginFlags \cup CompleteFlags

Contexts == Context \cup BadContext \cup {Null}

Apis == {"raw", "execute"}

CallSome(t) == \E a \in Apis, f \in BeginFlags : Call(t, a, f)

CompleteSome(t) == \E f \in CompleteFlags, c \in Contexts : Complete(t, f, c)

\* The steps a thread takes inside a call.
Inside(t) ==
  \/ BeginRead(t) \/ Claim(t) \/ MeetSync(t) \/ MeetDoneOrAsync(t)
  \/ Push(t) \/ Block(t) \/ Reread(t)
  \/ Publish(t) \/ PublishAsync(t) \/ ReleaseNext(t) \/ CompleteReturn(t)

Next == \E t \in Thread : CallSome(t) \/ CompleteSome(t) \/ Inside(t)

Spec == Init /\ [][Next]_vars

-----------------------------------------------------------------------------
(* Properties.                                                             *)

TypeOK ==
  /\ word \in Words
  /\ pc \in [Thread -> PCs]
  /\ api \in [Thread -> Apis]
  /\ flags \in [Thread -> Flags]
  /\ cur \in [Thread -> Words]
  /\ next \in [Thread -> Pointers]
  /\ wake \in [Thread -> Pointers]
  /\ ctx \in [Thread -> Pointers]
  /\ ret \in [Thread -> Answers]

\* A thread told by a synchronous Begin to initialise, until it has published.
SyncOwner(t) == \/ pc[t] = "owner" /\ flags[t] = "0"
                \/ pc[t] = "complete" /\ cur[t].state = "sync"

AsyncOwner(t) == \/ pc[t] = "owner" /\ flags[t] = "ASYNC"
                 \/ pc[t] = "complete" /\ cur[t].state = "async"

\* The initialiser runs in one thread at a time, and only while the word says
\* "sync": a retry after INIT_FAILED never overlaps the attempt before it.
OneInitialiser ==
  \A t \in Thread : SyncOwner(t) =>
    word.state = "sync" /\ \A u \in Thread : SyncOwner(u) => u = t

\* A completion that passed the checks of RtlRunOnceComplete never finds that
\* another thread took the initialisation away: INVALID_OWNER is not returned
\* to a thread that was told PENDING.
NeverDisowned == \A t \in Thread : ret[t] # "INVALID_OWNER"

\* Everyone who was told that the initialisation is done, by Begin, Complete or
\* ExecuteOnce, holds the context the word keeps: no call returns a context of
\* a losing async attempt or a stack address of the waiter list.
OneContext ==
  \A t \in Thread :
    ret[t] = "SUCCESS" => word = Word("done", ctx[t])

Waiting(t) == pc[t] \in {"pushed", "blocked"}

\* A pointer to t's stack block that some thread will still follow: the word,
\* the link of another waiting block, the cursor of a waker.
InWord(t) == word.state = "sync" /\ word.ptr = t

Holds(u, t) == \/ Waiting(u) /\ next[u] = t
               \/ pc[u] = "wake" /\ wake[u] = t

\* A thread that waits on its stack block is reachable by exactly one path,
\* so it is woken once; a thread that does not wait is not reachable, so no
\* waker follows a pointer into a dead stack frame.
WaitersReachableOnce ==
  \A t \in Thread :
    /\ Waiting(t) <=> InWord(t) \/ \E u \in Thread : Holds(u, t)
    /\ InWord(t) => \A u \in Thread : ~Holds(u, t)
    /\ \A u, v \in Thread : Holds(u, t) /\ Holds(v, t) => u = v

\* Done is final and its context is immutable, whatever late completers and
\* late waiters do to the word.
DoneIsFinal == [][word.state = "done" => word' = word]_vars

-----------------------------------------------------------------------------
(* The inductive invariant: what a thread's place says of its flags, of    *)
(* the word it has seen and of the word as it is now.                      *)

LocalInv ==
  \A t \in Thread :
    /\ pc[t] = "begin" => flags[t] \in {"0", "CHECK_ONLY", "ASYNC"}
    /\ pc[t] \in {"try", "owner"} => flags[t] \in {"0", "ASYNC"}
    /\ pc[t] \in {"waitinit", "pushed", "blocked", "woken"} => flags[t] = "0"
    /\ pc[t] = "waitinit" => cur[t].state = "sync"
    /\ pc[t] = "complete" => /\ \/ cur[t].state = "sync" /\ CompletesSync(flags[t])
                                \/ cur[t].state = "async" /\ flags[t] = "ASYNC"
                             /\ ctx[t] \in Context \cup {Null}
    /\ ret[t] = "SUCCESS" => pc[t] = "idle"

\* States 3 and 2 are never left for 0 or 1, not even between the moment a
\* thread sees them and the moment it acts on what it saw.
SeenInv ==
  \A t \in Thread :
    /\ pc[t] = "try" /\ cur[t].state = "async" => word.state \in {"async", "done"}
    /\ pc[t] = "try" /\ cur[t].state = "done" => word = cur[t]
    /\ AsyncOwner(t) => word.state \in {"async", "done"}

StoredInv ==
  \A t \in Thread :
    pc[t] = "wake" /\ Stores(flags[t]) => word = Word("done", ctx[t])

IInv == /\ TypeOK /\ LocalInv /\ SeenInv /\ StoredInv
        /\ OneInitialiser /\ NeverDisowned /\ OneContext /\ WaitersReachableOnce

-----------------------------------------------------------------------------
(* The word and its callers implement the abstract once-object.            *)

\* Told to initialise, or about to be told so on a word it saw in state 3.
Running(t) == \/ pc[t] \in {"owner", "complete"}
              \/ pc[t] = "try" /\ flags[t] = "ASYNC" /\ cur[t].state = "async"

\* What the thread's last call answered, while it is out of any call.
Told(t) == IF ret[t] = "SUCCESS" THEN <<ctx[t]>> ELSE <<>>

Abstract == INSTANCE Once WITH
  Value <- Context \cup {Null},
  NoValue <- Null,
  phase <- word.state,
  value <- IF word.state = "done" THEN word.ptr ELSE Null,
  running <- {t \in Thread : Running(t)},
  told <- [t \in Thread |-> Told(t)]

\* Every behaviour of the code is one of the abstract once-object: a decision
\* is taken once, by a thread that was told to initialise, and only the decided
\* value is ever handed out.
ImplementsOnce == Abstract!Spec

-----------------------------------------------------------------------------
(* Fairness: the scheduler runs every thread that can move, and whoever    *)
(* was told to initialise completes, with success or failure.  A thread    *)
(* that is the initialiser holds everybody up otherwise, by design.        *)

Fairness == \A t \in Thread :
  /\ WF_vars(Inside(t))
  /\ WF_vars(CompleteSome(t) /\ pc'[t] # "owner")

FairSpec == Spec /\ Fairness

\* An owner that raised, its context refused, is gone without completing.
Abandoned == \E t \in Thread : pc[t] = "raised"

\* A thread that was queued behind an initialiser is woken.
WaitersWoken == \A t \in Thread : Waiting(t) ~> ~Waiting(t) \/ Abandoned

FailsNow == \E t \in Thread : Publish(t) /\ ~Stores(flags[t])

InCall(t) == pc[t] \notin {"idle", "owner", "raised"}

\* Once initialisers stop failing, every call is answered: no waiter of a failed
\* attempt is left behind by the retries, and no wake-up loop runs for ever.
CallsAnswered ==
  (<>[][~FailsNow]_vars) => \A t \in Thread : InCall(t) ~> ~InCall(t) \/ Abandoned
=============================================================================
