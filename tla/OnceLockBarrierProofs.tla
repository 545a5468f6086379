------------------------ MODULE OnceLockBarrierProofs ------------------------
(***************************************************************************)
(* Proofs about InitOnce, SRWLock and Barrier, for any number of threads.  *)
(*                                                                         *)
(* InitOnce: the inductive invariant Once!IInv, and from it one            *)
(* initialiser at a time, one context for ever, no waiter lost or woken    *)
(* twice, and that it implements the abstract once-object.                 *)
(*                                                                         *)
(* SRWLock: the inductive invariant IInv, which numbers the wait blocks in *)
(* the order in which they were queued; from it who owns the lock, that no *)
(* dead block is touched, that every waiter is on one list, that no        *)
(* wake-up is lost, and that it implements a plain reader/writer lock.     *)
(*                                                                         *)
(* Barrier: for any number of rounds and both orders of memory accesses,   *)
(* rounds are kept apart, deletion waits for whoever counts itself, and    *)
(* the barrier is a rendezvous.  That sleepers are woken needs the         *)
(* accesses in order and is left to TLC.                                   *)
(***************************************************************************)
EXTENDS MCBarrier, Integers, FiniteSetTheorems, WellFoundedInduction, TLAPS

USE ContextAssumption DEF Once!ContextsApart

\* The named actions that Next is made of, for one thread.
LEMMA NextCases ==
  ASSUME Once!Next
  PROVE  \E t \in Thread :
           \/ \E a \in Once!Apis, f \in Once!BeginFlags : Once!Call(t, a, f)
           \/ \E f \in Once!CompleteFlags, c \in Once!Contexts : Once!Complete(t, f, c)
           \/ Once!BeginRead(t) \/ Once!Claim(t) \/ Once!MeetSync(t) \/ Once!MeetDoneOrAsync(t)
           \/ Once!Push(t) \/ Once!Block(t) \/ Once!Reread(t)
           \/ Once!Publish(t) \/ Once!PublishAsync(t) \/ Once!ReleaseNext(t) \/ Once!CompleteReturn(t)
  BY DEF Once!Next, Once!CallSome, Once!CompleteSome, Once!Inside

\* Words are built from a state and a pointer, and are what they are built from.
LEMMA WordFacts ==
  /\ \A s \in Once!States, x \in Once!Pointers : /\ Once!Word(s, x) \in Once!Words
                                      /\ Once!Word(s, x).state = s
                                      /\ Once!Word(s, x).ptr = x
  /\ \A w \in Once!Words : w.state \in Once!States /\ w.ptr \in Once!Pointers
  /\ Once!Blank \in Once!Words /\ Once!Blank.state = "none" /\ Once!Blank.ptr = Null
  /\ Null \in Once!Pointers
  /\ {"none", "sync", "async", "done"} \subseteq Once!States
  BY DEF Once!Word, Once!Words, Once!Blank, Once!States, Once!Pointers

\* What may be stored in the word, in a link and in a context.
LEMMA WordTypes ==
  /\ \A s \in Once!States, x \in Once!Pointers : Once!Word(s, x) \in Once!Words
  /\ Once!Blank \in Once!Words /\ Null \in Once!Pointers
  /\ {"none", "sync", "async", "done"} \subseteq Once!States
  /\ Thread \subseteq Once!Pointers
  /\ once \in Once!Words => once.ptr \in Once!Pointers
  BY WordFacts DEF Once!Pointers

\* The constants that the actions assign are in the sets they should be in.
LEMMA OnceValues ==
  /\ "idle" \in Once!PCs /\ "begin" \in Once!PCs /\ "try" \in Once!PCs /\ "waitinit" \in Once!PCs
  /\ "pushed" \in Once!PCs /\ "blocked" \in Once!PCs /\ "woken" \in Once!PCs /\ "owner" \in Once!PCs
  /\ "complete" \in Once!PCs /\ "wake" \in Once!PCs /\ "raised" \in Once!PCs
  /\ "NONE" \in Once!Answers /\ "SUCCESS" \in Once!Answers /\ "FAILED" \in Once!Answers
  /\ "INVALID_OWNER" \in Once!Answers
  /\ "0" \in Once!Flags /\ "raw" \in Once!Apis
  /\ Once!BeginFlags \subseteq Once!Flags /\ Once!CompleteFlags \subseteq Once!Flags
  BY DEF Once!PCs, Once!Answers, Once!Flags, Once!Apis, Once!BeginFlags, Once!CompleteFlags

\* A return leaves the thread's locals typed.
LEMMA ReturnTypes ==
  ASSUME Once!TypeOK, NEW t \in Thread, NEW a \in Once!Answers, NEW c \in Once!Pointers,
         NEW w \in Once!PCs, Once!Return(t, a, c, w)
  PROVE  /\ oncePc' \in [Thread -> Once!PCs] /\ api' \in [Thread -> Once!Apis]
         /\ flags' \in [Thread -> Once!Flags] /\ cur' \in [Thread -> Once!Words]
         /\ ctx' \in [Thread -> Once!Pointers] /\ ret' \in [Thread -> Once!Answers]
  BY WordFacts, OnceValues DEF Once!TypeOK, Once!Return

\* An error return leaves the thread's locals typed.
LEMMA ErrorTypes ==
  ASSUME Once!TypeOK, NEW t \in Thread, NEW a \in Once!Answers, Once!ReturnError(t, a)
  PROVE  /\ oncePc' \in [Thread -> Once!PCs] /\ api' \in [Thread -> Once!Apis]
         /\ flags' \in [Thread -> Once!Flags] /\ cur' \in [Thread -> Once!Words]
         /\ ctx' \in [Thread -> Once!Pointers] /\ ret' \in [Thread -> Once!Answers]
  <1>1. (IF api[t] = "execute" THEN "raised" ELSE "idle") \in Once!PCs
    BY OnceValues
  <1> QED BY <1>1, ReturnTypes, WordFacts DEF Once!ReturnError

\* Every step keeps the types.
LEMMA TypeStep ==
  ASSUME Once!TypeOK, Once!LocalInv, [Once!Next]_(Once!vars)
  PROVE  Once!TypeOK'
<1> USE OnceValues, WordTypes DEF Once!TypeOK
<1>1. CASE UNCHANGED Once!vars
  BY <1>1 DEF Once!vars
<1>2. CASE Once!Next
  <2>1. PICK t \in Thread :
           \/ \E a \in Once!Apis, f \in Once!BeginFlags : Once!Call(t, a, f)
           \/ \E f \in Once!CompleteFlags, c \in Once!Contexts : Once!Complete(t, f, c)
           \/ Once!BeginRead(t) \/ Once!Claim(t) \/ Once!MeetSync(t) \/ Once!MeetDoneOrAsync(t)
           \/ Once!Push(t) \/ Once!Block(t) \/ Once!Reread(t)
           \/ Once!Publish(t) \/ Once!PublishAsync(t) \/ Once!ReleaseNext(t) \/ Once!CompleteReturn(t)
    BY <1>2, NextCases
  <2>2. ASSUME NEW a \in Once!Apis, NEW f \in Once!BeginFlags, Once!Call(t, a, f)
        PROVE  Once!TypeOK'
    <3>1. CASE f = "CHECK_ONLY|ASYNC"
      BY <2>2, <3>1, ReturnTypes DEF Once!Call
    <3>2. CASE f # "CHECK_ONLY|ASYNC"
      BY <2>2, <3>2 DEF Once!Call, Once!Goto
    <3> QED BY <3>1, <3>2
  <2>3. ASSUME NEW f \in Once!CompleteFlags, NEW c \in Once!Contexts, Once!Complete(t, f, c)
        PROVE  Once!TypeOK'
    <3>1. CASE ~Once!ValidComplete(f, c) /\ Once!Refuse(t)
      BY <2>3, <3>1, ReturnTypes, ErrorTypes DEF Once!Complete, Once!Refuse
    <3>2. CASE Once!Refuse(t) \/ Once!ReturnError(t, "FAILED")
      BY <2>3, <3>2, ReturnTypes, ErrorTypes DEF Once!Complete, Once!Refuse
    <3>3. CASE /\ Once!ValidComplete(f, c)
               /\ Once!Goto(t, "complete")
               /\ cur' = [cur EXCEPT ![t] = once]
               /\ flags' = [flags EXCEPT ![t] = f]
               /\ ctx' = [ctx EXCEPT ![t] = c]
               /\ UNCHANGED <<api, ret>>
      <4>1. c \in Once!Pointers
        BY <3>3 DEF Once!ValidComplete, Once!Contexts, Once!Pointers
      <4> QED BY <2>3, <3>3, <4>1 DEF Once!Complete, Once!Goto
    <3> QED BY <2>3, <3>1, <3>2, <3>3 DEF Once!Complete
  <2>4. CASE Once!BeginRead(t)
    <3>1. CASE Once!ReturnDone(t, once)
      BY <2>4, <3>1, ReturnTypes DEF Once!BeginRead, Once!ReturnDone
    <3>2. CASE Once!ReturnError(t, "FAILED")
      BY <2>4, <3>2, ErrorTypes DEF Once!BeginRead
    <3>3. CASE /\ Once!Goto(t, "try")
               /\ cur' = [cur EXCEPT ![t] = once]
               /\ UNCHANGED <<api, flags, ctx, ret>>
      BY <2>4, <3>3 DEF Once!BeginRead, Once!Goto
    <3> QED BY <2>4, <3>1, <3>2, <3>3 DEF Once!BeginRead
  <2>5. CASE Once!Claim(t)
    BY <2>5 DEF Once!Claim, Once!Become
  <2>6. CASE Once!MeetSync(t)
    <3>1. CASE flags[t] = "ASYNC"
      BY <2>6, <3>1, ErrorTypes DEF Once!MeetSync
    <3>2. CASE flags[t] # "ASYNC"
      BY <2>6, <3>2 DEF Once!MeetSync, Once!Goto
    <3> QED BY <3>1, <3>2
  <2>7. CASE Once!MeetDoneOrAsync(t)
    <3>1. CASE Once!ReturnDone(t, cur[t])
      <4>1. cur[t].ptr \in Once!Pointers
        BY WordFacts
      <4> QED BY <2>7, <3>1, <4>1, ReturnTypes DEF Once!MeetDoneOrAsync, Once!ReturnDone
    <3>2. CASE Once!ReturnError(t, "FAILED")
      BY <2>7, <3>2, ErrorTypes DEF Once!MeetDoneOrAsync
    <3>3. CASE Once!Become(t)
      BY <2>7, <3>3 DEF Once!MeetDoneOrAsync, Once!Become
    <3> QED BY <2>7, <3>1, <3>2, <3>3 DEF Once!MeetDoneOrAsync
  <2>8. CASE Once!Push(t)
    BY <2>8 DEF Once!Push, Once!LookAgain, Once!Goto
  <2>9. CASE Once!Block(t)
    BY <2>9 DEF Once!Block, Once!Goto
  <2>10. CASE Once!Reread(t)
    BY <2>10 DEF Once!Reread, Once!LookAgain, Once!Goto
  <2>11. CASE Once!Publish(t)
    <3>1. once' \in Once!Words
      BY <2>11 DEF Once!Publish, Once!NewWord
    <3>2. CASE once.state = "sync"
      BY <2>11, <3>1, <3>2 DEF Once!Publish, Once!Goto
    <3>3. CASE once.state # "sync"
      BY <2>11, <3>1, <3>3, ErrorTypes DEF Once!Publish
    <3> QED BY <3>2, <3>3
  <2>12. CASE Once!PublishAsync(t)
    BY <2>12, ReturnTypes, ErrorTypes DEF Once!PublishAsync, Once!NewWord
  <2>13. CASE Once!ReleaseNext(t)
    BY <2>13 DEF Once!ReleaseNext
  <2>14. CASE Once!CompleteReturn(t)
    BY <2>14, ReturnTypes, ErrorTypes DEF Once!CompleteReturn
  <2> QED BY <2>1, <2>2, <2>3, <2>4, <2>5, <2>6, <2>7, <2>8, <2>9, <2>10,
             <2>11, <2>12, <2>13, <2>14
<1> QED BY <1>1, <1>2 DEF Once!vars

\* The two parts of a word.
LEMMA OnceParts == /\ \A s, x : Once!Word(s, x).state = s /\ Once!Word(s, x).ptr = x
                   /\ Once!Blank.state = "none" /\ Once!Blank.ptr = Null
  BY DEF Once!Word, Once!Blank

\* What a thread's place says of its own locals.
LEMMA LocalStep ==
  ASSUME Once!TypeOK, Once!LocalInv, [Once!Next]_(Once!vars)
  PROVE  Once!LocalInv'
<1> USE OnceParts DEF Once!TypeOK, Once!LocalInv, Once!CompletesSync, Once!Stores
<1>1. CASE UNCHANGED Once!vars
  BY <1>1 DEF Once!vars
<1>2. CASE Once!Next
  <2>1. PICK t \in Thread :
           \/ \E a \in Once!Apis, f \in Once!BeginFlags : Once!Call(t, a, f)
           \/ \E f \in Once!CompleteFlags, c \in Once!Contexts : Once!Complete(t, f, c)
           \/ Once!BeginRead(t) \/ Once!Claim(t) \/ Once!MeetSync(t) \/ Once!MeetDoneOrAsync(t)
           \/ Once!Push(t) \/ Once!Block(t) \/ Once!Reread(t)
           \/ Once!Publish(t) \/ Once!PublishAsync(t) \/ Once!ReleaseNext(t) \/ Once!CompleteReturn(t)
    BY <1>2, NextCases
  <2>2. ASSUME NEW a \in Once!Apis, NEW f \in Once!BeginFlags, Once!Call(t, a, f)
        PROVE  Once!LocalInv'
    BY <2>2 DEF Once!Call, Once!Return, Once!Goto, Once!BeginFlags
  <2>3. CASE Once!BeginRead(t)
    BY <2>3 DEF Once!BeginRead, Once!ReturnDone, Once!ReturnError, Once!Return, Once!Goto
  <2>4. CASE Once!Claim(t)
    BY <2>4 DEF Once!Claim, Once!Become
  <2>5. CASE Once!MeetSync(t)
    BY <2>5 DEF Once!MeetSync, Once!ReturnError, Once!Return, Once!Goto
  <2>6. CASE Once!MeetDoneOrAsync(t)
    BY <2>6 DEF Once!MeetDoneOrAsync, Once!ReturnDone, Once!ReturnError, Once!Return, Once!Become
  <2>7. CASE Once!Push(t)
    BY <2>7 DEF Once!Push, Once!LookAgain, Once!Goto
  <2>8. CASE Once!Block(t)
    BY <2>8 DEF Once!Block, Once!Goto
  <2>9. CASE Once!Reread(t)
    BY <2>9 DEF Once!Reread, Once!LookAgain, Once!Goto
  <2>10. ASSUME NEW f \in Once!CompleteFlags, NEW c \in Once!Contexts, Once!Complete(t, f, c)
        PROVE  Once!LocalInv'
    BY <2>10 DEF Once!Complete, Once!ValidComplete, Once!Refuse, Once!ReturnError, Once!Return,
        Once!Goto, Once!CompleteFlags, Once!Contexts
  <2>11. CASE Once!Publish(t)
    BY <2>11 DEF Once!Publish, Once!NewWord, Once!ReturnError, Once!Return, Once!Goto
  <2>12. CASE Once!PublishAsync(t)
    BY <2>12 DEF Once!PublishAsync, Once!NewWord, Once!ReturnError, Once!Return
  <2>13. CASE Once!ReleaseNext(t)
    BY <2>13 DEF Once!ReleaseNext
  <2>14. CASE Once!CompleteReturn(t)
    BY <2>14 DEF Once!CompleteReturn, Once!Return
  <2> QED BY <2>1, <2>2, <2>3, <2>4, <2>5, <2>6, <2>7, <2>8, <2>9, <2>10, <2>11, <2>12, <2>13, <2>14
<1> QED BY <1>1, <1>2 DEF Once!vars

\* One synchronous initialiser: it claims state 0, and only it leaves state 1.
LEMMA OwnerStep ==
  ASSUME Once!TypeOK, Once!LocalInv, Once!SeenInv, Once!OneInitialiser, [Once!Next]_(Once!vars)
  PROVE  Once!OneInitialiser'
<1> USE OnceParts DEF Once!TypeOK, Once!LocalInv, Once!SeenInv, Once!OneInitialiser,
    Once!SyncOwner, Once!AsyncOwner, Once!CompletesSync, Once!Stores
<1>1. CASE UNCHANGED Once!vars
  BY <1>1 DEF Once!vars
<1>2. CASE Once!Next
  <2>1. PICK t \in Thread :
           \/ \E a \in Once!Apis, f \in Once!BeginFlags : Once!Call(t, a, f)
           \/ \E f \in Once!CompleteFlags, c \in Once!Contexts : Once!Complete(t, f, c)
           \/ Once!BeginRead(t) \/ Once!Claim(t) \/ Once!MeetSync(t) \/ Once!MeetDoneOrAsync(t)
           \/ Once!Push(t) \/ Once!Block(t) \/ Once!Reread(t)
           \/ Once!Publish(t) \/ Once!PublishAsync(t) \/ Once!ReleaseNext(t) \/ Once!CompleteReturn(t)
    BY <1>2, NextCases
  <2>2. ASSUME NEW a \in Once!Apis, NEW f \in Once!BeginFlags, Once!Call(t, a, f)
        PROVE  Once!OneInitialiser'
    BY <2>2 DEF Once!Call, Once!Return, Once!Goto
  <2>3. CASE Once!BeginRead(t)
    BY <2>3 DEF Once!BeginRead, Once!ReturnDone, Once!ReturnError, Once!Return, Once!Goto
  <2>4. CASE Once!Claim(t)
    BY <2>4 DEF Once!Claim, Once!Become
  <2>5. CASE Once!MeetSync(t)
    BY <2>5 DEF Once!MeetSync, Once!ReturnError, Once!Return, Once!Goto
  <2>6. CASE Once!MeetDoneOrAsync(t)
    BY <2>6 DEF Once!MeetDoneOrAsync, Once!ReturnDone, Once!ReturnError, Once!Return, Once!Become
  <2>7. CASE Once!Push(t)
    BY <2>7 DEF Once!Push, Once!LookAgain, Once!Goto
  <2>8. CASE Once!Block(t)
    BY <2>8 DEF Once!Block, Once!Goto
  <2>9. CASE Once!Reread(t)
    BY <2>9 DEF Once!Reread, Once!LookAgain, Once!Goto
  <2>10. ASSUME NEW f \in Once!CompleteFlags, NEW c \in Once!Contexts, Once!Complete(t, f, c)
        PROVE  Once!OneInitialiser'
    BY <2>10 DEF Once!Complete, Once!ValidComplete, Once!Refuse, Once!ReturnError, Once!Return,
        Once!Goto, Once!CompleteFlags, Once!Contexts
  <2>11. CASE Once!Publish(t)
    BY <2>11 DEF Once!Publish, Once!NewWord, Once!ReturnError, Once!Return, Once!Goto
  <2>12. CASE Once!PublishAsync(t)
    BY <2>12 DEF Once!PublishAsync, Once!NewWord, Once!ReturnError, Once!Return
  <2>13. CASE Once!ReleaseNext(t)
    BY <2>13 DEF Once!ReleaseNext
  <2>14. CASE Once!CompleteReturn(t)
    BY <2>14 DEF Once!CompleteReturn, Once!Return
  <2> QED BY <2>1, <2>2, <2>3, <2>4, <2>5, <2>6, <2>7, <2>8, <2>9, <2>10, <2>11, <2>12, <2>13, <2>14
<1> QED BY <1>1, <1>2 DEF Once!vars

\* What a thread saw of states 2 and 3 stays true.
LEMMA SeenStep ==
  ASSUME Once!TypeOK, Once!LocalInv, Once!OneInitialiser, Once!SeenInv, [Once!Next]_(Once!vars)
  PROVE  Once!SeenInv'
<1> USE OnceParts DEF Once!TypeOK, Once!LocalInv, Once!SeenInv, Once!OneInitialiser,
    Once!SyncOwner, Once!AsyncOwner, Once!CompletesSync, Once!Stores
<1>1. CASE UNCHANGED Once!vars
  BY <1>1 DEF Once!vars
<1>2. CASE Once!Next
  <2>1. PICK t \in Thread :
           \/ \E a \in Once!Apis, f \in Once!BeginFlags : Once!Call(t, a, f)
           \/ \E f \in Once!CompleteFlags, c \in Once!Contexts : Once!Complete(t, f, c)
           \/ Once!BeginRead(t) \/ Once!Claim(t) \/ Once!MeetSync(t) \/ Once!MeetDoneOrAsync(t)
           \/ Once!Push(t) \/ Once!Block(t) \/ Once!Reread(t)
           \/ Once!Publish(t) \/ Once!PublishAsync(t) \/ Once!ReleaseNext(t) \/ Once!CompleteReturn(t)
    BY <1>2, NextCases
  <2>2. ASSUME NEW a \in Once!Apis, NEW f \in Once!BeginFlags, Once!Call(t, a, f)
        PROVE  Once!SeenInv'
    BY <2>2 DEF Once!Call, Once!Return, Once!Goto
  <2>3. CASE Once!BeginRead(t)
    BY <2>3 DEF Once!BeginRead, Once!ReturnDone, Once!ReturnError, Once!Return, Once!Goto
  <2>4. CASE Once!Claim(t)
    BY <2>4 DEF Once!Claim, Once!Become
  <2>5. CASE Once!MeetSync(t)
    BY <2>5 DEF Once!MeetSync, Once!ReturnError, Once!Return, Once!Goto
  <2>6. CASE Once!MeetDoneOrAsync(t)
    BY <2>6 DEF Once!MeetDoneOrAsync, Once!ReturnDone, Once!ReturnError, Once!Return, Once!Become
  <2>7. CASE Once!Push(t)
    BY <2>7 DEF Once!Push, Once!LookAgain, Once!Goto
  <2>8. CASE Once!Block(t)
    BY <2>8 DEF Once!Block, Once!Goto
  <2>9. CASE Once!Reread(t)
    BY <2>9 DEF Once!Reread, Once!LookAgain, Once!Goto
  <2>10. ASSUME NEW f \in Once!CompleteFlags, NEW c \in Once!Contexts, Once!Complete(t, f, c)
        PROVE  Once!SeenInv'
    BY <2>10 DEF Once!Complete, Once!ValidComplete, Once!Refuse, Once!ReturnError, Once!Return,
        Once!Goto, Once!CompleteFlags, Once!Contexts
  <2>11. CASE Once!Publish(t)
    BY <2>11 DEF Once!Publish, Once!NewWord, Once!ReturnError, Once!Return, Once!Goto
  <2>12. CASE Once!PublishAsync(t)
    BY <2>12 DEF Once!PublishAsync, Once!NewWord, Once!ReturnError, Once!Return
  <2>13. CASE Once!ReleaseNext(t)
    BY <2>13 DEF Once!ReleaseNext
  <2>14. CASE Once!CompleteReturn(t)
    BY <2>14 DEF Once!CompleteReturn, Once!Return
  <2> QED BY <2>1, <2>2, <2>3, <2>4, <2>5, <2>6, <2>7, <2>8, <2>9, <2>10, <2>11, <2>12, <2>13, <2>14
<1> QED BY <1>1, <1>2 DEF Once!vars

\* A synchronous completion finds its own state 1.
LEMMA DisownedStep ==
  ASSUME Once!TypeOK, Once!LocalInv, Once!OneInitialiser, Once!NeverDisowned, [Once!Next]_(Once!vars)
  PROVE  Once!NeverDisowned'
<1> USE OnceParts DEF Once!TypeOK, Once!LocalInv, Once!NeverDisowned, Once!OneInitialiser,
    Once!SyncOwner
<1>1. CASE UNCHANGED Once!vars
  BY <1>1 DEF Once!vars
<1>2. CASE Once!Next
  <2>1. PICK t \in Thread :
           \/ \E a \in Once!Apis, f \in Once!BeginFlags : Once!Call(t, a, f)
           \/ \E f \in Once!CompleteFlags, c \in Once!Contexts : Once!Complete(t, f, c)
           \/ Once!BeginRead(t) \/ Once!Claim(t) \/ Once!MeetSync(t) \/ Once!MeetDoneOrAsync(t)
           \/ Once!Push(t) \/ Once!Block(t) \/ Once!Reread(t)
           \/ Once!Publish(t) \/ Once!PublishAsync(t) \/ Once!ReleaseNext(t) \/ Once!CompleteReturn(t)
    BY <1>2, NextCases
  <2>2. ASSUME NEW a \in Once!Apis, NEW f \in Once!BeginFlags, Once!Call(t, a, f)
        PROVE  Once!NeverDisowned'
    BY <2>2 DEF Once!Call, Once!Return, Once!Goto
  <2>3. CASE Once!BeginRead(t)
    BY <2>3 DEF Once!BeginRead, Once!ReturnDone, Once!ReturnError, Once!Return, Once!Goto
  <2>4. CASE Once!Claim(t)
    BY <2>4 DEF Once!Claim, Once!Become
  <2>5. CASE Once!MeetSync(t)
    BY <2>5 DEF Once!MeetSync, Once!ReturnError, Once!Return, Once!Goto
  <2>6. CASE Once!MeetDoneOrAsync(t)
    BY <2>6 DEF Once!MeetDoneOrAsync, Once!ReturnDone, Once!ReturnError, Once!Return, Once!Become
  <2>7. CASE Once!Push(t)
    BY <2>7 DEF Once!Push, Once!LookAgain, Once!Goto
  <2>8. CASE Once!Block(t)
    BY <2>8 DEF Once!Block, Once!Goto
  <2>9. CASE Once!Reread(t)
    BY <2>9 DEF Once!Reread, Once!LookAgain, Once!Goto
  <2>10. ASSUME NEW f \in Once!CompleteFlags, NEW c \in Once!Contexts, Once!Complete(t, f, c)
        PROVE  Once!NeverDisowned'
    BY <2>10 DEF Once!Complete, Once!ValidComplete, Once!Refuse, Once!ReturnError, Once!Return,
        Once!Goto
  <2>11. CASE Once!Publish(t)
    BY <2>11 DEF Once!Publish, Once!NewWord, Once!ReturnError, Once!Return, Once!Goto
  <2>12. CASE Once!PublishAsync(t)
    BY <2>12 DEF Once!PublishAsync, Once!NewWord, Once!ReturnError, Once!Return
  <2>13. CASE Once!ReleaseNext(t)
    BY <2>13 DEF Once!ReleaseNext
  <2>14. CASE Once!CompleteReturn(t)
    BY <2>14 DEF Once!CompleteReturn, Once!Return
  <2> QED BY <2>1, <2>2, <2>3, <2>4, <2>5, <2>6, <2>7, <2>8, <2>9, <2>10, <2>11, <2>12, <2>13, <2>14
<1> QED BY <1>1, <1>2 DEF Once!vars

\* The context in the word is the one the completer still holds.
LEMMA StoredStep ==
  ASSUME Once!TypeOK, Once!LocalInv, Once!SeenInv, Once!OneInitialiser, Once!StoredInv,
         [Once!Next]_(Once!vars)
  PROVE  Once!StoredInv'
<1> USE OnceParts DEF Once!TypeOK, Once!LocalInv, Once!StoredInv, Once!OneInitialiser,
    Once!SyncOwner, Once!CompletesSync, Once!Stores
<1>1. CASE UNCHANGED Once!vars
  BY <1>1 DEF Once!vars
<1>2. CASE Once!Next
  <2>1. PICK t \in Thread :
           \/ \E a \in Once!Apis, f \in Once!BeginFlags : Once!Call(t, a, f)
           \/ \E f \in Once!CompleteFlags, c \in Once!Contexts : Once!Complete(t, f, c)
           \/ Once!BeginRead(t) \/ Once!Claim(t) \/ Once!MeetSync(t) \/ Once!MeetDoneOrAsync(t)
           \/ Once!Push(t) \/ Once!Block(t) \/ Once!Reread(t)
           \/ Once!Publish(t) \/ Once!PublishAsync(t) \/ Once!ReleaseNext(t) \/ Once!CompleteReturn(t)
    BY <1>2, NextCases
  <2>2. ASSUME NEW a \in Once!Apis, NEW f \in Once!BeginFlags, Once!Call(t, a, f)
        PROVE  Once!StoredInv'
    BY <2>2 DEF Once!Call, Once!Return, Once!Goto
  <2>3. CASE Once!BeginRead(t)
    BY <2>3 DEF Once!BeginRead, Once!ReturnDone, Once!ReturnError, Once!Return, Once!Goto
  <2>4. CASE Once!Claim(t)
    BY <2>4 DEF Once!Claim, Once!Become
  <2>5. CASE Once!MeetSync(t)
    BY <2>5 DEF Once!MeetSync, Once!ReturnError, Once!Return, Once!Goto
  <2>6. CASE Once!MeetDoneOrAsync(t)
    BY <2>6 DEF Once!MeetDoneOrAsync, Once!ReturnDone, Once!ReturnError, Once!Return, Once!Become
  <2>7. CASE Once!Push(t)
    BY <2>7 DEF Once!Push, Once!LookAgain, Once!Goto
  <2>8. CASE Once!Block(t)
    BY <2>8 DEF Once!Block, Once!Goto
  <2>9. CASE Once!Reread(t)
    BY <2>9 DEF Once!Reread, Once!LookAgain, Once!Goto
  <2>10. ASSUME NEW f \in Once!CompleteFlags, NEW c \in Once!Contexts, Once!Complete(t, f, c)
        PROVE  Once!StoredInv'
    BY <2>10 DEF Once!Complete, Once!ValidComplete, Once!Refuse, Once!ReturnError, Once!Return,
        Once!Goto
  <2>11. CASE Once!Publish(t)
    BY <2>11 DEF Once!Publish, Once!NewWord, Once!ReturnError, Once!Return, Once!Goto
  <2>12. CASE Once!PublishAsync(t)
    BY <2>12 DEF Once!PublishAsync, Once!NewWord, Once!ReturnError, Once!Return
  <2>13. CASE Once!ReleaseNext(t)
    BY <2>13 DEF Once!ReleaseNext
  <2>14. CASE Once!CompleteReturn(t)
    BY <2>14 DEF Once!CompleteReturn, Once!Return
  <2> QED BY <2>1, <2>2, <2>3, <2>4, <2>5, <2>6, <2>7, <2>8, <2>9, <2>10, <2>11, <2>12, <2>13, <2>14
<1> QED BY <1>1, <1>2 DEF Once!vars

\* A new answer is the word's context, and the word keeps it.
LEMMA ContextStep ==
  ASSUME Once!TypeOK, Once!LocalInv, Once!SeenInv, Once!OneInitialiser,
         Once!StoredInv, Once!OneContext, [Once!Next]_(Once!vars)
  PROVE  Once!OneContext'
<1> USE OnceParts DEF Once!TypeOK, Once!LocalInv, Once!SeenInv, Once!StoredInv, Once!OneContext,
    Once!OneInitialiser, Once!SyncOwner, Once!CompletesSync, Once!Stores
<1>1. CASE UNCHANGED Once!vars
  BY <1>1 DEF Once!vars
<1>2. CASE Once!Next
  <2>1. PICK t \in Thread :
           \/ \E a \in Once!Apis, f \in Once!BeginFlags : Once!Call(t, a, f)
           \/ \E f \in Once!CompleteFlags, c \in Once!Contexts : Once!Complete(t, f, c)
           \/ Once!BeginRead(t) \/ Once!Claim(t) \/ Once!MeetSync(t) \/ Once!MeetDoneOrAsync(t)
           \/ Once!Push(t) \/ Once!Block(t) \/ Once!Reread(t)
           \/ Once!Publish(t) \/ Once!PublishAsync(t) \/ Once!ReleaseNext(t) \/ Once!CompleteReturn(t)
    BY <1>2, NextCases
  <2>2. ASSUME NEW a \in Once!Apis, NEW f \in Once!BeginFlags, Once!Call(t, a, f)
        PROVE  Once!OneContext'
    BY <2>2 DEF Once!Call, Once!Return, Once!Goto
  <2>3. CASE Once!BeginRead(t)
    <3>1. CASE once.state = "done"
      <4>1. once = Once!Word("done", once.ptr)
        BY <3>1 DEF Once!Word, Once!Words
      <4> QED BY <2>3, <3>1, <4>1 DEF Once!BeginRead, Once!ReturnDone, Once!Return
    <3>2. CASE once.state # "done"
      BY <2>3, <3>2 DEF Once!BeginRead, Once!ReturnError, Once!Return, Once!Goto
    <3> QED BY <3>1, <3>2
  <2>4. CASE Once!Claim(t)
    BY <2>4 DEF Once!Claim, Once!Become
  <2>5. CASE Once!MeetSync(t)
    BY <2>5 DEF Once!MeetSync, Once!ReturnError, Once!Return, Once!Goto
  <2>6. CASE Once!MeetDoneOrAsync(t)
    <3>1. CASE cur[t].state = "done"
      <4>1. once = cur[t] /\ once = Once!Word("done", once.ptr)
        BY <2>6, <3>1 DEF Once!MeetDoneOrAsync, Once!Word, Once!Words
      <4> QED BY <2>6, <3>1, <4>1 DEF Once!MeetDoneOrAsync, Once!ReturnDone, Once!Return
    <3>2. CASE cur[t].state # "done"
      BY <2>6, <3>2 DEF Once!MeetDoneOrAsync, Once!ReturnError, Once!Return, Once!Become
    <3> QED BY <3>1, <3>2
  <2>7. CASE Once!Push(t)
    BY <2>7 DEF Once!Push, Once!LookAgain, Once!Goto
  <2>8. CASE Once!Block(t)
    BY <2>8 DEF Once!Block, Once!Goto
  <2>9. CASE Once!Reread(t)
    BY <2>9 DEF Once!Reread, Once!LookAgain, Once!Goto
  <2>10. ASSUME NEW f \in Once!CompleteFlags, NEW c \in Once!Contexts, Once!Complete(t, f, c)
        PROVE  Once!OneContext'
    BY <2>10 DEF Once!Complete, Once!ValidComplete, Once!Refuse, Once!ReturnError, Once!Return,
        Once!Goto
  <2>11. CASE Once!Publish(t)
    BY <2>11 DEF Once!Publish, Once!NewWord, Once!ReturnError, Once!Return, Once!Goto
  <2>12. CASE Once!PublishAsync(t)
    BY <2>12 DEF Once!PublishAsync, Once!NewWord, Once!ReturnError, Once!Return
  <2>13. CASE Once!ReleaseNext(t)
    BY <2>13 DEF Once!ReleaseNext
  <2>14. CASE Once!CompleteReturn(t)
    BY <2>14 DEF Once!CompleteReturn, Once!Return
  <2> QED BY <2>1, <2>2, <2>3, <2>4, <2>5, <2>6, <2>7, <2>8, <2>9, <2>10, <2>11, <2>12, <2>13, <2>14
<1> QED BY <1>1, <1>2 DEF Once!vars

\* Every push, unlink and take-over of the stack keeps one path per waiter.
LEMMA ListStep ==
  ASSUME Once!TypeOK, Once!LocalInv, Once!OneInitialiser, Once!WaitersReachableOnce,
         [Once!Next]_(Once!vars)
  PROVE  Once!WaitersReachableOnce'
<1> USE OnceParts DEF Once!TypeOK, Once!LocalInv, Once!OneInitialiser, Once!SyncOwner,
    Once!WaitersReachableOnce, Once!Holds, Once!InWord, Once!Waiting, Once!Stores
<1>1. CASE UNCHANGED Once!vars
  BY <1>1 DEF Once!vars
<1>2. CASE Once!Next
  <2>1. PICK t \in Thread :
           \/ \E a \in Once!Apis, f \in Once!BeginFlags : Once!Call(t, a, f)
           \/ \E f \in Once!CompleteFlags, c \in Once!Contexts : Once!Complete(t, f, c)
           \/ Once!BeginRead(t) \/ Once!Claim(t) \/ Once!MeetSync(t) \/ Once!MeetDoneOrAsync(t)
           \/ Once!Push(t) \/ Once!Block(t) \/ Once!Reread(t)
           \/ Once!Publish(t) \/ Once!PublishAsync(t) \/ Once!ReleaseNext(t) \/ Once!CompleteReturn(t)
    BY <1>2, NextCases
  <2>2. ASSUME NEW a \in Once!Apis, NEW f \in Once!BeginFlags, Once!Call(t, a, f)
        PROVE  Once!WaitersReachableOnce'
    BY <2>2 DEF Once!Call, Once!Return, Once!Goto
  <2>3. CASE Once!BeginRead(t)
    BY <2>3 DEF Once!BeginRead, Once!ReturnDone, Once!ReturnError, Once!Return, Once!Goto
  <2>4. CASE Once!Claim(t)
    BY <2>4 DEF Once!Claim, Once!Become
  <2>5. CASE Once!MeetSync(t)
    BY <2>5 DEF Once!MeetSync, Once!ReturnError, Once!Return, Once!Goto
  <2>6. CASE Once!MeetDoneOrAsync(t)
    BY <2>6 DEF Once!MeetDoneOrAsync, Once!ReturnDone, Once!ReturnError, Once!Return, Once!Become
  <2>7. CASE Once!Push(t)
    BY <2>7, SMTT(60) DEF Once!Push, Once!LookAgain, Once!Goto
  <2>8. CASE Once!Block(t)
    BY <2>8 DEF Once!Block, Once!Goto
  <2>9. CASE Once!Reread(t)
    BY <2>9 DEF Once!Reread, Once!LookAgain, Once!Goto
  <2>10. ASSUME NEW f \in Once!CompleteFlags, NEW c \in Once!Contexts, Once!Complete(t, f, c)
        PROVE  Once!WaitersReachableOnce'
    <3>1. once' = once /\ onceNext' = onceNext /\ wake' = wake /\ oncePc[t] = "owner"
      BY <2>10 DEF Once!Complete
    <3>2. /\ oncePc'[t] \in {"owner", "idle", "raised", "complete"}
          /\ \A u \in Thread : u # t => oncePc'[u] = oncePc[u]
      BY <2>10 DEF Once!Complete, Once!Refuse, Once!ReturnError, Once!Return, Once!Goto
    <3>3. \A u \in Thread : /\ Once!Waiting(u)' <=> Once!Waiting(u)
                            /\ Once!InWord(u)' <=> Once!InWord(u)
                            /\ oncePc'[u] = "wake" <=> oncePc[u] = "wake"
      BY <3>1, <3>2
    <3>4. \A u, v \in Thread : Once!Holds(u, v)' <=> Once!Holds(u, v)
      BY <3>1, <3>3
    <3> QED BY <3>3, <3>4
  <2>11. CASE Once!Publish(t)
    <3>1. once.state = "sync" /\ once'.state # "sync" /\ ~Once!Waiting(t)
      BY <2>11 DEF Once!Publish, Once!NewWord
    <3>2. \A u \in Thread : /\ Once!Waiting(u)' <=> Once!Waiting(u)
                            /\ ~Once!InWord(u)'
                            /\ onceNext'[u] = onceNext[u]
      BY <2>11, <3>1 DEF Once!Publish, Once!Goto
    <3>3. \A u, v \in Thread : Once!Holds(u, v)' <=> IF u = t THEN Once!InWord(v) ELSE Once!Holds(u, v)
      BY <2>11, <3>1 DEF Once!Publish, Once!Goto
    <3>4. \A v \in Thread : ~Once!Holds(t, v)
      BY <2>11 DEF Once!Publish
    <3> HIDE DEF Once!Holds, Once!InWord, Once!Waiting, Once!TypeOK, Once!LocalInv, Once!OneInitialiser
    <3> QED BY <3>2, <3>3, <3>4
  <2>12. CASE Once!PublishAsync(t)
    BY <2>12 DEF Once!PublishAsync, Once!NewWord, Once!ReturnError, Once!Return
  <2>13. CASE Once!ReleaseNext(t)
    BY <2>13 DEF Once!ReleaseNext
  <2>14. CASE Once!CompleteReturn(t)
    BY <2>14 DEF Once!CompleteReturn, Once!Return
  <2> QED BY <2>1, <2>2, <2>3, <2>4, <2>5, <2>6, <2>7, <2>8, <2>9, <2>10, <2>11, <2>12, <2>13, <2>14
<1> QED BY <1>1, <1>2 DEF Once!vars

\* The inductive invariant of InitOnce holds at the start.
LEMMA OnceStart ==
  ASSUME Once!Init
  PROVE  Once!IInv
  BY OnceValues, WordTypes, OnceParts
  DEF Once!Init, Once!IInv, Once!TypeOK, Once!LocalInv, Once!SeenInv, Once!StoredInv,
      Once!OneInitialiser, Once!NeverDisowned,
      Once!OneContext, Once!WaitersReachableOnce, Once!SyncOwner, Once!AsyncOwner, Once!Waiting,
      Once!InWord, Once!Holds

\* Every step of InitOnce keeps its inductive invariant.
LEMMA OnceStep ==
  ASSUME Once!IInv, [Once!Next]_(Once!vars)
  PROVE  Once!IInv'
  BY TypeStep, LocalStep, OwnerStep, SeenStep, DisownedStep, StoredStep, ContextStep, ListStep
  DEF Once!IInv

\* The inductive invariant holds of every behaviour of the code.
THEOREM OnceInvariance == Once!Spec => []Once!IInv
<1>1. Once!Init => Once!IInv
  BY OnceStart
<1>2. Once!IInv /\ [Once!Next]_(Once!vars) => Once!IInv'
  BY OnceStep
<1> QED BY <1>1, <1>2, PTL DEF Once!Spec

\* The locals, the word and the wait blocks always hold values of their types.
THEOREM OnceTypeCorrect == Once!Spec => []Once!TypeOK
  BY OnceInvariance, PTL DEF Once!IInv

\* At most one thread at a time runs a synchronous initialiser.
THEOREM SingleInitialiser == Once!Spec => []Once!OneInitialiser
  BY OnceInvariance, PTL DEF Once!IInv

\* A thread told to initialise synchronously is never refused its completion.
THEOREM OwnershipKept == Once!Spec => []Once!NeverDisowned
  BY OnceInvariance, PTL DEF Once!IInv

\* All answers are the one context kept in the word.
THEOREM ContextAgreed == Once!Spec => []Once!OneContext
  BY OnceInvariance, PTL DEF Once!IInv

\* No waiter is lost, none is woken twice, no dead stack block is touched.
THEOREM NoWaiterLost == Once!Spec => []WaitersReachableOnce
  BY OnceInvariance, PTL DEF Once!IInv, WaitersReachableOnce

\* No step changes the word once it says done.
LEMMA DoneStep ==
  ASSUME Once!IInv, [Once!Next]_(Once!vars)
  PROVE  once.state = "done" => once' = once
<1> USE OnceParts DEF Once!TypeOK, Once!LocalInv, Once!OneInitialiser, Once!SyncOwner, Once!IInv
<1>1. CASE UNCHANGED Once!vars
  BY <1>1 DEF Once!vars
<1>2. CASE Once!Next
  <2>1. PICK t \in Thread :
           \/ \E a \in Once!Apis, f \in Once!BeginFlags : Once!Call(t, a, f)
           \/ \E f \in Once!CompleteFlags, c \in Once!Contexts : Once!Complete(t, f, c)
           \/ Once!BeginRead(t) \/ Once!Claim(t) \/ Once!MeetSync(t) \/ Once!MeetDoneOrAsync(t)
           \/ Once!Push(t) \/ Once!Block(t) \/ Once!Reread(t)
           \/ Once!Publish(t) \/ Once!PublishAsync(t) \/ Once!ReleaseNext(t) \/ Once!CompleteReturn(t)
    BY <1>2, NextCases
  <2>2. ASSUME NEW a \in Once!Apis, NEW f \in Once!BeginFlags, Once!Call(t, a, f)
        PROVE  once.state = "done" => once' = once
    BY <2>2 DEF Once!Call, Once!Return, Once!Goto
  <2>3. CASE Once!BeginRead(t)
    BY <2>3 DEF Once!BeginRead, Once!ReturnDone, Once!ReturnError, Once!Return, Once!Goto
  <2>4. CASE Once!Claim(t)
    BY <2>4 DEF Once!Claim, Once!Become
  <2>5. CASE Once!MeetSync(t)
    BY <2>5 DEF Once!MeetSync, Once!ReturnError, Once!Return, Once!Goto
  <2>6. CASE Once!MeetDoneOrAsync(t)
    BY <2>6 DEF Once!MeetDoneOrAsync, Once!ReturnDone, Once!ReturnError, Once!Return, Once!Become
  <2>7. CASE Once!Push(t)
    BY <2>7 DEF Once!Push, Once!LookAgain, Once!Goto
  <2>8. CASE Once!Block(t)
    BY <2>8 DEF Once!Block, Once!Goto
  <2>9. CASE Once!Reread(t)
    BY <2>9 DEF Once!Reread, Once!LookAgain, Once!Goto
  <2>10. ASSUME NEW f \in Once!CompleteFlags, NEW c \in Once!Contexts, Once!Complete(t, f, c)
        PROVE  once.state = "done" => once' = once
    BY <2>10 DEF Once!Complete, Once!ValidComplete, Once!Refuse, Once!ReturnError, Once!Return,
        Once!Goto
  <2>11. CASE Once!Publish(t)
    BY <2>11 DEF Once!Publish, Once!NewWord, Once!ReturnError, Once!Return, Once!Goto
  <2>12. CASE Once!PublishAsync(t)
    BY <2>12 DEF Once!PublishAsync, Once!NewWord, Once!ReturnError, Once!Return
  <2>13. CASE Once!ReleaseNext(t)
    BY <2>13 DEF Once!ReleaseNext
  <2>14. CASE Once!CompleteReturn(t)
    BY <2>14 DEF Once!CompleteReturn, Once!Return
  <2> QED BY <2>1, <2>2, <2>3, <2>4, <2>5, <2>6, <2>7, <2>8, <2>9, <2>10, <2>11, <2>12, <2>13, <2>14
<1> QED BY <1>1, <1>2 DEF Once!vars

\* The initialisation is decided once: its context never changes.
THEOREM DecidedOnce == Once!Spec => Once!DoneIsFinal
<1>1. Once!IInv /\ [Once!Next]_(Once!vars) => [once.state = "done" => once' = once]_(Once!vars)
  BY DoneStep
<1> QED BY <1>1, OnceInvariance, PTL DEF Once!Spec, Once!DoneIsFinal

-----------------------------------------------------------------------------
(* The refinement: each step of the code is a step of Once or stutters.    *)

\* A step that disturbs no part of the mapping stutters.
LEMMA Stutters ==
  ASSUME once' = once,
         \A u \in Thread : Once!Running(u)' <=> Once!Running(u),
         \A u \in Thread : Once!Told(u)' = Once!Told(u)
  PROVE  UNCHANGED Once!Abstract!onceVars
  BY DEF Once!Abstract!onceVars

\* A step that gives a new answer to t only.
LEMMA Tells ==
  ASSUME NEW t \in Thread, once' = once, once.state = "done",
         \A u \in Thread : Once!Running(u)' <=> Once!Running(u),
         \A u \in Thread \ {t} : Once!Told(u)' = Once!Told(u),
         Once!Told(t)' = <<once.ptr>>
  PROVE  Once!Abstract!Tell(t)
  BY DEF Once!Abstract!Tell

\* A new call of t, which makes its last answer moot.
LEMMA Forgets ==
  ASSUME NEW t \in Thread, once' = once,
         \A u \in Thread : Once!Running(u)' <=> Once!Running(u),
         \A u \in Thread \ {t} : Once!Told(u)' = Once!Told(u),
         Once!Told(t)' = <<>>
  PROVE  Once!Abstract!CallAgain(t)
  BY DEF Once!Abstract!CallAgain

\* A step that decides the value and answers it at once.
LEMMA DecidesAndTells ==
  ASSUME NEW t \in Thread, NEW v, once.state = "async", once' = Once!Word("done", v),
         Once!Running(t), ~Once!Running(t)',
         \A u \in Thread \ {t} : (Once!Running(u)' <=> Once!Running(u)) /\ Once!Told(u)' = Once!Told(u),
         Once!Told(t)' = <<v>>
  PROVE  Once!Abstract!Decide(t, v)
<1>1. [u \in Thread |-> Once!Told(u)'] = [[u \in Thread |-> Once!Told(u)] EXCEPT ![t] = <<v>>]
  OBVIOUS
<1>2. {u \in Thread : Once!Running(u)'} = {u \in Thread : Once!Running(u)} \ {t}
  OBVIOUS
<1> QED BY <1>1, <1>2, OnceParts DEF Once!Abstract!Decide

\* A step by which t stops to be an initialiser without deciding.
LEMMA Leaves ==
  ASSUME NEW t \in Thread, once' = once, Once!Running(t), ~Once!Running(t)',
         \A u \in Thread \ {t} : Once!Running(u)' <=> Once!Running(u),
         \A u \in Thread : Once!Told(u)' = Once!Told(u)
  PROVE  Once!Abstract!Leave(t)
  BY DEF Once!Abstract!Leave

\* A step by which t becomes one of several asynchronous initialisers.
LEMMA Joins ==
  ASSUME NEW t \in Thread, once' = once, once.state = "async", Once!Running(t)',
         \A u \in Thread \ {t} : Once!Running(u)' <=> Once!Running(u),
         \A u \in Thread : Once!Told(u)' = Once!Told(u)
  PROVE  Once!Abstract!Join(t)
  BY DEF Once!Abstract!Join

\* Every step of the code is a step of the abstract once-object, or a stutter.
LEMMA OnceRefineStep ==
  ASSUME Once!IInv, [Once!Next]_(Once!vars)
  PROVE  [Once!Abstract!Next]_(Once!Abstract!onceVars)
<1> USE OnceParts DEF Once!IInv, Once!TypeOK, Once!LocalInv
<1>1. CASE UNCHANGED Once!vars
  <2>1. /\ \A u \in Thread : Once!Running(u)' <=> Once!Running(u)
        /\ \A u \in Thread : Once!Told(u)' = Once!Told(u)
    BY <1>1 DEF Once!vars, Once!Running, Once!Told
  <2> QED BY <1>1, <2>1, Stutters DEF Once!vars
<1>2. CASE Once!Next
  <2>1. PICK t \in Thread :
           \/ \E a \in Once!Apis, f \in Once!BeginFlags : Once!Call(t, a, f)
           \/ \E f \in Once!CompleteFlags, c \in Once!Contexts : Once!Complete(t, f, c)
           \/ Once!BeginRead(t) \/ Once!Claim(t) \/ Once!MeetSync(t) \/ Once!MeetDoneOrAsync(t)
           \/ Once!Push(t) \/ Once!Block(t) \/ Once!Reread(t)
           \/ Once!Publish(t) \/ Once!PublishAsync(t) \/ Once!ReleaseNext(t) \/ Once!CompleteReturn(t)
    BY <1>2, NextCases
  <2>a. Once!Abstract!Tell(t) \/ Once!Abstract!Leave(t) \/ Once!Abstract!Join(t)
          \/ Once!Abstract!Start(t) \/ Once!Abstract!Fail(t) \/ Once!Abstract!CallAgain(t)
          \/ (\E v \in Context \cup {Null} : Once!Abstract!Decide(t, v))
        => Once!Abstract!Next
    BY DEF Once!Abstract!Next
  <2>2. ASSUME NEW a \in Once!Apis, NEW f \in Once!BeginFlags, Once!Call(t, a, f)
        PROVE  Once!Abstract!CallAgain(t)
    <3>1. /\ \A u \in Thread : Once!Running(u)' <=> Once!Running(u)
          /\ \A u \in Thread \ {t} : Once!Told(u)' = Once!Told(u)
          /\ Once!Told(t)' = <<>>
      BY <2>2 DEF Once!Call, Once!Return, Once!Goto, Once!Running, Once!Told, Once!Apis
    <3>2. once' = once
      BY <2>2 DEF Once!Call
    <3> QED BY <3>1, <3>2, Forgets
  <2>3. CASE Once!BeginRead(t)
    <3>1. CASE once.state = "done"
      <4>1. /\ \A u \in Thread : Once!Running(u)' <=> Once!Running(u)
            /\ \A u \in Thread \ {t} : Once!Told(u)' = Once!Told(u)
            /\ Once!Told(t)' = <<once.ptr>> /\ once' = once
        BY <2>3, <3>1 DEF Once!BeginRead, Once!ReturnDone, Once!Return, Once!Running, Once!Told
      <4> QED BY <4>1, <3>1, <2>a, Tells
    <3>2. CASE once.state = "async" /\ flags[t] = "ASYNC"
      <4>1. /\ \A u \in Thread \ {t} : Once!Running(u)' <=> Once!Running(u)
            /\ Once!Running(t)' /\ once' = once
            /\ \A u \in Thread : Once!Told(u)' = Once!Told(u)
        BY <2>3, <3>2 DEF Once!BeginRead, Once!Goto, Once!Running, Once!Told
      <4> QED BY <4>1, <3>2, <2>a, Joins
    <3>3. CASE once.state # "done" /\ ~(once.state = "async" /\ flags[t] = "ASYNC")
      <4>1. /\ \A u \in Thread : Once!Running(u)' <=> Once!Running(u)
            /\ \A u \in Thread : Once!Told(u)' = Once!Told(u) /\ once' = once
        BY <2>3, <3>3 DEF Once!BeginRead, Once!ReturnError, Once!Return, Once!Goto, Once!Running,
            Once!Told
      <4> QED BY <4>1, Stutters
    <3> QED BY <3>1, <3>2, <3>3
  <2>4. CASE Once!Claim(t)
    <3>1. CASE once = cur[t]
      <4>1. once.state = "none" /\ \A u \in Thread : ~Once!Running(u)
        BY <2>4, <3>1 DEF Once!Claim, Once!Running, Once!SeenInv, Once!OneInitialiser,
            Once!SyncOwner, Once!AsyncOwner
      <4>2. /\ Once!Running(t)' /\ \A u \in Thread \ {t} : ~Once!Running(u)'
            /\ \A u \in Thread : Once!Told(u)' = Once!Told(u)
            /\ once'.state \in {"sync", "async"}
        BY <2>4, <3>1, <4>1 DEF Once!Claim, Once!Become, Once!Running, Once!Told
      <4>3. Once!Abstract!Start(t)
        BY <4>1, <4>2 DEF Once!Abstract!Start
      <4> QED BY <4>3, <2>a
    <3>2. CASE once # cur[t] /\ once.state = "async" /\ flags[t] = "ASYNC"
      <4>1. /\ \A u \in Thread \ {t} : Once!Running(u)' <=> Once!Running(u)
            /\ Once!Running(t)' /\ once' = once
            /\ \A u \in Thread : Once!Told(u)' = Once!Told(u)
        BY <2>4, <3>2 DEF Once!Claim, Once!Running, Once!Told
      <4> QED BY <4>1, <3>2, <2>a, Joins
    <3>3. CASE once # cur[t] /\ ~(once.state = "async" /\ flags[t] = "ASYNC")
      <4>1. /\ \A u \in Thread : Once!Running(u)' <=> Once!Running(u)
            /\ \A u \in Thread : Once!Told(u)' = Once!Told(u) /\ once' = once
        BY <2>4, <3>3 DEF Once!Claim, Once!Running, Once!Told
      <4> QED BY <4>1, Stutters
    <3> QED BY <3>1, <3>2, <3>3
  <2>5. CASE Once!MeetSync(t) \/ Once!Push(t) \/ Once!Block(t) \/ Once!Reread(t) \/ Once!ReleaseNext(t)
    <3>1. \A u \in Thread : Once!Told(u)' = Once!Told(u)
      BY <2>5 DEF Once!MeetSync, Once!ReturnError, Once!Return, Once!Push, Once!Block, Once!Reread,
          Once!ReleaseNext, Once!Goto, Once!Told
    <3>2. \A u \in Thread : Once!Running(u)' <=> Once!Running(u)
      BY <2>5 DEF Once!MeetSync, Once!ReturnError, Once!Return, Once!Push, Once!Block, Once!Reread,
          Once!ReleaseNext, Once!LookAgain, Once!Goto, Once!Running
    <3>3. /\ once'.state = once.state
          /\ once.state = "done" => once' = once
      BY <2>5 DEF Once!MeetSync, Once!Push, Once!Block, Once!Reread, Once!ReleaseNext
    <3> QED BY <3>1, <3>2, <3>3 DEF Once!Abstract!onceVars
  <2>6. CASE Once!MeetDoneOrAsync(t)
    <3>1. CASE cur[t].state = "done"
      <4>1. once = cur[t]
        BY <2>6, <3>1 DEF Once!MeetDoneOrAsync, Once!SeenInv
      <4>2. /\ \A u \in Thread : Once!Running(u)' <=> Once!Running(u)
            /\ \A u \in Thread \ {t} : Once!Told(u)' = Once!Told(u)
            /\ Once!Told(t)' = <<once.ptr>> /\ once' = once
        BY <2>6, <3>1, <4>1 DEF Once!MeetDoneOrAsync, Once!ReturnDone, Once!Return, Once!Running,
            Once!Told
      <4> QED BY <4>1, <4>2, <3>1, <2>a, Tells
    <3>2. CASE cur[t].state # "done"
      <4>1. /\ \A u \in Thread : Once!Running(u)' <=> Once!Running(u)
            /\ \A u \in Thread : Once!Told(u)' = Once!Told(u) /\ once' = once
        BY <2>6, <3>2 DEF Once!MeetDoneOrAsync, Once!ReturnError, Once!Return, Once!Become,
            Once!Running, Once!Told
      <4> QED BY <4>1, Stutters
    <3> QED BY <3>1, <3>2
  <2>7. ASSUME NEW f \in Once!CompleteFlags, NEW c \in Once!Contexts, Once!Complete(t, f, c)
        PROVE  [Once!Abstract!Next]_(Once!Abstract!onceVars)
    <3>1. /\ once' = once /\ Once!Running(t)
          /\ \A u \in Thread \ {t} : Once!Running(u)' <=> Once!Running(u)
          /\ \A u \in Thread : Once!Told(u)' = Once!Told(u)
      BY <2>7 DEF Once!Complete, Once!Refuse, Once!ReturnError, Once!Return, Once!Goto,
          Once!Running, Once!Told
    <3>2. CASE Once!Running(t)'
      BY <3>1, <3>2, Stutters
    <3>3. CASE ~Once!Running(t)'
      BY <3>1, <3>3, <2>a, Leaves
    <3> QED BY <3>2, <3>3
  <2>8. CASE Once!Publish(t)
    <3>1. /\ once.state = "sync" /\ Once!Running(t) /\ ~Once!Running(t)'
          /\ \A u \in Thread \ {t} : Once!Running(u)' <=> Once!Running(u)
          /\ \A u \in Thread : Once!Told(u)' = Once!Told(u)
          /\ ctx[t] \in Context \cup {Null}
          /\ once' = Once!NewWord(t)
      BY <2>8 DEF Once!Publish, Once!Goto, Once!OneInitialiser, Once!SyncOwner, Once!Running,
          Once!Told
    <3>2. CASE Once!Stores(flags[t])
      <4>1. Once!Abstract!Decide(t, ctx[t])
        BY <3>1, <3>2 DEF Once!Abstract!Decide, Once!NewWord
      <4> QED BY <3>1, <4>1, <2>a
    <3>3. CASE ~Once!Stores(flags[t])
      <4>1. Once!Abstract!Fail(t)
        BY <3>1, <3>3 DEF Once!Abstract!Fail, Once!NewWord
      <4> QED BY <4>1, <2>a
    <3> QED BY <3>2, <3>3
  <2>9. CASE Once!PublishAsync(t)
    <3>1. /\ Once!Running(t) /\ ~Once!Running(t)'
          /\ \A u \in Thread \ {t} : (Once!Running(u)' <=> Once!Running(u)) /\ Once!Told(u)' = Once!Told(u)
          /\ ctx[t] \in Context \cup {Null}
      BY <2>9 DEF Once!PublishAsync, Once!ReturnError, Once!Return, Once!Running, Once!Told
    <3>2. CASE once = cur[t]
      <4>1. /\ Once!Told(t)' = <<ctx[t]>> /\ once.state = "async" /\ once' = Once!Word("done", ctx[t])
        BY <2>9, <3>2 DEF Once!PublishAsync, Once!Return, Once!Told, Once!NewWord, Once!Stores
      <4>2. Once!Abstract!Decide(t, ctx[t])
        BY <3>1, <4>1, DecidesAndTells
      <4> QED BY <3>1, <4>2, <2>a
    <3>3. CASE once # cur[t]
      <4>1. Once!Told(t)' = Once!Told(t) /\ once' = once
        BY <2>9, <3>3 DEF Once!PublishAsync, Once!ReturnError, Once!Return, Once!Told
      <4> QED BY <3>1, <4>1, <2>a, Leaves
    <3> QED BY <3>2, <3>3
  <2>10. CASE Once!CompleteReturn(t)
    <3>1. /\ once' = once
          /\ \A u \in Thread : Once!Running(u)' <=> Once!Running(u)
          /\ \A u \in Thread \ {t} : Once!Told(u)' = Once!Told(u)
      BY <2>10 DEF Once!CompleteReturn, Once!Return, Once!Running, Once!Told
    <3>2. CASE Once!Stores(flags[t])
      <4>1. Once!Told(t)' = <<once.ptr>> /\ once.state = "done"
        BY <2>10, <3>2 DEF Once!CompleteReturn, Once!Return, Once!Told, Once!StoredInv
      <4> QED BY <3>1, <4>1, <2>a, Tells
    <3>3. CASE ~Once!Stores(flags[t])
      <4>1. Once!Told(t)' = Once!Told(t)
        BY <2>10, <3>3 DEF Once!CompleteReturn, Once!Return, Once!Told
      <4> QED BY <3>1, <4>1, Stutters
    <3> QED BY <3>2, <3>3
  <2> QED BY <2>1, <2>a, <2>2, <2>3, <2>4, <2>5, <2>6, <2>7, <2>8, <2>9, <2>10
<1> QED BY <1>1, <1>2 DEF Once!vars

\* The code implements the abstract once-object.
THEOREM OnceImplementation == Once!Spec => ImplementsOnce
<1>1. Once!Init => Once!Abstract!Init
  BY OnceParts DEF Once!Init, Once!Abstract!Init, Once!Running, Once!Told
<1>2. Once!IInv /\ [Once!Next]_(Once!vars) => [Once!Abstract!Next]_(Once!Abstract!onceVars)
  BY OnceRefineStep
<1> QED BY <1>1, <1>2, OnceInvariance, PTL DEF Once!Spec, Once!Abstract!Spec, Once!ImplementsOnce,
    ImplementsOnce

HIDE ContextAssumption
HIDE DEF Once!ContextsApart

USE NullIsNoThread, ThreadsAssumption

-----------------------------------------------------------------------------
(* The word and who owns the lock.                                         *)

\* What W, the writers, R, the readers, L, the last reader, the word w and the share count s of
\* the oldest block have to do with each other.
Owned(W, R, L, w, s) ==
  /\ \A t \in W : W = {t} /\ R \cup L = {}
  /\ w.locked <=> W \cup R \cup L # {}
  /\ W # {} => w.readers = 0 /\ ~w.multi
  /\ w.locked /\ W = {} =>
       IF ~w.waiting THEN w.readers = Cardinality(R) /\ L = {}
       ELSE IF w.multi
         THEN s = Cardinality(R) /\ Cardinality(L) <= 1 /\ (L # {} => R = {})
         ELSE Cardinality(R \cup L) = 1

\* What the bits of a word say of each other.
Sound(w) ==
  /\ w \in Words
  /\ ~w.waiting => ~w.multi /\ ~w.waking /\ w.block = Null
  /\ w.waiting => w.readers = 0 /\ w.block # Null
  /\ ~w.locked => w.readers = 0 /\ ~w.multi

\* The parts of a word.
LEMMA Fields ==
  ASSUME NEW w \in Words
  PROVE  /\ w.locked \in BOOLEAN /\ w.waiting \in BOOLEAN /\ w.waking \in BOOLEAN
         /\ w.multi \in BOOLEAN /\ w.readers \in Nat /\ w.block \in Block
  BY DEF Words

\* The words that the actions write.
LEMMA SetLocked ==
  ASSUME NEW w \in Words, NEW b \in BOOLEAN, NEW x, x = [w EXCEPT !.locked = b]
  PROVE  /\ x \in Words /\ x.locked = b /\ x.waiting = w.waiting /\ x.waking = w.waking
         /\ x.multi = w.multi /\ x.readers = w.readers /\ x.block = w.block
  BY DEF Words

\* Setting or giving back the Waking bit.
LEMMA SetWaking ==
  ASSUME NEW w \in Words, NEW b \in BOOLEAN, NEW x, x = [w EXCEPT !.waking = b]
  PROVE  /\ x \in Words /\ x.locked = w.locked /\ x.waiting = w.waiting /\ x.waking = b
         /\ x.multi = w.multi /\ x.readers = w.readers /\ x.block = w.block
  BY DEF Words

\* The last reader unlocks and sets the Waking bit.
LEMMA SetLeft ==
  ASSUME NEW w \in Words, NEW x, x = [w EXCEPT !.multi = FALSE, !.locked = FALSE, !.waking = TRUE]
  PROVE  /\ x \in Words /\ ~x.locked /\ x.waiting = w.waiting /\ x.waking /\ ~x.multi
         /\ x.readers = w.readers /\ x.block = w.block
  BY DEF Words

\* The two constant words.
LEMMA SetFree ==
  /\ Free \in Words /\ ~Free.locked /\ ~Free.waiting /\ ~Free.waking /\ ~Free.multi
  /\ Free.readers = 0 /\ Free.block = Null
  /\ OneReader \in Words /\ OneReader.locked /\ ~OneReader.waiting /\ ~OneReader.waking
  /\ ~OneReader.multi /\ OneReader.readers = 1 /\ OneReader.block = Null
  BY DEF Free, OneReader, Word, Words, Block

\* Counting a reader in or out.
LEMMA SetReaders ==
  ASSUME NEW w \in Words, NEW n \in Nat, NEW x, x = [w EXCEPT !.readers = n]
  PROVE  /\ x \in Words /\ x.locked = w.locked /\ x.waiting = w.waiting /\ x.waking = w.waking
         /\ x.multi = w.multi /\ x.readers = n /\ x.block = w.block
  BY DEF Words

\* A shared acquisition counts a reader only while nobody waits.
LEMMA SetShare ==
  ASSUME NEW w \in Words, NEW x, x = Share(w)
  PROVE  /\ x \in Words /\ x.locked /\ x.waiting = w.waiting /\ x.waking = w.waking
         /\ x.multi = w.multi /\ x.block = w.block
         /\ x.readers = IF w.waiting THEN 0 ELSE w.readers + 1
  <1>1. ASSUME NEW n \in Nat, x = [w EXCEPT !.locked = TRUE, !.readers = n]
        PROVE  /\ x \in Words /\ x.locked /\ x.waiting = w.waiting /\ x.waking = w.waking
               /\ x.multi = w.multi /\ x.block = w.block /\ x.readers = n
    BY <1>1 DEF Words
  <1>2. CASE w.waiting
    <2>1. x = [w EXCEPT !.locked = TRUE, !.readers = 0]
      BY <1>2 DEF Share
    <2> QED BY <1>1, <1>2, <2>1
  <1>3. CASE ~w.waiting
    <2>1. x = [w EXCEPT !.locked = TRUE, !.readers = w.readers + 1]
      BY <1>3 DEF Share, Words
    <2>2. w.readers + 1 \in Nat
      BY Fields
    <2> HIDE DEF Words
    <2> QED BY <1>1, <1>3, <2>1, <2>2
  <1> QED BY <1>2, <1>3

\* The first reader of a free lock.
LEMMA ShareFree == Share(Free) = OneReader
  <1>1. Share(Free) = [Free EXCEPT !.locked = TRUE, !.readers = 1]
    BY SetFree DEF Share, Words
  <1> QED BY <1>1 DEF Free, OneReader, Word

\* Queueing replaces the count by the newest block.
LEMMA SetQueue ==
  ASSUME NEW w \in Words, NEW t \in Thread, NEW x, x = Queue(w, t)
  PROVE  /\ x \in Words /\ x.locked = w.locked /\ x.waiting /\ x.waking = w.waiting
         /\ x.readers = 0 /\ x.block = t
         /\ x.multi <=> IF w.waiting THEN w.multi ELSE w.readers > 1
  <1>1. ASSUME NEW b \in BOOLEAN,
               x = [w EXCEPT !.waiting = TRUE, !.waking = w.waiting, !.block = t, !.readers = 0, !.multi = b]
        PROVE  /\ x \in Words /\ x.locked = w.locked /\ x.waiting /\ x.waking = w.waiting
               /\ x.readers = 0 /\ x.block = t /\ x.multi = b
    BY <1>1, Fields DEF Words, Block
  <1>2. CASE w.waiting
    <2>1. x = [w EXCEPT !.waiting = TRUE, !.waking = w.waiting, !.block = t, !.readers = 0, !.multi = w.multi]
      BY <1>2 DEF Queue, Words
    <2> QED BY <1>1, <1>2, <2>1, Fields
  <1>3. CASE ~w.waiting /\ w.readers > 1
    <2>1. x = [w EXCEPT !.waiting = TRUE, !.waking = w.waiting, !.block = t, !.readers = 0, !.multi = TRUE]
      BY <1>3 DEF Queue, Words
    <2> QED BY <1>1, <1>3, <2>1
  <1>4. CASE ~w.waiting /\ ~(w.readers > 1)
    <2>1. x = [w EXCEPT !.waiting = TRUE, !.waking = w.waiting, !.block = t, !.readers = 0, !.multi = FALSE]
      <3>1. (w.readers > 1) = FALSE
        BY <1>4
      <3> QED BY <1>4, <3>1, Zenon DEF Queue
    <2> QED BY <1>1, <1>4, <2>1
  <1> QED BY <1>2, <1>3, <1>4

\* The numbers of threads in a set, with one more or one less.
LEMMA Split ==
  ASSUME NEW W, NEW S \in SUBSET Thread
  PROVE  /\ IsFiniteSet(S) /\ Cardinality(S) \in Nat /\ (Cardinality(S) = 0 <=> S = {})
         /\ \A t \in Thread : /\ t \in S => Cardinality(S \ {t}) = Cardinality(S) - 1
                              /\ t \notin S => Cardinality(S \cup {t}) = Cardinality(S) + 1
         /\ Cardinality(S) = 1 <=> \E t \in Thread : S = {t}
  <1>1. IsFiniteSet(S) /\ Cardinality(S) \in Nat /\ (Cardinality(S) = 0 <=> S = {})
    BY FS_Subset, FS_CardinalityType, FS_EmptySet
  <1>2. \A t \in Thread : /\ t \in S => Cardinality(S \ {t}) = Cardinality(S) - 1
                          /\ t \notin S => Cardinality(S \cup {t}) = Cardinality(S) + 1
    BY <1>1, FS_AddElement, FS_RemoveElement
  <1>3. Cardinality(S) = 1 <=> \E t \in Thread : S = {t}
    BY <1>1, FS_Singleton
  <1> QED BY <1>1, <1>2, <1>3

\* An exclusive acquisition.
LEMMA OwnExclusive ==
  ASSUME NEW W \in SUBSET Thread, NEW R \in SUBSET Thread, NEW L \in SUBSET Thread, NEW w, NEW s,
         NEW t \in Thread, Sound(w), Owned(W, R, L, w, s), ~w.locked
  PROVE  /\ Sound([w EXCEPT !.locked = TRUE])
         /\ \A x : Owned(W \cup {t}, R, L, [w EXCEPT !.locked = TRUE], x)
  <1> DEFINE v == [w EXCEPT !.locked = TRUE]
  <1>1. /\ v \in Words /\ v.locked /\ v.waiting = w.waiting /\ v.waking = w.waking
        /\ v.multi = w.multi /\ v.readers = w.readers /\ v.block = w.block
    BY SetLocked DEF Sound
  <1>2. W = {} /\ R = {} /\ L = {} /\ w.readers = 0 /\ ~w.multi
    BY Fields DEF Owned, Sound
  <1> HIDE DEF v
  <1> QED BY <1>1, <1>2, Fields DEF Owned, Sound, v

\* A shared acquisition.
LEMMA OwnShared ==
  ASSUME NEW W \in SUBSET Thread, NEW R \in SUBSET Thread, NEW L \in SUBSET Thread, NEW w, NEW s,
         NEW t \in Thread, t \notin R, Sound(w), Owned(W, R, L, w, s), ~MustQueue(w)
  PROVE  Sound(Share(w)) /\ Owned(W, R \cup {t}, L, Share(w), s)
  <1>2. Cardinality(R \cup {t}) = Cardinality(R) + 1 /\ Cardinality(R) \in Nat /\ (R = {} => Cardinality(R) = 0)
    BY Split
  <1> DEFINE v == Share(w)
  <1>3. /\ v \in Words /\ v.locked /\ v.waiting = w.waiting /\ v.waking = w.waking
        /\ v.multi = w.multi /\ v.block = w.block
        /\ v.readers = IF w.waiting THEN 0 ELSE w.readers + 1
    BY SetShare DEF Sound
  <1> HIDE DEF v
  <1>1. Sound(v)
    BY <1>3, Fields DEF Sound, MustQueue
  <1>4. CASE w.locked
    <2>1. ~w.waiting /\ w.readers # 0
      BY <1>4, Fields DEF MustQueue, Sound
    <2> QED BY <1>1, <1>2, <1>3, <1>4, <2>1, Fields DEF Owned, Sound, v
  <1>5. CASE ~w.locked
    <2>1. W = {} /\ R = {} /\ L = {} /\ w.readers = 0 /\ ~w.multi
      BY <1>5, Fields DEF Owned, Sound
    <2>2. R \cup {t} = {t} /\ (R \cup {t}) \cup L = {t} /\ Cardinality({t}) = 1
      BY <2>1, Split
    <2> QED BY <1>1, <1>2, <1>3, <1>5, <2>1, <2>2, Fields DEF Owned, Sound, v
  <1> QED BY <1>1, <1>4, <1>5, Fields DEF Sound, v

\* The release of a writer.
LEMMA OwnUnlock ==
  ASSUME NEW W \in SUBSET Thread, NEW R \in SUBSET Thread, NEW L \in SUBSET Thread, NEW w, NEW s,
         NEW t \in W, Sound(w), Owned(W, R, L, w, s)
  PROVE  /\ Sound([w EXCEPT !.locked = FALSE])
         /\ \A x : Owned(W \ {t}, R, L, [w EXCEPT !.locked = FALSE], x)
  <1> DEFINE v == [w EXCEPT !.locked = FALSE]
  <1>1. /\ v \in Words /\ ~v.locked /\ v.waiting = w.waiting /\ v.waking = w.waking
        /\ v.multi = w.multi /\ v.readers = w.readers /\ v.block = w.block
    BY SetLocked DEF Sound
  <1>2. W = {t} /\ R = {} /\ L = {} /\ w.readers = 0 /\ ~w.multi
    BY Fields DEF Owned, Sound
  <1> HIDE DEF v
  <1> QED BY <1>1, <1>2, Fields DEF Owned, Sound, v

\* A waiter on top of a locked word.
LEMMA OwnQueue ==
  ASSUME NEW W \in SUBSET Thread, NEW R \in SUBSET Thread, NEW L \in SUBSET Thread, NEW w, NEW s,
         NEW t \in Thread, Sound(w), Owned(W, R, L, w, s), w.locked
  PROVE  /\ Sound(Queue(w, t))
         /\ Owned(W, R, L, Queue(w, t), IF w.waiting THEN s ELSE w.readers)
  <1> DEFINE v == Queue(w, t)
  <1>2. /\ v \in Words /\ v.locked = w.locked /\ v.waiting /\ v.waking = w.waiting
        /\ v.readers = 0 /\ v.block = t
        /\ v.multi <=> IF w.waiting THEN w.multi ELSE w.readers > 1
    BY SetQueue DEF Sound
  <1> HIDE DEF v
  <1>1. Sound(v)
    BY <1>2, Fields DEF Sound
  <1>3. CASE w.waiting
    BY <1>1, <1>2, <1>3, Fields DEF Owned, Sound, v
  <1>4. CASE ~w.waiting
    <2>1. CASE W # {}
      BY <1>1, <1>2, <1>4, <2>1, Fields DEF Owned, Sound, v
    <2>2. CASE W = {}
      <3>1. w.readers = Cardinality(R) /\ L = {} /\ R # {} /\ R \cup L = R
        BY <1>4, <2>2, Fields DEF Owned, Sound, v
      <3>2. Cardinality(L) <= 1 /\ Cardinality(R) \in Nat /\ Cardinality(R) # 0
        BY <3>1, Split
      <3> QED BY <1>1, <1>2, <1>4, <2>2, <3>1, <3>2, Fields DEF Owned, Sound, v
    <2> QED BY <2>1, <2>2
  <1> QED BY <1>1, <1>3, <1>4, Fields DEF Sound, v

\* The release of a reader whom the word counts.
LEMMA OwnUncountReader ==
  ASSUME NEW W \in SUBSET Thread, NEW R \in SUBSET Thread, NEW L \in SUBSET Thread, NEW w, NEW s,
         NEW t \in R, Sound(w), Owned(W, R, L, w, s), ~w.waiting,
         NEW x, x = IF w.readers <= 1 THEN Free ELSE [w EXCEPT !.readers = @ - 1]
  PROVE  Sound(x) /\ \A y : Owned(W, R \ {t}, L, x, y)
  <1>1. W = {} /\ w.locked /\ w.readers = Cardinality(R) /\ L = {} /\ ~w.multi
    BY Fields DEF Owned, Sound
  <1>2. /\ Cardinality(R) \in Nat /\ Cardinality(R \ {t}) = Cardinality(R) - 1
        /\ Cardinality(R \ {t}) \in Nat /\ (Cardinality(R \ {t}) = 0 <=> R \ {t} = {})
    BY Split
  <1>3. CASE w.readers <= 1
    BY <1>1, <1>2, <1>3, Fields, SetFree DEF Owned, Sound
  <1>4. CASE ~(w.readers <= 1)
    <2>1. x \in Words /\ x.locked /\ x.waiting = w.waiting /\ x.multi = w.multi /\ x.readers = w.readers - 1
          /\ x.waking = w.waking /\ x.block = w.block
      <3>1. w.readers - 1 \in Nat /\ x = [w EXCEPT !.readers = w.readers - 1]
        BY <1>4, Fields DEF Sound, Words
      <3> QED BY <3>1, SetReaders DEF Sound
    <2> QED BY <1>1, <1>2, <1>4, <2>1, Fields DEF Owned, Sound
  <1> QED BY <1>3, <1>4

\* The release of a reader whom the oldest block counts.
LEMMA OwnUncount ==
  ASSUME NEW W \in SUBSET Thread, NEW R \in SUBSET Thread, NEW L \in SUBSET Thread, NEW w, NEW s,
         NEW t \in R, Sound(w), Owned(W, R, L, w, s), w.waiting, w.multi
  PROVE  /\ s \in Nat /\ s > 0
         /\ s - 1 > 0 => Owned(W, R \ {t}, L, w, s - 1)
         /\ s - 1 = 0 => Owned(W, R \ {t}, L \cup {t}, w, s - 1)
  <1>1. W = {} /\ w.locked /\ s = Cardinality(R) /\ L = {}
    BY Fields DEF Owned, Sound
  <1>2. /\ Cardinality(R) \in Nat /\ Cardinality(R) # 0 /\ Cardinality(R \ {t}) = Cardinality(R) - 1
        /\ (Cardinality(R \ {t}) = 0 <=> R \ {t} = {}) /\ Cardinality({t}) = 1 /\ L \cup {t} = {t}
        /\ Cardinality(L) = 0
    BY <1>1, Split
  <1> QED BY <1>1, <1>2, Fields DEF Owned, Sound

\* A reader finds that it is the only one.
LEMMA OwnSlip ==
  ASSUME NEW W \in SUBSET Thread, NEW R \in SUBSET Thread, NEW L \in SUBSET Thread, NEW w, NEW s,
         NEW t \in R, Sound(w), Owned(W, R, L, w, s), w.waiting, ~w.multi
  PROVE  Owned(W, R \ {t}, L \cup {t}, w, s)
  <1>1. (R \ {t}) \cup (L \cup {t}) = R \cup L
    OBVIOUS
  <1> QED BY <1>1, Fields DEF Owned, Sound

\* The last reader leaves.
LEMMA OwnLast ==
  ASSUME NEW W \in SUBSET Thread, NEW R \in SUBSET Thread, NEW L \in SUBSET Thread, NEW w, NEW s,
         NEW t \in L, R \cap L = {}, Sound(w), Owned(W, R, L, w, s)
  PROVE  /\ Sound([w EXCEPT !.multi = FALSE, !.locked = FALSE, !.waking = TRUE])
         /\ R = {} /\ w.waiting
         /\ \A x : Owned(W, R, L \ {t}, [w EXCEPT !.multi = FALSE, !.locked = FALSE, !.waking = TRUE], x)
  <1>1. W = {} /\ w.locked /\ w.waiting
    BY Fields DEF Owned, Sound
  <1>2. L = {t} /\ R = {}
    <2>1. CASE w.multi
      <3>1. R = {} /\ Cardinality(L) <= 1
        BY <1>1, <2>1, Fields DEF Owned, Sound
      <3>2. Cardinality(L) = 1
        BY <3>1, Split
      <3> QED BY <3>1, <3>2, Split
    <2>2. CASE ~w.multi
      <3>1. Cardinality(R \cup L) = 1
        BY <1>1, <2>2, Fields DEF Owned, Sound
      <3>2. PICK u \in Thread : R \cup L = {u}
        BY <3>1, Split
      <3> QED BY <3>2
    <2> QED BY <2>1, <2>2, <1>1, Fields DEF Sound
  <1> DEFINE v == [w EXCEPT !.multi = FALSE, !.locked = FALSE, !.waking = TRUE]
  <1>3. /\ v \in Words /\ ~v.locked /\ v.waiting = w.waiting /\ v.waking /\ ~v.multi
        /\ v.readers = w.readers /\ v.block = w.block
    BY SetLeft DEF Sound
  <1> HIDE DEF v
  <1> QED BY <1>1, <1>2, <1>3, Fields DEF Owned, Sound, v

HIDE NullIsNoThread
HIDE ThreadsAssumption

-----------------------------------------------------------------------------
(* The inductive invariant.                                                *)

Walker(t) == pc[t] \in {"optimize", "wake"}
AsReader == {"heldS", "srel", "swalk"}

\* What a thread knows of the word it last saw; and when its flag may be up.
LocalAt(t) ==
  /\ pc[t] = "xcas" => ~old[t].locked
  /\ pc[t] \in {"xpush", "optimize"} => old[t].locked
  /\ pc[t] = "spush" => MustQueue(old[t])
  /\ pc[t] \in {"scas", "tcas"} => ~MustQueue(old[t])
  /\ pc[t] = "srel" => ~old[t].waiting
  /\ Walker(t) => old[t].waiting /\ old[t].waking
  /\ pc[t] = "xwake" => ~old[t].locked /\ old[t].waiting /\ ~old[t].waking
  /\ then[t] = "park" => pc[t] \in {"optimize", "wake", "release"}
  /\ spin[t] => pc[t] = "park" \/ then[t] = "park"

LocalInv == \A t \in Thread : LocalAt(t)

\* The Waking bit has one owner, and while that one wakes no count is kept.
WalkerInv ==
  /\ word.waking => \E t \in Thread : Walker(t)
  /\ \A t \in Thread : Walker(t) => word.waking /\ word.waiting
  /\ \A t, u \in Thread : Walker(t) /\ Walker(u) => t = u
  /\ \A t \in Thread : pc[t] = "wake" => ~word.multi

\* What a move of one thread does to the sets of owners.
LEMMA Sets ==
  ASSUME pc \in [Thread -> PCs], NEW t \in Thread, NEW v, pc' = [pc EXCEPT ![t] = v]
  PROVE  /\ pc[t] # "heldX" /\ v # "heldX" => Writers' = Writers
         /\ pc[t] # "heldX" /\ v = "heldX" => Writers' = Writers \cup {t}
         /\ pc[t] = "heldX" /\ v # "heldX" => Writers' = Writers \ {t} /\ t \in Writers
         /\ (pc[t] \in AsReader <=> v \in AsReader) => Readers' = Readers
         /\ pc[t] \notin AsReader /\ v \in AsReader => Readers' = Readers \cup {t} /\ t \notin Readers
         /\ pc[t] \in AsReader /\ v \notin AsReader => Readers' = Readers \ {t} /\ t \in Readers
         /\ (pc[t] = "slast" <=> v = "slast") => Last' = Last
         /\ pc[t] # "slast" /\ v = "slast" => Last' = Last \cup {t}
         /\ pc[t] = "slast" /\ v # "slast" => Last' = Last \ {t} /\ t \in Last
  <1>1. /\ pc[t] # "heldX" /\ v # "heldX" => Writers' = Writers
        /\ pc[t] # "heldX" /\ v = "heldX" => Writers' = Writers \cup {t}
        /\ pc[t] = "heldX" /\ v # "heldX" => Writers' = Writers \ {t} /\ t \in Writers
    BY DEF Writers
  <1>2. /\ (pc[t] \in AsReader <=> v \in AsReader) => Readers' = Readers
        /\ pc[t] \notin AsReader /\ v \in AsReader => Readers' = Readers \cup {t} /\ t \notin Readers
        /\ pc[t] \in AsReader /\ v \notin AsReader => Readers' = Readers \ {t} /\ t \in Readers
    BY DEF Readers, AsReader
  <1>3. /\ (pc[t] = "slast" <=> v = "slast") => Last' = Last
        /\ pc[t] # "slast" /\ v = "slast" => Last' = Last \cup {t}
        /\ pc[t] = "slast" /\ v # "slast" => Last' = Last \ {t} /\ t \in Last
    BY DEF Last
  <1> QED BY <1>1, <1>2, <1>3

\* Steps that leave the owners alone.
LEMMA SetsStay ==
  ASSUME pc \in [Thread -> PCs], NEW t \in Thread, NEW v, pc' = [pc EXCEPT ![t] = v],
         pc[t] \notin {"heldX", "slast"} \cup AsReader, v \notin {"heldX", "slast"} \cup AsReader
  PROVE  Writers' = Writers /\ Readers' = Readers /\ Last' = Last
  BY Sets DEF AsReader

\* A thread that enters as a writer.
LEMMA SetsEnterExclusive ==
  ASSUME pc \in [Thread -> PCs], NEW t \in Thread, pc' = [pc EXCEPT ![t] = "heldX"],
         pc[t] \in {"idle", "xcas"}
  PROVE  Writers' = Writers \cup {t} /\ Readers' = Readers /\ Last' = Last
  <1>1. pc[t] # "heldX" /\ pc[t] # "slast" /\ pc[t] \notin AsReader /\ "heldX" \notin AsReader
        /\ "heldX" # "slast"
    BY DEF AsReader
  <1> QED BY <1>1, Sets

\* A thread that enters as a reader.
LEMMA SetsEnterShared ==
  ASSUME pc \in [Thread -> PCs], NEW t \in Thread, pc' = [pc EXCEPT ![t] = "heldS"],
         pc[t] \in {"idle", "scas", "tcas"}
  PROVE  Writers' = Writers /\ Readers' = Readers \cup {t} /\ Last' = Last /\ t \notin Readers
  <1>1. pc[t] # "heldX" /\ pc[t] # "slast" /\ pc[t] \notin AsReader /\ "heldS" \in AsReader
    BY DEF AsReader
  <1> QED BY <1>1, Sets

\* Owners are threads, and a reader is not the last reader.
LEMMA Subsets ==
  Writers \in SUBSET Thread /\ Readers \in SUBSET Thread /\ Last \in SUBSET Thread /\ Readers \cap Last = {}
  BY DEF Writers, Readers, Last

\* What the owners and the word have to do with each other, as s readers are counted in the block.
Owners(s) == Owned(Writers, Readers, Last, word, s)

\* What counts is who owns the lock, the bits and the number of readers.
LEMMA OwnSame ==
  ASSUME NEW s, Owners(s), Writers' = Writers, Readers' = Readers, Last' = Last,
         word'.locked = word.locked, word'.waiting = word.waiting, word'.multi = word.multi,
         word'.readers = word.readers
  PROVE  Owners(s)'
  BY DEF Owners, Owned

-----------------------------------------------------------------------------
(* The steps that acquire.                                                 *)

Quiet == UNCHANGED <<lists, p, then>>

\* The bit test-and-set lets a writer in only when the lock was free.
LEMMA TestAndSetOwners ==
  ASSUME TypeOK, Sound(word), NEW s, Owners(s), NEW t \in Thread, NEW f \in {"xread", "idle"},
         TestAndSet(t, f)
  PROVE  Sound(word') /\ Owners(s)'
  <1> USE DEF TypeOK
  <1>1. pc[t] = "idle" /\ word' = [word EXCEPT !.locked = TRUE]
    BY DEF TestAndSet
  <1>2. CASE word.locked
    <2>1. pc' = [pc EXCEPT ![t] = f]
      BY <1>2 DEF TestAndSet, Goto
    <2>2. word' = word
      BY <1>1, <1>2 DEF Words
    <2> QED BY <1>1, <2>1, <2>2, SetsStay, OwnSame DEF AsReader
  <1>3. CASE ~word.locked
    <2>1. pc' = [pc EXCEPT ![t] = "heldX"]
      BY <1>3 DEF TestAndSet, Goto
    <2>2. Writers' = Writers \cup {t} /\ Readers' = Readers /\ Last' = Last
      BY <1>1, <2>1, SetsEnterExclusive
    <2> QED BY <1>1, <1>3, <2>2, OwnExclusive, Subsets DEF Owners
  <1> QED BY <1>2, <1>3

\* So does the compare-exchange of the acquire loop.
LEMMA LockExclusiveOwners ==
  ASSUME TypeOK, LocalInv, Sound(word), NEW s, Owners(s), NEW t \in Thread, LockExclusive(t)
  PROVE  Sound(word') /\ Owners(s)'
  <1>1. CASE Unchanged(t)
    <2>1. pc' = [pc EXCEPT ![t] = "heldX"] /\ word' = [word EXCEPT !.locked = TRUE] /\ pc[t] = "xcas"
      BY <1>1 DEF LockExclusive, Leave, Goto
    <2>2. ~word.locked
      BY <1>1, <2>1 DEF LocalInv, LocalAt, Unchanged
    <2>3. Writers' = Writers \cup {t} /\ Readers' = Readers /\ Last' = Last
      BY <2>1, SetsEnterExclusive DEF TypeOK
    <2> QED BY <2>1, <2>2, <2>3, OwnExclusive, Subsets DEF Owners
  <1>2. CASE ~Unchanged(t)
    <2>1. pc' = [pc EXCEPT ![t] = "xread"] /\ word' = word /\ pc[t] = "xcas"
      BY <1>2 DEF LockExclusive, Goto
    <2> QED BY <2>1, SetsStay, OwnSame DEF AsReader, TypeOK
  <1> QED BY <1>1, <1>2

\* Reading the word changes nothing.
LEMMA ReadOwners ==
  ASSUME TypeOK, Sound(word), NEW s, Owners(s), NEW t \in Thread, ReadExclusive(t) \/ ReadShared(t)
  PROVE  Sound(word') /\ Owners(s)'
  <1>1. PICK v \in {"xpush", "xcas", "idle", "spush", "tcas", "scas"} : pc' = [pc EXCEPT ![t] = v]
    BY DEF ReadExclusive, ReadShared, Consider, Goto
  <1>2. word' = word /\ pc[t] \in {"xread", "sread", "tread"}
    BY DEF ReadExclusive, ReadShared
  <1> QED BY <1>1, <1>2, SetsStay, OwnSame DEF AsReader, TypeOK

\* The first compare-exchange of a reader expects a lock nobody uses.
LEMMA FirstSharedOwners ==
  ASSUME TypeOK, Sound(word), NEW s, Owners(s), NEW t \in Thread, NEW try \in BOOLEAN,
         FirstShared(t, try)
  PROVE  Sound(word') /\ Owners(s)'
  <1>1. CASE word = Free
    <2>1. pc' = [pc EXCEPT ![t] = "heldS"] /\ word' = OneReader /\ pc[t] = "idle"
      BY <1>1 DEF FirstShared, Goto
    <2>2. Writers' = Writers /\ Readers' = Readers \cup {t} /\ Last' = Last /\ t \notin Readers
      BY <2>1, SetsEnterShared DEF TypeOK
    <2>3. ~MustQueue(word)
      BY <1>1, SetFree DEF MustQueue
    <2>4. OneReader = Share(word)
      BY <1>1, ShareFree
    <2> QED BY <2>1, <2>2, <2>3, <2>4, OwnShared, Subsets DEF Owners
  <1>2. CASE word # Free
    <2>1. PICK v \in {"idle", "spush", "tcas", "scas"} : pc' = [pc EXCEPT ![t] = v]
      BY <1>2 DEF FirstShared, Consider, Goto
    <2>2. word' = word /\ pc[t] = "idle"
      BY <1>2 DEF FirstShared
    <2> QED BY <2>1, <2>2, SetsStay, OwnSame DEF AsReader, TypeOK
  <1> QED BY <1>1, <1>2

\* The later ones expect a word the reader need not queue for.
LEMMA LockSharedOwners ==
  ASSUME TypeOK, LocalInv, Sound(word), NEW s, Owners(s), NEW t \in Thread, LockShared(t)
  PROVE  Sound(word') /\ Owners(s)'
  <1>0. pc[t] \in {"scas", "tcas"}
    BY DEF LockShared
  <1>1. CASE Unchanged(t)
    <2>1. pc' = [pc EXCEPT ![t] = "heldS"] /\ word' = Share(word)
      BY <1>1 DEF LockShared, Leave, Goto
    <2>2. ~MustQueue(word)
      BY <1>0, <1>1 DEF LocalInv, LocalAt, Unchanged
    <2>3. Writers' = Writers /\ Readers' = Readers \cup {t} /\ Last' = Last /\ t \notin Readers
      BY <1>0, <2>1, SetsEnterShared DEF TypeOK
    <2> QED BY <2>1, <2>2, <2>3, OwnShared, Subsets DEF Owners
  <1>2. CASE ~Unchanged(t)
    <2>1. PICK v \in {"sread", "tread"} : pc' = [pc EXCEPT ![t] = v]
      BY <1>2 DEF LockShared, Goto
    <2>2. word' = word
      BY <1>2 DEF LockShared
    <2> QED BY <1>0, <2>1, <2>2, SetsStay, OwnSame DEF AsReader, TypeOK
  <1> QED BY <1>1, <1>2

\* Queueing moves the count, if it is the first to queue, and lets nobody in.
LEMMA PushOwners ==
  ASSUME TypeOK, LocalInv, Sound(word), NEW s, Owners(s), NEW t \in Thread, Push(t),
         NEW x, x = IF word.waiting THEN s ELSE word.readers
  PROVE  /\ Sound(word')
         /\ ~Unchanged(t) => Owners(s)'
         /\ Unchanged(t) => word.locked /\ Owners(x)'
  <1>0. pc[t] \in {"xpush", "spush"}
    BY DEF Push
  <1>1. CASE Unchanged(t)
    <2>1. PICK v \in {"optimize", "park"} : pc' = [pc EXCEPT ![t] = v]
      BY <1>1 DEF Push, Leave, Goto
    <2>2. word' = Queue(word, t)
      BY <1>1 DEF Push, Unchanged
    <2>3. word.locked
      BY <1>0, <1>1 DEF LocalInv, LocalAt, Unchanged, MustQueue
    <2>4. Writers' = Writers /\ Readers' = Readers /\ Last' = Last
      BY <1>0, <2>1, SetsStay DEF AsReader, TypeOK
    <2> QED BY <1>1, <2>2, <2>3, <2>4, OwnQueue, Subsets DEF Owners
  <1>2. CASE ~Unchanged(t)
    <2>1. PICK v \in {"xread", "sread"} : pc' = [pc EXCEPT ![t] = v]
      BY <1>2 DEF Push, Goto
    <2>2. word' = word
      BY <1>2 DEF Push
    <2> QED BY <1>0, <1>2, <2>1, <2>2, SetsStay, OwnSame DEF AsReader, TypeOK
  <1> QED BY <1>1, <1>2

-----------------------------------------------------------------------------
(* The steps that wait, walk and wake.                                     *)

\* The Waking bit has no say in who owns the lock.
LEMMA SoundWaking ==
  ASSUME NEW w, Sound(w), NEW b \in BOOLEAN, w.waiting
  PROVE  LET x == [w EXCEPT !.waking = b]
         IN  Sound(x) /\ x.locked = w.locked /\ x.waiting = w.waiting /\ x.multi = w.multi /\ x.readers = w.readers
  <1> DEFINE x == [w EXCEPT !.waking = b]
  <1>1. /\ x \in Words /\ x.locked = w.locked /\ x.waiting = w.waiting
        /\ x.multi = w.multi /\ x.readers = w.readers /\ x.block = w.block
    BY SetWaking DEF Sound
  <1> HIDE DEF x
  <1>2. Sound(x)
    BY <1>1, Fields DEF Sound
  <1> QED BY <1>1, <1>2 DEF x

\* Waiting and walking let nobody in or out.
LEMMA ParkOwners ==
  ASSUME TypeOK, Sound(word), NEW s, Owners(s), NEW t \in Thread, Park(t) \/ Walk(t)
  PROVE  Sound(word') /\ Owners(s)'
  <1>1. CASE Park(t)
    <2>1. PICK v \in {"blocked", "xread", "sread"} : pc' = [pc EXCEPT ![t] = v]
      BY <1>1 DEF Park, Goto, Again
    <2>2. word' = word /\ pc[t] = "park"
      BY <1>1 DEF Park
    <2> QED BY <2>1, <2>2, SetsStay, OwnSame DEF AsReader, TypeOK
  <1>2. CASE Walk(t)
    <2>1. word' = word /\ pc' = pc
      BY <1>2 DEF Walk
    <2> QED BY <2>1, OwnSame DEF Writers, Readers, Last
  <1> QED BY <1>1, <1>2

\* Nor does giving the Waking bit back.
LEMMA GiveUpOwners ==
  ASSUME TypeOK, Sound(word), WalkerInv, NEW s, Owners(s), NEW t \in Thread,
         OptimizeDone(t) \/ WakeLocked(t)
  PROVE  Sound(word') /\ Owners(s)'
  <1>0. pc[t] \in {"optimize", "wake"} /\ word.waiting
    BY DEF OptimizeDone, WakeLocked, WalkerInv, Walker
  <1>1. PICK v \in {"idle", "park", "optimize", "wake"} : pc' = [pc EXCEPT ![t] = v]
    BY <1>0 DEF OptimizeDone, WakeLocked, Leave, Retry, Goto, TypeOK
  <1>2. word' = word \/ word' = [word EXCEPT !.waking = FALSE]
    BY DEF OptimizeDone, WakeLocked
  <1>3. Writers' = Writers /\ Readers' = Readers /\ Last' = Last
    BY <1>0, <1>1, SetsStay DEF AsReader, TypeOK
  <1> QED BY <1>0, <1>2, <1>3, SoundWaking, OwnSame

\* A waker takes one block off the list of a lock whose readers are not counted.
LEMMA WakeOneOwners ==
  ASSUME TypeOK, Sound(word), WalkerInv, NEW s, Owners(s), NEW t \in Thread, WakeOne(t)
  PROVE  Sound(word') /\ \A x : Owners(x)'
  <1>0. pc[t] = "wake" /\ word.waiting /\ ~word.multi
    BY DEF WakeOne, WalkerInv, Walker
  <1>1. pc' = [pc EXCEPT ![t] = "release"] /\ word' = [word EXCEPT !.waking = FALSE]
    BY DEF WakeOne, Leave, Goto
  <1>3. Writers' = Writers /\ Readers' = Readers /\ Last' = Last
    BY <1>0, <1>1, SetsStay DEF AsReader, TypeOK
  <1>4. Sound(word') /\ Owners(s)' /\ ~word'.multi /\ word'.waiting
    BY <1>0, <1>1, <1>3, SoundWaking, OwnSame
  <1> QED BY <1>4 DEF Owners, Owned

\* A waker empties the word only while it says that the lock is free.
LEMMA WakeAllOwners ==
  ASSUME TypeOK, Sound(word), WalkerInv, NEW s, Owners(s), NEW t \in Thread, WakeAll(t)
  PROVE  Sound(word') /\ Owners(s)' /\ (Unchanged(t) => \A x : Owners(x)')
  <1>0. pc[t] = "wake" /\ ~old[t].locked
    BY DEF WakeAll
  <1>1. CASE Unchanged(t)
    <2>1. pc' = [pc EXCEPT ![t] = "release"] /\ word' = Free /\ ~word.locked
      BY <1>0, <1>1 DEF WakeAll, Leave, Goto, Unchanged
    <2>2. Writers' = Writers /\ Readers' = Readers /\ Last' = Last
      BY <1>0, <2>1, SetsStay DEF AsReader, TypeOK
    <2>3. Writers = {} /\ Readers = {} /\ Last = {}
      BY <2>1 DEF Owners, Owned
    <2> QED BY <2>1, <2>2, <2>3, SetFree DEF Owners, Owned, Sound
  <1>2. CASE ~Unchanged(t)
    <2>1. PICK v \in {"optimize", "wake"} : pc' = [pc EXCEPT ![t] = v]
      BY <1>0, <1>2 DEF WakeAll, Retry, Goto
    <2>2. word' = word
      BY <1>2 DEF WakeAll
    <2> QED BY <1>0, <1>2, <2>1, <2>2, SetsStay, OwnSame DEF AsReader, TypeOK
  <1> QED BY <1>1, <1>2

\* What a turn of the wake-up loop does to the threads.
LEMMA ReleasePcs ==
  ASSUME TypeOK, NEW t \in Thread, Release(t), p[t] \in Thread
  PROVE  /\ pc[t] = "release" /\ pc' \in [Thread -> PCs]
         /\ spin[p[t]] \/ pc[p[t]] = "blocked"
         /\ \A u \in Thread : u # t /\ u # p[t] => pc'[u] = pc[u]
         /\ p[t] # t => pc'[p[t]] = IF spin[p[t]] THEN pc[p[t]] ELSE Again(p[t])
         /\ pc'[t] = IF next[p[t]] = Null THEN then[t] ELSE "release"
         /\ Again(p[t]) \in {"xread", "sread"}
         /\ then[t] \in {"idle", "park"}
  <1>0. /\ pc \in [Thread -> PCs] /\ then[t] \in {"idle", "park"} /\ {"xread", "sread", "idle", "park"} \subseteq PCs
        /\ Again(p[t]) \in {"xread", "sread"}
    BY DEF TypeOK, PCs, Again
  <1>1. pc[t] = "release" /\ (spin[p[t]] \/ pc[p[t]] = "blocked")
    BY DEF Release
  <1> DEFINE wakes == IF spin[p[t]] THEN pc ELSE [pc EXCEPT ![p[t]] = Again(p[t])]
  <1>2. pc' = IF next[p[t]] = Null THEN [wakes EXCEPT ![t] = then[t]] ELSE wakes
    BY DEF Release
  <1>3. /\ wakes \in [Thread -> PCs]
        /\ \A u \in Thread : u # p[t] => wakes[u] = pc[u]
        /\ wakes[p[t]] = IF spin[p[t]] THEN pc[p[t]] ELSE Again(p[t])
    BY <1>0
  <1>4. wakes[t] = "release"
    BY <1>1, <1>3
  <1> HIDE DEF wakes
  <1> QED BY <1>0, <1>1, <1>2, <1>3, <1>4

\* Waking a thread lets nobody in or out.
LEMMA ReleaseOwners ==
  ASSUME TypeOK, Sound(word), NEW s, Owners(s), NEW t \in Thread, Release(t), p[t] \in Thread
  PROVE  Sound(word') /\ Owners(s)'
  <1>1. word' = word
    BY DEF Release
  <1>2. \A u \in Thread : \/ pc'[u] = pc[u]
                          \/ /\ pc[u] \notin {"heldX", "slast"} \cup AsReader
                             /\ pc'[u] \notin {"heldX", "slast"} \cup AsReader
    BY ReleasePcs DEF AsReader
  <1>3. Writers' = Writers /\ Readers' = Readers /\ Last' = Last
    BY <1>2 DEF Writers, Readers, Last, AsReader
  <1> QED BY <1>1, <1>3, OwnSame

-----------------------------------------------------------------------------
(* The steps that release.                                                 *)

\* The writer leaves a word that counts no readers.
LEMMA ReleaseExclusiveOwners ==
  ASSUME TypeOK, Sound(word), NEW s, Owners(s), NEW t \in Thread, ReleaseExclusive(t)
  PROVE  /\ Sound(word') /\ Owners(s)' /\ word' = [word EXCEPT !.locked = FALSE]
         /\ ~word.multi
  <1>1. PICK v \in {"xwake", "idle"} : pc' = [pc EXCEPT ![t] = v]
    BY DEF ReleaseExclusive, Leave, Goto
  <1>2. pc[t] = "heldX" /\ word' = [word EXCEPT !.locked = FALSE]
    BY DEF ReleaseExclusive
  <1>3. v # "heldX" /\ v \notin AsReader /\ v # "slast" /\ pc[t] \notin AsReader /\ pc[t] # "slast"
    BY <1>2 DEF AsReader
  <1>4. Writers' = Writers \ {t} /\ t \in Writers /\ Readers' = Readers /\ Last' = Last
    BY <1>1, <1>2, <1>3, Sets DEF TypeOK
  <1>5. ~word.multi
    BY <1>4 DEF Owners, Owned
  <1> QED BY <1>2, <1>4, <1>5, OwnUnlock, Subsets DEF Owners

\* A writer that has left becomes the walker of the list.
LEMMA ClaimWakeOwners ==
  ASSUME TypeOK, LocalInv, Sound(word), NEW s, Owners(s), NEW t \in Thread, ClaimWake(t)
  PROVE  /\ Sound(word') /\ Owners(s)'
         /\ Unchanged(t) => ~word.locked /\ word.waiting /\ ~word.waking
  <1>1. PICK v \in {"wake", "idle"} : pc' = [pc EXCEPT ![t] = v]
    BY DEF ClaimWake, BeginWake, Leave, Goto
  <1>2. pc[t] = "xwake" /\ (word' = word \/ (Unchanged(t) /\ word' = [word EXCEPT !.waking = TRUE]))
    BY DEF ClaimWake
  <1>3. Unchanged(t) => ~word.locked /\ word.waiting /\ ~word.waking
    BY <1>2 DEF LocalInv, LocalAt, Unchanged
  <1>4. Writers' = Writers /\ Readers' = Readers /\ Last' = Last
    BY <1>1, <1>2, SetsStay DEF AsReader, TypeOK
  <1> QED BY <1>2, <1>3, <1>4, SoundWaking, OwnSame

\* What a reader that releases does once it has seen the word.
LEMMA ConsiderReleaseOwners ==
  ASSUME TypeOK, Sound(word), NEW s, Owners(s), NEW t \in Thread, pc[t] \in {"heldS", "srel"},
         ConsiderRelease(t), word' = word
  PROVE  Sound(word') /\ Owners(s)'
  <1>1. CASE word.waiting /\ ~word.multi
    <2>1. pc' = [pc EXCEPT ![t] = "slast"]
      BY <1>1 DEF ConsiderRelease, Goto
    <2>2. pc[t] # "heldX" /\ pc[t] # "slast" /\ pc[t] \in AsReader /\ "slast" \notin AsReader /\ "slast" # "heldX"
      BY DEF AsReader
    <2>3. Writers' = Writers /\ Readers' = Readers \ {t} /\ t \in Readers /\ Last' = Last \cup {t}
      BY <2>1, <2>2, Sets DEF TypeOK
    <2> QED BY <1>1, <2>3, OwnSlip, Subsets DEF Owners
  <1>2. CASE ~(word.waiting /\ ~word.multi)
    <2>1. PICK v \in {"srel", "swalk"} : pc' = [pc EXCEPT ![t] = v]
      BY <1>2 DEF ConsiderRelease, Goto
    <2>2. pc[t] # "heldX" /\ pc[t] # "slast" /\ pc[t] \in AsReader /\ v \in AsReader /\ v # "slast" /\ v # "heldX"
      BY DEF AsReader
    <2>3. Writers' = Writers /\ Readers' = Readers /\ Last' = Last
      BY <2>1, <2>2, Sets DEF TypeOK
    <2> QED BY <2>3, OwnSame
  <1> QED BY <1>1, <1>2

\* A reader that the word counts leaves.
LEMMA LeaveOwners ==
  ASSUME TypeOK, Sound(word), NEW s, Owners(s), NEW t \in Thread, pc[t] \in {"heldS", "srel"},
         pc' = [pc EXCEPT ![t] = "idle"], ~word.waiting,
         word' = IF word.readers <= 1 THEN Free ELSE [word EXCEPT !.readers = @ - 1]
  PROVE  Sound(word') /\ Owners(s)'
  <1>1. pc[t] # "heldX" /\ pc[t] # "slast" /\ pc[t] \in AsReader /\ "idle" \notin AsReader /\ "idle" # "heldX" /\ "idle" # "slast"
    BY DEF AsReader
  <1>2. Writers' = Writers /\ Readers' = Readers \ {t} /\ t \in Readers /\ Last' = Last
    BY <1>1, Sets DEF TypeOK
  <1> QED BY <1>2, OwnUncountReader, Subsets DEF Owners

\* A reader leaves, or finds out where it is counted.
LEMMA ReleaseSharedOwners ==
  ASSUME TypeOK, Sound(word), NEW s, Owners(s), NEW t \in Thread, ReleaseShared(t)
  PROVE  Sound(word') /\ Owners(s)'
  <1>0. pc[t] = "heldS"
    BY DEF ReleaseShared
  <1>1. CASE word = OneReader
    <2>1. word' = Free /\ pc' = [pc EXCEPT ![t] = "idle"]
      BY <1>1 DEF ReleaseShared, Leave, Goto
    <2>2. ~word.waiting /\ word.readers <= 1
      BY <1>1, SetFree
    <2> QED BY <1>0, <2>1, <2>2, LeaveOwners
  <1>2. CASE word # OneReader
    BY <1>0, <1>2, ConsiderReleaseOwners DEF ReleaseShared
  <1> QED BY <1>1, <1>2

\* A reader leaves through the word while nobody waits.
LEMMA UncountReaderOwners ==
  ASSUME TypeOK, LocalInv, Sound(word), NEW s, Owners(s), NEW t \in Thread, UncountReader(t)
  PROVE  Sound(word') /\ Owners(s)' /\ (Unchanged(t) => ~word.waiting)
  <1>0. pc[t] = "srel" /\ (Unchanged(t) => ~word.waiting)
    BY DEF UncountReader, LocalInv, LocalAt, Unchanged
  <1>1. CASE Unchanged(t)
    <2>1. /\ pc' = [pc EXCEPT ![t] = "idle"]
          /\ word' = IF word.readers <= 1 THEN Free ELSE [word EXCEPT !.readers = @ - 1]
      BY <1>1 DEF UncountReader, Leave, Goto
    <2> QED BY <1>0, <1>1, <2>1, LeaveOwners
  <1>2. CASE ~Unchanged(t)
    BY <1>0, <1>2, ConsiderReleaseOwners DEF UncountReader
  <1> QED BY <1>1, <1>2

\* Looking for the count changes nothing.
LEMMA WalkCountOwners ==
  ASSUME Sound(word), NEW s, Owners(s), NEW t \in Thread, WalkCount(t)
  PROVE  Sound(word') /\ Owners(s)'
  <1>1. word' = word /\ pc' = pc
    BY DEF WalkCount
  <1> QED BY <1>1, OwnSame DEF Writers, Readers, Last

\* The count is in the block that the walk found.
LEMMA UncountOwners ==
  ASSUME TypeOK, Sound(word), NEW s, Owners(s), NEW t \in Thread, Uncount(t),
         word.waiting, word.multi, notify[p[t]] \in Thread, s = share[notify[p[t]]]
  PROVE  Sound(word') /\ s \in Nat /\ s > 0 /\ share' = [share EXCEPT ![notify[p[t]]] = s - 1] /\ Owners(s - 1)'
  <1>0. pc[t] = "swalk" /\ word' = word /\ share' = [share EXCEPT ![notify[p[t]]] = s - 1]
    BY DEF Uncount
  <1>1. share'[notify[p[t]]] = s - 1
    BY <1>0 DEF TypeOK
  <1>2. pc[t] # "heldX" /\ pc[t] # "slast" /\ pc[t] \in AsReader /\ "idle" \notin AsReader /\ "slast" \notin AsReader
        /\ "idle" # "heldX" /\ "idle" # "slast" /\ "slast" # "heldX"
    BY <1>0 DEF AsReader
  <1>3. t \in Readers
    BY <1>0 DEF Readers
  <1>4. s \in Nat /\ s > 0
    BY <1>3, OwnUncount, Subsets DEF Owners
  <1>5. CASE s - 1 > 0
    <2>1. pc' = [pc EXCEPT ![t] = "idle"]
      BY <1>1, <1>5 DEF Uncount, Leave, Goto
    <2>2. Writers' = Writers /\ Readers' = Readers \ {t} /\ Last' = Last
      BY <1>2, <2>1, Sets DEF TypeOK
    <2> QED BY <1>0, <1>3, <1>4, <1>5, <2>2, OwnUncount, Subsets DEF Owners
  <1>6. CASE s - 1 = 0
    <2>1. pc' = [pc EXCEPT ![t] = "slast"]
      BY <1>1, <1>6 DEF Uncount, Goto
    <2>2. Writers' = Writers /\ Readers' = Readers \ {t} /\ Last' = Last \cup {t}
      BY <1>2, <2>1, Sets DEF TypeOK
    <2> QED BY <1>0, <1>3, <1>4, <1>6, <2>2, OwnUncount, Subsets DEF Owners
  <1> QED BY <1>4, <1>5, <1>6

\* The last reader leaves and no reader is left.
LEMMA LastReaderOwners ==
  ASSUME TypeOK, Sound(word), NEW s, Owners(s), NEW t \in Thread, LastReader(t)
  PROVE  /\ Sound(word') /\ Owners(s)'
         /\ Unchanged(t) => Readers = {} /\ word.waiting /\ \A x : Owners(x)'
  <1>0. pc[t] = "slast"
    BY DEF LastReader
  <1>1. CASE Unchanged(t)
    <2>1. PICK v \in {"idle", "wake"} : pc' = [pc EXCEPT ![t] = v]
      BY <1>1 DEF LastReader, Leave, BeginWake, Goto
    <2>2. pc[t] # "heldX" /\ v # "heldX" /\ v # "slast" /\ v \notin AsReader /\ pc[t] \notin AsReader
      BY <1>0 DEF AsReader
    <2>3. Writers' = Writers /\ Readers' = Readers /\ Last' = Last \ {t} /\ t \in Last
      BY <1>0, <2>1, <2>2, Sets DEF TypeOK
    <2>4. word' = [word EXCEPT !.multi = FALSE, !.locked = FALSE, !.waking = TRUE]
      BY <1>1 DEF LastReader
    <2> QED BY <1>1, <2>3, <2>4, OwnLast, Subsets DEF Owners
  <1>2. CASE ~Unchanged(t)
    <2>1. word' = word /\ pc' = pc
      BY <1>2 DEF LastReader
    <2> QED BY <1>2, <2>1, OwnSame DEF Writers, Readers, Last
  <1> QED BY <1>1, <1>2

-----------------------------------------------------------------------------
(* Types.                                                                  *)

\* The cursors are blocks, and a reader that finds its share count is in it.
PointersInv ==
  \A t \in Thread :
    /\ pc[t] \in {"optimize", "wake", "swalk", "release"} => p[t] \in Thread
    /\ Walker(t) => old[t].block \in Thread
    /\ Uncount(t) => notify[p[t]] \in Thread /\ share[notify[p[t]]] - 1 \in Nat

\* Places and blocks.
LEMMA Names ==
  /\ {"idle", "heldX", "heldS", "xread", "xcas", "sread", "scas", "tread", "tcas", "xpush", "spush",
      "park", "blocked", "optimize", "wake", "release", "xwake", "srel", "swalk", "slast"} \subseteq PCs
  /\ Thread \subseteq Block /\ Null \in Block
  BY DEF PCs, Block

\* The types of what one thread holds.
LEMMA Sometypes ==
  ASSUME TypeOK
  PROVE  /\ word \in Words /\ word.block \in Block /\ word.readers \in Nat
         /\ \A t \in Thread : /\ old[t] \in Words /\ pc[t] \in PCs /\ p[t] \in Block
                              /\ old[t].block \in Block /\ old[t].readers \in Nat
                              /\ back[t] \in Block /\ notify[t] \in Block /\ next[t] \in Block
                              /\ share[t] \in Nat /\ excl[t] \in BOOLEAN /\ spin[t] \in BOOLEAN
                              /\ then[t] \in {"idle", "park"}
  <1>1. word \in Words /\ \A t \in Thread : old[t] \in Words
    BY DEF TypeOK
  <1> QED BY <1>1, Fields DEF TypeOK

\* The steps of an acquisition, and the release of a writer, keep the types.
LEMMA AcquireTypes ==
  ASSUME TypeOK, word' \in Words, NEW t \in Thread,
         \/ Call(t) \/ ReadExclusive(t) \/ LockExclusive(t) \/ ReadShared(t) \/ LockShared(t)
         \/ ReleaseExclusive(t)
  PROVE  TypeOK'
  <1>0. word \in Words /\ Free \in Words
    BY SetFree DEF TypeOK
  <1>1. Quiet
    BY DEF Quiet, Call, AcquireExclusive, TryAcquireExclusive, TestAndSet, AcquireShared,
        TryAcquireShared,
           FirstShared, ReadExclusive, LockExclusive, ReadShared, LockShared, ReleaseExclusive
  <1>2. \E v \in PCs : pc' = [pc EXCEPT ![t] = v]
    BY Names DEF Call, AcquireExclusive, TryAcquireExclusive, TestAndSet, AcquireShared,
        TryAcquireShared, Consider,
           FirstShared, ReadExclusive, LockExclusive, ReadShared, LockShared, ReleaseExclusive,
           Goto, Leave
  <1>3. \E w \in Words : old' = [old EXCEPT ![t] = w] \/ old' = old
    BY <1>0 DEF Call, AcquireExclusive, TryAcquireExclusive, TestAndSet, AcquireShared,
        TryAcquireShared, Consider,
           FirstShared, ReadExclusive, LockExclusive, ReadShared, LockShared, ReleaseExclusive,
           Goto, Leave
  <1> QED BY <1>1, <1>2, <1>3 DEF TypeOK, Quiet, lists

\* Queueing keeps the types.
LEMMA PushTypes ==
  ASSUME TypeOK, word' \in Words, NEW t \in Thread, Push(t)
  PROVE  TypeOK'
  <1>0. word \in Words /\ Free \in Words /\ t \in Block /\ Null \in Block
    BY SetFree, Names DEF TypeOK
  <1>1. CASE Unchanged(t)
    <2>1. \E v \in PCs : pc' = [pc EXCEPT ![t] = v]
      BY <1>1, Names DEF Push, Leave, Goto
    <2>2. \E w \in Words : old' = [old EXCEPT ![t] = w]
      BY <1>0, <1>1 DEF Push, Leave
    <2>3. /\ \E x \in Block : p' = [p EXCEPT ![t] = x] \/ p' = p
          /\ \E x \in {"idle", "park"} : then' = [then EXCEPT ![t] = x] \/ then' = then
      BY <1>0, <1>1 DEF Push
    <2>4. /\ \E x \in Block : back' = [back EXCEPT ![t] = x]
          /\ \E x \in Block : notify' = [notify EXCEPT ![t] = x]
          /\ \E x \in Block : next' = [next EXCEPT ![t] = x]
      BY <1>0, <1>1, Sometypes DEF Push
    <2>5. /\ \E x \in Nat : share' = [share EXCEPT ![t] = x]
          /\ \E x \in BOOLEAN : excl' = [excl EXCEPT ![t] = x]
          /\ \E x \in BOOLEAN : spin' = [spin EXCEPT ![t] = x]
      <3>1. (pc[t] = "xpush") \in BOOLEAN
        OBVIOUS
      <3> QED BY <3>1, <1>1, Sometypes DEF Push
    <2> QED BY <2>1, <2>2, <2>3, <2>4, <2>5 DEF TypeOK
  <1>2. CASE ~Unchanged(t)
    <2>1. \E v \in PCs : pc' = [pc EXCEPT ![t] = v]
      BY <1>2, Names DEF Push, Goto
    <2> QED BY <1>2, <2>1 DEF Push, TypeOK, lists
  <1> QED BY <1>1, <1>2

\* Going to the kernel keeps the types.
LEMMA ParkTypes ==
  ASSUME TypeOK, NEW t \in Thread, Park(t)
  PROVE  TypeOK'
  <1>1. \E v \in PCs : pc' = [pc EXCEPT ![t] = v]
    BY Names DEF Park, Again, Goto
  <1>2. \E x \in BOOLEAN : excl' = [excl EXCEPT ![t] = x]
    BY Sometypes DEF Park
  <1>3. spin' = [spin EXCEPT ![t] = FALSE] /\ UNCHANGED <<word, old, back, notify, next, share, p, then>>
    BY DEF Park
  <1> QED BY <1>1, <1>2, <1>3 DEF TypeOK

\* A reader's walk keeps the types.
LEMMA WalkCountTypes ==
  ASSUME TypeOK, PointersInv, NEW t \in Thread, WalkCount(t)
  PROVE  TypeOK'
  <1>1. p[t] \in Thread /\ p' = [p EXCEPT ![t] = back[p[t]]]
    BY DEF WalkCount, PointersInv
  <1> QED BY <1>1 DEF WalkCount, TypeOK, lists

\* The last reader, and a writer that becomes the walker, keep the types.
LEMMA EndTypes ==
  ASSUME TypeOK, word' \in Words, NEW t \in Thread, LastReader(t) \/ ClaimWake(t) \/ ReleaseShared(t) \/ UncountReader(t)
  PROVE  TypeOK'
  <1>0. word \in Words /\ Free \in Words /\ Null \in Block /\ word.block \in Block /\ word'.block \in Block
    BY SetFree, Names, Fields DEF TypeOK
  <1>1. UNCHANGED lists
    BY DEF LastReader, ClaimWake, ReleaseShared, UncountReader
  <1>2. \E v \in PCs : pc' = [pc EXCEPT ![t] = v] \/ pc' = pc
    BY Names DEF LastReader, ClaimWake, ReleaseShared, UncountReader, ConsiderRelease, BeginWake,
        Leave, Goto
  <1>3. \E w \in Words : old' = [old EXCEPT ![t] = w] \/ old' = old
    BY <1>0 DEF LastReader, ClaimWake, ReleaseShared, UncountReader, ConsiderRelease, BeginWake,
        Leave, Goto
  <1>4. \E x \in Block : p' = [p EXCEPT ![t] = x] \/ p' = p
    BY <1>0 DEF LastReader, ClaimWake, ReleaseShared, UncountReader, ConsiderRelease, BeginWake,
        Leave, Goto
  <1>5. \E x \in {"idle", "park"} : then' = [then EXCEPT ![t] = x] \/ then' = then
    BY DEF LastReader, ClaimWake, ReleaseShared, UncountReader, ConsiderRelease, BeginWake, Leave,
        Goto
  <1> QED BY <1>1, <1>2, <1>3, <1>4, <1>5 DEF TypeOK, lists

\* Walking and its end keep the types.
LEMMA WalkTypes ==
  ASSUME TypeOK, word' \in Words, PointersInv, NEW t \in Thread,
         Walk(t) \/ OptimizeDone(t) \/ WakeLocked(t) \/ WakeOne(t) \/ WakeAll(t)
  PROVE  TypeOK'
  <1>0. /\ word \in Words /\ Free \in Words /\ Null \in Block /\ word.block \in Block
        /\ p[t] \in Thread /\ p[t] \in Block /\ pc[t] \in PCs /\ old[t].block \in Thread
    BY SetFree, Names, Fields DEF TypeOK, PointersInv, Walker, Walk, OptimizeDone, WakeLocked,
        WakeOne, WakeAll
  <1>1. UNCHANGED <<back, share, excl, spin>>
    BY DEF Walk, OptimizeDone, WakeLocked, WakeOne, WakeAll, lists
  <1>2. \E v \in PCs : pc' = [pc EXCEPT ![t] = v] \/ pc' = pc
    BY <1>0, Names, Sometypes DEF Walk, OptimizeDone, WakeLocked, WakeOne, WakeAll, Leave, Retry,
        Goto
  <1>3. \E w \in Words : old' = [old EXCEPT ![t] = w] \/ old' = old
    BY <1>0 DEF Walk, OptimizeDone, WakeLocked, WakeOne, WakeAll, Leave, Retry
  <1>4. \E x \in Block : p' = [p EXCEPT ![t] = x] \/ p' = p
    BY <1>0, Sometypes DEF Walk, OptimizeDone, WakeLocked, WakeOne, WakeAll, EndWalk, Retry
  <1>5. \E x \in {"idle", "park"} : then' = [then EXCEPT ![t] = x] \/ then' = then
    BY DEF Walk, OptimizeDone, WakeLocked, WakeOne, WakeAll, EndWalk
  <1>6. next' \in [Thread -> Block]
    BY <1>0, Sometypes DEF Walk, OptimizeDone, WakeLocked, WakeOne, WakeAll, lists, TypeOK
  <1>7. notify' \in [Thread -> Block]
    <2>1. CASE Walk(t) \/ WakeLocked(t)
      BY <2>1 DEF Walk, WakeLocked, lists, TypeOK
    <2>2. CASE OptimizeDone(t) \/ WakeAll(t)
      <3>1. notify' = [notify EXCEPT ![old[t].block] = notify[p[t]]]
        BY <2>2 DEF OptimizeDone, WakeAll, Cache
      <3> QED BY <3>1, <1>0 DEF TypeOK
    <2>3. CASE WakeOne(t)
      <3>1. notify' = [notify EXCEPT ![old[t].block] = next[notify[p[t]]]] /\ notify[p[t]] # Null
        BY <2>3 DEF WakeOne
      <3>2. notify[p[t]] \in Thread
        BY <3>1, <1>0 DEF TypeOK, Block
      <3> QED BY <3>1, <3>2 DEF TypeOK
    <2> QED BY <2>1, <2>2, <2>3
  <1> QED BY <1>1, <1>2, <1>3, <1>4, <1>5, <1>6, <1>7 DEF TypeOK

\* Waking a thread keeps the types.
LEMMA ReleaseTypes ==
  ASSUME TypeOK, PointersInv, NEW t \in Thread, Release(t)
  PROVE  TypeOK'
  <1>0. p[t] \in Thread /\ Null \in Block
    BY Names DEF PointersInv, Release
  <1>1. pc' \in [Thread -> PCs]
    BY <1>0, ReleasePcs
  <1>2. \E x \in BOOLEAN : excl' = [excl EXCEPT ![p[t]] = x]
    BY <1>0, Sometypes DEF Release
  <1>3. /\ spin' = [spin EXCEPT ![p[t]] = FALSE] /\ next' = [next EXCEPT ![p[t]] = Null]
        /\ back' = [back EXCEPT ![p[t]] = Null] /\ notify' = [notify EXCEPT ![p[t]] = Null]
        /\ share' = [share EXCEPT ![p[t]] = 0] /\ UNCHANGED <<word, old>>
    BY DEF Release
  <1>4. \E x \in Block : p' = [p EXCEPT ![t] = x]
    BY <1>0, Sometypes DEF Release, EndWalk
  <1>5. then' = then \/ then' = [then EXCEPT ![t] = "idle"]
    BY DEF Release, EndWalk
  <1> QED BY <1>0, <1>1, <1>2, <1>3, <1>4, <1>5 DEF TypeOK

\* The count stays a number when a reader leaves.
LEMMA UncountTypes ==
  ASSUME TypeOK, PointersInv, NEW t \in Thread, Uncount(t)
  PROVE  TypeOK'
  <1>0. Null \in Block /\ notify[p[t]] \in Thread /\ share[notify[p[t]]] - 1 \in Nat /\ Free \in Words
    BY Names, SetFree DEF PointersInv
  <1>1. \E v \in PCs : pc' = [pc EXCEPT ![t] = v]
    BY Names DEF Uncount, Leave, Goto
  <1>2. \E w \in Words : old' = [old EXCEPT ![t] = w] \/ old' = old
    BY <1>0 DEF Uncount, Leave
  <1>3. /\ share' = [share EXCEPT ![notify[p[t]]] = share[notify[p[t]]] - 1] /\ p' = [p EXCEPT ![t] = Null]
        /\ UNCHANGED <<word, back, notify, next, excl, spin, then>>
    BY DEF Uncount
  <1> QED BY <1>0, <1>1, <1>2, <1>3 DEF TypeOK

-----------------------------------------------------------------------------
(* What a thread knows of the word it last saw.                            *)

\* A step of t that moves no other thread.
Alone(t, v) ==
  /\ pc' = [pc EXCEPT ![t] = v]
  /\ \A u \in Thread : u # t => old'[u] = old[u] /\ spin'[u] = spin[u] /\ then'[u] = then[u]

\* A step of one thread leaves what the others know.
LEMMA LocalFrame ==
  ASSUME TypeOK, TypeOK', LocalInv, NEW t \in Thread, NEW v, Alone(t, v), LocalAt(t)'
  PROVE  LocalInv'
  BY DEF TypeOK, LocalInv, LocalAt, Alone, Walker

\* What a thread knows after a step of its acquisition.
LEMMA AcquireLocal ==
  ASSUME TypeOK, TypeOK', LocalInv, NEW t \in Thread,
         Call(t) \/ ReadExclusive(t) \/ LockExclusive(t) \/ ReadShared(t) \/ LockShared(t)
  PROVE  LocalInv'
  <1>1. \E v \in {"heldX", "xread", "idle", "heldS", "sread", "tread", "xpush", "xcas", "spush", "tcas", "scas"} :
          /\ Alone(t, v)
          /\ v = "xcas" => ~old'[t].locked
          /\ v = "xpush" => old'[t].locked
          /\ v = "spush" => MustQueue(old'[t])
          /\ v \in {"scas", "tcas"} => ~MustQueue(old'[t])
    BY DEF TypeOK, Alone, Call, AcquireExclusive, TryAcquireExclusive, TestAndSet, AcquireShared,
        TryAcquireShared,
           Consider, FirstShared, ReadExclusive, LockExclusive, ReadShared, LockShared, Goto,
           Leave, lists
  <1>2. ~spin[t] /\ spin' = spin /\ then[t] # "park" /\ then' = then
    BY DEF TypeOK, LocalInv, LocalAt, Call, AcquireExclusive, TryAcquireExclusive, TestAndSet,
        AcquireShared,
           TryAcquireShared, FirstShared, ReadExclusive, LockExclusive, ReadShared, LockShared,
           lists
  <1>3. LocalAt(t)'
    BY <1>1, <1>2 DEF TypeOK, LocalAt, Alone, Walker
  <1> QED BY <1>1, <1>3, LocalFrame

\* What a thread knows once it has queued.
LEMMA PushLocal ==
  ASSUME TypeOK, TypeOK', LocalInv, Sound(word), NEW t \in Thread, Push(t), Unchanged(t) => word.locked
  PROVE  LocalInv'
  <1>0. ~spin[t] /\ then[t] # "park"
    BY DEF Push, TypeOK, LocalInv, LocalAt
  <1>1. CASE ~Unchanged(t)
    <2>1. \E v \in {"xread", "sread"} : Alone(t, v)
      BY <1>1 DEF Push, Goto, Alone, lists
    <2>2. spin' = spin /\ then' = then
      BY <1>1 DEF Push, lists
    <2>3. LocalAt(t)'
      BY <1>0, <2>1, <2>2 DEF TypeOK, LocalAt, Alone, Walker
    <2> QED BY <2>1, <2>3, LocalFrame
  <1>2. CASE Unchanged(t) /\ word.waiting /\ ~word.waking
    <2>1. Alone(t, "optimize") /\ then'[t] = "park"
      BY <1>2 DEF Push, Goto, Alone, Unchanged, TypeOK
    <2>2. old'[t] = Queue(word, t)
      BY <1>2 DEF Push, Unchanged, TypeOK
    <2>3. old'[t].locked /\ old'[t].waiting /\ old'[t].waking
      BY <1>2, <2>2, SetQueue DEF Sound
    <2>4. LocalAt(t)'
      BY <2>1, <2>3 DEF TypeOK, LocalAt, Alone, Walker
    <2> QED BY <2>1, <2>4, LocalFrame
  <1>3. CASE Unchanged(t) /\ ~(word.waiting /\ ~word.waking)
    <2>1. Alone(t, "park") /\ then' = then
      BY <1>3 DEF Push, Goto, Leave, Alone, Unchanged, TypeOK
    <2>4. LocalAt(t)'
      BY <1>0, <2>1 DEF TypeOK, LocalAt, Alone, Walker
    <2> QED BY <2>1, <2>4, LocalFrame
  <1> QED BY <1>1, <1>2, <1>3

\* What a thread knows once it has spun.
LEMMA ParkLocal ==
  ASSUME TypeOK, TypeOK', LocalInv, NEW t \in Thread, Park(t)
  PROVE  LocalInv'
  <1>1. \E v \in {"blocked", "xread", "sread"} : Alone(t, v)
    BY DEF Park, Goto, Again, Alone, TypeOK
  <1>2. ~spin'[t] /\ then' = then /\ then[t] # "park"
    BY DEF Park, TypeOK, LocalInv, LocalAt
  <1>3. LocalAt(t)'
    BY <1>1, <1>2 DEF TypeOK, LocalAt, Alone, Walker
  <1> QED BY <1>1, <1>3, LocalFrame

\* What a walker knows on its way.
LEMMA WalkLocal ==
  ASSUME TypeOK, LocalInv, NEW t \in Thread, Walk(t) \/ WalkCount(t)
  PROVE  LocalInv'
  <1>1. UNCHANGED <<pc, old, spin, then>>
    BY DEF Walk, WalkCount, lists
  <1> QED BY <1>1 DEF LocalInv, LocalAt, Walker

\* What a walker knows at the end of its walk.
LEMMA EndWalkLocal ==
  ASSUME TypeOK, TypeOK', LocalInv, WalkerInv, NEW t \in Thread,
         OptimizeDone(t) \/ WakeLocked(t) \/ WakeOne(t) \/ WakeAll(t)
  PROVE  LocalInv'
  <1>0. pc[t] \in {"optimize", "wake"} /\ word.waking /\ word.waiting /\ spin' = spin /\ then[t] \in {"idle", "park"}
    BY DEF OptimizeDone, WakeLocked, WakeOne, WakeAll, WalkerInv, Walker, lists, TypeOK
  <1>1. spin[t] => then[t] = "park"
    BY <1>0 DEF LocalInv, LocalAt
  <1>2. CASE Unchanged(t) \/ WakeOne(t)
    <2>1. (Alone(t, then[t]) /\ then'[t] = "idle") \/ (Alone(t, "release") /\ then' = then)
      BY <1>0, <1>2 DEF OptimizeDone, WakeLocked, WakeOne, WakeAll, EndWalk, Leave, Goto, Alone,
          TypeOK
    <2>2. LocalAt(t)'
      BY <1>0, <1>1, <2>1 DEF TypeOK, LocalAt, Alone, Walker
    <2> QED BY <2>1, <2>2, LocalFrame
  <1>3. CASE ~Unchanged(t) /\ ~WakeOne(t)
    <2>1. Alone(t, IF word.locked THEN pc[t] ELSE "wake") /\ old'[t] = word /\ then' = then
      BY <1>0, <1>3 DEF OptimizeDone, WakeLocked, WakeAll, Retry, Goto, Alone, TypeOK
    <2>2. LocalAt(t)'
      BY <1>0, <1>1, <2>1 DEF TypeOK, LocalAt, Alone, Walker
    <2> QED BY <2>1, <2>2, LocalFrame
  <1> QED BY <1>2, <1>3

\* What a waker and the thread it wakes know.
LEMMA ReleaseLocal ==
  ASSUME TypeOK, TypeOK', LocalInv, NEW t \in Thread, Release(t), p[t] \in Thread
  PROVE  LocalInv'
  <1>1. /\ old' = old /\ \A u \in Thread : u # t => then'[u] = then[u]
        /\ then' = IF next[p[t]] # Null THEN then ELSE [then EXCEPT ![t] = "idle"]
        /\ spin' = [spin EXCEPT ![p[t]] = FALSE]
    BY DEF Release, EndWalk, TypeOK
  <1>2. SUFFICES ASSUME NEW u \in Thread PROVE LocalAt(u)'
    BY DEF LocalInv
  <1>3. LocalAt(u)
    BY DEF LocalInv
  <1>4. CASE u = t
    <2>1. spin[t] => then[t] = "park"
      BY <1>3, <1>4, ReleasePcs DEF LocalAt
    <2>2. \/ pc'[t] = "release" /\ then'[t] = then[t]
          \/ pc'[t] = then[t] /\ then[t] \in {"idle", "park"} /\ then'[t] = "idle"
      BY <1>1, ReleasePcs DEF TypeOK
    <2> QED BY <1>1, <1>4, <2>1, <2>2 DEF LocalAt, Walker, TypeOK
  <1>5. CASE u # t /\ u = p[t]
    <2>1. ~spin'[u] /\ old'[u] = old[u] /\ then'[u] = then[u]
      BY <1>1, <1>5 DEF TypeOK
    <2>2. pc'[u] = pc[u] \/ (pc[u] = "blocked" /\ pc'[u] \in {"xread", "sread"})
      BY <1>5, ReleasePcs
    <2> QED BY <1>3, <2>1, <2>2 DEF LocalAt, Walker
  <1>6. CASE u # t /\ u # p[t]
    <2>1. pc'[u] = pc[u] /\ old'[u] = old[u] /\ then'[u] = then[u] /\ spin'[u] = spin[u]
      BY <1>1, <1>6, ReleasePcs DEF TypeOK
    <2> QED BY <1>3, <2>1 DEF LocalAt, Walker
  <1> QED BY <1>4, <1>5, <1>6

\* What a thread knows when it releases the lock.
LEMMA UnlockLocal ==
  ASSUME TypeOK, TypeOK', LocalInv, Sound(word), NEW t \in Thread,
         \/ ReleaseExclusive(t) \/ ClaimWake(t) \/ ReleaseShared(t) \/ UncountReader(t)
         \/ Uncount(t) \/ LastReader(t),
         LastReader(t) /\ Unchanged(t) => word.waiting
  PROVE  LocalInv'
  <1>0. spin' = spin /\ ~spin[t] /\ then[t] # "park" /\ then'[t] # "park"
    BY DEF ReleaseExclusive, ClaimWake, ReleaseShared, UncountReader, Uncount, LastReader,
        BeginWake, lists, TypeOK,
           LocalInv, LocalAt
  <1>1. CASE ReleaseExclusive(t)
    <2>1. word' = [word EXCEPT !.locked = FALSE]
      BY <1>1 DEF ReleaseExclusive
    <2>2. ~word'.locked /\ word'.waiting = word.waiting /\ word'.waking = word.waking
      BY <2>1, SetLocked DEF Sound
    <2>3. \/ Alone(t, "idle")
          \/ Alone(t, "xwake") /\ old'[t] = word' /\ word.waiting /\ ~word.waking
      <3>1. CASE word.waiting /\ ~word.waking
        <4>1. pc' = [pc EXCEPT ![t] = "xwake"] /\ old' = [old EXCEPT ![t] = word'] /\ UNCHANGED <<spin, then>>
          BY <1>1, <3>1 DEF ReleaseExclusive, Goto, lists
        <4> QED BY <3>1, <4>1 DEF Alone, TypeOK
      <3>2. CASE ~(word.waiting /\ ~word.waking)
        <4>1. pc' = [pc EXCEPT ![t] = "idle"] /\ old' = [old EXCEPT ![t] = Free] /\ UNCHANGED <<spin, then>>
          BY <1>1, <3>2 DEF ReleaseExclusive, Leave, Goto, lists
        <4> QED BY <4>1 DEF Alone, TypeOK
      <3> QED BY <3>1, <3>2
    <2>4. LocalAt(t)'
      BY <1>0, <2>2, <2>3 DEF TypeOK, LocalAt, Alone, Walker
    <2> QED BY <2>3, <2>4, LocalFrame
  <1>2. CASE ClaimWake(t)
    <2>0. pc[t] = "xwake" /\ (Unchanged(t) => word.waiting)
      BY <1>2 DEF ClaimWake, LocalInv, LocalAt, Unchanged
    <2>1. \/ Alone(t, "idle")
          \/ Alone(t, "wake") /\ old'[t] = word' /\ word' = [word EXCEPT !.waking = TRUE] /\ word.waiting
      <3>1. CASE Unchanged(t)
        <4>1. /\ pc' = [pc EXCEPT ![t] = "wake"] /\ old' = [old EXCEPT ![t] = word'] /\ spin' = spin
              /\ then' = [then EXCEPT ![t] = "idle"] /\ word' = [word EXCEPT !.waking = TRUE]
          BY <1>2, <3>1 DEF ClaimWake, BeginWake, Goto, lists
        <4> QED BY <2>0, <3>1, <4>1 DEF Alone, TypeOK
      <3>2. CASE ~Unchanged(t)
        <4>1. pc' = [pc EXCEPT ![t] = "idle"] /\ old' = [old EXCEPT ![t] = Free] /\ UNCHANGED <<spin, then>>
          BY <1>2, <3>2 DEF ClaimWake, Leave, Goto, lists
        <4> QED BY <4>1 DEF Alone, TypeOK
      <3> QED BY <3>1, <3>2
    <2>2. word' = [word EXCEPT !.waking = TRUE] => word'.waiting = word.waiting /\ word'.waking
      BY SetWaking DEF Sound
    <2>4. LocalAt(t)'
      BY <1>0, <2>1, <2>2 DEF TypeOK, LocalAt, Alone, Walker
    <2> QED BY <2>1, <2>4, LocalFrame
  <1>3. CASE ReleaseShared(t) \/ UncountReader(t)
    <2>1. \E v \in {"idle", "srel", "swalk", "slast"} : Alone(t, v) /\ (v = "srel" => ~old'[t].waiting)
      <3>1. UNCHANGED <<spin, then>>
        BY <1>3 DEF ReleaseShared, UncountReader, lists
      <3>2. CASE ConsiderRelease(t)
        <4>1. \E v \in {"srel", "swalk", "slast"} :
                pc' = [pc EXCEPT ![t] = v] /\ old' = [old EXCEPT ![t] = word] /\ (v = "srel" => ~word.waiting)
          BY <3>2 DEF ConsiderRelease, Goto
        <4> QED BY <3>1, <4>1 DEF Alone, TypeOK
      <3>3. CASE ~ConsiderRelease(t)
        <4>1. pc' = [pc EXCEPT ![t] = "idle"] /\ old' = [old EXCEPT ![t] = Free]
          BY <1>3, <3>3 DEF ReleaseShared, UncountReader, Leave, Goto
        <4> QED BY <3>1, <4>1 DEF Alone, TypeOK
      <3> QED BY <3>2, <3>3
    <2>2. LocalAt(t)'
      BY <1>0, <2>1 DEF TypeOK, LocalAt, Alone, Walker
    <2> QED BY <2>1, <2>2, LocalFrame
  <1>4. CASE Uncount(t)
    <2>1. \E v \in {"idle", "slast"} : Alone(t, v)
      BY <1>4 DEF Uncount, Leave, Goto, Alone, TypeOK
    <2>2. LocalAt(t)'
      BY <1>0, <2>1 DEF TypeOK, LocalAt, Alone, Walker
    <2> QED BY <2>1, <2>2, LocalFrame
  <1>5. CASE LastReader(t)
    <2>1. \/ Alone(t, "idle") \/ Alone(t, "slast")
          \/ Alone(t, "wake") /\ old'[t] = word' /\ Unchanged(t)
             /\ word' = [word EXCEPT !.multi = FALSE, !.locked = FALSE, !.waking = TRUE]
      <3>1. CASE ~Unchanged(t)
        <4>1. pc' = pc /\ old' = [old EXCEPT ![t] = word] /\ UNCHANGED <<spin, then>> /\ pc[t] = "slast"
          BY <1>5, <3>1 DEF LastReader, lists
        <4> QED BY <4>1 DEF Alone, TypeOK
      <3>2. CASE Unchanged(t) /\ old[t].waking
        <4>1. pc' = [pc EXCEPT ![t] = "idle"] /\ old' = [old EXCEPT ![t] = Free] /\ UNCHANGED <<spin, then>>
          BY <1>5, <3>2 DEF LastReader, Leave, Goto, lists
        <4> QED BY <4>1 DEF Alone, TypeOK
      <3>3. CASE Unchanged(t) /\ ~old[t].waking
        <4>1. /\ pc' = [pc EXCEPT ![t] = "wake"] /\ old' = [old EXCEPT ![t] = word'] /\ spin' = spin
              /\ then' = [then EXCEPT ![t] = "idle"]
              /\ word' = [word EXCEPT !.multi = FALSE, !.locked = FALSE, !.waking = TRUE]
          BY <1>5, <3>3 DEF LastReader, BeginWake, Goto, lists
        <4> QED BY <3>3, <4>1 DEF Alone, TypeOK
      <3> QED BY <3>1, <3>2, <3>3
    <2>2. word' = [word EXCEPT !.multi = FALSE, !.locked = FALSE, !.waking = TRUE]
            => word'.waiting = word.waiting /\ word'.waking
      BY SetLeft DEF Sound
    <2>4. LocalAt(t)'
      BY <1>0, <1>5, <2>1, <2>2 DEF TypeOK, LocalAt, Alone, Walker
    <2> QED BY <2>1, <2>4, LocalFrame
  <1> QED BY <1>1, <1>2, <1>3, <1>4, <1>5

-----------------------------------------------------------------------------
(* The walker, and that somebody brings the waiters on.                    *)

\* What a step leaves in the word that is about the waiters.
Kept ==
  /\ word'.waiting = word.waiting /\ word'.waking = word.waking /\ word'.block = word.block
  /\ word'.multi = word.multi

\* Locking leaves the other bits.
LEMMA LockKept ==
  ASSUME Sound(word), NEW b \in BOOLEAN, word' = [word EXCEPT !.locked = b]
  PROVE  Kept
  BY SetLocked DEF Sound, Kept

\* Acquiring and releasing without the list leave the bits that the list depends on.
LEMMA QuietKept ==
  ASSUME Sound(word), Sound(word'), LocalInv, NEW t \in Thread,
         \/ Call(t) \/ ReadExclusive(t) \/ LockExclusive(t) \/ ReadShared(t) \/ LockShared(t)
         \/ ReleaseExclusive(t) \/ ReleaseShared(t) \/ UncountReader(t)
  PROVE  Kept
  <1>1. CASE word' = word
    BY <1>1 DEF Kept
  <1>2. CASE \E b \in BOOLEAN : word' = [word EXCEPT !.locked = b]
    BY <1>2, LockKept
  <1>3. CASE word' = Share(word)
    BY <1>3, SetShare DEF Kept, Sound
  <1>4. CASE ~word.waiting /\ ~word'.waiting
    BY <1>4, Fields DEF Kept, Sound
  <1>5. CASE FirstShared(t, TRUE) \/ FirstShared(t, FALSE)
    <2>1. word' = word \/ (word = Free /\ word' = OneReader)
      BY <1>5 DEF FirstShared
    <2> QED BY <1>1, <1>4, <2>1, SetFree
  <1>6. CASE ReleaseShared(t)
    <2>1. word' = word \/ (word = OneReader /\ word' = Free)
      BY <1>6 DEF ReleaseShared
    <2> QED BY <1>1, <1>4, <2>1, SetFree
  <1>7. CASE UncountReader(t) /\ Unchanged(t)
    <2>1. ~word.waiting
      BY <1>7 DEF UncountReader, Unchanged, LocalInv, LocalAt
    <2>2. CASE word.readers <= 1
      <3>1. word' = Free
        BY <1>7, <2>2 DEF UncountReader
      <3> QED BY <1>4, <2>1, <3>1, SetFree
    <2>3. CASE ~(word.readers <= 1)
      <3>1. word' = [word EXCEPT !.readers = word.readers - 1] /\ word.readers - 1 \in Nat
        BY <1>7, <2>3, Fields DEF UncountReader, Sound, Words
      <3> QED BY <1>4, <2>1, <3>1, SetReaders DEF Sound
    <2> QED BY <2>2, <2>3
  <1>8. CASE TestAndSet(t, "xread") \/ TestAndSet(t, "idle") \/ LockExclusive(t) \/ ReleaseExclusive(t)
    BY <1>1, <1>2, <1>8 DEF TestAndSet, LockExclusive, ReleaseExclusive
  <1>9. CASE ReadExclusive(t) \/ ReadShared(t) \/ LockShared(t) \/ (UncountReader(t) /\ ~Unchanged(t))
    BY <1>1, <1>3, <1>9 DEF ReadExclusive, ReadShared, LockShared, UncountReader
  <1> QED BY <1>5, <1>6, <1>7, <1>8, <1>9 DEF Call, AcquireExclusive, TryAcquireExclusive,
      AcquireShared, TryAcquireShared

Walking == {"optimize", "wake"}

\* A step by which nobody begins or ends a walk.
LEMMA WalkersStay ==
  ASSUME WalkerInv, Kept,
         \A u \in Thread : pc'[u] = pc[u] \/ (pc[u] \notin Walking /\ pc'[u] \notin Walking)
  PROVE  WalkerInv'
  BY DEF WalkerInv, Walker, Walking, Kept

\* A walk begins when nobody else walks.
LEMMA WalkerBegins ==
  ASSUME TypeOK, WalkerInv, NEW t \in Thread, NEW v \in Walking, pc' = [pc EXCEPT ![t] = v],
         ~word.waking, word'.waking, word'.waiting, v = "wake" => ~word'.multi
  PROVE  WalkerInv'
  BY DEF TypeOK, WalkerInv, Walker, Walking

\* The walker gives the Waking bit back as its walk ends.
LEMMA WalkerEnds ==
  ASSUME TypeOK, WalkerInv, NEW t \in Thread, NEW v, v \notin Walking, pc' = [pc EXCEPT ![t] = v],
         Walker(t), ~word'.waking
  PROVE  WalkerInv'
  BY DEF TypeOK, WalkerInv, Walker, Walking

\* A walker that begins again is still the walker.
LEMMA WalkerTurns ==
  ASSUME TypeOK, WalkerInv, NEW t \in Thread, NEW v \in Walking, pc' = [pc EXCEPT ![t] = v],
         Walker(t), word' = word, v = "wake" => ~word.multi
  PROVE  WalkerInv'
  BY DEF TypeOK, WalkerInv, Walker, Walking

\* Acquiring and releasing leave the walker alone.
LEMMA QuietWalker ==
  ASSUME TypeOK, WalkerInv, Kept, NEW t \in Thread,
         \/ Call(t) \/ ReadExclusive(t) \/ LockExclusive(t) \/ ReadShared(t) \/ LockShared(t)
         \/ ReleaseExclusive(t) \/ ReleaseShared(t) \/ UncountReader(t)
  PROVE  WalkerInv'
  <1>1. \E v \in {"heldX", "xread", "idle", "heldS", "sread", "tread", "xpush", "xcas", "spush", "tcas", "scas",
                  "xwake", "srel", "swalk", "slast"} :
          pc' = [pc EXCEPT ![t] = v]
    BY DEF Call, AcquireExclusive, TryAcquireExclusive, TestAndSet, AcquireShared, TryAcquireShared,
           Consider, FirstShared, ReadExclusive, LockExclusive, ReadShared, LockShared, Goto, Leave,
           ReleaseExclusive, ReleaseShared, UncountReader, ConsiderRelease
  <1>2. pc[t] \notin Walking
    BY DEF Call, AcquireExclusive, TryAcquireExclusive, TestAndSet, AcquireShared, TryAcquireShared,
           FirstShared, ReadExclusive, LockExclusive, ReadShared, LockShared,
           ReleaseExclusive, ReleaseShared, UncountReader, Walking
  <1>3. \A u \in Thread : pc'[u] = pc[u] \/ (pc[u] \notin Walking /\ pc'[u] \notin Walking)
    BY <1>1, <1>2 DEF TypeOK, Walking
  <1> QED BY <1>3, WalkersStay

\* A thread that queues walks only if it set the Waking bit.
LEMMA PushWalker ==
  ASSUME TypeOK, Sound(word), WalkerInv, NEW t \in Thread, Push(t)
  PROVE  WalkerInv'
  <1>0. pc[t] \notin Walking
    BY DEF Push, Walking
  <1>1. CASE ~Unchanged(t)
    <2>1. word' = word /\ \E v \in {"xread", "sread"} : pc' = [pc EXCEPT ![t] = v]
      BY <1>1 DEF Push, Goto
    <2>2. \A u \in Thread : pc'[u] = pc[u] \/ (pc[u] \notin Walking /\ pc'[u] \notin Walking)
      BY <1>0, <2>1 DEF TypeOK, Walking
    <2> QED BY <2>1, <2>2, WalkersStay DEF Kept
  <1>2. CASE Unchanged(t)
    <2>1. word' = Queue(word, t)
      BY <1>2 DEF Push, Unchanged
    <2>2. word'.waiting /\ word'.waking = word.waiting /\ (word.waiting => (word'.multi <=> word.multi))
      BY <2>1, SetQueue DEF Sound
    <2>3. CASE word.waiting /\ ~word.waking
      <3>1. pc' = [pc EXCEPT ![t] = "optimize"]
        BY <1>2, <2>3 DEF Push, Goto, Unchanged
      <3> QED BY <2>2, <2>3, <3>1, WalkerBegins DEF Walking
    <2>4. CASE ~(word.waiting /\ ~word.waking)
      <3>1. pc' = [pc EXCEPT ![t] = "park"]
        BY <1>2, <2>4 DEF Push, Goto, Leave, Unchanged
      <3>2. \A u \in Thread : pc'[u] = pc[u] \/ (pc[u] \notin Walking /\ pc'[u] \notin Walking)
        BY <1>0, <3>1 DEF TypeOK, Walking
      <3> QED BY <2>2, <2>4, <3>2 DEF WalkerInv, Walker, Walking, Sound
    <2> QED BY <2>3, <2>4
  <1> QED BY <1>1, <1>2

\* The end of a walk.
LEMMA EndWalkWalker ==
  ASSUME TypeOK, Sound(word), WalkerInv, NEW t \in Thread,
         OptimizeDone(t) \/ WakeLocked(t) \/ WakeOne(t) \/ WakeAll(t)
  PROVE  WalkerInv'
  <1>0. Walker(t) /\ word.waiting /\ pc[t] \in Walking /\ (pc[t] = "wake" => ~word.multi)
    BY DEF OptimizeDone, WakeLocked, WakeOne, WakeAll, Walker, Walking, WalkerInv
  <1>1. CASE Unchanged(t) \/ WakeOne(t)
    <2>1. \E v \in {"idle", "park", "release"} : pc' = [pc EXCEPT ![t] = v]
      BY <1>1 DEF OptimizeDone, WakeLocked, WakeOne, WakeAll, Leave, Goto, TypeOK
    <2>2. word' = [word EXCEPT !.waking = FALSE] \/ word' = Free
      BY <1>1 DEF OptimizeDone, WakeLocked, WakeOne, WakeAll
    <2>3. ~word'.waking
      BY <2>2, SetWaking, SetFree DEF Sound
    <2> QED BY <1>0, <2>1, <2>3, WalkerEnds DEF Walking
  <1>2. CASE ~Unchanged(t) /\ ~WakeOne(t)
    <2>1. word' = word /\ pc' = [pc EXCEPT ![t] = IF word.locked THEN pc[t] ELSE "wake"]
      BY <1>2 DEF OptimizeDone, WakeLocked, WakeAll, Retry, Goto
    <2>2. ~word.locked => ~word.multi
      BY DEF Sound
    <2> QED BY <1>0, <2>1, <2>2, WalkerTurns DEF Walking
  <1> QED BY <1>1, <1>2

\* Walking, waking and waiting change no walker.
LEMMA StillWalker ==
  ASSUME TypeOK, WalkerInv, NEW t \in Thread,
         Park(t) \/ Walk(t) \/ WalkCount(t) \/ Uncount(t) \/ (Release(t) /\ p[t] \in Thread)
  PROVE  WalkerInv'
  <1>1. word' = word
    BY DEF Park, Walk, WalkCount, Uncount, Release
  <1>2. \A u \in Thread : pc'[u] = pc[u] \/ (pc[u] \notin Walking /\ pc'[u] \notin Walking)
    <2>1. CASE Walk(t) \/ WalkCount(t)
      BY <2>1 DEF Walk, WalkCount
    <2>2. CASE Park(t) \/ Uncount(t)
      BY <2>2 DEF Park, Uncount, Again, Leave, Goto, Walking, TypeOK
    <2>3. CASE Release(t) /\ p[t] \in Thread
      BY <2>3, ReleasePcs DEF Walking
    <2> QED BY <2>1, <2>2, <2>3
  <1> QED BY <1>1, <1>2, WalkersStay DEF Kept

\* A release begins a walk only if nobody walks.
LEMMA ClaimWalker ==
  ASSUME TypeOK, Sound(word), LocalInv, WalkerInv, NEW t \in Thread, ClaimWake(t) \/ LastReader(t),
         LastReader(t) /\ Unchanged(t) => word.waiting
  PROVE  WalkerInv'
  <1>0. pc[t] \notin Walking
    BY DEF ClaimWake, LastReader, Walking
  <1>1. CASE ~Unchanged(t)
    <2>1. word' = word /\ (pc' = [pc EXCEPT ![t] = "idle"] \/ pc' = pc)
      BY <1>1 DEF ClaimWake, LastReader, Leave, Goto
    <2>2. \A u \in Thread : pc'[u] = pc[u] \/ (pc[u] \notin Walking /\ pc'[u] \notin Walking)
      BY <1>0, <2>1 DEF TypeOK, Walking
    <2> QED BY <2>1, <2>2, WalkersStay DEF Kept
  <1>2. CASE Unchanged(t) /\ ClaimWake(t)
    <2>1. ~word.locked /\ word.waiting /\ ~word.waking
      BY <1>2 DEF ClaimWake, LocalInv, LocalAt, Unchanged
    <2>2. word' = [word EXCEPT !.waking = TRUE] /\ pc' = [pc EXCEPT ![t] = "wake"]
      BY <1>2 DEF ClaimWake, BeginWake, Goto
    <2>3. word'.waking /\ word'.waiting /\ ~word'.multi
      BY <2>1, <2>2, SetWaking DEF Sound
    <2> QED BY <2>1, <2>2, <2>3, WalkerBegins DEF Walking
  <1>3. CASE Unchanged(t) /\ LastReader(t)
    <2>1. word' = [word EXCEPT !.multi = FALSE, !.locked = FALSE, !.waking = TRUE]
      BY <1>3 DEF LastReader
    <2>2. word'.waking /\ word'.waiting = word.waiting /\ word.waiting /\ ~word'.multi
      BY <1>3, <2>1, SetLeft DEF Sound
    <2>3. CASE word.waking
      <3>1. pc' = [pc EXCEPT ![t] = "idle"]
        BY <1>3, <2>3 DEF LastReader, Leave, Goto, Unchanged
      <3>2. \A u \in Thread : pc'[u] = pc[u] \/ (pc[u] \notin Walking /\ pc'[u] \notin Walking)
        BY <1>0, <3>1 DEF TypeOK, Walking
      <3> QED BY <2>2, <2>3, <3>2 DEF WalkerInv, Walker, Walking
    <2>4. CASE ~word.waking
      <3>1. pc' = [pc EXCEPT ![t] = "wake"]
        BY <1>3, <2>4 DEF LastReader, BeginWake, Goto, Unchanged
      <3> QED BY <2>2, <2>4, <3>1, WalkerBegins DEF Walking
    <2> QED BY <2>3, <2>4
  <1> QED BY <1>1, <1>2, <1>3

\* A thread that will lock or wake does not lose its way by a step of another.
LEMMA MovingStays ==
  ASSUME TypeOK, NEW t \in Thread, NEW v, Alone(t, v), word' = word
  PROVE  \A u \in Thread : u # t => (Moving(u)' <=> Moving(u))
  BY DEF TypeOK, Alone, Moving, Unchanged

\* A step that leaves the word as it is, and its thread moving if it was.
LEMMA NobodyLost ==
  ASSUME TypeOK, NoLostWakeup, NEW t \in Thread, NEW v, Alone(t, v), word' = word,
         ~word.locked /\ word.waiting /\ Moving(t) => Moving(t)'
  PROVE  NoLostWakeup'
  BY MovingStays DEF NoLostWakeup

\* No step of an acquisition leaves a free lock with nobody to wake the waiters.
LEMMA AcquireLost ==
  ASSUME TypeOK, TypeOK', LocalInv, Sound(word), Sound(word'), NoLostWakeup, NEW t \in Thread,
         Call(t) \/ ReadExclusive(t) \/ LockExclusive(t) \/ ReadShared(t) \/ LockShared(t)
  PROVE  NoLostWakeup'
  <1>1. CASE word' # word
    <2>1. word' = [word EXCEPT !.locked = TRUE] \/ word' = OneReader \/ word' = Share(word)
      BY <1>1 DEF Call, AcquireExclusive, TryAcquireExclusive, TestAndSet, AcquireShared,
          TryAcquireShared,
                  FirstShared, ReadExclusive, LockExclusive, ReadShared, LockShared
    <2>2. word'.locked
      BY <2>1, SetLocked, SetFree, SetShare DEF Sound
    <2> QED BY <2>2 DEF NoLostWakeup
  <1>2. CASE word' = word
    <2>1. \E v \in {"heldX", "xread", "idle", "heldS", "sread", "tread", "xpush", "xcas", "spush", "tcas", "scas"} :
            /\ Alone(t, v)
            /\ pc[t] \in {"xread", "xcas", "sread", "scas"} /\ ~word.locked
                 => v \in {"xread", "xcas", "xpush", "sread", "scas", "spush"}
      <3>1. CASE Call(t)
        BY <3>1 DEF TypeOK, Alone, Call, AcquireExclusive, TryAcquireExclusive, TestAndSet,
            AcquireShared, TryAcquireShared,
             Consider, FirstShared, Goto, lists
      <3>2. CASE ReadExclusive(t) \/ ReadShared(t)
        BY <3>2 DEF TypeOK, Alone, Consider, ReadExclusive, ReadShared, Goto, lists, MustQueue
      <3>3. CASE LockExclusive(t)
        <4>1. Unchanged(t) => ~word.locked /\ word' = [word EXCEPT !.locked = TRUE]
          BY <3>3 DEF LockExclusive, LocalInv, LocalAt, Unchanged
        <4>2. ~Unchanged(t)
          BY <1>2, <4>1, SetLocked DEF Sound
        <4> QED BY <3>3, <4>2 DEF Alone, LockExclusive, Goto, lists
      <3>4. CASE LockShared(t)
        <4>1. Unchanged(t) => word' = Share(word)
          BY <3>4 DEF LockShared
        <4>2. Unchanged(t) => word'.locked
          BY <4>1, SetShare DEF Sound
        <4>3. CASE Unchanged(t)
          <5>1. Alone(t, "heldS") /\ word.locked
            BY <1>2, <3>4, <4>2, <4>3 DEF Alone, LockShared, Leave, Goto, lists, TypeOK
          <5> QED BY <5>1
        <4>4. CASE ~Unchanged(t)
          BY <3>4, <4>4 DEF Alone, LockShared, Goto, lists, TypeOK
        <4> QED BY <4>3, <4>4
      <3> QED BY <3>1, <3>2, <3>3, <3>4
    <2>2. pc[t] \in {"idle", "xread", "xcas", "sread", "scas", "tread", "tcas"} /\ then[t] # "park"
      BY DEF Call, AcquireExclusive, TryAcquireExclusive, TestAndSet, AcquireShared,
          TryAcquireShared,
             FirstShared, ReadExclusive, LockExclusive, ReadShared, LockShared, LocalInv, LocalAt
    <2>3. Moving(t) => pc[t] \in {"xread", "xcas", "sread", "scas"}
      BY <2>2 DEF Moving
    <2>4. ~word.locked /\ Moving(t) => Moving(t)'
      BY <2>1, <2>3 DEF TypeOK, Moving, Alone
    <2> QED BY <1>2, <2>1, <2>4, NobodyLost
  <1> QED BY <1>1, <1>2

\* Nor does queueing or going to the kernel.
LEMMA WaitLost ==
  ASSUME TypeOK, TypeOK', LocalInv, Sound(word), Sound(word'), NoLostWakeup, NEW t \in Thread,
         Push(t) \/ Park(t), Push(t) /\ Unchanged(t) => word.locked
  PROVE  NoLostWakeup'
  <1>1. CASE Push(t) /\ Unchanged(t)
    <2>1. word' = Queue(word, t)
      BY <1>1 DEF Push, Unchanged
    <2>2. word'.locked
      BY <1>1, <2>1, SetQueue DEF Sound
    <2> QED BY <2>2 DEF NoLostWakeup
  <1>2. CASE Push(t) /\ ~Unchanged(t)
    <2>1. word' = word /\ \E v \in {"xread", "sread"} : Alone(t, v)
      BY <1>2 DEF Push, Goto, Alone, lists
    <2>2. Moving(t)'
      BY <2>1 DEF TypeOK, Moving, Alone
    <2> QED BY <2>1, <2>2, NobodyLost
  <1>3. CASE Park(t)
    <2>1. word' = word /\ Alone(t, IF spin[t] THEN "blocked" ELSE Again(t)) /\ Again(t) \in {"xread", "sread"}
      BY <1>3 DEF Park, Goto, Alone, TypeOK, Again
    <2>2. Moving(t) => ~spin[t]
      BY <1>3 DEF Moving, Park
    <2>3. Moving(t) => Moving(t)'
      BY <2>1, <2>2 DEF TypeOK, Moving, Alone
    <2> QED BY <2>1, <2>3, NobodyLost
  <1> QED BY <1>1, <1>2, <1>3

\* Nor does the walk: the Waking bit is given back only to a lock that is held.
LEMMA WalkLost ==
  ASSUME TypeOK, TypeOK', LocalInv, WalkerInv, Sound(word), NoLostWakeup, NEW t \in Thread,
         Walk(t) \/ OptimizeDone(t) \/ WakeLocked(t) \/ WakeOne(t) \/ WakeAll(t)
  PROVE  NoLostWakeup'
  <1>0. word.waking /\ word.waiting
    BY DEF Walk, OptimizeDone, WakeLocked, WakeOne, WakeAll, WalkerInv, Walker
  <1>1. CASE word' = word
    BY <1>0, <1>1 DEF NoLostWakeup
  <1>2. CASE WakeOne(t)
    <2>1. pc'[t] = "release"
      BY <1>2 DEF WakeOne, Leave, Goto, TypeOK
    <2> QED BY <2>1 DEF NoLostWakeup, Moving
  <1>3. CASE word' = Free
    BY <1>3, SetFree DEF NoLostWakeup
  <1>4. CASE (OptimizeDone(t) \/ WakeLocked(t)) /\ word' # word
    <2>1. word.locked /\ word' = [word EXCEPT !.waking = FALSE]
      BY <1>4 DEF OptimizeDone, WakeLocked, LocalInv, LocalAt, Unchanged
    <2>2. word'.locked
      BY <2>1, SetWaking DEF Sound
    <2> QED BY <2>2 DEF NoLostWakeup
  <1> QED BY <1>1, <1>2, <1>3, <1>4 DEF Walk, WakeAll

\* Nor does the waker: whom it wakes will lock.
LEMMA ReleaseLost ==
  ASSUME TypeOK, TypeOK', LocalInv, NoLostWakeup, NEW t \in Thread, Release(t), p[t] \in Thread
  PROVE  NoLostWakeup'
  <1>0. PICK b \in Thread : b = p[t]
    OBVIOUS
  <1>1. ~spin'[b] /\ word' = word
    BY <1>0 DEF Release, TypeOK
  <1>2. Moving(b)'
    <2>1. CASE b # t /\ ~spin[b]
      <3>1. pc'[b] \in {"xread", "sread"}
        BY <1>0, <2>1, ReleasePcs
      <3> QED BY <3>1 DEF Moving
    <2>2. CASE b # t /\ spin[b]
      <3>1. pc'[b] = pc[b]
        BY <1>0, <2>2, ReleasePcs
      <3>2. then'[b] = then[b]
        BY <2>2 DEF Release, EndWalk, TypeOK
      <3>3. pc[b] = "park" \/ then[b] = "park"
        BY <2>2 DEF LocalInv, LocalAt
      <3> QED BY <1>1, <3>1, <3>2, <3>3 DEF Moving
    <2>3. CASE b = t
      <3>1. spin[t] /\ then[t] = "park"
        <4>1. p[t] = t /\ pc[t] = "release"
          BY <1>0, <2>3, ReleasePcs
        <4>2. spin[t]
          BY <4>1, ReleasePcs
        <4> QED BY <4>1, <4>2 DEF LocalInv, LocalAt
      <3>2. pc'[t] = "release" \/ pc'[t] = "park"
        BY <1>0, <3>1, ReleasePcs
      <3> QED BY <1>1, <2>3, <3>2 DEF Moving
    <2> QED BY <2>1, <2>2, <2>3
  <1> QED BY <1>2 DEF NoLostWakeup

\* Nor does a release.
LEMMA UnlockLost ==
  ASSUME TypeOK, TypeOK', LocalInv, Sound(word), Sound(word'), NoLostWakeup, NEW t \in Thread,
         \/ ReleaseExclusive(t) \/ ClaimWake(t) \/ ReleaseShared(t) \/ UncountReader(t)
         \/ WalkCount(t) \/ Uncount(t) \/ LastReader(t)
  PROVE  NoLostWakeup'
  <1>1. CASE ReleaseExclusive(t)
    <2>1. word' = [word EXCEPT !.locked = FALSE]
      BY <1>1 DEF ReleaseExclusive
    <2>2. word'.waiting = word.waiting /\ word'.waking = word.waking
      BY <2>1, SetLocked DEF Sound
    <2>3. word.waiting /\ ~word.waking => pc'[t] = "xwake" /\ old'[t] = word'
      BY <1>1 DEF ReleaseExclusive, Goto, TypeOK
    <2> QED BY <2>2, <2>3 DEF NoLostWakeup, Moving, Unchanged
  <1>2. CASE (ClaimWake(t) \/ LastReader(t)) /\ Unchanged(t)
    <2>1. \/ word' = [word EXCEPT !.waking = TRUE]
          \/ word' = [word EXCEPT !.multi = FALSE, !.locked = FALSE, !.waking = TRUE]
      BY <1>2 DEF ClaimWake, LastReader
    <2>2. word'.waking
      BY <2>1, SetWaking, SetLeft DEF Sound
    <2> QED BY <2>2 DEF NoLostWakeup
  <1>3. CASE ~word'.waiting
    BY <1>3 DEF NoLostWakeup
  <1>4. (~spin[t] /\ then[t] # "park") \/ pc[t] = "xwake"
    BY DEF ClaimWake, ReleaseExclusive, ReleaseShared, UncountReader, WalkCount, Uncount,
        LastReader, LocalInv, LocalAt
  <1>5. CASE ClaimWake(t) /\ ~Unchanged(t)
    <2>1. word' = word /\ Alone(t, "idle")
      BY <1>5 DEF ClaimWake, Leave, Goto, Alone, TypeOK, lists
    <2>2. ~Moving(t)
      BY <1>5 DEF ClaimWake, Moving, LocalInv, LocalAt
    <2> QED BY <2>1, <2>2, NobodyLost
  <1>6. CASE word' = word /\ (ReleaseShared(t) \/ UncountReader(t) \/ WalkCount(t) \/ Uncount(t) \/ LastReader(t))
    <2>1. pc[t] \in {"heldS", "srel", "swalk", "slast"}
      BY <1>6 DEF ReleaseShared, UncountReader, WalkCount, Uncount, LastReader
    <2>2. ~Moving(t)
      BY <2>1 DEF Moving, LocalInv, LocalAt
    <2>3. \E v : pc' = [pc EXCEPT ![t] = v]
      <3>1. CASE WalkCount(t) \/ LastReader(t)
        <4>1. pc' = pc \/ \E v : pc' = [pc EXCEPT ![t] = v]
          BY <3>1 DEF WalkCount, LastReader, Leave, BeginWake, Goto
        <4>2. pc = [pc EXCEPT ![t] = pc[t]]
          BY DEF TypeOK
        <4> QED BY <4>1, <4>2
      <3>2. CASE ReleaseShared(t) \/ UncountReader(t) \/ Uncount(t)
        BY <3>2 DEF ReleaseShared, UncountReader, Uncount, ConsiderRelease, Leave, Goto
      <3> QED BY <1>6, <3>1, <3>2
    <2>4. \A u \in Thread : u # t => old'[u] = old[u] /\ spin'[u] = spin[u] /\ then'[u] = then[u]
      BY <1>6 DEF ReleaseShared, UncountReader, WalkCount, Uncount, LastReader, lists, TypeOK,
          ConsiderRelease,
         Leave, BeginWake
    <2> QED BY <1>6, <2>2, <2>3, <2>4, NobodyLost DEF Alone
  <1>7. CASE ReleaseShared(t) /\ word' # word
    <2>1. word' = Free
      BY <1>7 DEF ReleaseShared
    <2> QED BY <1>3, <2>1, SetFree
  <1>8. CASE UncountReader(t) /\ word' # word
    <2>1. Unchanged(t) /\ ~word.waiting
      BY <1>8 DEF UncountReader, LocalInv, LocalAt, Unchanged
    <2>2. Kept
      BY <1>8, QuietKept
    <2> QED BY <1>3, <2>1, <2>2 DEF Kept
  <1>9. CASE LastReader(t) /\ ~Unchanged(t)
    BY <1>6, <1>9 DEF LastReader
  <1> QED BY <1>1, <1>2, <1>5, <1>6, <1>7, <1>8, <1>9 DEF WalkCount, Uncount

-----------------------------------------------------------------------------
(* The list of waiters, and where the walks stand in it.  The blocks are   *)
(* numbered in the order in which they were queued: q[i] is the block with *)
(* number i, pos[b] the number of the block of thread b.  Those on the     *)
(* list have the numbers lo .. hi and the walks may stop at number m.      *)
(* Thread t stands at number c[t] of a walk that began, or of a list that  *)
(* ends, at number k[t].                                                   *)

Ghosts(q, pos, lo, hi, m, c, k) ==
  /\ q \in [Nat -> Block] /\ pos \in [Thread -> Nat]
  /\ lo \in Nat /\ hi \in Nat /\ m \in Nat /\ lo > 0
  /\ c \in [Thread -> Nat] /\ k \in [Thread -> Nat]

\* The word names the newest block, and one block on the way names the oldest.
Ends(q, lo, hi, m) ==
  /\ lo <= hi + 1
  /\ word.waiting <=> lo <= hi
  /\ lo <= hi => /\ lo <= m /\ m <= hi
                 /\ notify[q[m]] = q[lo]
                 /\ next[q[hi]] = Null
                 /\ word.block = q[hi]
  /\ word.multi => notify[q[lo]] = q[lo]

LinkAt(q, lo, hi, m, i) ==
  /\ i > m => notify[q[i]] = Null /\ back[q[i]] = q[i-1]
  /\ i < m => next[q[i]] = q[i+1]
  /\ i < hi => next[q[i]] \in {Null, q[i+1]}
  /\ word.multi => /\ notify[q[i]] \in {Null, q[lo]}
                   /\ i > lo => back[q[i]] = q[i-1]

Linked(q, lo, hi, m) == \A i \in lo .. hi : LinkAt(q, lo, hi, m, i)

\* Block number i belongs to a thread that waits.
On(q, pos, i) == q[i] \in Thread /\ Queued(q[i]) /\ pos[q[i]] = i

Live(q, pos, lo, hi) == \A i \in lo .. hi : On(q, pos, i)

\* Whoever waits is on the list, or on one that a waker took.
KnownAt(q, pos, lo, hi, c, k, b) ==
  Queued(b) => /\ q[pos[b]] = b
               /\ \/ pos[b] \in lo .. hi
                  \/ \E t \in Thread : pc[t] = "release" /\ pos[b] \in c[t] .. k[t]

Known(q, pos, lo, hi, c, k) == \A b \in Thread : KnownAt(q, pos, lo, hi, c, k, b)

Strung(q, a, b) == \A i \in Nat : a <= i /\ i < b => next[q[i]] = q[i+1]

WalkAt(q, hi, m, a, b, t) ==
  /\ m <= a /\ a <= b /\ b <= hi
  /\ p[t] = q[a] /\ old[t].block = q[b] /\ next[q[b]] = Null /\ Strung(q, a, b)
  /\ pc[t] = "wake" /\ old[t].locked => a = b

CountAt(q, lo, hi, a, t) == word.multi /\ lo <= a /\ a <= hi /\ p[t] = q[a]

WakeAt(q, pos, lo, a, b, t) ==
  /\ a <= b /\ b < lo
  /\ p[t] = q[a] /\ next[q[b]] = Null /\ Strung(q, a, b)
  /\ \A i \in a .. b : On(q, pos, i)

Cursor(q, pos, lo, hi, m, a, b, t) ==
  /\ Walker(t) => WalkAt(q, hi, m, a, b, t)
  /\ pc[t] = "swalk" => CountAt(q, lo, hi, a, t)
  /\ pc[t] = "release" => WakeAt(q, pos, lo, a, b, t)

Cursors(q, pos, lo, hi, m, c, k) == \A t \in Thread : Cursor(q, pos, lo, hi, m, c[t], k[t], t)

\* No two wakers have taken the same block.
Apart(c, k) ==
  \A t, u \in Thread : t # u /\ pc[t] = "release" /\ pc[u] = "release" => k[t] < c[u] \/ k[u] < c[t]

Listed(q, pos, lo, hi, m, c, k) ==
  /\ Ghosts(q, pos, lo, hi, m, c, k)
  /\ Ends(q, lo, hi, m)
  /\ Linked(q, lo, hi, m)
  /\ Live(q, pos, lo, hi)
  /\ Known(q, pos, lo, hi, c, k)
  /\ Cursors(q, pos, lo, hi, m, c, k)
  /\ Apart(c, k)

-----------------------------------------------------------------------------
(* What a step of one thread leaves alone.                                 *)

\* The threads other than t stay where they are.
Others(t) ==
  \A u \in Thread : u # t => pc'[u] = pc[u] /\ p'[u] = p[u] /\ old'[u] = old[u]

SameQueued == \A b \in Thread : Queued(b)' <=> Queued(b)

\* The blocks on the list still wait.
LEMMA LiveStays ==
  ASSUME NEW q, NEW pos, NEW lo, NEW hi, SameQueued, Live(q, pos, lo, hi)
  PROVE  Live(q, pos, lo, hi)'
  BY DEF Live, On, SameQueued

\* A waiter stays where it is when another thread moves.
LEMMA KnownStays ==
  ASSUME NEW q, NEW pos, NEW lo, NEW hi, NEW m, NEW c, NEW k, SameQueued,
         Known(q, pos, lo, hi, c, k), Ghosts(q, pos, lo, hi, m, c, k),
         NEW t \in Thread, NEW a, NEW b, NEW c1, NEW k1, c1 = [c EXCEPT ![t] = a], k1 = [k EXCEPT ![t] = b],
         Others(t), pc[t] # "release"
  PROVE  Known(q, pos, lo, hi, c1, k1)'
  <1> SUFFICES ASSUME NEW x \in Thread, Queued(x)
               PROVE  KnownAt(q, pos, lo, hi, c1, k1, x)'
    BY DEF Known, KnownAt, SameQueued
  <1>1. KnownAt(q, pos, lo, hi, c, k, x)
    BY DEF Known
  <1>2. CASE pos[x] \in lo .. hi
    BY <1>1, <1>2 DEF KnownAt
  <1>3. CASE pos[x] \notin lo .. hi
    <2>1. PICK u \in Thread : pc[u] = "release" /\ pos[x] \in c[u] .. k[u]
      BY <1>1, <1>3 DEF KnownAt
    <2>2. u # t
      BY <2>1
    <2>3. pc'[u] = "release" /\ c1[u] = c[u] /\ k1[u] = k[u]
      BY <2>1, <2>2 DEF Others, Ghosts
    <2> QED BY <1>1, <2>1, <2>3 DEF KnownAt
  <1> QED BY <1>2, <1>3

\* Wakers keep apart when a thread moves that is none.
LEMMA ApartStays ==
  ASSUME NEW q, NEW pos, NEW lo, NEW hi, NEW m, NEW c, NEW k,
         Apart(c, k), Ghosts(q, pos, lo, hi, m, c, k),
         NEW t \in Thread, NEW a, NEW b, NEW c1, NEW k1, c1 = [c EXCEPT ![t] = a], k1 = [k EXCEPT ![t] = b],
         Others(t), pc'[t] # "release"
  PROVE  Apart(c1, k1)'
  <1> SUFFICES ASSUME NEW u \in Thread, NEW v \in Thread, u # v, pc'[u] = "release", pc'[v] = "release"
               PROVE  k1[u] < c1[v] \/ k1[v] < c1[u]
    BY DEF Apart
  <1>1. u # t /\ v # t
    OBVIOUS
  <1>2. pc[u] = "release" /\ pc[v] = "release"
    BY <1>1 DEF Others
  <1>3. c1[u] = c[u] /\ c1[v] = c[v] /\ k1[u] = k[u] /\ k1[v] = k[v]
    BY <1>1 DEF Ghosts
  <1> QED BY <1>2, <1>3 DEF Apart

\* A thread that stays where it is, when only links are kept and m may move towards older blocks.
LEMMA CursorStays ==
  ASSUME NEW q, NEW pos, NEW lo, NEW hi, NEW m, NEW a, NEW b, NEW u \in Thread,
         Cursor(q, pos, lo, hi, m, a, b, u), SameQueued, next' = next,
         pc'[u] = pc[u], p'[u] = p[u], old'[u] = old[u],
         pc[u] = "swalk" => word'.multi
  PROVE  Cursor(q, pos, lo, hi, m, a, b, u)'
  <1>1. Walker(u)' <=> Walker(u)
    BY DEF Walker
  <1>2. Strung(q, a, b)' <=> Strung(q, a, b)
    BY DEF Strung
  <1>3. ASSUME NEW i, On(q, pos, i) PROVE On(q, pos, i)'
    BY <1>3 DEF On, SameQueued
  <1>4. Walker(u)' => WalkAt(q, hi, m, a, b, u)'
    BY <1>1, <1>2 DEF Cursor, WalkAt
  <1>5. pc'[u] = "swalk" => CountAt(q, lo, hi, a, u)'
    BY DEF Cursor, CountAt
  <1>6. pc'[u] = "release" => WakeAt(q, pos, lo, a, b, u)'
    BY <1>2, <1>3 DEF Cursor, WakeAt
  <1> QED BY <1>4, <1>5, <1>6 DEF Cursor

\* The cursors of all threads, when one moves.
LEMMA CursorsStay ==
  ASSUME NEW q, NEW pos, NEW lo, NEW hi, NEW m, NEW c, NEW k, Ghosts(q, pos, lo, hi, m, c, k),
         Cursors(q, pos, lo, hi, m, c, k), SameQueued, next' = next,
         NEW t \in Thread, NEW a, NEW b, NEW c1, NEW k1, c1 = [c EXCEPT ![t] = a], k1 = [k EXCEPT ![t] = b],
         Others(t), \A u \in Thread : u # t /\ pc[u] = "swalk" => word'.multi,
         Cursor(q, pos, lo, hi, m, a, b, t)'
  PROVE  Cursors(q, pos, lo, hi, m, c1, k1)'
  <1> SUFFICES ASSUME NEW u \in Thread
               PROVE  Cursor(q, pos, lo, hi, m, c1[u], k1[u], u)'
    BY DEF Cursors
  <1>1. CASE u = t
    <2>1. c1[u] = a /\ k1[u] = b
      BY <1>1 DEF Ghosts
    <2> QED BY <1>1, <2>1
  <1>2. CASE u # t
    <2>1. c1[u] = c[u] /\ k1[u] = k[u]
      BY <1>2 DEF Ghosts
    <2>2. Cursor(q, pos, lo, hi, m, c[u], k[u], u)
      BY DEF Cursors
    <2>3. Cursor(q, pos, lo, hi, m, c[u], k[u], u)'
      BY <1>2, <2>2, CursorStays DEF Others
    <2> QED BY <2>1, <2>3
  <1> QED BY <1>1, <1>2

\* A step of t that touches no link: where t itself stands is what is left to show.
LEMMA TurnListed ==
  ASSUME NEW q, NEW pos, NEW lo, NEW hi, NEW m, NEW c, NEW k, Listed(q, pos, lo, hi, m, c, k),
         NEW t \in Thread, NEW a \in Nat, NEW b \in Nat,
         NEW c1, NEW k1, c1 = [c EXCEPT ![t] = a], k1 = [k EXCEPT ![t] = b],
         UNCHANGED <<back, notify, next>>,
         word'.waiting = word.waiting, word'.block = word.block, word'.multi => word.multi,
         Others(t), SameQueued,
         \A u \in Thread : u # t /\ pc[u] = "swalk" => word'.multi,
         pc[t] # "release", pc'[t] # "release",
         Cursor(q, pos, lo, hi, m, a, b, t)'
  PROVE  Listed(q, pos, lo, hi, m, c1, k1)'
  <1> USE DEF Listed
  <1>1. Ghosts(q, pos, lo, hi, m, c1, k1)
    BY DEF Ghosts
  <1>2. Ends(q, lo, hi, m)'
    BY DEF Ends
  <1>3. Linked(q, lo, hi, m)'
    BY DEF Linked, LinkAt
  <1>4. Live(q, pos, lo, hi)'
    BY LiveStays
  <1>5. Known(q, pos, lo, hi, c1, k1)'
    BY KnownStays
  <1>6. Cursors(q, pos, lo, hi, m, c1, k1)'
    BY CursorsStay
  <1>7. Apart(c1, k1)'
    BY ApartStays
  <1> QED BY <1>1, <1>2, <1>3, <1>4, <1>5, <1>6, <1>7 DEF Ghosts

\* A walk that begins at the newest block of the word.
LEMMA CursorBegins ==
  ASSUME NEW q, NEW pos, NEW lo, NEW hi, NEW m, NEW c, NEW k, Listed(q, pos, lo, hi, m, c, k),
         NEW t \in Thread, word.waiting, p'[t] = word.block,
         pc'[t] \in {"optimize", "wake"} => old'[t].block = word.block,
         pc'[t] = "swalk" => word'.multi, pc'[t] # "release", next' = next
  PROVE  Cursor(q, pos, lo, hi, m, hi, hi, t)'
  <1>1. lo \in Nat /\ hi \in Nat /\ m \in Nat /\ lo <= hi /\ m <= hi /\ next[q[hi]] = Null /\ word.block = q[hi]
    BY DEF Listed, Ghosts, Ends
  <1>2. Strung(q, hi, hi)'
    BY <1>1 DEF Strung
  <1>3. Walker(t)' => WalkAt(q, hi, m, hi, hi, t)'
    BY <1>1, <1>2 DEF Walker, WalkAt
  <1>4. pc'[t] = "swalk" => CountAt(q, lo, hi, hi, t)'
    BY <1>1 DEF CountAt
  <1> QED BY <1>3, <1>4 DEF Cursor

\* A thread that does not walk.
LEMMA NoCursor ==
  ASSUME NEW q, NEW pos, NEW lo, NEW hi, NEW m, NEW a, NEW b, NEW t,
         pc'[t] \notin {"optimize", "wake", "swalk", "release"}
  PROVE  Cursor(q, pos, lo, hi, m, a, b, t)'
  BY DEF Cursor, Walker

-----------------------------------------------------------------------------
(* The steps that touch no link.                                           *)

\* Who moves outside of the kernel leaves the waiters as they are.
LEMMA QueuedStays ==
  ASSUME TypeOK, NEW t \in Thread, NEW v, pc' = [pc EXCEPT ![t] = v],
         pc[t] # "blocked", v # "blocked", spin' = spin
  PROVE  SameQueued
  BY DEF TypeOK, SameQueued, Queued

\* Acquiring leaves the list.
LEMMA QuietListed ==
  ASSUME TypeOK, Kept,
         NEW q, NEW pos, NEW lo, NEW hi, NEW m, NEW c, NEW k, Listed(q, pos, lo, hi, m, c, k),
         NEW t \in Thread,
         NEW c1, NEW k1, c1 = [c EXCEPT ![t] = hi], k1 = [k EXCEPT ![t] = hi],
         \/ Call(t) \/ ReadExclusive(t) \/ LockExclusive(t) \/ ReadShared(t) \/ LockShared(t)
         \/ ReleaseExclusive(t)
  PROVE  Listed(q, pos, lo, hi, m, c1, k1)'
  <1>1. \E v \in {"heldX", "xread", "idle", "heldS", "sread", "tread", "xpush", "xcas", "spush", "tcas", "scas",
                  "xwake"} :
          pc' = [pc EXCEPT ![t] = v]
    BY DEF Call, AcquireExclusive, TryAcquireExclusive, TestAndSet, AcquireShared, TryAcquireShared,
           Consider, FirstShared, ReadExclusive, LockExclusive, ReadShared, LockShared,
           ReleaseExclusive, Goto, Leave
  <1>2. pc[t] \in {"idle", "xread", "xcas", "sread", "tread", "scas", "tcas", "heldX"}
    BY DEF Call, AcquireExclusive, TryAcquireExclusive, TestAndSet, AcquireShared, TryAcquireShared,
           FirstShared, ReadExclusive, LockExclusive, ReadShared, LockShared, ReleaseExclusive
  <1>3. UNCHANGED <<back, notify, next, spin, p>>
    BY DEF Call, AcquireExclusive, TryAcquireExclusive, TestAndSet, AcquireShared, TryAcquireShared,
           FirstShared, ReadExclusive, LockExclusive, ReadShared, LockShared, ReleaseExclusive,
           lists
  <1>4. old' = old \/ \E w : old' = [old EXCEPT ![t] = w]
    BY DEF Call, AcquireExclusive, TryAcquireExclusive, TestAndSet, AcquireShared, TryAcquireShared,
           Consider, FirstShared, ReadExclusive, LockExclusive, ReadShared, LockShared,
           ReleaseExclusive, Leave
  <1>5. SameQueued
    BY <1>1, <1>2, <1>3, QueuedStays
  <1>6. Others(t)
    BY <1>1, <1>3, <1>4 DEF Others, TypeOK
  <1>7. pc'[t] \notin {"optimize", "wake", "swalk", "release"}
    BY <1>1 DEF TypeOK
  <1>8. hi \in Nat /\ Cursor(q, pos, lo, hi, m, hi, hi, t)'
    BY <1>7, NoCursor DEF Listed, Ghosts
  <1>9. \A u \in Thread : pc[u] = "swalk" => word'.multi
    BY DEF Kept, Listed, Cursors, Cursor, CountAt
  <1> HIDE DEF Listed
  <1> QED BY <1>2, <1>3, <1>5, <1>6, <1>7, <1>8, <1>9, TurnListed DEF Kept

\* Where a reader stands that has seen the word as it is.
LEMMA ConsiderCursor ==
  ASSUME TypeOK, word' = word, Sound(word), UNCHANGED next,
         NEW q, NEW pos, NEW lo, NEW hi, NEW m, NEW c, NEW k, Listed(q, pos, lo, hi, m, c, k),
         NEW t \in Thread, ConsiderRelease(t)
  PROVE  Cursor(q, pos, lo, hi, m, hi, hi, t)' /\ pc'[t] \in {"srel", "swalk", "slast"}
  <1>1. pc'[t] \in {"srel", "swalk", "slast"}
    BY DEF ConsiderRelease, Goto, TypeOK
  <1>2. CASE word.waiting /\ word.multi
    <2>1. p'[t] = word.block
      BY <1>2 DEF ConsiderRelease, TypeOK
    <2> QED BY <1>1, <1>2, <2>1, CursorBegins
  <1>3. CASE ~(word.waiting /\ word.multi)
    <2>1. pc'[t] # "swalk"
      BY <1>3 DEF ConsiderRelease, Goto, TypeOK
    <2> QED BY <1>1, <2>1, NoCursor
  <1> QED BY <1>1, <1>2, <1>3

\* A reader begins its walk at the newest block.
LEMMA ReleaseSharedListed ==
  ASSUME TypeOK, Kept, Sound(word),
         NEW q, NEW pos, NEW lo, NEW hi, NEW m, NEW c, NEW k, Listed(q, pos, lo, hi, m, c, k),
         NEW t \in Thread,
         NEW c1, NEW k1, c1 = [c EXCEPT ![t] = hi], k1 = [k EXCEPT ![t] = hi],
         ReleaseShared(t) \/ UncountReader(t)
  PROVE  Listed(q, pos, lo, hi, m, c1, k1)'
  <1>1. pc[t] \in {"heldS", "srel"} /\ UNCHANGED lists
    BY DEF ReleaseShared, UncountReader
  <1>2. \/ ConsiderRelease(t) /\ word' = word
        \/ Leave(t, "idle") /\ UNCHANGED p
    BY DEF ReleaseShared, UncountReader
  <1>3. \E v \in {"idle", "srel", "swalk", "slast"} : pc' = [pc EXCEPT ![t] = v]
    BY <1>2 DEF ConsiderRelease, Leave, Goto
  <1>4. SameQueued
    BY <1>1, <1>3, QueuedStays DEF lists
  <1>5. Others(t)
    BY <1>2, <1>3 DEF Others, TypeOK, ConsiderRelease, Leave
  <1>6. Cursor(q, pos, lo, hi, m, hi, hi, t)'
    <2>1. CASE ConsiderRelease(t) /\ word' = word
      BY <1>1, <2>1, ConsiderCursor DEF lists
    <2>2. CASE Leave(t, "idle")
      <3>1. pc'[t] = "idle"
        BY <2>2 DEF Leave, Goto, TypeOK
      <3> QED BY <3>1, NoCursor
    <2> QED BY <1>2, <2>1, <2>2
  <1>7. \A u \in Thread : pc[u] = "swalk" => word'.multi
    BY DEF Kept, Listed, Cursors, Cursor, CountAt
  <1>8. hi \in Nat /\ pc'[t] # "release"
    BY <1>3 DEF Listed, Ghosts, TypeOK
  <1> QED BY <1>1, <1>4, <1>5, <1>6, <1>7, <1>8, TurnListed DEF Kept, lists

\* Threads that go for a walk of the list with the word as they left it.
LEMMA LastReaderListed ==
  ASSUME TypeOK, LocalInv, Sound(word), Sound(word'),
         NEW q, NEW pos, NEW lo, NEW hi, NEW m, NEW c, NEW k, Listed(q, pos, lo, hi, m, c, k),
         NEW t \in Thread,
         NEW c1, NEW k1, c1 = [c EXCEPT ![t] = hi], k1 = [k EXCEPT ![t] = hi],
         LastReader(t) \/ ClaimWake(t),
         LastReader(t) /\ Unchanged(t) => Readers = {} /\ word.waiting
  PROVE  Listed(q, pos, lo, hi, m, c1, k1)'
  <1>1. pc[t] \in {"slast", "xwake"} /\ UNCHANGED lists
    BY DEF LastReader, ClaimWake
  <1>2. \E v \in {"idle", "slast", "wake"} : pc' = [pc EXCEPT ![t] = v]
    BY <1>1 DEF LastReader, ClaimWake, BeginWake, Leave, Goto, TypeOK
  <1>3. SameQueued
    BY <1>1, <1>2, QueuedStays DEF lists
  <1>4. Others(t)
    BY <1>2 DEF Others, TypeOK, LastReader, ClaimWake, BeginWake, Leave
  <1>5. word'.waiting = word.waiting /\ word'.block = word.block /\ (word'.multi => word.multi)
    BY DEF LastReader, ClaimWake, Sound, Words
  <1>6. pc'[t] = "wake" => word.waiting /\ p'[t] = word.block /\ old'[t].block = word.block
    <2>1. CASE LastReader(t) /\ Unchanged(t)
      <3>1. CASE Leave(t, "idle")
        BY <3>1 DEF Leave, Goto, TypeOK
      <3>2. CASE BeginWake(t, word')
        <4>1. old' = [old EXCEPT ![t] = word'] /\ p' = [p EXCEPT ![t] = word'.block]
          BY <3>2 DEF BeginWake
        <4> QED BY <1>5, <2>1, <4>1 DEF TypeOK
      <3> QED BY <2>1, <3>1, <3>2 DEF LastReader
    <2>2. CASE ClaimWake(t) /\ Unchanged(t)
      <3>1. word.waiting
        BY <2>2 DEF ClaimWake, LocalInv, LocalAt, Unchanged
      <3>2. BeginWake(t, word')
        BY <2>2 DEF ClaimWake
      <3>3. old' = [old EXCEPT ![t] = word'] /\ p' = [p EXCEPT ![t] = word'.block]
        BY <3>2 DEF BeginWake
      <3> QED BY <1>5, <3>1, <3>3 DEF TypeOK
    <2>3. CASE ~Unchanged(t)
      BY <1>1, <2>3 DEF LastReader, ClaimWake, Leave, Goto, TypeOK
    <2> QED BY <2>1, <2>2, <2>3
  <1>7. Cursor(q, pos, lo, hi, m, hi, hi, t)'
    <2>1. CASE pc'[t] = "wake"
      BY <1>1, <1>6, <2>1, CursorBegins DEF lists
    <2>2. CASE pc'[t] # "wake"
      <3>1. pc'[t] \notin {"optimize", "wake", "swalk", "release"}
        BY <1>2, <2>2 DEF TypeOK
      <3> QED BY <3>1, NoCursor
    <2> QED BY <2>1, <2>2
  <1>8. \A u \in Thread : u # t /\ pc[u] = "swalk" => word'.multi
    <2>1. CASE word'.multi = word.multi
      BY <2>1 DEF Listed, Cursors, Cursor, CountAt
    <2>2. CASE LastReader(t) /\ Unchanged(t)
      BY <2>2 DEF Readers
    <2>3. CASE ~(LastReader(t) /\ Unchanged(t))
      <3>1. word'.multi = word.multi
        BY <2>3 DEF LastReader, ClaimWake, Sound, Words
      <3> QED BY <2>1, <3>1
    <2> QED BY <2>2, <2>3
  <1>9. hi \in Nat /\ pc'[t] # "release"
    BY <1>2 DEF Listed, Ghosts, TypeOK
  <1> QED BY <1>1, <1>3, <1>4, <1>5, <1>7, <1>8, <1>9, TurnListed DEF lists

\* A waker that finds the lock taken again.
LEMMA WakeLockedListed ==
  ASSUME TypeOK, WalkerInv, Sound(word),
         NEW q, NEW pos, NEW lo, NEW hi, NEW m, NEW c, NEW k, Listed(q, pos, lo, hi, m, c, k),
         NEW t \in Thread,
         NEW c1, NEW k1, c1 = [c EXCEPT ![t] = hi], k1 = [k EXCEPT ![t] = hi],
         WakeLocked(t)
  PROVE  Listed(q, pos, lo, hi, m, c1, k1)'
  <1>1. pc[t] = "wake" /\ UNCHANGED lists /\ word.waiting
    BY DEF WakeLocked, WalkerInv, Walker
  <1>2. \E v \in {"idle", "park", "optimize", "wake"} : pc' = [pc EXCEPT ![t] = v]
    BY <1>1 DEF WakeLocked, Retry, Leave, Goto, TypeOK
  <1>3. SameQueued
    BY <1>1, <1>2, QueuedStays DEF lists
  <1>4. Others(t)
    BY <1>2 DEF Others, TypeOK, WakeLocked, Retry, EndWalk, Leave
  <1>5. word'.waiting = word.waiting /\ word'.block = word.block /\ word'.multi = word.multi
    BY DEF WakeLocked, Sound, Words
  <1>6. pc'[t] \in {"optimize", "wake"} => p'[t] = word.block /\ old'[t].block = word.block
    BY DEF WakeLocked, Leave, Goto, Retry, TypeOK
  <1>7. Cursor(q, pos, lo, hi, m, hi, hi, t)'
    <2>1. CASE pc'[t] \in {"optimize", "wake"}
      BY <1>1, <1>6, <2>1, CursorBegins DEF lists
    <2>2. CASE pc'[t] \notin {"optimize", "wake"}
      <3>1. pc'[t] \notin {"optimize", "wake", "swalk", "release"}
        BY <1>2, <2>2 DEF TypeOK
      <3> QED BY <3>1, NoCursor
    <2> QED BY <2>1, <2>2
  <1>8. \A u \in Thread : pc[u] = "swalk" => word'.multi
    BY <1>5 DEF Listed, Cursors, Cursor, CountAt
  <1>9. hi \in Nat /\ pc'[t] # "release"
    BY <1>2 DEF Listed, Ghosts, TypeOK
  <1> QED BY <1>1, <1>3, <1>4, <1>5, <1>7, <1>8, <1>9, TurnListed DEF lists

\* After the spin.
LEMMA ParkListed ==
  ASSUME TypeOK,
         NEW q, NEW pos, NEW lo, NEW hi, NEW m, NEW c, NEW k, Listed(q, pos, lo, hi, m, c, k),
         NEW t \in Thread,
         NEW c1, NEW k1, c1 = [c EXCEPT ![t] = hi], k1 = [k EXCEPT ![t] = hi],
         Park(t)
  PROVE  Listed(q, pos, lo, hi, m, c1, k1)'
  <1>1. pc[t] = "park" /\ UNCHANGED <<word, back, notify, next, old, p>> /\ spin' = [spin EXCEPT ![t] = FALSE]
    BY DEF Park
  <1>2. pc' = [pc EXCEPT ![t] = IF spin[t] THEN "blocked" ELSE Again(t)] /\ Again(t) \in {"xread", "sread"}
    BY DEF Park, Goto, Again
  <1>3. SameQueued
    <2> SUFFICES ASSUME NEW b \in Thread PROVE Queued(b)' <=> Queued(b)
      BY DEF SameQueued
    <2>1. CASE b = t
      BY <1>1, <1>2, <2>1 DEF TypeOK, Queued
    <2>2. CASE b # t
      BY <1>1, <1>2, <2>2 DEF TypeOK, Queued
    <2> QED BY <2>1, <2>2
  <1>4. Others(t)
    BY <1>1, <1>2 DEF Others, TypeOK
  <1>5. pc'[t] \notin {"optimize", "wake", "swalk", "release"}
    BY <1>2 DEF TypeOK
  <1>6. hi \in Nat /\ Cursor(q, pos, lo, hi, m, hi, hi, t)'
    BY <1>5, NoCursor DEF Listed, Ghosts
  <1>7. \A u \in Thread : pc[u] = "swalk" => word'.multi
    BY <1>1 DEF Listed, Cursors, Cursor, CountAt
  <1> QED BY <1>1, <1>3, <1>4, <1>5, <1>6, <1>7, TurnListed

\* A reader finds the oldest block through pointers that nobody changes under it.
LEMMA CountFinds ==
  ASSUME NEW q, NEW pos, NEW lo, NEW hi, NEW m, NEW c, NEW k, Listed(q, pos, lo, hi, m, c, k),
         NEW t \in Thread,
         pc[t] = "swalk"
  PROVE  /\ word.multi /\ p[t] = q[c[t]] /\ c[t] \in lo .. hi /\ p[t] \in Thread /\ q[lo] \in Thread
         /\ notify[p[t]] = Null => c[t] > lo /\ back[p[t]] = q[c[t] - 1]
         /\ notify[p[t]] # Null => notify[p[t]] = q[lo]
  <1>1. lo \in Nat /\ hi \in Nat /\ c[t] \in Nat
    BY DEF Listed, Ghosts
  <1>2. CountAt(q, lo, hi, c[t], t)
    BY DEF Listed, Cursors, Cursor
  <1>3. word.multi /\ p[t] = q[c[t]] /\ c[t] \in lo .. hi /\ lo \in lo .. hi
    BY <1>1, <1>2 DEF CountAt
  <1>4. On(q, pos, c[t]) /\ On(q, pos, lo)
    BY <1>3 DEF Listed, Live
  <1>5. LinkAt(q, lo, hi, m, c[t]) /\ notify[q[lo]] = q[lo]
    BY <1>3 DEF Listed, Linked, Ends
  <1>6. q[lo] \in Thread /\ p[t] \in Thread /\ q[lo] # Null
    BY <1>3, <1>4, NullIsNoThread DEF On
  <1>7. notify[p[t]] = Null => c[t] > lo
    BY <1>1, <1>3, <1>5, <1>6
  <1> QED BY <1>3, <1>5, <1>6, <1>7 DEF LinkAt

\* One turn of a reader's walk to the count.
LEMMA WalkCountListed ==
  ASSUME TypeOK,
         NEW q, NEW pos, NEW lo, NEW hi, NEW m, NEW c, NEW k, Listed(q, pos, lo, hi, m, c, k),
         NEW t \in Thread,
         NEW c1, NEW k1, c1 = [c EXCEPT ![t] = c[t] - 1], k1 = [k EXCEPT ![t] = k[t]],
         WalkCount(t)
  PROVE  Listed(q, pos, lo, hi, m, c1, k1)'
  <1>1. /\ pc[t] = "swalk" /\ notify[p[t]] = Null /\ p' = [p EXCEPT ![t] = back[p[t]]]
        /\ UNCHANGED <<word, pc, old, lists>>
    BY DEF WalkCount
  <1>2. word.multi /\ c[t] > lo /\ c[t] <= hi /\ back[p[t]] = q[c[t] - 1]
    BY <1>1, CountFinds
  <1>3. lo \in Nat /\ hi \in Nat /\ c[t] \in Nat /\ k[t] \in Nat
    BY DEF Listed, Ghosts
  <1>4. c[t] - 1 \in Nat /\ lo <= c[t] - 1 /\ c[t] - 1 <= hi
    BY <1>2, <1>3
  <1>5. CountAt(q, lo, hi, c[t] - 1, t)'
    BY <1>1, <1>2, <1>4 DEF CountAt, TypeOK
  <1>6. Cursor(q, pos, lo, hi, m, c[t] - 1, k[t], t)'
    BY <1>1, <1>5 DEF Cursor, Walker
  <1>7. SameQueued /\ Others(t)
    BY <1>1 DEF SameQueued, Queued, lists, Others, TypeOK
  <1>8. \A u \in Thread : pc[u] = "swalk" => word'.multi
    BY <1>1 DEF Listed, Cursors, Cursor, CountAt
  <1> QED BY <1>1, <1>3, <1>4, <1>6, <1>7, <1>8, TurnListed DEF lists

\* A reader that has found the count leaves the list.
LEMMA UncountListed ==
  ASSUME TypeOK,
         NEW q, NEW pos, NEW lo, NEW hi, NEW m, NEW c, NEW k, Listed(q, pos, lo, hi, m, c, k),
         NEW t \in Thread,
         NEW c1, NEW k1, c1 = [c EXCEPT ![t] = hi], k1 = [k EXCEPT ![t] = hi],
         Uncount(t)
  PROVE  Listed(q, pos, lo, hi, m, c1, k1)'
  <1>1. /\ pc[t] = "swalk" /\ p' = [p EXCEPT ![t] = Null]
        /\ UNCHANGED <<word, back, notify, next, spin>>
    BY DEF Uncount
  <1>2. \E v \in {"idle", "slast"} : pc' = [pc EXCEPT ![t] = v]
    BY DEF Uncount, Leave, Goto
  <1>3. SameQueued
    BY <1>1, <1>2, QueuedStays
  <1>4. Others(t)
    BY <1>1, <1>2 DEF Others, TypeOK, Uncount, Leave
  <1>5. pc'[t] \notin {"optimize", "wake", "swalk", "release"}
    BY <1>2 DEF TypeOK
  <1>6. hi \in Nat /\ Cursor(q, pos, lo, hi, m, hi, hi, t)'
    BY <1>5, NoCursor DEF Listed, Ghosts
  <1>7. \A u \in Thread : pc[u] = "swalk" => word'.multi
    BY <1>1 DEF Listed, Cursors, Cursor, CountAt
  <1> QED BY <1>1, <1>3, <1>4, <1>5, <1>6, <1>7, TurnListed

-----------------------------------------------------------------------------
(* The walk of whoever holds the Waking bit.                               *)

\* What a walker finds at its cursor.
LEMMA WalkFinds ==
  ASSUME WalkerInv,
         NEW q, NEW pos, NEW lo, NEW hi, NEW m, NEW c, NEW k, Listed(q, pos, lo, hi, m, c, k),
         NEW t \in Thread,
         Walker(t)
  PROVE  /\ lo <= m /\ m <= c[t] /\ c[t] <= k[t] /\ k[t] <= hi
         /\ p[t] = q[c[t]] /\ old[t].block = q[k[t]] /\ next[q[k[t]]] = Null /\ Strung(q, c[t], k[t])
         /\ pc[t] = "wake" /\ old[t].locked => c[t] = k[t]
         /\ p[t] \in Thread /\ old[t].block \in Thread /\ q[lo] \in Thread
         /\ notify[p[t]] = Null => c[t] > m /\ back[p[t]] = q[c[t] - 1]
         /\ notify[p[t]] # Null => notify[p[t]] = q[lo] /\ c[t] = m
  <1>1. lo \in Nat /\ hi \in Nat /\ m \in Nat /\ c[t] \in Nat /\ k[t] \in Nat
    BY DEF Listed, Ghosts
  <1>2. WalkAt(q, hi, m, c[t], k[t], t)
    BY DEF Listed, Cursors, Cursor
  <1>3. lo <= hi /\ lo <= m /\ m <= hi /\ notify[q[m]] = q[lo]
    BY DEF WalkerInv, Listed, Ends
  <1>4. m <= c[t] /\ c[t] <= k[t] /\ k[t] <= hi /\ p[t] = q[c[t]] /\ old[t].block = q[k[t]]
    BY <1>2 DEF WalkAt
  <1>5. lo \in lo .. hi /\ c[t] \in lo .. hi /\ k[t] \in lo .. hi
    BY <1>1, <1>3, <1>4
  <1>6. p[t] \in Thread /\ old[t].block \in Thread /\ q[lo] \in Thread
    BY <1>4, <1>5 DEF Listed, Live, On
  <1>7. LinkAt(q, lo, hi, m, c[t])
    BY <1>5 DEF Listed, Linked
  <1>8. c[t] > m => notify[p[t]] = Null /\ back[p[t]] = q[c[t] - 1]
    BY <1>4, <1>7 DEF LinkAt
  <1>9. c[t] > m \/ c[t] = m
    BY <1>1, <1>4
  <1>10. notify[p[t]] = Null => c[t] > m /\ back[p[t]] = q[c[t] - 1]
    BY <1>3, <1>4, <1>6, <1>8, <1>9, NullIsNoThread
  <1>11. notify[p[t]] # Null => notify[p[t]] = q[lo] /\ c[t] = m
    BY <1>3, <1>4, <1>8, <1>9
  <1> QED BY <1>2, <1>3, <1>4, <1>6, <1>10, <1>11 DEF WalkAt

\* No two blocks with a number are the same.
LEMMA Distinct ==
  ASSUME NEW q, NEW pos, NEW i, NEW j, On(q, pos, i), On(q, pos, j), q[i] = q[j]
  PROVE  i = j
  BY DEF On

\* A block on the list stays there while the waiters are the same.
LEMMA OnStays ==
  ASSUME NEW q, NEW pos, NEW i, On(q, pos, i), SameQueued
  PROVE  On(q, pos, i)'
  BY DEF On, SameQueued

\* Releasers do not mind what happens to the blocks on the list.
LEMMA WakeStays ==
  ASSUME NEW q, NEW pos, NEW lo, NEW hi, NEW a \in Nat, NEW b \in Nat, NEW u \in Thread, NEW j,
         WakeAt(q, pos, lo, a, b, u), SameQueued,
         \A x \in Thread : x # q[j] => next'[x] = next[x], On(q, pos, j), j \notin a .. b,
         p'[u] = p[u]
  PROVE  WakeAt(q, pos, lo, a, b, u)'
  <1>1. \A i \in a .. b : On(q, pos, i) /\ q[i] # q[j] /\ next'[q[i]] = next[q[i]]
    BY Distinct DEF WakeAt, On
  <1>2. Strung(q, a, b)'
    <2> SUFFICES ASSUME NEW i \in Nat, a <= i, i < b PROVE next'[q[i]] = q[i+1]
      BY DEF Strung
    <2>1. next[q[i]] = q[i+1] /\ i \in a .. b
      BY DEF WakeAt, Strung
    <2> QED BY <1>1, <2>1
  <1>3. next'[q[b]] = Null
    <2>1. b \in a .. b
      BY DEF WakeAt
    <2> QED BY <1>1, <2>1 DEF WakeAt
  <1>4. \A i \in a .. b : On(q, pos, i)'
    BY <1>1, OnStays
  <1> QED BY <1>2, <1>3, <1>4 DEF WakeAt

\* One turn of a walk adds the link to the newer block.
LEMMA WalkListed ==
  ASSUME TypeOK, WalkerInv,
         NEW q, NEW pos, NEW lo, NEW hi, NEW m, NEW c, NEW k, Listed(q, pos, lo, hi, m, c, k),
         NEW t \in Thread,
         NEW c1, NEW k1, c1 = [c EXCEPT ![t] = c[t] - 1], k1 = [k EXCEPT ![t] = k[t]],
         Walk(t)
  PROVE  Listed(q, pos, lo, hi, m, c1, k1)'
  <1>1. /\ Walker(t) /\ notify[p[t]] = Null /\ next' = [next EXCEPT ![back[p[t]]] = p[t]]
        /\ p' = [p EXCEPT ![t] = back[p[t]]]
        /\ UNCHANGED <<word, pc, old, back, notify, spin>>
        /\ pc[t] = "wake" => ~old[t].locked
    BY DEF Walk, Walker
  <1>2. /\ lo <= m /\ m < c[t] /\ c[t] <= k[t] /\ k[t] <= hi
        /\ p[t] = q[c[t]] /\ old[t].block = q[k[t]] /\ next[q[k[t]]] = Null /\ Strung(q, c[t], k[t])
        /\ p[t] \in Thread /\ back[p[t]] = q[c[t] - 1]
    BY <1>1, WalkFinds
  <1>3. lo \in Nat /\ hi \in Nat /\ m \in Nat /\ c[t] \in Nat /\ k[t] \in Nat
    BY DEF Listed, Ghosts
  <1> DEFINE j == c[t] - 1
  <1>4. j \in Nat /\ lo <= j /\ m <= j /\ j < c[t] /\ j < hi /\ j < k[t] /\ j + 1 = c[t] /\ j \in lo .. hi
    BY <1>2, <1>3
  <1>5. next' = [next EXCEPT ![q[j]] = q[j+1]] /\ back[p[t]] = q[j]
    BY <1>1, <1>2, <1>4
  <1> HIDE DEF j
  <1>6. SameQueued /\ Others(t)
    BY <1>1 DEF SameQueued, Queued, Others, TypeOK
  <1>7. On(q, pos, j) /\ \A i \in lo .. hi : On(q, pos, i)
    BY <1>4 DEF Listed, Live
  <1>8. q[j] \in Thread /\ next'[q[j]] = q[j+1] /\ \A x \in Thread : x # q[j] => next'[x] = next[x]
    BY <1>5, <1>7 DEF On, TypeOK
  <1>9. \A i \in lo .. hi : i # j => q[i] # q[j] /\ next'[q[i]] = next[q[i]]
    BY <1>7, <1>8, Distinct DEF On
  <1>10. Ghosts(q, pos, lo, hi, m, c1, k1)'
    BY <1>3, <1>4 DEF Listed, Ghosts, j
  <1>11. Ends(q, lo, hi, m)'
    <2>1. lo <= hi => hi \in lo .. hi /\ hi # j
      BY <1>3, <1>4
    <2> QED BY <1>1, <1>9, <2>1 DEF Listed, Ends
  <1>12. Linked(q, lo, hi, m)'
    <2> SUFFICES ASSUME NEW i \in lo .. hi PROVE LinkAt(q, lo, hi, m, i)'
      BY DEF Linked
    <2>1. LinkAt(q, lo, hi, m, i)
      BY DEF Listed, Linked
    <2>2. i # j => next'[q[i]] = next[q[i]]
      BY <1>9
    <2>3. i = j => next'[q[i]] = q[i+1]
      BY <1>8
    <2> QED BY <1>1, <2>1, <2>2, <2>3 DEF LinkAt
  <1>13. Live(q, pos, lo, hi)'
    BY <1>6, LiveStays DEF Listed
  <1>14. Known(q, pos, lo, hi, c1, k1)' /\ Apart(c1, k1)'
    <2>1. pc[t] # "release" /\ pc'[t] # "release"
      BY <1>1 DEF Walker
    <2> QED BY <1>6, <2>1, KnownStays, ApartStays DEF Listed
  <1>15. Cursors(q, pos, lo, hi, m, c1, k1)'
    <2> SUFFICES ASSUME NEW u \in Thread PROVE Cursor(q, pos, lo, hi, m, c1[u], k1[u], u)'
      BY DEF Cursors
    <2>0. Cursor(q, pos, lo, hi, m, c[u], k[u], u)
      BY DEF Listed, Cursors
    <2>1. CASE u = t
      <3>1. c1[u] = j /\ k1[u] = k[u] /\ k[u] \in lo .. hi /\ k[u] # j
        BY <1>2, <1>3, <1>4, <2>1 DEF Listed, Ghosts, j
      <3>2. Strung(q, j, k[u])'
        <4> SUFFICES ASSUME NEW i \in Nat, j <= i, i < k[u] PROVE next'[q[i]] = q[i+1]
          BY DEF Strung
        <4>1. CASE i = j
          BY <1>8, <4>1
        <4>2. CASE i # j
          <5>1. c[u] <= i /\ i \in lo .. hi
            BY <1>2, <1>3, <1>4, <2>1, <4>2
          <5>2. next[q[i]] = q[i+1]
            BY <1>2, <2>1, <5>1 DEF Strung
          <5> QED BY <1>9, <4>2, <5>1, <5>2
        <4> QED BY <4>1, <4>2
      <3>3. next'[q[k[u]]] = Null
        BY <1>2, <1>9, <2>1, <3>1
      <3>4. p'[u] = q[j] /\ old'[u].block = q[k[u]] /\ ~(pc'[u] = "wake" /\ old'[u].locked)
        BY <1>1, <1>2, <1>5, <2>1 DEF TypeOK
      <3>5. m <= j /\ j <= k[u] /\ k[u] <= hi
        BY <1>2, <1>3, <1>4, <2>1
      <3>6. WalkAt(q, hi, m, j, k[u], u)'
        BY <3>2, <3>3, <3>4, <3>5 DEF WalkAt
      <3> QED BY <1>1, <2>1, <3>1, <3>6 DEF Cursor, Walker
    <2>2. CASE u # t
      <3>1. c1[u] = c[u] /\ k1[u] = k[u] /\ c[u] \in Nat /\ k[u] \in Nat
        BY <2>2 DEF Listed, Ghosts
      <3>2. ~Walker(u)'
        BY <1>1, <2>2 DEF WalkerInv, Walker
      <3>3. pc'[u] = "swalk" => CountAt(q, lo, hi, c[u], u)'
        BY <1>1, <2>0, <2>2 DEF Cursor, CountAt, TypeOK
      <3>4. pc'[u] = "release" => WakeAt(q, pos, lo, c[u], k[u], u)'
        <4> SUFFICES ASSUME pc[u] = "release" PROVE WakeAt(q, pos, lo, c[u], k[u], u)'
          BY <1>1
        <4>1. WakeAt(q, pos, lo, c[u], k[u], u)
          BY <2>0 DEF Cursor
        <4>2. j \notin c[u] .. k[u]
          BY <1>3, <1>4, <3>1, <4>1 DEF WakeAt
        <4>3. p'[u] = p[u]
          BY <1>6, <2>2 DEF Others
        <4> QED BY <1>6, <1>7, <1>8, <3>1, <4>1, <4>2, <4>3, WakeStays
      <3> QED BY <3>1, <3>2, <3>3, <3>4 DEF Cursor
    <2> QED BY <2>1, <2>2
  <1> QED BY <1>10, <1>11, <1>12, <1>13, <1>14, <1>15 DEF Listed

-----------------------------------------------------------------------------
(* The end of a walk.                                                      *)

\* The newest block caches what the walk found, and nothing else changes on the list.
LEMMA CacheListed ==
  ASSUME TypeOK, WalkerInv,
         NEW q, NEW pos, NEW lo, NEW hi, NEW m, NEW c, NEW k, Listed(q, pos, lo, hi, m, c, k),
         NEW t \in Thread,
         NEW c1, NEW k1, c1 = [c EXCEPT ![t] = hi], k1 = [k EXCEPT ![t] = hi],
         Walker(t), notify[p[t]] # Null, Cache(old[t], t), UNCHANGED <<back, next, spin>>,
         word'.waiting = word.waiting, word'.block = word.block, word'.multi = word.multi,
         NEW v \in {"idle", "park", "optimize", "wake"}, pc' = [pc EXCEPT ![t] = v], Others(t),
         v \in {"optimize", "wake"} => p'[t] = word.block /\ old'[t].block = word.block
  PROVE  Listed(q, pos, lo, hi, k[t], c1, k1)'
  <1>1. /\ lo <= m /\ m = c[t] /\ c[t] <= k[t] /\ k[t] <= hi
        /\ old[t].block = q[k[t]] /\ Strung(q, c[t], k[t])
        /\ old[t].block \in Thread /\ notify[p[t]] = q[lo] /\ q[lo] \in Thread
    BY WalkFinds
  <1>2. lo \in Nat /\ hi \in Nat /\ m \in Nat /\ c[t] \in Nat /\ k[t] \in Nat
    BY DEF Listed, Ghosts
  <1>3. PICK j \in Nat : j = k[t]
    BY <1>2
  <1>4. lo <= j /\ m <= j /\ j <= hi /\ j \in lo .. hi /\ Strung(q, m, j) /\ q[j] \in Thread
    BY <1>1, <1>2, <1>3
  <1>5. notify' = [notify EXCEPT ![q[j]] = q[lo]]
    BY <1>1, <1>3 DEF Cache
  <1>6. SameQueued
    <2>1. pc[t] # "blocked" /\ v # "blocked"
      BY DEF Walker
    <2> QED BY <2>1, QueuedStays
  <1>7. On(q, pos, j) /\ \A i \in lo .. hi : On(q, pos, i)
    BY <1>4 DEF Listed, Live
  <1>8. notify'[q[j]] = q[lo] /\ \A x \in Thread : x # q[j] => notify'[x] = notify[x]
    BY <1>4, <1>5 DEF TypeOK
  <1>9. \A i \in lo .. hi : i # j => notify'[q[i]] = notify[q[i]]
    BY <1>7, <1>8, Distinct DEF On
  <1>10. Ghosts(q, pos, lo, hi, j, c1, k1)'
    BY <1>2 DEF Listed, Ghosts
  <1>11. Ends(q, lo, hi, j)'
    <2>1. lo # j => notify'[q[lo]] = notify[q[lo]]
      BY <1>2, <1>4, <1>9
    <2>2. word.multi => notify'[q[lo]] = q[lo]
      BY <1>8, <2>1 DEF Listed, Ends
    <2> QED BY <1>4, <1>8, <2>2 DEF Listed, Ends
  <1>12. Linked(q, lo, hi, j)'
    <2> SUFFICES ASSUME NEW i \in lo .. hi PROVE LinkAt(q, lo, hi, j, i)'
      BY DEF Linked
    <2>1. LinkAt(q, lo, hi, m, i)
      BY DEF Listed, Linked
    <2>2. i > j => notify'[q[i]] = Null /\ back'[q[i]] = q[i-1]
      BY <1>2, <1>4, <1>9, <2>1 DEF LinkAt
    <2>3. i < j => next'[q[i]] = q[i+1]
      BY <1>2, <1>4, <2>1 DEF LinkAt, Strung
    <2>4. i < hi => next'[q[i]] \in {Null, q[i+1]}
      BY <2>1 DEF LinkAt
    <2>5. word.multi => /\ notify'[q[i]] \in {Null, q[lo]}
                        /\ i > lo => back'[q[i]] = q[i-1]
      BY <1>8, <1>9, <2>1 DEF LinkAt
    <2> QED BY <2>2, <2>3, <2>4, <2>5 DEF LinkAt
  <1>13. Live(q, pos, lo, hi)'
    BY <1>6, LiveStays DEF Listed
  <1>14. Known(q, pos, lo, hi, c1, k1)' /\ Apart(c1, k1)'
    <2>1. pc[t] # "release" /\ pc'[t] # "release"
      BY DEF Walker, TypeOK
    <2> QED BY <1>6, <2>1, KnownStays, ApartStays DEF Listed
  <1>15. Cursors(q, pos, lo, hi, j, c1, k1)'
    <2> SUFFICES ASSUME NEW u \in Thread PROVE Cursor(q, pos, lo, hi, j, c1[u], k1[u], u)'
      BY DEF Cursors
    <2>1. CASE u = t
      <3>1. c1[u] = hi /\ k1[u] = hi
        BY <2>1 DEF Listed, Ghosts
      <3>2. Walker(u)' => WalkAt(q, hi, j, hi, hi, u)'
        <4> SUFFICES ASSUME Walker(u)' PROVE WalkAt(q, hi, j, hi, hi, u)'
          OBVIOUS
        <4>1. p'[t] = q[hi] /\ old'[t].block = q[hi] /\ next'[q[hi]] = Null
          BY <1>2, <1>4, <2>1 DEF Listed, Ends, Walker, TypeOK
        <4>2. Strung(q, hi, hi)'
          BY <1>2 DEF Strung
        <4> QED BY <1>2, <1>4, <2>1, <4>1, <4>2 DEF WalkAt
      <3>3. pc'[u] # "swalk" /\ pc'[u] # "release"
        BY <2>1 DEF TypeOK
      <3> QED BY <3>1, <3>2, <3>3 DEF Cursor
    <2>2. CASE u # t
      <3>1. c1[u] = c[u] /\ k1[u] = k[u]
        BY <2>2 DEF Listed, Ghosts
      <3>2. ~Walker(u) /\ Cursor(q, pos, lo, hi, m, c[u], k[u], u)
        BY <2>2 DEF WalkerInv, Listed, Cursors
      <3>3. Cursor(q, pos, lo, hi, j, c[u], k[u], u)
        BY <3>2 DEF Cursor
      <3>4. pc[u] = "swalk" => word'.multi
        BY <3>2 DEF Cursor, CountAt
      <3>5. Cursor(q, pos, lo, hi, j, c[u], k[u], u)'
        BY <1>6, <2>2, <3>3, <3>4, CursorStays DEF Others
      <3> QED BY <3>1, <3>5
    <2> QED BY <2>1, <2>2
  <1> QED BY <1>3, <1>10, <1>11, <1>12, <1>13, <1>14, <1>15 DEF Listed

\* At the end of a walk the newest block it saw names the oldest.
LEMMA OptimizeDoneListed ==
  ASSUME TypeOK, WalkerInv, Sound(word),
         NEW q, NEW pos, NEW lo, NEW hi, NEW m, NEW c, NEW k, Listed(q, pos, lo, hi, m, c, k),
         NEW t \in Thread,
         NEW c1, NEW k1, c1 = [c EXCEPT ![t] = hi], k1 = [k EXCEPT ![t] = hi],
         OptimizeDone(t) \/ (WakeAll(t) /\ ~Unchanged(t))
  PROVE  Listed(q, pos, lo, hi, k[t], c1, k1)'
  <1>1. Walker(t) /\ notify[p[t]] # Null /\ Cache(old[t], t) /\ UNCHANGED <<back, next, spin>>
    BY DEF OptimizeDone, WakeAll, Walker
  <1>2. word'.waiting = word.waiting /\ word'.block = word.block /\ word'.multi = word.multi
    BY DEF OptimizeDone, WakeAll, Sound, Words
  <1>3. PICK v \in {"idle", "park", "optimize", "wake"} :
          /\ pc' = [pc EXCEPT ![t] = v]
          /\ v \in {"optimize", "wake"} => p'[t] = word.block /\ old'[t].block = word.block
    <2>1. CASE Retry(t)
      <3>1. \E v \in {"optimize", "wake"} : pc' = [pc EXCEPT ![t] = v]
        BY <1>1, <2>1 DEF Retry, Goto, Walker
      <3>2. p'[t] = word.block /\ old'[t].block = word.block
        BY <2>1 DEF Retry, TypeOK
      <3> QED BY <3>1, <3>2
    <2>2. CASE Leave(t, then[t])
      <3>1. then[t] \in {"idle", "park"} /\ pc' = [pc EXCEPT ![t] = then[t]]
        BY <2>2 DEF TypeOK, Leave, Goto
      <3> QED BY <3>1
    <2> QED BY <2>1, <2>2 DEF OptimizeDone, WakeAll
  <1>4. Others(t)
    BY <1>3 DEF Others, OptimizeDone, WakeAll, Retry, EndWalk, Leave, TypeOK
  <1> QED BY <1>1, <1>2, <1>3, <1>4, CacheListed

-----------------------------------------------------------------------------
(* The steps that take blocks off the list.                                *)

\* One waker takes the oldest block, and the next one becomes the oldest.
LEMMA WakeOneListed ==
  ASSUME TypeOK, WalkerInv, Sound(word),
         NEW q, NEW pos, NEW lo, NEW hi, NEW m, NEW c, NEW k, Listed(q, pos, lo, hi, m, c, k),
         NEW t \in Thread,
         NEW c1, NEW k1, c1 = [c EXCEPT ![t] = lo], k1 = [k EXCEPT ![t] = lo],
         WakeOne(t)
  PROVE  Listed(q, pos, lo + 1, hi, k[t], c1, k1)' /\ pc'[t] = "release"
  <1>1. /\ Walker(t) /\ pc[t] = "wake" /\ notify[p[t]] # Null /\ UNCHANGED <<back, spin>>
        /\ next[notify[p[t]]] # Null
        /\ notify' = [notify EXCEPT ![old[t].block] = next[notify[p[t]]]]
        /\ next' = [next EXCEPT ![notify[p[t]]] = Null]
        /\ p' = [p EXCEPT ![t] = notify[p[t]]]
        /\ pc' = [pc EXCEPT ![t] = "release"]
        /\ word.waiting
    BY DEF WakeOne, Walker, Leave, Goto, WalkerInv
  <1>2. /\ lo <= m /\ m = c[t] /\ c[t] <= k[t] /\ k[t] <= hi
        /\ old[t].block = q[k[t]] /\ Strung(q, c[t], k[t]) /\ next[q[k[t]]] = Null
        /\ old[t].block \in Thread /\ notify[p[t]] = q[lo] /\ q[lo] \in Thread
    BY <1>1, WalkFinds
  <1>3. lo \in Nat /\ hi \in Nat /\ m \in Nat /\ c[t] \in Nat /\ k[t] \in Nat
    BY DEF Listed, Ghosts
  <1>4. PICK j \in Nat : j = k[t]
    BY <1>3
  <1>5. next[q[lo]] # Null /\ j # lo
    BY <1>1, <1>2, <1>4
  <1>6. lo < j /\ m <= j /\ j <= hi /\ j \in lo .. hi /\ lo \in lo .. hi /\ Strung(q, m, j) /\ q[j] \in Thread
    BY <1>2, <1>3, <1>4, <1>5
  <1>7. \A i \in lo .. hi : On(q, pos, i) /\ LinkAt(q, lo, hi, m, i)
    BY DEF Listed, Live, Linked
  <1>8. next[q[lo]] = q[lo + 1]
    BY <1>3, <1>5, <1>6, <1>7 DEF LinkAt
  <1>9. notify' = [notify EXCEPT ![q[j]] = q[lo + 1]] /\ next' = [next EXCEPT ![q[lo]] = Null]
    BY <1>1, <1>2, <1>4, <1>8
  <1>10. /\ notify'[q[j]] = q[lo + 1] /\ \A x \in Thread : x # q[j] => notify'[x] = notify[x]
         /\ next'[q[lo]] = Null /\ \A x \in Thread : x # q[lo] => next'[x] = next[x]
    BY <1>2, <1>6, <1>9 DEF TypeOK
  <1>11. \A i \in lo .. hi : /\ i # j => notify'[q[i]] = notify[q[i]]
                             /\ i # lo => next'[q[i]] = next[q[i]]
    BY <1>6, <1>7, <1>10, Distinct DEF On
  <1>12. SameQueued /\ Others(t)
    <2>1. pc[t] # "blocked"
      BY <1>1
    <2>2. SameQueued
      BY <1>1, <2>1, QueuedStays
    <2> QED BY <1>1, <2>2 DEF Others, WakeOne, Leave, TypeOK
  <1>13. /\ word'.waiting = word.waiting /\ word'.block = word.block /\ word'.multi = word.multi /\ ~word.multi
    BY <1>1 DEF WakeOne, Sound, Words, WalkerInv
  <1>14. Ghosts(q, pos, lo + 1, hi, j, c1, k1)'
    BY <1>3 DEF Listed, Ghosts
  <1>15. Ends(q, lo + 1, hi, j)'
    <2>1. next'[q[hi]] = Null /\ word'.block = q[hi]
      BY <1>3, <1>6, <1>11, <1>13 DEF Listed, Ends
    <2>2. lo + 1 <= j /\ j <= hi /\ lo + 1 <= hi /\ lo + 1 <= hi + 1
      BY <1>3, <1>6
    <2> QED BY <1>1, <1>10, <1>13, <2>1, <2>2 DEF Ends
  <1>16. Linked(q, lo + 1, hi, j)'
    <2> SUFFICES ASSUME NEW i \in (lo + 1) .. hi PROVE LinkAt(q, lo + 1, hi, j, i)'
      BY DEF Linked
    <2>1. i \in lo .. hi /\ i # lo /\ i \in Nat
      BY <1>3
    <2>2. LinkAt(q, lo, hi, m, i) /\ next'[q[i]] = next[q[i]]
      BY <1>7, <1>11, <2>1
    <2>3. i > j => notify'[q[i]] = Null /\ back'[q[i]] = q[i-1]
      BY <1>1, <1>3, <1>6, <1>11, <2>1, <2>2 DEF LinkAt
    <2>4. i < j => next'[q[i]] = q[i+1]
      BY <1>3, <1>6, <2>1, <2>2 DEF LinkAt, Strung
    <2>5. i < hi => next'[q[i]] \in {Null, q[i+1]}
      BY <2>2 DEF LinkAt
    <2> QED BY <1>13, <2>3, <2>4, <2>5 DEF LinkAt
  <1>17. Live(q, pos, lo + 1, hi)'
    <2>1. \A i \in (lo + 1) .. hi : On(q, pos, i)
      BY <1>3, <1>7
    <2> QED BY <1>12, <2>1, OnStays DEF Live
  <1>18. c1[t] = lo /\ k1[t] = lo /\ \A u \in Thread : u # t => c1[u] = c[u] /\ k1[u] = k[u]
    BY DEF Listed, Ghosts
  <1>19. pc'[t] = "release" /\ p'[t] = q[lo] /\ \A u \in Thread : u # t => pc'[u] = pc[u]
    BY <1>1, <1>2 DEF TypeOK
  <1>20. Known(q, pos, lo + 1, hi, c1, k1)'
    <2> SUFFICES ASSUME NEW x \in Thread, Queued(x) PROVE KnownAt(q, pos, lo + 1, hi, c1, k1, x)'
      BY <1>12 DEF Known, KnownAt, SameQueued
    <2>1. KnownAt(q, pos, lo, hi, c, k, x) /\ pos[x] \in Nat
      BY DEF Listed, Known, Ghosts
    <2>2. CASE pos[x] \in lo .. hi
      <3>1. CASE pos[x] = lo
        <4>1. pos[x] \in c1[t] .. k1[t]
          BY <1>3, <1>18, <3>1
        <4> QED BY <1>19, <2>1, <4>1 DEF KnownAt
      <3>2. CASE pos[x] # lo
        <4>1. pos[x] \in (lo + 1) .. hi
          BY <1>3, <2>1, <2>2, <3>2
        <4> QED BY <2>1, <4>1 DEF KnownAt
      <3> QED BY <3>1, <3>2
    <2>3. CASE pos[x] \notin lo .. hi
      <3>1. PICK u \in Thread : pc[u] = "release" /\ pos[x] \in c[u] .. k[u]
        BY <2>1, <2>3 DEF KnownAt
      <3>2. u # t
        BY <1>1, <3>1
      <3> QED BY <1>18, <1>19, <2>1, <3>1, <3>2 DEF KnownAt
    <2> QED BY <2>2, <2>3
  <1>21. \A u \in Thread : u # t /\ pc[u] = "release" => WakeAt(q, pos, lo, c[u], k[u], u) /\ c[u] \in Nat /\ k[u] \in Nat
    BY DEF Listed, Cursors, Cursor, Ghosts
  <1>22. Apart(c1, k1)'
    <2> SUFFICES ASSUME NEW u \in Thread, NEW v \in Thread, u # v, pc'[u] = "release", pc'[v] = "release"
                 PROVE  k1[u] < c1[v] \/ k1[v] < c1[u]
      BY DEF Apart
    <2>1. CASE u # t /\ v # t
      BY <1>18, <1>19, <2>1 DEF Listed, Apart
    <2>2. CASE u = t
      <3>1. k[v] < lo
        BY <1>19, <1>21, <2>2 DEF WakeAt
      <3> QED BY <1>18, <2>2, <3>1
    <2>3. CASE v = t
      <3>1. k[u] < lo
        BY <1>19, <1>21, <2>3 DEF WakeAt
      <3> QED BY <1>18, <2>3, <3>1
    <2> QED BY <2>1, <2>2, <2>3
  <1>23. Cursors(q, pos, lo + 1, hi, j, c1, k1)'
    <2> SUFFICES ASSUME NEW u \in Thread PROVE Cursor(q, pos, lo + 1, hi, j, c1[u], k1[u], u)'
      BY DEF Cursors
    <2>1. CASE u = t
      <3>1. Strung(q, lo, lo)'
        BY <1>3 DEF Strung
      <3>2. On(q, pos, lo)'
        BY <1>6, <1>7, <1>12, OnStays
      <3>3. \A i \in lo .. lo : On(q, pos, i)'
        <4>1. \A i \in lo .. lo : i = lo
          BY <1>3
        <4> QED BY <3>2, <4>1
      <3>4. WakeAt(q, pos, lo + 1, lo, lo, u)'
        BY <1>3, <1>10, <1>19, <2>1, <3>1, <3>3 DEF WakeAt
      <3> QED BY <1>18, <1>19, <2>1, <3>4 DEF Cursor, Walker
    <2>2. CASE u # t
      <3>1. ~Walker(u)'
        BY <1>1, <1>19, <2>2 DEF WalkerInv, Walker
      <3>2. pc'[u] # "swalk"
        BY <1>13, <1>19, <2>2 DEF Listed, Cursors, Cursor, CountAt
      <3>3. pc'[u] = "release" => WakeAt(q, pos, lo + 1, c[u], k[u], u)'
        <4> SUFFICES ASSUME pc'[u] = "release" PROVE WakeAt(q, pos, lo + 1, c[u], k[u], u)'
          OBVIOUS
        <4>1. WakeAt(q, pos, lo, c[u], k[u], u) /\ c[u] \in Nat /\ k[u] \in Nat
          BY <1>19, <1>21, <2>2
        <4>2. lo \notin c[u] .. k[u] /\ p'[u] = p[u] /\ On(q, pos, lo)
          BY <1>3, <1>6, <1>7, <1>12, <2>2, <4>1 DEF WakeAt, Others
        <4>3. WakeAt(q, pos, lo, c[u], k[u], u)'
          BY <1>10, <1>12, <4>1, <4>2, WakeStays
        <4>4. k[u] < lo + 1
          BY <1>3, <4>1 DEF WakeAt
        <4> QED BY <4>3, <4>4 DEF WakeAt
      <3> QED BY <1>18, <2>2, <3>1, <3>2, <3>3 DEF Cursor
    <2> QED BY <2>1, <2>2
  <1> QED BY <1>4, <1>14, <1>15, <1>16, <1>17, <1>19, <1>20, <1>22, <1>23 DEF Listed

\* A waker takes the whole list.
LEMMA WakeAllListed ==
  ASSUME TypeOK, WalkerInv, Sound(word),
         NEW q, NEW pos, NEW lo, NEW hi, NEW m, NEW c, NEW k, Listed(q, pos, lo, hi, m, c, k),
         NEW t \in Thread,
         NEW c1, NEW k1, c1 = [c EXCEPT ![t] = lo], k1 = [k EXCEPT ![t] = hi],
         WakeAll(t), Unchanged(t)
  PROVE  Listed(q, pos, hi + 1, hi, m, c1, k1)' /\ ~word'.multi
  <1>1. /\ Walker(t) /\ pc[t] = "wake" /\ notify[p[t]] # Null /\ UNCHANGED <<back, next, spin>>
        /\ p' = [p EXCEPT ![t] = notify[p[t]]]
        /\ pc' = [pc EXCEPT ![t] = "release"]
        /\ word' = Free /\ word.waiting /\ ~word.multi /\ old[t].block = word.block
    BY DEF WakeAll, Walker, Leave, Goto, WalkerInv, Unchanged
  <1>2. /\ lo <= m /\ m = c[t] /\ c[t] <= k[t] /\ k[t] <= hi
        /\ old[t].block = q[k[t]] /\ Strung(q, c[t], k[t]) /\ notify[p[t]] = q[lo]
    BY <1>1, WalkFinds
  <1>3. lo \in Nat /\ hi \in Nat /\ m \in Nat /\ c[t] \in Nat /\ k[t] \in Nat
    BY DEF Listed, Ghosts
  <1>4. lo <= hi /\ word.block = q[hi] /\ next[q[hi]] = Null
    BY <1>1 DEF Listed, Ends
  <1>5. \A i \in lo .. hi : On(q, pos, i) /\ LinkAt(q, lo, hi, m, i)
    BY DEF Listed, Live, Linked
  <1>6. k[t] = hi
    <2>1. q[k[t]] = q[hi]
      BY <1>1, <1>2, <1>4
    <2>2. k[t] \in lo .. hi /\ hi \in lo .. hi
      BY <1>2, <1>3, <1>4
    <2> QED BY <1>5, <2>1, <2>2, Distinct
  <1>7. Strung(q, lo, hi)
    <2> SUFFICES ASSUME NEW i \in Nat, lo <= i, i < hi PROVE next[q[i]] = q[i+1]
      BY DEF Strung
    <2>1. i \in lo .. hi
      BY <1>3
    <2>2. CASE i < m
      BY <1>5, <2>1, <2>2 DEF LinkAt
    <2>3. CASE ~(i < m)
      BY <1>2, <1>3, <1>6, <2>3 DEF Strung
    <2> QED BY <2>2, <2>3
  <1>8. SameQueued /\ Others(t)
    <2>1. pc[t] # "blocked"
      BY <1>1
    <2>2. SameQueued
      BY <1>1, <2>1, QueuedStays
    <2> QED BY <1>1, <2>2 DEF Others, WakeAll, Leave, TypeOK
  <1>9. c1[t] = lo /\ k1[t] = hi /\ \A u \in Thread : u # t => c1[u] = c[u] /\ k1[u] = k[u]
    BY DEF Listed, Ghosts
  <1>10. pc'[t] = "release" /\ p'[t] = q[lo] /\ \A u \in Thread : u # t => pc'[u] = pc[u]
    BY <1>1, <1>2 DEF TypeOK
  <1>11. ~word'.waiting /\ ~word'.multi
    BY <1>1 DEF Free, Word
  <1>12. Ghosts(q, pos, hi + 1, hi, m, c1, k1)'
    BY <1>3 DEF Listed, Ghosts
  <1>13. Ends(q, hi + 1, hi, m)' /\ Linked(q, hi + 1, hi, m)' /\ Live(q, pos, hi + 1, hi)'
    <2>1. (hi + 1) .. hi = {} /\ ~(hi + 1 <= hi) /\ hi + 1 <= hi + 1
      BY <1>3
    <2> QED BY <1>11, <2>1 DEF Ends, Linked, Live
  <1>14. Known(q, pos, hi + 1, hi, c1, k1)'
    <2> SUFFICES ASSUME NEW x \in Thread, Queued(x) PROVE KnownAt(q, pos, hi + 1, hi, c1, k1, x)'
      BY <1>8 DEF Known, KnownAt, SameQueued
    <2>1. KnownAt(q, pos, lo, hi, c, k, x)
      BY DEF Listed, Known
    <2>2. CASE pos[x] \in lo .. hi
      BY <1>9, <1>10, <2>1, <2>2 DEF KnownAt
    <2>3. CASE pos[x] \notin lo .. hi
      <3>1. PICK u \in Thread : pc[u] = "release" /\ pos[x] \in c[u] .. k[u]
        BY <2>1, <2>3 DEF KnownAt
      <3>2. u # t
        BY <1>1, <3>1
      <3> QED BY <1>9, <1>10, <2>1, <3>1, <3>2 DEF KnownAt
    <2> QED BY <2>2, <2>3
  <1>15. \A u \in Thread : u # t /\ pc[u] = "release" => WakeAt(q, pos, lo, c[u], k[u], u) /\ c[u] \in Nat /\ k[u] \in Nat
    BY DEF Listed, Cursors, Cursor, Ghosts
  <1>16. Apart(c1, k1)'
    <2> SUFFICES ASSUME NEW u \in Thread, NEW v \in Thread, u # v, pc'[u] = "release", pc'[v] = "release"
                 PROVE  k1[u] < c1[v] \/ k1[v] < c1[u]
      BY DEF Apart
    <2>1. CASE u # t /\ v # t
      BY <1>9, <1>10, <2>1 DEF Listed, Apart
    <2>2. CASE u = t
      <3>1. k[v] < lo
        BY <1>10, <1>15, <2>2 DEF WakeAt
      <3> QED BY <1>9, <2>2, <3>1
    <2>3. CASE v = t
      <3>1. k[u] < lo
        BY <1>10, <1>15, <2>3 DEF WakeAt
      <3> QED BY <1>9, <2>3, <3>1
    <2> QED BY <2>1, <2>2, <2>3
  <1>17. Cursors(q, pos, hi + 1, hi, m, c1, k1)'
    <2> SUFFICES ASSUME NEW u \in Thread PROVE Cursor(q, pos, hi + 1, hi, m, c1[u], k1[u], u)'
      BY DEF Cursors
    <2>1. CASE u = t
      <3>1. Strung(q, lo, hi)'
        BY <1>1, <1>7 DEF Strung
      <3>2. \A i \in lo .. hi : On(q, pos, i)'
        BY <1>5, <1>8, OnStays
      <3>3. WakeAt(q, pos, hi + 1, lo, hi, u)'
        BY <1>1, <1>3, <1>4, <1>10, <2>1, <3>1, <3>2 DEF WakeAt
      <3> QED BY <1>9, <1>10, <2>1, <3>3 DEF Cursor, Walker
    <2>2. CASE u # t
      <3>1. ~Walker(u)'
        BY <1>1, <1>10, <2>2 DEF WalkerInv, Walker
      <3>2. pc'[u] # "swalk"
        BY <1>1, <1>10, <2>2 DEF Listed, Cursors, Cursor, CountAt
      <3>3. pc'[u] = "release" => WakeAt(q, pos, hi + 1, c[u], k[u], u)'
        <4> SUFFICES ASSUME pc'[u] = "release" PROVE WakeAt(q, pos, hi + 1, c[u], k[u], u)'
          OBVIOUS
        <4>1. WakeAt(q, pos, lo, c[u], k[u], u) /\ c[u] \in Nat /\ k[u] \in Nat
          BY <1>10, <1>15, <2>2
        <4>2. lo \notin c[u] .. k[u] /\ p'[u] = p[u] /\ On(q, pos, lo)
          BY <1>3, <1>4, <1>5, <1>8, <2>2, <4>1 DEF WakeAt, Others
        <4>3. WakeAt(q, pos, lo, c[u], k[u], u)'
          BY <1>1, <1>8, <4>1, <4>2, WakeStays
        <4>4. k[u] < hi + 1
          BY <1>3, <1>4, <4>1 DEF WakeAt
        <4> QED BY <4>3, <4>4 DEF WakeAt
      <3> QED BY <1>9, <2>2, <3>1, <3>2, <3>3 DEF Cursor
    <2> QED BY <2>1, <2>2
  <1> QED BY <1>11, <1>12, <1>13, <1>14, <1>16, <1>17 DEF Listed

-----------------------------------------------------------------------------
(* The wake-up loop.                                                       *)

\* What a waker finds at its cursor.
LEMMA WakeFinds ==
  ASSUME NEW q, NEW pos, NEW lo, NEW hi, NEW m, NEW c, NEW k, Listed(q, pos, lo, hi, m, c, k),
         NEW t \in Thread,
         pc[t] = "release"
  PROVE  /\ WakeAt(q, pos, lo, c[t], k[t], t) /\ c[t] \in Nat /\ k[t] \in Nat /\ lo \in Nat /\ hi \in Nat
         /\ p[t] = q[c[t]] /\ p[t] \in Thread /\ On(q, pos, c[t]) /\ c[t] <= k[t] /\ k[t] < lo
         /\ next[p[t]] = IF c[t] = k[t] THEN Null ELSE q[c[t] + 1]
         /\ next[p[t]] = Null => c[t] = k[t]
  <1>1. c[t] \in Nat /\ k[t] \in Nat /\ lo \in Nat /\ hi \in Nat
    BY DEF Listed, Ghosts
  <1>2. WakeAt(q, pos, lo, c[t], k[t], t)
    BY DEF Listed, Cursors, Cursor
  <1>3. p[t] = q[c[t]] /\ c[t] <= k[t] /\ k[t] < lo /\ On(q, pos, c[t])
    <2>1. p[t] = q[c[t]] /\ c[t] <= k[t] /\ k[t] < lo
      BY <1>2 DEF WakeAt
    <2>2. c[t] \in c[t] .. k[t]
      BY <1>1, <2>1
    <2> QED BY <1>2, <2>1, <2>2 DEF WakeAt
  <1>4. CASE c[t] = k[t]
    BY <1>1, <1>2, <1>3, <1>4 DEF WakeAt, On
  <1>5. CASE c[t] # k[t]
    <2>1. next[q[c[t]]] = q[c[t] + 1]
      BY <1>1, <1>2, <1>3, <1>5 DEF WakeAt, Strung
    <2>2. c[t] + 1 \in c[t] .. k[t]
      BY <1>1, <1>3, <1>5
    <2>3. q[c[t] + 1] # Null
      BY <1>2, <2>2, NullIsNoThread DEF WakeAt, On
    <2> QED BY <1>1, <1>2, <1>3, <1>5, <2>1, <2>3 DEF On
  <1> QED BY <1>4, <1>5

\* What a turn of the loop does to the block it wakes.
Wakes(b) ==
  /\ ~Queued(b)' /\ \A x \in Thread : x # b => (Queued(x)' <=> Queued(x))
  /\ \A x \in Thread : x # b => next'[x] = next[x] /\ back'[x] = back[x] /\ notify'[x] = notify[x]

\* Waking one block leaves the others.
LEMMA OnSurvives ==
  ASSUME NEW q, NEW pos, NEW i, NEW j, On(q, pos, i), On(q, pos, j), i # j, NEW b, b = q[j], Wakes(b)
  PROVE  On(q, pos, i)' /\ next'[q[i]] = next[q[i]] /\ back'[q[i]] = back[q[i]] /\ notify'[q[i]] = notify[q[i]]
  <1>1. q[i] # q[j] /\ q[i] \in Thread
    BY Distinct DEF On
  <1> QED BY <1>1 DEF On, Wakes

\* One turn of the wake-up loop: the block is off the waker's list before it may die.
LEMMA ReleaseListed ==
  ASSUME TypeOK, Sound(word), LocalInv, WalkerInv,
         NEW q, NEW pos, NEW lo, NEW hi, NEW m, NEW c, NEW k, Listed(q, pos, lo, hi, m, c, k),
         NEW t \in Thread,
         NEW c1, NEW k1, c1 = [c EXCEPT ![t] = c[t] + 1], k1 = [k EXCEPT ![t] = k[t]],
         Release(t)
  PROVE  Listed(q, pos, lo, hi, m, c1, k1)'
  <1>1. /\ pc[t] = "release" /\ UNCHANGED <<word, old>>
        /\ spin' = [spin EXCEPT ![p[t]] = FALSE]
        /\ next' = [next EXCEPT ![p[t]] = Null] /\ back' = [back EXCEPT ![p[t]] = Null]
        /\ notify' = [notify EXCEPT ![p[t]] = Null]
        /\ next[p[t]] = Null => p' = [p EXCEPT ![t] = Null]
        /\ next[p[t]] # Null => p' = [p EXCEPT ![t] = next[p[t]]]
    BY DEF Release, EndWalk
  <1>2. PICK j \in Nat : j = c[t]
    BY <1>1, WakeFinds
  <1>3. /\ k[t] \in Nat /\ lo \in Nat /\ hi \in Nat /\ p[t] = q[j] /\ p[t] \in Thread
        /\ On(q, pos, j) /\ j <= k[t] /\ k[t] < lo
        /\ WakeAt(q, pos, lo, j, k[t], t)
        /\ next[q[j]] = IF j = k[t] THEN Null ELSE q[j+1]
        /\ next[q[j]] = Null => j = k[t]
    BY <1>1, <1>2, WakeFinds
  <1>4. /\ spin[p[t]] \/ pc[p[t]] = "blocked"
        /\ \A u \in Thread : u # t /\ u # p[t] => pc'[u] = pc[u]
        /\ p[t] # t => pc'[p[t]] = IF spin[p[t]] THEN pc[p[t]] ELSE Again(p[t])
        /\ pc'[t] = IF next[p[t]] = Null THEN then[t] ELSE "release"
        /\ Again(p[t]) \in {"xread", "sread"}
        /\ then[t] \in {"idle", "park"}
    BY <1>3, ReleasePcs
  <1>0. PICK b \in Thread : b = q[j]
    BY <1>3
  <1>5. Wakes(b)
    <2>1. ~Queued(b)'
      <3>1. ~spin'[b]
        BY <1>0, <1>1, <1>3 DEF TypeOK
      <3>2. spin[b] => pc[b] # "blocked"
        BY DEF LocalInv, LocalAt
      <3>3. pc'[b] # "blocked"
        BY <1>0, <1>3, <1>4, <3>2
      <3> QED BY <3>1, <3>3 DEF Queued
    <2>2. ASSUME NEW x \in Thread, x # b PROVE Queued(x)' <=> Queued(x)
      <3>0. spin'[x] = spin[x] /\ x # p[t]
        BY <1>0, <1>1, <1>3, <2>2 DEF TypeOK
      <3>1. CASE x = t
        <4>1. pc[x] # "blocked" /\ pc'[x] # "blocked"
          BY <1>1, <1>4, <3>1
        <4> QED BY <3>0, <4>1 DEF Queued
      <3>2. CASE x # t
        BY <1>4, <3>0, <3>2 DEF Queued
      <3> QED BY <3>1, <3>2
    <2>3. \A x \in Thread : x # b => next'[x] = next[x] /\ back'[x] = back[x] /\ notify'[x] = notify[x]
      BY <1>0, <1>1, <1>3 DEF TypeOK
    <2> QED BY <2>1, <2>2, <2>3 DEF Wakes
  <1>6. \A i \in lo .. hi : /\ On(q, pos, i)' /\ next'[q[i]] = next[q[i]]
                            /\ back'[q[i]] = back[q[i]] /\ notify'[q[i]] = notify[q[i]]
    <2> SUFFICES ASSUME NEW i \in lo .. hi
                 PROVE  /\ On(q, pos, i)' /\ next'[q[i]] = next[q[i]]
                        /\ back'[q[i]] = back[q[i]] /\ notify'[q[i]] = notify[q[i]]
      OBVIOUS
    <2>1. On(q, pos, i) /\ i # j
      BY <1>3 DEF Listed, Live
    <2> QED BY <1>0, <1>3, <1>5, <2>1, OnSurvives
  <1>7. m \in Nat /\ Ghosts(q, pos, lo, hi, m, c1, k1)'
    BY <1>2, <1>3 DEF Listed, Ghosts
  <1>8. Ends(q, lo, hi, m)'
    <2>1. word.multi => lo <= hi
      BY DEF Listed, Ends, Sound
    <2>2. lo <= hi => /\ notify'[q[m]] = notify[q[m]] /\ next'[q[hi]] = next[q[hi]] /\ notify'[q[lo]] = notify[q[lo]]
      <3> SUFFICES ASSUME lo <= hi
                   PROVE  notify'[q[m]] = notify[q[m]] /\ next'[q[hi]] = next[q[hi]] /\ notify'[q[lo]] = notify[q[lo]]
        OBVIOUS
      <3>1. lo \in lo .. hi /\ hi \in lo .. hi /\ m \in lo .. hi
        BY <1>3, <1>7 DEF Listed, Ends
      <3> QED BY <1>6, <3>1
    <2> QED BY <1>1, <2>1, <2>2 DEF Listed, Ends
  <1>9. Linked(q, lo, hi, m)'
    BY <1>1, <1>6 DEF Listed, Linked, LinkAt
  <1>10. Live(q, pos, lo, hi)'
    BY <1>6 DEF Live
  <1>11. c1[t] = j + 1 /\ k1[t] = k[t] /\ \A u \in Thread : u # t => c1[u] = c[u] /\ k1[u] = k[u]
    BY <1>2 DEF Listed, Ghosts
  <1>12. \A u \in Thread : u # t /\ pc[u] = "release" =>
           /\ pc'[u] = "release" /\ p'[u] = p[u] /\ WakeAt(q, pos, lo, c[u], k[u], u)
           /\ c[u] \in Nat /\ k[u] \in Nat /\ j \notin c[u] .. k[u]
    <2> SUFFICES ASSUME NEW u \in Thread, u # t, pc[u] = "release"
                 PROVE  /\ pc'[u] = "release" /\ p'[u] = p[u] /\ WakeAt(q, pos, lo, c[u], k[u], u)
                        /\ c[u] \in Nat /\ k[u] \in Nat /\ j \notin c[u] .. k[u]
      OBVIOUS
    <2>1. WakeAt(q, pos, lo, c[u], k[u], u) /\ c[u] \in Nat /\ k[u] \in Nat
      BY WakeFinds
    <2>2. pc'[u] = "release"
      BY <1>4
    <2>3. p'[u] = p[u]
      BY <1>1 DEF TypeOK
    <2>4. k[t] < c[u] \/ k[u] < j
      BY <1>1, <1>2 DEF Listed, Apart
    <2> QED BY <1>3, <2>1, <2>2, <2>3, <2>4
  <1>13. \A u \in Thread : u # t /\ pc'[u] = "release" => pc[u] = "release"
    BY <1>4
  <1>14. Known(q, pos, lo, hi, c1, k1)'
    <2> SUFFICES ASSUME NEW x \in Thread, Queued(x)' PROVE KnownAt(q, pos, lo, hi, c1, k1, x)'
      BY DEF Known, KnownAt
    <2>1. Queued(x) /\ x # q[j]
      BY <1>0, <1>5 DEF Wakes
    <2>2. KnownAt(q, pos, lo, hi, c, k, x) /\ pos[x] \in Nat
      BY DEF Listed, Known, Ghosts
    <2>3. CASE pos[x] \in lo .. hi
      BY <2>1, <2>2, <2>3 DEF KnownAt
    <2>4. CASE pos[x] \notin lo .. hi
      <3>1. PICK u \in Thread : pc[u] = "release" /\ pos[x] \in c[u] .. k[u]
        BY <2>1, <2>2, <2>4 DEF KnownAt
      <3>2. CASE u # t
        BY <1>11, <1>12, <2>1, <2>2, <3>1, <3>2 DEF KnownAt
      <3>3. CASE u = t
        <4>1. pos[x] # j
          BY <2>1, <2>2 DEF KnownAt
        <4>2. j # k[t] /\ pos[x] \in c1[t] .. k1[t]
          BY <1>2, <1>3, <1>11, <2>2, <3>1, <3>3, <4>1
        <4>3. pc'[t] = "release"
          BY <1>3, <1>4, <4>2
        <4> QED BY <2>1, <2>2, <4>2, <4>3 DEF KnownAt
      <3> QED BY <3>2, <3>3
    <2> QED BY <2>3, <2>4
  <1>15. Apart(c1, k1)'
    <2> SUFFICES ASSUME NEW u \in Thread, NEW v \in Thread, u # v, pc'[u] = "release", pc'[v] = "release"
                 PROVE  k1[u] < c1[v] \/ k1[v] < c1[u]
      BY DEF Apart
    <2>1. pc[u] = "release" /\ pc[v] = "release"
      BY <1>1, <1>13
    <2>2. k[u] < c[v] \/ k[v] < c[u]
      BY <2>1 DEF Listed, Apart
    <2>3. c[u] \in Nat /\ c[v] \in Nat /\ k[u] \in Nat /\ k[v] \in Nat
      BY DEF Listed, Ghosts
    <2>4. c[u] <= c1[u] /\ c[v] <= c1[v] /\ k1[u] = k[u] /\ k1[v] = k[v] /\ c1[u] \in Nat /\ c1[v] \in Nat
      BY <1>2, <1>11, <2>3
    <2> QED BY <2>2, <2>3, <2>4
  <1>16. Cursors(q, pos, lo, hi, m, c1, k1)'
    <2> SUFFICES ASSUME NEW u \in Thread PROVE Cursor(q, pos, lo, hi, m, c1[u], k1[u], u)'
      BY DEF Cursors
    <2>1. CASE u = t
      <3>1. CASE next[p[t]] = Null
        BY <1>4, <2>1, <3>1 DEF Cursor, Walker
      <3>2. CASE next[p[t]] # Null
        <4>1. pc'[t] = "release" /\ j # k[t] /\ p'[t] = q[j+1]
          BY <1>1, <1>3, <1>4, <3>2 DEF TypeOK
        <4>2. \A i \in (j + 1) .. k[t] : On(q, pos, i) /\ i # j
          BY <1>2, <1>3 DEF WakeAt
        <4>3. \A i \in (j + 1) .. k[t] : On(q, pos, i)' /\ next'[q[i]] = next[q[i]]
          BY <1>0, <1>3, <1>5, <4>2, OnSurvives
        <4>4. Strung(q, j + 1, k[t])'
          <5> SUFFICES ASSUME NEW i \in Nat, j + 1 <= i, i < k[t] PROVE next'[q[i]] = q[i+1]
            BY DEF Strung
          <5>1. i \in (j + 1) .. k[t] /\ j <= i
            BY <1>3
          <5>2. next[q[i]] = q[i+1]
            BY <1>3, <5>1 DEF WakeAt, Strung
          <5> QED BY <4>3, <5>1, <5>2
        <4>5. next'[q[k[t]]] = Null
          <5>1. k[t] \in (j + 1) .. k[t]
            BY <1>3, <4>1
          <5> QED BY <1>3, <4>3, <5>1 DEF WakeAt
        <4>6. WakeAt(q, pos, lo, j + 1, k[t], t)'
          BY <1>3, <4>1, <4>3, <4>4, <4>5 DEF WakeAt
        <4> QED BY <1>11, <2>1, <4>1, <4>6 DEF Cursor, Walker
      <3> QED BY <3>1, <3>2
    <2>2. CASE u # t
      <3>0. Cursor(q, pos, lo, hi, m, c[u], k[u], u) /\ c[u] \in Nat /\ k[u] \in Nat
        BY DEF Listed, Cursors, Ghosts
      <3>1. Walker(u)' => WalkAt(q, hi, m, c[u], k[u], u)'
        <4> SUFFICES ASSUME Walker(u)' PROVE WalkAt(q, hi, m, c[u], k[u], u)'
          OBVIOUS
        <4>1. pc'[u] = pc[u] /\ Walker(u) /\ p'[u] = p[u] /\ old'[u] = old[u]
          BY <1>1, <1>4, <2>2 DEF Walker, TypeOK
        <4>2. WalkAt(q, hi, m, c[u], k[u], u) /\ lo <= m
          BY <3>0, <4>1, WalkFinds DEF Cursor
        <4>3. m <= c[u] /\ c[u] <= k[u] /\ k[u] <= hi
          BY <4>2 DEF WalkAt
        <4>4. k[u] \in lo .. hi
          BY <1>3, <1>7, <3>0, <4>2, <4>3
        <4>5. next'[q[k[u]]] = Null
          BY <1>6, <4>2, <4>4 DEF WalkAt
        <4>6. Strung(q, c[u], k[u])'
          <5> SUFFICES ASSUME NEW i \in Nat, c[u] <= i, i < k[u] PROVE next'[q[i]] = q[i+1]
            BY DEF Strung
          <5>1. i \in lo .. hi
            BY <1>3, <1>7, <3>0, <4>2, <4>3
          <5>2. next[q[i]] = q[i+1]
            BY <4>2 DEF WalkAt, Strung
          <5> QED BY <1>6, <5>1, <5>2
        <4> QED BY <4>1, <4>2, <4>5, <4>6 DEF WalkAt
      <3>2. pc'[u] = "swalk" => CountAt(q, lo, hi, c[u], u)'
        <4>1. pc'[u] = "swalk" => pc[u] = "swalk" /\ p'[u] = p[u]
          BY <1>1, <1>4, <2>2 DEF TypeOK
        <4> QED BY <1>1, <3>0, <4>1 DEF Cursor, CountAt
      <3>3. pc'[u] = "release" => WakeAt(q, pos, lo, c[u], k[u], u)'
        <4> SUFFICES ASSUME pc'[u] = "release" PROVE WakeAt(q, pos, lo, c[u], k[u], u)'
          OBVIOUS
        <4>1. p'[u] = p[u] /\ WakeAt(q, pos, lo, c[u], k[u], u) /\ j \notin c[u] .. k[u]
          BY <1>12, <1>13, <2>2
        <4>2. \A i \in c[u] .. k[u] : On(q, pos, i) /\ i # j
          BY <4>1 DEF WakeAt
        <4>3. \A i \in c[u] .. k[u] : On(q, pos, i)' /\ next'[q[i]] = next[q[i]]
          BY <1>0, <1>3, <1>5, <4>2, OnSurvives
        <4>4. Strung(q, c[u], k[u])'
          <5> SUFFICES ASSUME NEW i \in Nat, c[u] <= i, i < k[u] PROVE next'[q[i]] = q[i+1]
            BY DEF Strung
          <5>1. i \in c[u] .. k[u] /\ next[q[i]] = q[i+1]
            BY <3>0, <4>1 DEF WakeAt, Strung
          <5> QED BY <4>3, <5>1
        <4>5. next'[q[k[u]]] = Null
          <5>1. k[u] \in c[u] .. k[u]
            BY <3>0, <4>1 DEF WakeAt
          <5> QED BY <4>1, <4>3, <5>1 DEF WakeAt
        <4> QED BY <4>1, <4>3, <4>4, <4>5 DEF WakeAt
      <3> QED BY <1>11, <2>2, <3>1, <3>2, <3>3 DEF Cursor
    <2> QED BY <2>1, <2>2
  <1> QED BY <1>7, <1>8, <1>9, <1>10, <1>14, <1>15, <1>16 DEF Listed

-----------------------------------------------------------------------------
(* A new waiter.                                                           *)

\* Its block gets the next number.
Numbered(q, pos, hi, m, c, k, t, n, m1, q1, pos1, c1, k1) ==
  /\ n = hi + 1 /\ m1 = IF word.waiting THEN m ELSE n
  /\ q1 = [q EXCEPT ![n] = t] /\ pos1 = [pos EXCEPT ![t] = n]
  /\ c1 = [c EXCEPT ![t] = n] /\ k1 = [k EXCEPT ![t] = n]

\* A thread that queues has the next number.
LEMMA PushListed ==
  ASSUME TypeOK, LocalInv, Sound(word), WalkerInv,
         NEW q, NEW pos, NEW lo, NEW hi, NEW m, NEW c, NEW k, Listed(q, pos, lo, hi, m, c, k),
         NEW t \in Thread,
         Push(t), Unchanged(t),
         NEW n, NEW m1, NEW q1, NEW pos1, NEW c1, NEW k1,
         Numbered(q, pos, hi, m, c, k, t, n, m1, q1, pos1, c1, k1)
  PROVE  Listed(q1, pos1, lo, n, m1, c1, k1)'
  <1>0. /\ n = hi + 1 /\ m1 = IF word.waiting THEN m ELSE n
        /\ q1 = [q EXCEPT ![n] = t] /\ pos1 = [pos EXCEPT ![t] = n]
        /\ c1 = [c EXCEPT ![t] = n] /\ k1 = [k EXCEPT ![t] = n]
    BY DEF Numbered
  <1> USE <1>0
  <1>1. /\ pc[t] \in {"xpush", "spush"} /\ word = old[t] /\ word' = Queue(word, t)
        /\ next' = [next EXCEPT ![t] = Null] /\ spin' = [spin EXCEPT ![t] = TRUE]
        /\ back' = [back EXCEPT ![t] = word.block]
        /\ notify' = [notify EXCEPT ![t] = IF word.waiting THEN Null ELSE t]
    BY DEF Push, Unchanged
  <1>2. \E v \in {"optimize", "park"} :
          /\ pc' = [pc EXCEPT ![t] = v]
          /\ v = "optimize" => p'[t] = t /\ old'[t].block = t
    <2>1. CASE word.waiting /\ ~word.waking
      <3>1. pc' = [pc EXCEPT ![t] = "optimize"] /\ p'[t] = t /\ old'[t] = word'
        BY <1>1, <2>1 DEF Push, Unchanged, Goto, TypeOK
      <3>2. word'.block = t
        BY <1>1, SetQueue DEF Sound
      <3> QED BY <3>1, <3>2
    <2>2. CASE ~(word.waiting /\ ~word.waking)
      BY <1>1, <2>2 DEF Push, Unchanged, Leave, Goto
    <2> QED BY <2>1, <2>2
  <1>3. /\ word'.waiting /\ word'.block = t
        /\ word.waiting => (word'.multi <=> word.multi)
    BY <1>1, SetQueue DEF Sound
  <1>4. Others(t)
    BY <1>1, <1>2 DEF Push, Others, Unchanged, Leave, TypeOK
  <1>5. lo \in Nat /\ hi \in Nat /\ m \in Nat /\ n \in Nat /\ lo <= n /\ hi < n
    BY DEF Listed, Ghosts, Ends
  <1>6. ~Queued(t)
    BY <1>1 DEF LocalInv, LocalAt, Queued
  <1>7. Queued(t)' /\ \A x \in Thread : x # t => (Queued(x)' <=> Queued(x))
    BY <1>1, <1>2 DEF Queued, TypeOK
  <1>8. q1[n] = t /\ pos1[t] = n /\ \A i \in Nat : i # n => q1[i] = q[i]
    BY <1>5 DEF Listed, Ghosts
  <1>9. \A x \in Thread : x # t => pos1[x] = pos[x]
    BY DEF Listed, Ghosts
  <1>10. /\ next'[t] = Null /\ back'[t] = word.block /\ notify'[t] = IF word.waiting THEN Null ELSE t
         /\ \A x \in Thread : x # t => next'[x] = next[x] /\ back'[x] = back[x] /\ notify'[x] = notify[x]
    BY <1>1 DEF TypeOK
  <1>11. ASSUME NEW i \in Nat, i # n, On(q, pos, i)
         PROVE  /\ On(q1, pos1, i)' /\ q1[i] = q[i] /\ next'[q1[i]] = next[q[i]]
                /\ back'[q1[i]] = back[q[i]] /\ notify'[q1[i]] = notify[q[i]]
    <2>1. q1[i] = q[i] /\ q[i] \in Thread /\ q[i] # t
      BY <1>6, <1>8, <1>11 DEF On
    <2> QED BY <1>7, <1>9, <1>10, <1>11, <2>1 DEF On
  <1>12. On(q1, pos1, n)'
    BY <1>7, <1>8 DEF On
  <1>13. \A i \in lo .. hi : On(q, pos, i) /\ LinkAt(q, lo, hi, m, i)
    BY DEF Listed, Live, Linked
  <1>14. \A i \in lo .. hi : /\ On(q1, pos1, i)' /\ q1[i] = q[i] /\ next'[q1[i]] = next[q[i]]
                             /\ back'[q1[i]] = back[q[i]] /\ notify'[q1[i]] = notify[q[i]]
    <2> SUFFICES ASSUME NEW i \in lo .. hi
                 PROVE  /\ On(q1, pos1, i)' /\ q1[i] = q[i] /\ next'[q1[i]] = next[q[i]]
                        /\ back'[q1[i]] = back[q[i]] /\ notify'[q1[i]] = notify[q[i]]
      OBVIOUS
    <2>1. i \in Nat /\ i # n /\ On(q, pos, i)
      BY <1>5, <1>13
    <2> QED BY <1>11, <2>1
  <1>15. Ghosts(q1, pos1, lo, n, m1, c1, k1)
    <2>1. t \in Block
      BY Names
    <2> QED BY <1>5, <2>1 DEF Listed, Ghosts
  <1>16. word.waiting => Ends(q1, lo, n, m1)' /\ Linked(q1, lo, n, m1)'
    <2> SUFFICES ASSUME word.waiting PROVE Ends(q1, lo, n, m1)' /\ Linked(q1, lo, n, m1)'
      OBVIOUS
    <2>1. /\ lo <= hi /\ lo <= m /\ m <= hi /\ m1 = m /\ notify[q[m]] = q[lo] /\ next[q[hi]] = Null
          /\ word.block = q[hi] /\ (word.multi => notify[q[lo]] = q[lo])
      BY DEF Listed, Ends
    <2>2. lo \in lo .. hi /\ m \in lo .. hi /\ hi \in lo .. hi
      BY <1>5, <2>1
    <2>3. Ends(q1, lo, n, m1)'
      <3>1. notify'[q1[m]] = q1[lo] /\ (word.multi => notify'[q1[lo]] = q1[lo])
        BY <1>14, <2>1, <2>2
      <3> QED BY <1>3, <1>5, <1>8, <1>10, <2>1, <3>1 DEF Ends
    <2>4. Linked(q1, lo, n, m1)'
      <3> SUFFICES ASSUME NEW i \in lo .. n PROVE LinkAt(q1, lo, n, m, i)'
        BY <2>1 DEF Linked
      <3>1. CASE i = n
        <4>1. back'[q1[n]] = q1[n - 1] /\ notify'[q1[n]] = Null
          BY <1>5, <1>8, <1>10, <1>14, <2>1, <2>2
        <4> QED BY <1>5, <2>1, <3>1, <4>1 DEF LinkAt
      <3>2. CASE i # n
        <4>1. i \in lo .. hi /\ i \in Nat
          BY <1>5, <3>2
        <4>2. LinkAt(q, lo, hi, m, i) /\ q1[lo] = q[lo]
          BY <1>13, <1>14, <2>2, <4>1
        <4>3. i > m => notify'[q1[i]] = Null /\ back'[q1[i]] = q1[i-1]
          <5>1. i > m => i - 1 \in lo .. hi
            BY <1>5, <2>1, <4>1
          <5> QED BY <1>14, <4>1, <4>2, <5>1 DEF LinkAt
        <4>4. i < hi => i + 1 \in lo .. hi /\ q1[i+1] = q[i+1]
          BY <1>5, <1>14, <4>1
        <4>5. i < m => next'[q1[i]] = q1[i+1]
          BY <1>5, <1>14, <2>1, <4>1, <4>2, <4>4 DEF LinkAt
        <4>6. i < n => next'[q1[i]] \in {Null, q1[i+1]}
          <5>1. CASE i = hi
            BY <1>14, <2>1, <4>1, <5>1
          <5>2. CASE i # hi
            BY <1>5, <1>14, <4>1, <4>2, <4>4, <5>2 DEF LinkAt
          <5> QED BY <5>1, <5>2
        <4>7. word'.multi => /\ notify'[q1[i]] \in {Null, q1[lo]}
                             /\ i > lo => back'[q1[i]] = q1[i-1]
          <5>1. i > lo => i - 1 \in lo .. hi
            BY <1>5, <4>1
          <5> QED BY <1>3, <1>14, <4>1, <4>2, <5>1 DEF LinkAt
        <4> QED BY <4>3, <4>5, <4>6, <4>7 DEF LinkAt
      <3> QED BY <3>1, <3>2
    <2> QED BY <2>3, <2>4
  <1>17. ~word.waiting => Ends(q1, lo, n, m1)' /\ Linked(q1, lo, n, m1)'
    <2> SUFFICES ASSUME ~word.waiting PROVE Ends(q1, lo, n, m1)' /\ Linked(q1, lo, n, m1)'
      OBVIOUS
    <2>1. m1 = n /\ lo = n
      BY <1>5 DEF Listed, Ends
    <2>2. Ends(q1, lo, n, m1)'
      BY <1>3, <1>5, <1>8, <1>10, <2>1 DEF Ends
    <2>3. Linked(q1, lo, n, m1)'
      <3> SUFFICES ASSUME NEW i \in lo .. n PROVE LinkAt(q1, lo, n, m1, i)'
        BY DEF Linked
      <3>1. i = n /\ ~(i > m1) /\ ~(i < m1) /\ ~(i < n) /\ ~(i > lo)
        BY <1>5, <2>1
      <3>2. notify'[q1[i]] = q1[lo]
        BY <1>8, <1>10, <2>1, <3>1
      <3> QED BY <3>1, <3>2 DEF LinkAt
    <2> QED BY <2>2, <2>3
  <1>18. Live(q1, pos1, lo, n)'
    <2>1. \A i \in lo .. n : i = n \/ i \in lo .. hi
      BY <1>5
    <2> QED BY <1>12, <1>14, <2>1 DEF Live
  <1>19. c1[t] = n /\ k1[t] = n /\ \A u \in Thread : u # t => c1[u] = c[u] /\ k1[u] = k[u]
    BY DEF Listed, Ghosts
  <1>20. /\ pc'[t] \notin {"wake", "swalk", "release"} /\ \A u \in Thread : u # t => pc'[u] = pc[u]
         /\ pc[t] # "release" /\ ~Walker(t)
    BY <1>1, <1>2 DEF Walker, TypeOK
  <1>21. \A u \in Thread : u # t /\ pc[u] = "release" =>
           /\ WakeAt(q, pos, lo, c[u], k[u], u) /\ c[u] \in Nat /\ k[u] \in Nat /\ k[u] < n
    <2> SUFFICES ASSUME NEW u \in Thread, pc[u] = "release"
                 PROVE  WakeAt(q, pos, lo, c[u], k[u], u) /\ c[u] \in Nat /\ k[u] \in Nat /\ k[u] < n
      OBVIOUS
    <2>1. WakeAt(q, pos, lo, c[u], k[u], u) /\ c[u] \in Nat /\ k[u] \in Nat /\ k[u] < lo
      BY WakeFinds
    <2> QED BY <1>5, <2>1
  <1>22. Known(q1, pos1, lo, n, c1, k1)'
    <2> SUFFICES ASSUME NEW x \in Thread, Queued(x)' PROVE KnownAt(q1, pos1, lo, n, c1, k1, x)'
      BY DEF Known, KnownAt
    <2>1. CASE x = t
      <3>1. pos1[x] \in lo .. n /\ q1[pos1[x]] = x
        BY <1>5, <1>8, <2>1
      <3> QED BY <3>1 DEF KnownAt
    <2>2. CASE x # t
      <3>1. Queued(x) /\ KnownAt(q, pos, lo, hi, c, k, x) /\ pos1[x] = pos[x] /\ pos[x] \in Nat
        BY <1>7, <1>9, <2>2 DEF Listed, Known, Ghosts
      <3>2. CASE pos[x] \in lo .. hi
        <4>1. pos[x] \in lo .. n /\ pos[x] # n
          BY <1>5, <3>2
        <4> QED BY <1>8, <3>1, <4>1 DEF KnownAt
      <3>3. CASE pos[x] \notin lo .. hi
        <4>1. PICK u \in Thread : pc[u] = "release" /\ pos[x] \in c[u] .. k[u]
          BY <3>1, <3>3 DEF KnownAt
        <4>2. u # t
          BY <1>20, <4>1
        <4>3. pos[x] # n
          BY <1>5, <1>21, <3>1, <4>1, <4>2
        <4> QED BY <1>8, <1>19, <1>20, <3>1, <4>1, <4>2, <4>3 DEF KnownAt
      <3> QED BY <3>2, <3>3
    <2> QED BY <2>1, <2>2
  <1>23. Apart(c1, k1)'
    <2> SUFFICES ASSUME NEW u \in Thread, NEW v \in Thread, u # v, pc'[u] = "release", pc'[v] = "release"
                 PROVE  k1[u] < c1[v] \/ k1[v] < c1[u]
      BY DEF Apart
    <2>1. u # t /\ v # t
      BY <1>20
    <2> QED BY <1>19, <1>20, <2>1 DEF Listed, Apart
  <1>24. Cursors(q1, pos1, lo, n, m1, c1, k1)'
    <2> SUFFICES ASSUME NEW u \in Thread PROVE Cursor(q1, pos1, lo, n, m1, c1[u], k1[u], u)'
      BY DEF Cursors
    <2>1. CASE u = t
      <3>1. Walker(u)' => WalkAt(q1, n, m1, n, n, u)'
        <4> SUFFICES ASSUME Walker(u)' PROVE WalkAt(q1, n, m1, n, n, u)'
          OBVIOUS
        <4>1. p'[t] = t /\ old'[t].block = t /\ pc'[t] = "optimize"
          BY <1>2, <2>1 DEF Walker, TypeOK
        <4>2. m1 <= n
          BY <1>5 DEF Listed, Ends
        <4>3. Strung(q1, n, n)'
          BY <1>5 DEF Strung
        <4> QED BY <1>5, <1>8, <1>10, <2>1, <4>1, <4>2, <4>3 DEF WalkAt
      <3> QED BY <1>19, <1>20, <2>1, <3>1 DEF Cursor
    <2>2. CASE u # t
      <3>0. Cursor(q, pos, lo, hi, m, c[u], k[u], u) /\ c[u] \in Nat /\ k[u] \in Nat
        BY DEF Listed, Cursors, Ghosts
      <3>00. pc'[u] = pc[u] /\ p'[u] = p[u] /\ old'[u] = old[u]
        BY <1>4, <2>2 DEF Others
      <3>1. Walker(u)' => WalkAt(q1, n, m1, c[u], k[u], u)'
        <4> SUFFICES ASSUME Walker(u)' PROVE WalkAt(q1, n, m1, c[u], k[u], u)'
          OBVIOUS
        <4>1. Walker(u) /\ word.waiting
          BY <3>00 DEF Walker, WalkerInv
        <4>2. WalkAt(q, hi, m, c[u], k[u], u) /\ lo <= m /\ m1 = m
          BY <3>0, <4>1, WalkFinds DEF Cursor
        <4>3. m <= c[u] /\ c[u] <= k[u] /\ k[u] <= hi /\ k[u] <= n
          BY <1>5, <3>0, <4>2 DEF WalkAt
        <4>4. k[u] \in lo .. hi /\ c[u] \in lo .. hi
          BY <1>5, <3>0, <4>2, <4>3
        <4>5. next'[q1[k[u]]] = Null /\ p'[u] = q1[c[u]] /\ old'[u].block = q1[k[u]]
          BY <1>14, <3>00, <4>2, <4>4 DEF WalkAt
        <4>6. Strung(q1, c[u], k[u])'
          <5> SUFFICES ASSUME NEW i \in Nat, c[u] <= i, i < k[u] PROVE next'[q1[i]] = q1[i+1]
            BY DEF Strung
          <5>1. i \in lo .. hi /\ i + 1 \in lo .. hi
            BY <1>5, <3>0, <4>2, <4>3
          <5>2. next[q[i]] = q[i+1]
            BY <4>2 DEF WalkAt, Strung
          <5> QED BY <1>14, <5>1, <5>2
        <4>7. pc'[u] = "wake" /\ old'[u].locked => c[u] = k[u]
          BY <3>00, <4>2 DEF WalkAt
        <4> QED BY <4>2, <4>3, <4>5, <4>6, <4>7 DEF WalkAt
      <3>2. pc'[u] = "swalk" => CountAt(q1, lo, n, c[u], u)'
        <4> SUFFICES ASSUME pc'[u] = "swalk" PROVE CountAt(q1, lo, n, c[u], u)'
          OBVIOUS
        <4>1. word.multi /\ p[u] = q[c[u]] /\ c[u] \in lo .. hi
          BY <3>00, CountFinds
        <4>2. word'.multi
          BY <1>3, <4>1 DEF Sound
        <4>3. lo <= c[u] /\ c[u] <= n /\ q1[c[u]] = q[c[u]]
          BY <1>5, <1>14, <4>1
        <4> QED BY <3>00, <4>1, <4>2, <4>3 DEF CountAt
      <3>3. pc'[u] = "release" => WakeAt(q1, pos1, lo, c[u], k[u], u)'
        <4> SUFFICES ASSUME pc'[u] = "release" PROVE WakeAt(q1, pos1, lo, c[u], k[u], u)'
          OBVIOUS
        <4>1. WakeAt(q, pos, lo, c[u], k[u], u) /\ k[u] < n /\ c[u] <= k[u] /\ k[u] < lo
          BY <1>21, <2>2, <3>00 DEF WakeAt
        <4>2. \A i \in c[u] .. k[u] : /\ On(q1, pos1, i)' /\ q1[i] = q[i] /\ next'[q1[i]] = next[q[i]]
          <5> SUFFICES ASSUME NEW i \in c[u] .. k[u]
                       PROVE  On(q1, pos1, i)' /\ q1[i] = q[i] /\ next'[q1[i]] = next[q[i]]
            OBVIOUS
          <5>1. i \in Nat /\ i # n /\ On(q, pos, i)
            BY <1>5, <3>0, <4>1 DEF WakeAt
          <5> QED BY <1>11, <5>1
        <4>3. k[u] \in c[u] .. k[u] /\ c[u] \in c[u] .. k[u]
          BY <3>0, <4>1
        <4>4. Strung(q1, c[u], k[u])'
          <5> SUFFICES ASSUME NEW i \in Nat, c[u] <= i, i < k[u] PROVE next'[q1[i]] = q1[i+1]
            BY DEF Strung
          <5>1. i \in c[u] .. k[u] /\ i + 1 \in c[u] .. k[u]
            BY <3>0
          <5>2. next[q[i]] = q[i+1]
            BY <4>1 DEF WakeAt, Strung
          <5> QED BY <4>2, <5>1, <5>2
        <4>5. next'[q1[k[u]]] = Null /\ p'[u] = q1[c[u]]
          BY <3>00, <4>1, <4>2, <4>3 DEF WakeAt
        <4> QED BY <4>1, <4>2, <4>4, <4>5 DEF WakeAt
      <3> QED BY <1>19, <2>2, <3>1, <3>2, <3>3 DEF Cursor
    <2> QED BY <2>1, <2>2
  <1> QED BY <1>15, <1>16, <1>17, <1>18, <1>22, <1>23, <1>24 DEF Listed

-----------------------------------------------------------------------------
(* The inductive invariant.                                                *)

Core == TypeOK /\ LocalInv /\ Sound(word) /\ WalkerInv /\ NoLostWakeup

ListInv ==
  \E q, pos, lo, hi, m, c, k : Owners(share[q[lo]]) /\ Listed(q, pos, lo, hi, m, c, k)

IInv == Core /\ ListInv

\* The list and the owners after a step, with the same oldest block.
LEMMA ListNext ==
  ASSUME NEW q, NEW pos, NEW lo, NEW hi, NEW m, NEW c, NEW k, Listed(q, pos, lo, hi, m, c, k)',
         NEW s, Owners(s)', share'[q[lo]] = s
  PROVE  ListInv'
  <1>1. Owners(share[q[lo]])'
    BY DEF Owners, Owned
  <1> QED BY <1>1 DEF ListInv

\* Without a count it does not matter which block would hold it.
LEMMA AnyOwners ==
  ASSUME NEW s, NEW x, Owners(s)', ~word'.multi
  PROVE  Owners(x)'
  BY DEF Owners, Owned

\* What the cursors say of the blocks a thread is about to touch.
LEMMA DeadBlocks ==
  ASSUME WalkerInv,
         NEW q, NEW pos, NEW lo, NEW hi, NEW m, NEW c, NEW k, Listed(q, pos, lo, hi, m, c, k)
  PROVE  NoDeadBlock
  <1>0. lo \in Nat /\ hi \in Nat /\ m \in Nat /\ \A t \in Thread : c[t] \in Nat /\ k[t] \in Nat
    BY DEF Listed, Ghosts
  <1>1. \A i \in lo .. hi : Queued(q[i])
    BY DEF Listed, Live, On
  <1>2. ASSUME NEW t \in Thread, Walker(t)
        PROVE  /\ Queued(p[t]) /\ Queued(old[t].block)
               /\ IF notify[p[t]] = Null THEN Queued(back[p[t]]) ELSE Queued(notify[p[t]])
    <2>1. /\ lo <= m /\ m <= c[t] /\ c[t] <= k[t] /\ k[t] <= hi /\ p[t] = q[c[t]] /\ old[t].block = q[k[t]]
          /\ notify[p[t]] = Null => c[t] > m /\ back[p[t]] = q[c[t] - 1]
          /\ notify[p[t]] # Null => notify[p[t]] = q[lo]
      BY <1>2, WalkFinds
    <2>2. c[t] \in lo .. hi /\ k[t] \in lo .. hi /\ lo \in lo .. hi
      BY <1>0, <2>1
    <2>3. notify[p[t]] = Null => c[t] - 1 \in lo .. hi
      BY <1>0, <2>1
    <2> QED BY <1>1, <2>1, <2>2, <2>3
  <1>3. ASSUME NEW t \in Thread, pc[t] = "swalk"
        PROVE  /\ Queued(p[t])
               /\ IF notify[p[t]] = Null THEN Queued(back[p[t]]) ELSE Queued(notify[p[t]])
    <2>1. /\ p[t] = q[c[t]] /\ c[t] \in lo .. hi
          /\ notify[p[t]] = Null => c[t] > lo /\ back[p[t]] = q[c[t] - 1]
          /\ notify[p[t]] # Null => notify[p[t]] = q[lo]
      BY <1>3, CountFinds
    <2>2. lo \in lo .. hi /\ (notify[p[t]] = Null => c[t] - 1 \in lo .. hi)
      BY <1>0, <2>1
    <2> QED BY <1>1, <2>1, <2>2
  <1>4. ASSUME NEW t \in Thread, pc[t] = "release"
        PROVE  Queued(p[t])
    BY <1>4, WakeFinds DEF On
  <1> QED BY <1>2, <1>3, <1>4 DEF NoDeadBlock, Walker

\* What the cursors say of the pointers a thread is about to follow.
LEMMA Pointers ==
  ASSUME TypeOK, Sound(word), WalkerInv,
         NEW q, NEW pos, NEW lo, NEW hi, NEW m, NEW c, NEW k, Listed(q, pos, lo, hi, m, c, k),
         Owners(share[q[lo]])
  PROVE  PointersInv
  <1> SUFFICES ASSUME NEW t \in Thread
               PROVE  /\ pc[t] \in {"optimize", "wake", "swalk", "release"} => p[t] \in Thread
                      /\ Walker(t) => old[t].block \in Thread
                      /\ Uncount(t) => notify[p[t]] \in Thread /\ share[notify[p[t]]] - 1 \in Nat
    BY DEF PointersInv
  <1>1. Walker(t) => p[t] \in Thread /\ old[t].block \in Thread
    BY WalkFinds
  <1>2. pc[t] = "swalk" => p[t] \in Thread
    BY CountFinds
  <1>3. pc[t] = "release" => p[t] \in Thread
    BY WakeFinds
  <1>4. ASSUME Uncount(t)
        PROVE  notify[p[t]] \in Thread /\ share[notify[p[t]]] - 1 \in Nat
    <2>1. pc[t] = "swalk" /\ notify[p[t]] # Null
      BY <1>4 DEF Uncount
    <2>2. word.multi /\ notify[p[t]] = q[lo] /\ q[lo] \in Thread
      BY <2>1, CountFinds
    <2>3. PICK s : s = share[notify[p[t]]]
      OBVIOUS
    <2>4. Owners(s)
      BY <2>2, <2>3
    <2>5. word.waiting
      BY <2>2 DEF Sound
    <2>6. s \in Nat /\ s > 0
      BY <1>4, <2>2, <2>3, <2>4, <2>5, UncountOwners
    <2> QED BY <2>2, <2>3, <2>6
  <1> QED BY <1>1, <1>2, <1>3, <1>4 DEF Walker

-----------------------------------------------------------------------------
(* The list and the owners.                                                *)

\* Acquiring keeps the list and the owners.
LEMMA AcquireKeeps ==
  ASSUME Core, NEW q, NEW pos, NEW lo, NEW hi, NEW m, NEW c, NEW k, Listed(q, pos, lo, hi, m, c, k),
         Owners(share[q[lo]]), NEW t \in Thread,
         \/ Call(t) \/ ReadExclusive(t) \/ LockExclusive(t) \/ ReadShared(t) \/ LockShared(t)
         \/ ReleaseExclusive(t)
  PROVE  Sound(word') /\ ListInv'
  <1> USE DEF Core
  <1>1. PICK s : s = share[q[lo]]
    OBVIOUS
  <1>2. Owners(s)
    BY <1>1
  <1>3. Sound(word') /\ Owners(s)'
    BY <1>2, TestAndSetOwners, LockExclusiveOwners, ReadOwners, FirstSharedOwners,
        LockSharedOwners, ReleaseExclusiveOwners
       DEF Call, AcquireExclusive, TryAcquireExclusive, AcquireShared, TryAcquireShared
  <1>4. Kept
    BY <1>3, QuietKept
  <1>5. \E c1, k1 : Listed(q, pos, lo, hi, m, c1, k1)'
    BY <1>4, QuietListed
  <1>6. share' = share
    BY DEF Call, AcquireExclusive, TryAcquireExclusive, TestAndSet, AcquireShared, TryAcquireShared,
           FirstShared, ReadExclusive, LockExclusive, ReadShared, LockShared, ReleaseExclusive,
           lists
  <1> QED BY <1>1, <1>3, <1>5, <1>6, ListNext

\* So does queueing.
LEMMA PushKeeps ==
  ASSUME Core, NEW q, NEW pos, NEW lo, NEW hi, NEW m, NEW c, NEW k, Listed(q, pos, lo, hi, m, c, k),
         Owners(share[q[lo]]), NEW t \in Thread, Push(t)
  PROVE  Sound(word') /\ ListInv' /\ (Unchanged(t) => word.locked)
  <1> USE DEF Core
  <1>1. PICK s : s = share[q[lo]]
    OBVIOUS
  <1>2. Owners(s)
    BY <1>1
  <1>3. PICK x : x = IF word.waiting THEN s ELSE word.readers
    OBVIOUS
  <1>4. Sound(word') /\ (~Unchanged(t) => Owners(s)') /\ (Unchanged(t) => word.locked /\ Owners(x)')
    BY <1>2, <1>3, PushOwners
  <1>5. CASE Unchanged(t)
    <2>11. PICK n : n = hi + 1
      OBVIOUS
    <2>12. PICK m1 : m1 = IF word.waiting THEN m ELSE n
      OBVIOUS
    <2>13. PICK q1 : q1 = [q EXCEPT ![n] = t]
      OBVIOUS
    <2>14. PICK pos1 : pos1 = [pos EXCEPT ![t] = n]
      OBVIOUS
    <2>15. PICK c1 : c1 = [c EXCEPT ![t] = n]
      OBVIOUS
    <2>16. PICK k1 : k1 = [k EXCEPT ![t] = n]
      OBVIOUS
    <2>2. Listed(q1, pos1, lo, n, m1, c1, k1)'
      <3>1. Numbered(q, pos, hi, m, c, k, t, n, m1, q1, pos1, c1, k1)
        BY <2>11, <2>12, <2>13, <2>14, <2>15, <2>16 DEF Numbered
      <3> QED BY <1>5, <3>1, PushListed
    <2>3. share' = [share EXCEPT ![t] = word.readers]
      BY <1>5 DEF Push, Unchanged
    <2>4. lo \in Nat /\ hi \in Nat /\ n \in Nat
      BY <2>11 DEF Listed, Ghosts
    <2>5. CASE word.waiting
      <3>1. lo # n /\ lo \in lo .. hi
        BY <2>11, <2>13, <2>4, <2>5 DEF Listed, Ends
      <3>2. q1[lo] = q[lo] /\ q[lo] \in Thread /\ Queued(q[lo])
        BY <2>11, <2>13, <2>4, <3>1 DEF Listed, Live, On, Ghosts
      <3>3. ~Queued(t)
        BY DEF Push, LocalInv, LocalAt, Queued
      <3>4. share'[q1[lo]] = x
        BY <1>1, <1>3, <2>3, <2>5, <3>2, <3>3 DEF TypeOK
      <3> QED BY <1>4, <1>5, <2>2, <3>4, ListNext
    <2>6. CASE ~word.waiting
      <3>1. lo = n
        BY <2>11, <2>13, <2>4, <2>6 DEF Listed, Ends
      <3>2. q1[lo] = t
        BY <2>11, <2>13, <2>4, <3>1 DEF Listed, Ghosts
      <3>3. share'[q1[lo]] = x
        BY <1>3, <2>3, <2>6, <3>2 DEF TypeOK
      <3> QED BY <1>4, <1>5, <2>2, <3>3, ListNext
    <2> QED BY <2>5, <2>6
  <1>6. CASE ~Unchanged(t)
    <2>1. UNCHANGED <<word, lists, old, p>> /\ \E v \in {"xread", "sread"} : pc' = [pc EXCEPT ![t] = v]
      BY <1>6 DEF Push, Goto
    <2>2. pc[t] \in {"xpush", "spush"}
      BY DEF Push
    <2>3. SameQueued /\ Others(t) /\ pc'[t] \notin {"optimize", "wake", "swalk", "release"}
      BY <2>1, <2>2, QueuedStays DEF lists, Others, TypeOK
    <2>4. hi \in Nat /\ Cursor(q, pos, lo, hi, m, hi, hi, t)'
      BY <2>3, NoCursor DEF Listed, Ghosts
    <2>5. \A u \in Thread : pc[u] = "swalk" => word'.multi
      BY <2>1 DEF Listed, Cursors, Cursor, CountAt
    <2>6. \E c1, k1 : Listed(q, pos, lo, hi, m, c1, k1)'
      BY <2>1, <2>2, <2>3, <2>4, <2>5, TurnListed DEF lists
    <2> QED BY <1>1, <1>4, <1>6, <2>1, <2>6, ListNext DEF lists
  <1> QED BY <1>4, <1>5, <1>6

\* So do waiting and walking.
LEMMA WalkKeeps ==
  ASSUME Core, NEW q, NEW pos, NEW lo, NEW hi, NEW m, NEW c, NEW k, Listed(q, pos, lo, hi, m, c, k),
         Owners(share[q[lo]]), NEW t \in Thread,
         Park(t) \/ Walk(t) \/ OptimizeDone(t) \/ WakeLocked(t) \/ WakeOne(t) \/ WakeAll(t)
  PROVE  Sound(word') /\ ListInv'
  <1> USE DEF Core
  <1>1. PICK s : s = share[q[lo]]
    OBVIOUS
  <1>2. Owners(s)
    BY <1>1
  <1>3. share' = share
    BY DEF Park, Walk, OptimizeDone, WakeLocked, WakeOne, WakeAll, lists
  <1>4. CASE Park(t) \/ Walk(t)
    <2>1. Sound(word') /\ Owners(s)'
      BY <1>2, <1>4, ParkOwners
    <2>2. \E c1, k1 : Listed(q, pos, lo, hi, m, c1, k1)'
      BY <1>4, ParkListed, WalkListed
    <2> QED BY <1>1, <1>3, <2>1, <2>2, ListNext
  <1>5. CASE WakeLocked(t)
    <2>1. Sound(word') /\ Owners(s)'
      BY <1>2, <1>5, GiveUpOwners
    <2>2. \E c1, k1 : Listed(q, pos, lo, hi, m, c1, k1)'
      BY <1>5, WakeLockedListed
    <2> QED BY <1>1, <1>3, <2>1, <2>2, ListNext
  <1>6. CASE OptimizeDone(t) \/ (WakeAll(t) /\ ~Unchanged(t))
    <2>1. Sound(word') /\ Owners(s)'
      BY <1>2, <1>6, GiveUpOwners, WakeAllOwners
    <2>2. \E c1, k1 : Listed(q, pos, lo, hi, k[t], c1, k1)'
      BY <1>6, OptimizeDoneListed
    <2> QED BY <1>1, <1>3, <2>1, <2>2, ListNext
  <1>7. CASE WakeOne(t)
    <2>1. Sound(word') /\ \A x : Owners(x)'
      BY <1>2, <1>7, WakeOneOwners
    <2>2. \E c1, k1 : Listed(q, pos, lo + 1, hi, k[t], c1, k1)'
      BY <1>7, WakeOneListed
    <2>3. PICK x : x = share[q[lo + 1]]
      OBVIOUS
    <2> QED BY <1>3, <2>1, <2>2, <2>3, ListNext
  <1>8. CASE WakeAll(t) /\ Unchanged(t)
    <2>1. Sound(word') /\ \A x : Owners(x)'
      BY <1>2, <1>8, WakeAllOwners
    <2>2. \E c1, k1 : Listed(q, pos, hi + 1, hi, m, c1, k1)'
      BY <1>8, WakeAllListed
    <2>3. PICK x : x = share[q[hi + 1]]
      OBVIOUS
    <2> QED BY <1>3, <2>1, <2>2, <2>3, ListNext
  <1> QED BY <1>4, <1>5, <1>6, <1>7, <1>8

\* So does waking.
LEMMA ReleaseKeeps ==
  ASSUME Core, NEW q, NEW pos, NEW lo, NEW hi, NEW m, NEW c, NEW k, Listed(q, pos, lo, hi, m, c, k),
         Owners(share[q[lo]]), NEW t \in Thread, Release(t)
  PROVE  Sound(word') /\ ListInv'
  <1> USE DEF Core
  <1>0. pc[t] = "release" /\ word' = word
    BY DEF Release
  <1>1. PICK s : s = share[q[lo]]
    OBVIOUS
  <1>2. Owners(s)
    BY <1>1
  <1>3. /\ p[t] \in Thread /\ p[t] = q[c[t]] /\ On(q, pos, c[t]) /\ c[t] <= k[t] /\ k[t] < lo
        /\ c[t] \in Nat /\ k[t] \in Nat /\ lo \in Nat /\ hi \in Nat
    BY <1>0, WakeFinds
  <1>4. Sound(word') /\ Owners(s)'
    BY <1>2, <1>3, ReleaseOwners
  <1>5. \E c1, k1 : Listed(q, pos, lo, hi, m, c1, k1)'
    BY ReleaseListed
  <1>6. CASE word.multi
    <2>1. lo \in lo .. hi
      BY <1>3, <1>6 DEF Sound, Listed, Ends
    <2>2. On(q, pos, lo) /\ lo # c[t]
      BY <1>3, <2>1 DEF Listed, Live
    <2>3. q[lo] # p[t] /\ q[lo] \in Thread
      BY <1>3, <2>2, Distinct DEF On
    <2>4. share'[q[lo]] = s
      BY <1>1, <1>3, <2>3 DEF Release, TypeOK
    <2> QED BY <1>4, <1>5, <2>4, ListNext
  <1>7. CASE ~word.multi
    <2>1. PICK x : x = share'[q[lo]]
      OBVIOUS
    <2>2. Owners(x)'
      BY <1>0, <1>4, <1>7, AnyOwners
    <2> QED BY <1>4, <1>5, <2>1, <2>2, ListNext
  <1> QED BY <1>6, <1>7

\* So does a release.
LEMMA UnlockKeeps ==
  ASSUME Core, NEW q, NEW pos, NEW lo, NEW hi, NEW m, NEW c, NEW k, Listed(q, pos, lo, hi, m, c, k),
         Owners(share[q[lo]]), NEW t \in Thread,
         ClaimWake(t) \/ ReleaseShared(t) \/ UncountReader(t) \/ WalkCount(t) \/ LastReader(t)
  PROVE  Sound(word') /\ ListInv' /\ (LastReader(t) /\ Unchanged(t) => word.waiting)
  <1> USE DEF Core
  <1>1. PICK s : s = share[q[lo]]
    OBVIOUS
  <1>2. Owners(s)
    BY <1>1
  <1>3. share' = share
    BY DEF ClaimWake, ReleaseShared, UncountReader, WalkCount, LastReader, lists
  <1>4. Sound(word') /\ Owners(s)'
    BY <1>2, ClaimWakeOwners, ReleaseSharedOwners, UncountReaderOwners, WalkCountOwners,
        LastReaderOwners
  <1>5. LastReader(t) /\ Unchanged(t) => Readers = {} /\ word.waiting
    BY <1>2, LastReaderOwners
  <1>6. \E c1, k1 : Listed(q, pos, lo, hi, m, c1, k1)'
    <2>1. CASE ClaimWake(t) \/ LastReader(t)
      BY <1>4, <1>5, <2>1, LastReaderListed
    <2>2. CASE ReleaseShared(t) \/ UncountReader(t)
      BY <1>4, <2>2, QuietKept, ReleaseSharedListed
    <2>3. CASE WalkCount(t)
      BY <2>3, WalkCountListed
    <2> QED BY <2>1, <2>2, <2>3
  <1> QED BY <1>1, <1>3, <1>4, <1>5, <1>6, ListNext

\* So does a reader that leaves through the count.
LEMMA UncountKeeps ==
  ASSUME Core, NEW q, NEW pos, NEW lo, NEW hi, NEW m, NEW c, NEW k, Listed(q, pos, lo, hi, m, c, k),
         Owners(share[q[lo]]), NEW t \in Thread, Uncount(t)
  PROVE  Sound(word') /\ ListInv'
  <1> USE DEF Core
  <1>1. pc[t] = "swalk" /\ notify[p[t]] # Null
    BY DEF Uncount
  <1>2. word.multi /\ notify[p[t]] = q[lo] /\ q[lo] \in Thread
    BY <1>1, CountFinds
  <1>3. PICK s : s = share[notify[p[t]]]
    OBVIOUS
  <1>4. Owners(s)
    BY <1>2, <1>3
  <1>5. word.waiting
    BY <1>2 DEF Sound
  <1>6. Sound(word') /\ share' = [share EXCEPT ![notify[p[t]]] = s - 1] /\ Owners(s - 1)'
    BY <1>2, <1>3, <1>4, <1>5, UncountOwners
  <1>7. share'[q[lo]] = s - 1
    BY <1>2, <1>6 DEF TypeOK
  <1>8. \E c1, k1 : Listed(q, pos, lo, hi, m, c1, k1)'
    BY UncountListed
  <1> QED BY <1>6, <1>7, <1>8, ListNext

-----------------------------------------------------------------------------
(* The invariant holds.                                                    *)

\* The inductive invariant holds of a free lock.
LEMMA LockStart == Init => IInv
  <1> SUFFICES ASSUME Init PROVE IInv
    OBVIOUS
  <1>1. /\ word = Free /\ Free \in Words /\ ~Free.locked /\ ~Free.waiting /\ ~Free.waking /\ ~Free.multi
        /\ Free.readers = 0 /\ Free.block = Null
    BY SetFree DEF Init, Free, Word
  <1>2. \A t \in Thread : pc[t] = "idle" /\ ~spin[t] /\ then[t] = "idle"
    BY DEF Init
  <1>3. TypeOK
    BY <1>1, Names DEF Init, TypeOK
  <1>4. Sound(word)
    BY <1>1 DEF Sound
  <1>5. LocalInv
    BY <1>2 DEF LocalInv, LocalAt, Walker
  <1>6. WalkerInv
    BY <1>1, <1>2 DEF WalkerInv, Walker
  <1>7. NoLostWakeup
    BY <1>1 DEF NoLostWakeup
  <1>8. ListInv
    <2> DEFINE q == [i \in Nat |-> Null]
               z == [t \in Thread |-> 0]
    <2>1. Owners(share[q[1]])
      BY <1>1, <1>2 DEF Owners, Owned, Writers, Readers, Last
    <2>2. Ghosts(q, z, 1, 0, 0, z, z)
      BY Names DEF Ghosts
    <2>3. 1 .. 0 = {}
      OBVIOUS
    <2>4. Ends(q, 1, 0, 0) /\ Linked(q, 1, 0, 0) /\ Live(q, z, 1, 0)
      BY <1>1, <2>3 DEF Ends, Linked, Live
    <2>5. Known(q, z, 1, 0, z, z) /\ Cursors(q, z, 1, 0, 0, z, z) /\ Apart(z, z)
      BY <1>2 DEF Known, KnownAt, Queued, Cursors, Cursor, Walker, Apart
    <2>6. Listed(q, z, 1, 0, 0, z, z)
      BY <2>2, <2>4, <2>5 DEF Listed
    <2> HIDE DEF q, z
    <2> QED BY <2>1, <2>6 DEF ListInv
  <1> QED BY <1>3, <1>4, <1>5, <1>6, <1>7, <1>8 DEF IInv, Core

\* What the invariant says of the blocks and pointers a thread is about to use.
LEMMA Facts ==
  ASSUME IInv
  PROVE  PointersInv /\ NoDeadBlock
  <1> USE DEF IInv, Core
  <1>1. PICK q, pos, lo, hi, m, c, k : Owners(share[q[lo]]) /\ Listed(q, pos, lo, hi, m, c, k)
    BY DEF ListInv
  <1> QED BY <1>1, DeadBlocks, Pointers

\* Every step keeps the list and the owners.
LEMMA Keeps ==
  ASSUME IInv, NEW t \in Thread, Call(t) \/ Unlock(t) \/ Inside(t)
  PROVE  /\ Sound(word') /\ ListInv' /\ (Push(t) /\ Unchanged(t) => word.locked)
         /\ (LastReader(t) /\ Unchanged(t) => word.waiting)
  <1>1. PICK q, pos, lo, hi, m, c, k : Owners(share[q[lo]]) /\ Listed(q, pos, lo, hi, m, c, k)
    BY DEF IInv, ListInv
  <1>2. Core
    BY DEF IInv
  <1>3. Push(t) /\ Unchanged(t) => word.locked
    BY <1>1, <1>2, PushKeeps
  <1>4. LastReader(t) /\ Unchanged(t) => word.waiting
    BY <1>1, <1>2, UnlockKeeps
  <1>5. CASE \/ Call(t) \/ ReadExclusive(t) \/ LockExclusive(t) \/ ReadShared(t) \/ LockShared(t)
             \/ ReleaseExclusive(t)
    BY <1>1, <1>2, <1>3, <1>4, <1>5, AcquireKeeps
  <1>6. CASE Push(t)
    BY <1>1, <1>2, <1>3, <1>4, <1>6, PushKeeps
  <1>7. CASE Park(t) \/ Walk(t) \/ OptimizeDone(t) \/ WakeLocked(t) \/ WakeOne(t) \/ WakeAll(t)
    BY <1>1, <1>2, <1>3, <1>4, <1>7, WalkKeeps
  <1>8. CASE Release(t)
    BY <1>1, <1>2, <1>3, <1>4, <1>8, ReleaseKeeps
  <1>9. CASE ClaimWake(t) \/ ReleaseShared(t) \/ UncountReader(t) \/ WalkCount(t) \/ LastReader(t)
    BY <1>1, <1>2, <1>3, <1>4, <1>9, UnlockKeeps
  <1>10. CASE Uncount(t)
    BY <1>1, <1>2, <1>3, <1>4, <1>10, UncountKeeps
  <1> QED BY <1>5, <1>6, <1>7, <1>8, <1>9, <1>10 DEF Unlock, Inside

\* Every step keeps the inductive invariant.
LEMMA LockStep ==
  ASSUME IInv, NEW t \in Thread, Call(t) \/ Unlock(t) \/ Inside(t)
  PROVE  IInv'
  <1>0. TypeOK /\ LocalInv /\ Sound(word) /\ WalkerInv /\ NoLostWakeup /\ PointersInv
    BY Facts DEF IInv, Core
  <1>1. /\ Sound(word') /\ ListInv' /\ (Push(t) /\ Unchanged(t) => word.locked)
        /\ (LastReader(t) /\ Unchanged(t) => word.waiting)
    BY Keeps
  <1>2. word' \in Words
    BY <1>1 DEF Sound
  <1>3. TypeOK' => LocalInv'
    <2> SUFFICES ASSUME TypeOK' PROVE LocalInv'
      OBVIOUS
    <2>1. CASE Call(t) \/ ReadExclusive(t) \/ LockExclusive(t) \/ ReadShared(t) \/ LockShared(t)
      BY <1>0, <2>1, AcquireLocal
    <2>2. CASE Push(t)
      BY <1>0, <1>1, <2>2, PushLocal
    <2>3. CASE Park(t)
      BY <1>0, <2>3, ParkLocal
    <2>4. CASE Walk(t) \/ WalkCount(t)
      BY <1>0, <2>4, WalkLocal
    <2>5. CASE OptimizeDone(t) \/ WakeLocked(t) \/ WakeOne(t) \/ WakeAll(t)
      BY <1>0, <2>5, EndWalkLocal
    <2>6. CASE Release(t)
      <3>1. p[t] \in Thread
        BY <1>0, <2>6 DEF Release, PointersInv
      <3> QED BY <1>0, <2>6, <3>1, ReleaseLocal
    <2>7. CASE \/ ReleaseExclusive(t) \/ ClaimWake(t) \/ ReleaseShared(t) \/ UncountReader(t)
               \/ Uncount(t) \/ LastReader(t)
      BY <1>0, <1>1, <2>7, UnlockLocal
    <2> QED BY <2>1, <2>2, <2>3, <2>4, <2>5, <2>6, <2>7 DEF Unlock, Inside
  <1>4. TypeOK'
    <2>1. CASE \/ Call(t) \/ ReadExclusive(t) \/ LockExclusive(t) \/ ReadShared(t) \/ LockShared(t)
               \/ ReleaseExclusive(t)
      BY <1>0, <1>2, <2>1, AcquireTypes
    <2>2. CASE Push(t)
      BY <1>0, <1>2, <2>2, PushTypes
    <2>3. CASE Park(t)
      BY <1>0, <2>3, ParkTypes
    <2>4. CASE Walk(t) \/ OptimizeDone(t) \/ WakeLocked(t) \/ WakeOne(t) \/ WakeAll(t)
      BY <1>0, <1>2, <2>4, WalkTypes
    <2>5. CASE Release(t)
      BY <1>0, <2>5, ReleaseTypes
    <2>6. CASE WalkCount(t)
      BY <1>0, <2>6, WalkCountTypes
    <2>7. CASE Uncount(t)
      BY <1>0, <2>7, UncountTypes
    <2>8. CASE LastReader(t) \/ ClaimWake(t) \/ ReleaseShared(t) \/ UncountReader(t)
      BY <1>0, <1>2, <2>8, EndTypes
    <2> QED BY <2>1, <2>2, <2>3, <2>4, <2>5, <2>6, <2>7, <2>8 DEF Unlock, Inside
  <1>5. WalkerInv'
    <2>1. CASE \/ Call(t) \/ ReadExclusive(t) \/ LockExclusive(t) \/ ReadShared(t) \/ LockShared(t)
               \/ ReleaseExclusive(t) \/ ReleaseShared(t) \/ UncountReader(t)
      BY <1>0, <1>1, <2>1, QuietKept, QuietWalker
    <2>2. CASE Push(t)
      BY <1>0, <2>2, PushWalker
    <2>3. CASE OptimizeDone(t) \/ WakeLocked(t) \/ WakeOne(t) \/ WakeAll(t)
      BY <1>0, <2>3, EndWalkWalker
    <2>4. CASE Park(t) \/ Walk(t) \/ WalkCount(t) \/ Uncount(t)
      BY <1>0, <2>4, StillWalker
    <2>5. CASE Release(t)
      <3>1. p[t] \in Thread
        BY <1>0, <2>5 DEF Release, PointersInv
      <3> QED BY <1>0, <2>5, <3>1, StillWalker
    <2>6. CASE ClaimWake(t) \/ LastReader(t)
      BY <1>0, <1>1, <2>6, ClaimWalker
    <2> QED BY <2>1, <2>2, <2>3, <2>4, <2>5, <2>6 DEF Unlock, Inside
  <1>6. NoLostWakeup'
    <2>0. TypeOK' /\ Sound(word')
      BY <1>1, <1>4
    <2>1. CASE Call(t) \/ ReadExclusive(t) \/ LockExclusive(t) \/ ReadShared(t) \/ LockShared(t)
      BY <1>0, <2>0, <2>1, AcquireLost
    <2>2. CASE Push(t) \/ Park(t)
      BY <1>0, <1>1, <2>0, <2>2, WaitLost
    <2>3. CASE Walk(t) \/ OptimizeDone(t) \/ WakeLocked(t) \/ WakeOne(t) \/ WakeAll(t)
      BY <1>0, <2>0, <2>3, WalkLost
    <2>4. CASE Release(t)
      <3>1. p[t] \in Thread
        BY <1>0, <2>4 DEF Release, PointersInv
      <3> QED BY <1>0, <2>0, <2>4, <3>1, ReleaseLost
    <2>5. CASE \/ ReleaseExclusive(t) \/ ClaimWake(t) \/ ReleaseShared(t) \/ UncountReader(t)
               \/ WalkCount(t) \/ Uncount(t) \/ LastReader(t)
      BY <1>0, <2>0, <2>5, UnlockLost
    <2> QED BY <2>1, <2>2, <2>3, <2>4, <2>5 DEF Unlock, Inside
  <1> QED BY <1>1, <1>3, <1>4, <1>5, <1>6 DEF IInv, Core

\* And so does none.
LEMMA LockStutter ==
  ASSUME IInv, UNCHANGED vars
  PROVE  IInv'
  <1> USE DEF IInv, Core, vars
  <1>1. TypeOK' /\ LocalInv' /\ Sound(word)' /\ WalkerInv' /\ NoLostWakeup'
    BY DEF TypeOK, LocalInv, LocalAt, WalkerInv, Walker, NoLostWakeup, Moving, Unchanged
  <1>2. PICK q, pos, lo, hi, m, c, k : Owners(share[q[lo]]) /\ Listed(q, pos, lo, hi, m, c, k)
    BY DEF ListInv
  <1>3. PICK s : s = share[q[lo]]
    OBVIOUS
  <1>4. Owners(s)'
    BY <1>2, <1>3, OwnSame DEF Writers, Readers, Last
  <1>5. Listed(q, pos, lo, hi, m, c, k)'
    BY <1>2 DEF Listed, Ghosts, Ends, Linked, LinkAt, Live, On, Queued, Known, KnownAt, Cursors,
        Cursor, Walker,
           WalkAt, CountAt, WakeAt, Strung, Apart
  <1> QED BY <1>1, <1>3, <1>4, <1>5, ListNext

\* The word, the threads and the list of wait blocks always fit together as IInv says.
THEOREM LockInvariance == Spec => []IInv
  <1>1. Init => IInv
    BY LockStart
  <1>2. IInv /\ [Next]_vars => IInv'
    BY LockStep, LockStutter DEF Next
  <1> QED BY <1>1, <1>2, PTL DEF Spec

\* No thread ever touches the wait block of a thread that waits no more
\* (RtlpWakeSRWLock, RtlpOptimizeSRWLockList, ReleaseSRWLockShared).
THEOREM BlocksAlive == Spec => []NoDeadBlock
  <1>1. IInv => NoDeadBlock
    BY Facts
  <1> QED BY <1>1, LockInvariance, PTL

\* A free lock with waiters always has a walker or a thread that will lock next:
\* no interleaving of a release with queueing, optimising and waking loses a wake-up.
THEOREM WakeupsKept == Spec => []NoLostWakeup
  <1>1. IInv => NoLostWakeup
    BY DEF IInv, Core
  <1> QED BY <1>1, LockInvariance, PTL

USE NullIsNoThread, ThreadsAssumption

-----------------------------------------------------------------------------
(* What the definitions that follow links compute.                         *)

\* Every set of numbers has a least one.
LEMMA LeastNumber ==
  ASSUME NEW T \in SUBSET Nat, T # {}
  PROVE  \E n \in T : \A i \in T : n <= i
  <1>1. PICK n \in T : \A i \in T : ~ (<<i, n>> \in OpToRel(<, Nat))
    BY NatLessThanWellFounded, WFMin
  <1>2. \A i \in T : ~ (i < n)
    BY <1>1 DEF OpToRel
  <1> QED BY <1>2

\* The links lead from r[0] through r[1], ... to r[n] and end there.
Chained(link, r, n) ==
  /\ n \in Nat
  /\ \A i \in 0 .. n : r[i] \in Thread
  /\ \A i \in 0 .. n : i < n => link[r[i]] = r[i+1]
  /\ link[r[n]] = Null

\* Following links from one end of a chain meets just the chain.
LEMMA ChainFollowed ==
  ASSUME NEW link, NEW r, NEW n, Chained(link, r, n)
  PROVE  Follow(link, r[0]) = {r[i] : i \in 0 .. n}
  <1> DEFINE R == {r[i] : i \in 0 .. n}
  <1>0. n \in Nat
    BY DEF Chained
  <1>1. /\ n \in Nat /\ R \in SUBSET Thread /\ r[0] \in R /\ link[r[n]] = Null
        /\ \A i \in 0 .. n : i < n => link[r[i]] = r[i+1]
        /\ \A i \in 0 .. n : r[i] \in Thread
    BY DEF Chained
  <1>2. ASSUME NEW y \in R, link[y] # Null
        PROVE  link[y] \in R
    <2>1. PICK i \in 0 .. n : y = r[i]
      OBVIOUS
    <2>2. i # n
      BY <1>1, <1>2, <2>1
    <2>3. i < n /\ i + 1 \in 0 .. n
      BY <1>1, <2>2
    <2> QED BY <1>1, <2>1, <2>3
  <1>3. Follow(link, r[0]) \subseteq R
    BY <1>1, <1>2 DEF Follow
  <1>4. ASSUME NEW S \in SUBSET Thread, r[0] \in S, \A y \in S : link[y] # Null => link[y] \in S
        PROVE  \A i \in 0 .. n : r[i] \in S
    <2> DEFINE Bad == {i \in 0 .. n : r[i] \notin S}
    <2> SUFFICES ASSUME Bad # {} PROVE FALSE
      OBVIOUS
    <2>1. Bad \in SUBSET Nat
      BY <1>1
    <2>2. PICK i \in Bad : \A j \in Bad : i <= j
      BY <2>1, LeastNumber
    <2>3. i \in 0 .. n /\ r[i] \notin S /\ i # 0
      BY <1>4, <2>2
    <2>4. i - 1 \in 0 .. n /\ i - 1 < n /\ i - 1 + 1 = i /\ ~(i <= i - 1)
      <3>1. i \in 0 .. n /\ i # 0
        BY <2>3
      <3> HIDE DEF Bad, R
      <3> QED BY <1>0, <3>1
    <2>5. i - 1 \notin Bad
      BY <2>2, <2>4
    <2>6. r[i-1] \in S
      BY <2>4, <2>5
    <2>7. link[r[i-1]] = r[i]
      BY <1>1, <2>4
    <2>8. r[i] # Null
      BY <1>1, <2>3
    <2> QED BY <1>4, <2>3, <2>6, <2>7, <2>8
  <1>5. R \subseteq Follow(link, r[0])
    <2> SUFFICES ASSUME NEW i \in 0 .. n PROVE r[i] \in Follow(link, r[0])
      OBVIOUS
    <2>1. r[i] \in Thread
      BY <1>1
    <2> HIDE DEF R
    <2> QED BY <1>4, <2>1 DEF Follow
  <1> QED BY <1>3, <1>5

-----------------------------------------------------------------------------
(* What the word and the list say of the owners.                           *)

\* The walk of the word's list goes from the newest block to number m and finds the oldest there.
LEMMA OldestIs ==
  ASSUME NEW q, NEW pos, NEW lo, NEW hi, NEW m, NEW c, NEW k, Listed(q, pos, lo, hi, m, c, k),
         word.waiting
  PROVE  /\ Visited(word.block) = {q[i] : i \in m .. hi}
         /\ Oldest(word.block) = q[lo]
  <1> DEFINE link == [x \in Thread |-> IF notify[x] = Null THEN back[x] ELSE Null]
             r == [i \in 0 .. hi - m |-> q[hi - i]]
  <1>1. /\ lo \in Nat /\ hi \in Nat /\ m \in Nat /\ lo <= m /\ m <= hi
        /\ notify[q[m]] = q[lo] /\ word.block = q[hi]
    BY DEF Listed, Ghosts, Ends
  <1>2. \A i \in lo .. hi : q[i] \in Thread
    BY DEF Listed, Live, On
  <1>3. q[lo] # Null
    <2>1. lo \in lo .. hi
      BY <1>1
    <2> QED BY <1>2, <2>1
  <1>4. \A i \in lo .. hi : i > m => notify[q[i]] = Null /\ back[q[i]] = q[i-1]
    BY DEF Listed, Linked, LinkAt
  <1>5. \A i \in 0 .. hi - m : hi - i \in lo .. hi /\ r[i] = q[hi - i]
    BY <1>1
  <1>6. r[0] = word.block
    BY <1>1
  <1>7. link[r[hi - m]] = Null
    <2>1. r[hi - m] = q[m] /\ m \in lo .. hi
      BY <1>1
    <2> QED BY <1>1, <1>2, <1>3, <2>1
  <1>8. ASSUME NEW i \in 0 .. hi - m, i < hi - m
        PROVE  link[r[i]] = r[i+1]
    <2>1. hi - i \in lo .. hi /\ hi - i > m /\ i + 1 \in 0 .. hi - m /\ hi - i - 1 = hi - (i + 1)
      BY <1>1, <1>8
    <2>2. notify[q[hi - i]] = Null /\ back[q[hi - i]] = q[hi - (i + 1)] /\ q[hi - i] \in Thread
      BY <1>2, <1>4, <2>1
    <2> QED BY <1>5, <2>1, <2>2
  <1>9. Chained(link, r, hi - m)
    <2>1. hi - m \in Nat
      BY <1>1
    <2>2. \A i \in 0 .. hi - m : r[i] \in Thread
      BY <1>2, <1>5
    <2> HIDE DEF link, r
    <2> QED BY <1>7, <1>8, <2>1, <2>2 DEF Chained
  <1>10. Visited(word.block) = {r[i] : i \in 0 .. hi - m}
    <2> HIDE DEF r
    <2> QED BY <1>6, <1>9, ChainFollowed DEF Visited
  <1>11. {r[i] : i \in 0 .. hi - m} = {q[i] : i \in m .. hi}
    <2>1. ASSUME NEW i \in m .. hi PROVE hi - i \in 0 .. hi - m /\ r[hi - i] = q[i]
      BY <1>1
    <2>2. ASSUME NEW i \in 0 .. hi - m PROVE hi - i \in m .. hi /\ r[i] = q[hi - i]
      BY <1>1
    <2> HIDE DEF r
    <2> QED BY <2>1, <2>2
  <1>12. \A x \in Visited(word.block) : notify[x] # Null => x = q[m]
    <2> SUFFICES ASSUME NEW i \in m .. hi, notify[q[i]] # Null PROVE q[i] = q[m]
      BY <1>10, <1>11
    <2>1. i \in lo .. hi /\ ~(i > m)
      BY <1>1, <1>4
    <2>2. i = m
      BY <1>1, <2>1
    <2> QED BY <2>2
  <1>13. q[m] \in Visited(word.block) /\ notify[q[m]] # Null
    BY <1>1, <1>3, <1>10, <1>11
  <1>14. (CHOOSE x \in Visited(word.block) : notify[x] # Null) = q[m]
    BY <1>12, <1>13
  <1> QED BY <1>1, <1>10, <1>11, <1>14 DEF Oldest

\* Who is inside, and where the readers are counted.
LEMMA OwnersCounted ==
  ASSUME NEW q, NEW pos, NEW lo, NEW hi, NEW m, NEW c, NEW k, Listed(q, pos, lo, hi, m, c, k),
         Owners(share[q[lo]])
  PROVE  OwnersRight
  <1>1. MutualExclusion
    BY DEF Owners, Owned, MutualExclusion
  <1>2. ReadersCounted
    <2>1. CASE ~word.waiting
      BY <2>1 DEF Owners, Owned, ReadersCounted
    <2>2. CASE word.waiting
      BY <2>2, OldestIs DEF Owners, Owned, ReadersCounted
    <2> QED BY <2>1, <2>2
  <1> QED BY <1>1, <1>2 DEF OwnersRight

\* One writer or counted readers: the word and the oldest block say at any moment who
\* owns the lock (AcquireSRWLockExclusive, AcquireSRWLockShared, ReleaseSRWLockShared).
THEOREM OwnersKnown == Spec => []OwnersRight
  <1>1. IInv => OwnersRight
    BY OwnersCounted DEF IInv, ListInv
  <1> QED BY <1>1, LockInvariance, PTL

-----------------------------------------------------------------------------
(* The owners are those of a plain reader/writer lock.                     *)

\* The readers as the plain lock sees them.
Inmates == {t \in Thread : pc[t] = "heldS"}

\* Steps that let nobody in or out.
LEMMA HoldersStay ==
  ASSUME \A u \in Thread : \/ pc'[u] = pc[u]
                           \/ pc[u] \notin {"heldX", "heldS"} /\ pc'[u] \notin {"heldX", "heldS"}
  PROVE  Writers' = Writers /\ Inmates' = Inmates
  BY DEF Writers, Inmates

\* A thread that moves without entering or leaving.
LEMMA OneStays ==
  ASSUME pc \in [Thread -> PCs], NEW t \in Thread, NEW v, pc' = [pc EXCEPT ![t] = v],
         pc[t] \notin {"heldX", "heldS"}, v \notin {"heldX", "heldS"}
  PROVE  Writers' = Writers /\ Inmates' = Inmates
  BY HoldersStay

\* A thread that enters.
LEMMA OneEnters ==
  ASSUME pc \in [Thread -> PCs], NEW t \in Thread, NEW v \in {"heldX", "heldS"}, pc' = [pc EXCEPT ![t] = v],
         pc[t] \notin {"heldX", "heldS"}
  PROVE  /\ v = "heldX" => Writers' = Writers \cup {t} /\ Inmates' = Inmates
         /\ v = "heldS" => Writers' = Writers /\ Inmates' = Inmates \cup {t} /\ t \notin Inmates
  BY DEF Writers, Inmates

\* A thread that leaves.
LEMMA OneLeaves ==
  ASSUME pc \in [Thread -> PCs], NEW t \in Thread, NEW v, pc' = [pc EXCEPT ![t] = v],
         v \notin {"heldX", "heldS"}
  PROVE  /\ pc[t] = "heldX" => Writers' = Writers \ {t} /\ t \in Writers /\ Inmates' = Inmates
         /\ pc[t] = "heldS" => Writers' = Writers /\ Inmates' = Inmates \ {t} /\ t \in Inmates
  BY DEF Writers, Inmates

\* When the word lets somebody in, nobody stands in the way.
LEMMA Admits ==
  ASSUME NEW s, Owners(s)
  PROVE  /\ ~word.locked => Writers = {} /\ Inmates = {}
         /\ ~MustQueue(word) => Writers = {}
         /\ \A t \in Writers : Writers = {t}
  <1>1. Inmates \subseteq Readers
    BY DEF Inmates, Readers
  <1>2. /\ \A t \in Writers : Writers = {t}
        /\ word.locked <=> Writers \cup Readers \cup Last # {}
        /\ Writers # {} => word.readers = 0
    BY DEF Owners, Owned
  <1>3. ~word.locked => Writers = {} /\ Inmates = {}
    BY <1>1, <1>2
  <1>4. ~MustQueue(word) => Writers = {}
    BY <1>2, <1>3 DEF MustQueue
  <1> QED BY <1>2, <1>3, <1>4

\* What the abstract lock may do, in terms of the threads.
Promised(t) ==
  \/ Writers' = Writers /\ Inmates' = Inmates
  \/ Writers = {} /\ Inmates = {} /\ Writers' = {t} /\ Inmates' = Inmates
  \/ Writers = {} /\ t \notin Inmates /\ Inmates' = Inmates \cup {t} /\ Writers' = Writers
  \/ t \in Writers /\ Writers' = {} /\ Inmates' = Inmates
  \/ t \in Inmates /\ Inmates' = Inmates \ {t} /\ Writers' = Writers

\* Such a step is one of the plain reader/writer lock, or a stutter.
LEMMA Promises ==
  ASSUME NEW t \in Thread, Promised(t)
  PROVE  [Abstract!Next]_(Abstract!rwVars)
  <1> DEFINE W == Writers
             R == {u \in Thread : pc[u] = "heldS"}
  <1>1. \/ W' = W /\ R' = R
        \/ W = {} /\ R = {} /\ W' = {t} /\ R' = R
        \/ W = {} /\ t \notin R /\ R' = R \cup {t} /\ W' = W
        \/ t \in W /\ W' = {} /\ R' = R
        \/ t \in R /\ R' = R \ {t} /\ W' = W
    BY DEF Promised, Inmates
  <1>2. CASE W' = W /\ R' = R
    BY <1>2 DEF Abstract!rwVars
  <1>3. CASE W = {} /\ R = {} /\ W' = {t} /\ R' = R
    <2>1. Abstract!LockX(t)
      BY <1>3 DEF Abstract!LockX
    <2> QED BY <2>1 DEF Abstract!Next
  <1>4. CASE W = {} /\ t \notin R /\ R' = R \cup {t} /\ W' = W
    <2>1. Abstract!LockS(t)
      BY <1>4 DEF Abstract!LockS
    <2> QED BY <2>1 DEF Abstract!Next
  <1>5. CASE t \in W /\ W' = {} /\ R' = R
    <2>1. Abstract!UnlockX(t)
      BY <1>5 DEF Abstract!UnlockX
    <2> QED BY <2>1 DEF Abstract!Next
  <1>6. CASE t \in R /\ R' = R \ {t} /\ W' = W
    <2>1. Abstract!UnlockS(t)
      BY <1>6 DEF Abstract!UnlockS
    <2> QED BY <2>1 DEF Abstract!Next
  <1> QED BY <1>1, <1>2, <1>3, <1>4, <1>5, <1>6

\* The steps of an acquisition let in only whom the plain lock would.
LEMMA AcquirePromised ==
  ASSUME TypeOK, LocalInv, NEW s, Owners(s), NEW t \in Thread,
         \/ Call(t) \/ ReadExclusive(t) \/ LockExclusive(t) \/ ReadShared(t) \/ LockShared(t)
  PROVE  Promised(t)
  <1>0. pc \in [Thread -> PCs]
    BY DEF TypeOK
  <1>1. ASSUME NEW f \in {"xread", "idle"}, TestAndSet(t, f)
        PROVE  Promised(t)
    <2>1. pc[t] = "idle" /\ pc' = [pc EXCEPT ![t] = IF word.locked THEN f ELSE "heldX"]
      BY <1>1 DEF TestAndSet, Goto
    <2>2. CASE word.locked
      BY <1>0, <2>1, <2>2, OneStays DEF Promised
    <2>3. CASE ~word.locked
      <3>1. Writers' = Writers \cup {t} /\ Inmates' = Inmates
        BY <1>0, <2>1, <2>3, OneEnters
      <3> QED BY <2>3, <3>1, Admits DEF Promised
    <2> QED BY <2>2, <2>3
  <1>2. ASSUME NEW try \in BOOLEAN, FirstShared(t, try)
        PROVE  Promised(t)
    <2>1. pc[t] = "idle"
      BY <1>2 DEF FirstShared
    <2>2. CASE word = Free
      <3>1. pc' = [pc EXCEPT ![t] = "heldS"] /\ ~word.locked
        BY <1>2, <2>2, SetFree DEF FirstShared, Goto
      <3>2. Writers' = Writers /\ Inmates' = Inmates \cup {t} /\ t \notin Inmates
        BY <1>0, <2>1, <3>1, OneEnters
      <3> QED BY <3>1, <3>2, Admits DEF Promised
    <2>3. CASE word # Free
      <3>1. PICK v \in {"idle", "spush", "tcas", "scas"} : pc' = [pc EXCEPT ![t] = v]
        BY <1>2, <2>3 DEF FirstShared, Consider, Goto
      <3> QED BY <1>0, <2>1, <3>1, OneStays DEF Promised
    <2> QED BY <2>2, <2>3
  <1>3. CASE ReadExclusive(t) \/ ReadShared(t)
    <2>1. PICK v \in {"xpush", "xcas", "idle", "spush", "tcas", "scas"} : pc' = [pc EXCEPT ![t] = v]
      BY <1>3 DEF ReadExclusive, ReadShared, Consider, Goto
    <2>2. pc[t] \in {"xread", "sread", "tread"}
      BY <1>3 DEF ReadExclusive, ReadShared
    <2> QED BY <1>0, <2>1, <2>2, OneStays DEF Promised
  <1>4. CASE LockExclusive(t)
    <2>1. pc[t] = "xcas"
      BY <1>4 DEF LockExclusive
    <2>2. CASE Unchanged(t)
      <3>1. pc' = [pc EXCEPT ![t] = "heldX"]
        BY <1>4, <2>2 DEF LockExclusive, Leave, Goto
      <3>2. ~word.locked
        BY <2>1, <2>2 DEF LocalInv, LocalAt, Unchanged
      <3>3. Writers' = Writers \cup {t} /\ Inmates' = Inmates
        BY <1>0, <2>1, <3>1, OneEnters
      <3> QED BY <3>2, <3>3, Admits DEF Promised
    <2>3. CASE ~Unchanged(t)
      <3>1. pc' = [pc EXCEPT ![t] = "xread"]
        BY <1>4, <2>3 DEF LockExclusive, Goto
      <3> QED BY <1>0, <2>1, <3>1, OneStays DEF Promised
    <2> QED BY <2>2, <2>3
  <1>5. CASE LockShared(t)
    <2>1. pc[t] \in {"scas", "tcas"}
      BY <1>5 DEF LockShared
    <2>2. CASE Unchanged(t)
      <3>1. pc' = [pc EXCEPT ![t] = "heldS"]
        BY <1>5, <2>2 DEF LockShared, Leave, Goto
      <3>2. ~MustQueue(word)
        BY <2>1, <2>2 DEF LocalInv, LocalAt, Unchanged
      <3>3. Writers' = Writers /\ Inmates' = Inmates \cup {t} /\ t \notin Inmates
        BY <1>0, <2>1, <3>1, OneEnters
      <3> QED BY <3>2, <3>3, Admits DEF Promised
    <2>3. CASE ~Unchanged(t)
      <3>1. PICK v \in {"sread", "tread"} : pc' = [pc EXCEPT ![t] = v]
        BY <1>5, <2>3 DEF LockShared, Goto
      <3> QED BY <1>0, <2>1, <3>1, OneStays DEF Promised
    <2> QED BY <2>2, <2>3
  <1> QED BY <1>1, <1>2, <1>3, <1>4, <1>5
      DEF Call, AcquireExclusive, TryAcquireExclusive, AcquireShared, TryAcquireShared

\* A release lets out one owner.
LEMMA UnlockPromised ==
  ASSUME TypeOK, NEW s, Owners(s), NEW t \in Thread, Unlock(t)
  PROVE  Promised(t)
  <1>0. pc \in [Thread -> PCs]
    BY DEF TypeOK
  <1>1. CASE ReleaseExclusive(t)
    <2>1. PICK v \in {"xwake", "idle"} : pc' = [pc EXCEPT ![t] = v]
      BY <1>1 DEF ReleaseExclusive, Leave, Goto
    <2>2. pc[t] = "heldX"
      BY <1>1 DEF ReleaseExclusive
    <2>3. Writers' = Writers \ {t} /\ t \in Writers /\ Inmates' = Inmates
      BY <1>0, <2>1, <2>2, OneLeaves
    <2>4. Writers = {t}
      BY <2>3, Admits
    <2> QED BY <2>3, <2>4 DEF Promised
  <1>2. CASE ReleaseShared(t)
    <2>1. PICK v \in {"idle", "srel", "swalk", "slast"} : pc' = [pc EXCEPT ![t] = v]
      BY <1>2 DEF ReleaseShared, ConsiderRelease, Leave, Goto
    <2>2. pc[t] = "heldS"
      BY <1>2 DEF ReleaseShared
    <2>3. Writers' = Writers /\ Inmates' = Inmates \ {t} /\ t \in Inmates
      BY <1>0, <2>1, <2>2, OneLeaves
    <2> QED BY <2>3 DEF Promised
  <1> QED BY <1>1, <1>2 DEF Unlock

\* No other step lets anybody in or out.
LEMMA InsidePromised ==
  ASSUME TypeOK, PointersInv, NEW t \in Thread,
         \/ Push(t) \/ Park(t) \/ Walk(t) \/ OptimizeDone(t) \/ WakeLocked(t) \/ WakeOne(t) \/ WakeAll(t)
         \/ Release(t) \/ ClaimWake(t) \/ UncountReader(t) \/ WalkCount(t) \/ Uncount(t) \/ LastReader(t)
  PROVE  Promised(t)
  <1>0. pc \in [Thread -> PCs] /\ then[t] \in {"idle", "park"}
    BY DEF TypeOK
  <1>1. CASE Push(t)
    <2>1. PICK v \in {"optimize", "park", "xread", "sread"} : pc' = [pc EXCEPT ![t] = v]
      BY <1>1 DEF Push, Leave, Goto
    <2>2. pc[t] \in {"xpush", "spush"}
      BY <1>1 DEF Push
    <2> QED BY <1>0, <2>1, <2>2, OneStays DEF Promised
  <1>2. CASE Park(t)
    <2>1. PICK v \in {"blocked", "xread", "sread"} : pc' = [pc EXCEPT ![t] = v]
      BY <1>2 DEF Park, Again, Goto
    <2>2. pc[t] = "park"
      BY <1>2 DEF Park
    <2> QED BY <1>0, <2>1, <2>2, OneStays DEF Promised
  <1>3. CASE Walk(t) \/ WalkCount(t)
    <2>1. pc' = pc
      BY <1>3 DEF Walk, WalkCount
    <2> QED BY <2>1, HoldersStay DEF Promised
  <1>4. CASE OptimizeDone(t)
    <2>1. PICK v \in {"idle", "park", "optimize", "wake"} : pc' = [pc EXCEPT ![t] = v]
      BY <1>0, <1>4 DEF OptimizeDone, Leave, Retry, Goto
    <2>2. pc[t] = "optimize"
      BY <1>4 DEF OptimizeDone
    <2> QED BY <1>0, <2>1, <2>2, OneStays DEF Promised
  <1>5. CASE WakeLocked(t)
    <2>1. PICK v \in {"idle", "park", "wake"} : pc' = [pc EXCEPT ![t] = v]
      BY <1>0, <1>5 DEF WakeLocked, Leave, Retry, Goto
    <2>2. pc[t] = "wake"
      BY <1>5 DEF WakeLocked
    <2> QED BY <1>0, <2>1, <2>2, OneStays DEF Promised
  <1>6. CASE WakeOne(t) \/ WakeAll(t)
    <2>1. pc[t] = "wake"
      BY <1>6 DEF WakeOne, WakeAll
    <2>2. PICK v \in {"release", "wake"} : pc' = [pc EXCEPT ![t] = v]
      BY <1>6, <2>1 DEF WakeOne, WakeAll, Leave, Retry, Goto
    <2> QED BY <1>0, <2>1, <2>2, OneStays DEF Promised
  <1>7. CASE Release(t)
    <2>1. p[t] \in Thread
      BY <1>7 DEF Release, PointersInv
    <2>2. \A u \in Thread : \/ pc'[u] = pc[u]
                            \/ pc[u] \notin {"heldX", "heldS"} /\ pc'[u] \notin {"heldX", "heldS"}
      BY <1>7, <2>1, ReleasePcs
    <2> QED BY <2>2, HoldersStay DEF Promised
  <1>8. CASE ClaimWake(t)
    <2>1. PICK v \in {"wake", "idle"} : pc' = [pc EXCEPT ![t] = v]
      BY <1>8 DEF ClaimWake, BeginWake, Leave, Goto
    <2>2. pc[t] = "xwake"
      BY <1>8 DEF ClaimWake
    <2> QED BY <1>0, <2>1, <2>2, OneStays DEF Promised
  <1>9. CASE UncountReader(t)
    <2>1. PICK v \in {"idle", "srel", "swalk", "slast"} : pc' = [pc EXCEPT ![t] = v]
      BY <1>9 DEF UncountReader, ConsiderRelease, Leave, Goto
    <2>2. pc[t] = "srel"
      BY <1>9 DEF UncountReader
    <2> QED BY <1>0, <2>1, <2>2, OneStays DEF Promised
  <1>10. CASE Uncount(t)
    <2>1. PICK v \in {"idle", "slast"} : pc' = [pc EXCEPT ![t] = v]
      BY <1>10 DEF Uncount, Leave, Goto
    <2>2. pc[t] = "swalk"
      BY <1>10 DEF Uncount
    <2> QED BY <1>0, <2>1, <2>2, OneStays DEF Promised
  <1>11. CASE LastReader(t)
    <2>1. pc[t] = "slast"
      BY <1>11 DEF LastReader
    <2>2. CASE pc' = pc
      BY <2>2, HoldersStay DEF Promised
    <2>3. CASE pc' # pc
      <3>1. PICK v \in {"idle", "wake"} : pc' = [pc EXCEPT ![t] = v]
        BY <1>11, <2>3 DEF LastReader, BeginWake, Leave, Goto
      <3> QED BY <1>0, <2>1, <3>1, OneStays DEF Promised
    <2> QED BY <2>2, <2>3
  <1> QED BY <1>1, <1>2, <1>3, <1>4, <1>5, <1>6, <1>7, <1>8, <1>9, <1>10, <1>11

\* At the start nobody owns either lock.
LEMMA LockRefineStart == Init => Abstract!Init
  BY DEF Init, Abstract!Init, Writers

\* Every step of the code is a step of the plain lock, or a stutter.
LEMMA LockRefineStep ==
  ASSUME IInv, [Next]_vars
  PROVE  [Abstract!Next]_(Abstract!rwVars)
  <1>1. CASE UNCHANGED vars
    BY <1>1 DEF vars, Abstract!rwVars, Writers
  <1>2. ASSUME NEW t \in Thread, Call(t) \/ Unlock(t) \/ Inside(t)
        PROVE  [Abstract!Next]_(Abstract!rwVars)
    <2>1. PICK s : Owners(s)
      BY DEF IInv, ListInv
    <2>2. TypeOK /\ LocalInv /\ PointersInv
      BY Facts DEF IInv, Core
    <2>3. Promised(t)
      BY <1>2, <2>1, <2>2, AcquirePromised, UnlockPromised, InsidePromised DEF Inside
    <2> QED BY <2>3, Promises
  <1> QED BY <1>1, <1>2 DEF Next

\* The owners of an SRWLOCK, between the return of an acquire and the call of a release,
\* are those of a plain reader/writer lock.
THEOREM LockImplementation == Spec => ImplementsRWLock
  <1> QED BY LockRefineStart, LockRefineStep, LockInvariance, PTL DEF Spec, Abstract!Spec,
      ImplementsRWLock

-----------------------------------------------------------------------------
(* Every waiter is on one list.                                            *)

\* The links lead from number a to number b, and nowhere else.
Forward(q, a, b) ==
  /\ a \in Nat /\ b \in Nat /\ a <= b
  /\ \A i \in a .. b : q[i] \in Thread /\ (i < b => next[q[i]] = q[i+1])
  /\ next[q[b]] = Null

\* Following the links from an older to a newer block.
LEMMA NextFollowed ==
  ASSUME NEW q, NEW a, NEW b, Forward(q, a, b)
  PROVE  Follow(next, q[a]) = {q[i] : i \in a .. b}
  <1>0. /\ a \in Nat /\ b \in Nat /\ a <= b /\ next[q[b]] = Null
        /\ \A i \in a .. b : q[i] \in Thread /\ (i < b => next[q[i]] = q[i+1])
    BY DEF Forward
  <1> DEFINE r == [i \in 0 .. b - a |-> q[a + i]]
  <1>1. b - a \in Nat /\ \A i \in 0 .. b - a : a + i \in a .. b /\ r[i] = q[a + i]
    BY <1>0
  <1>2. r[0] = q[a] /\ r[b - a] = q[b]
    BY <1>0
  <1>3. ASSUME NEW i \in 0 .. b - a, i < b - a
        PROVE  next[r[i]] = r[i+1]
    <2>1. a + i \in a .. b /\ a + i < b /\ i + 1 \in 0 .. b - a /\ a + i + 1 = a + (i + 1)
      BY <1>0, <1>3
    <2> HIDE DEF r
    <2> QED BY <1>0, <1>1, <2>1
  <1>4. Chained(next, r, b - a)
    <2> HIDE DEF r
    <2> QED BY <1>0, <1>1, <1>2, <1>3 DEF Chained
  <1>5. Follow(next, q[a]) = {r[i] : i \in 0 .. b - a}
    <2> HIDE DEF r
    <2> QED BY <1>2, <1>4, ChainFollowed
  <1>6. {r[i] : i \in 0 .. b - a} = {q[i] : i \in a .. b}
    <2>1. ASSUME NEW i \in a .. b PROVE i - a \in 0 .. b - a /\ r[i - a] = q[i]
      BY <1>0
    <2> HIDE DEF r
    <2> QED BY <1>1, <2>1
  <1> QED BY <1>5, <1>6

\* The list that the word leads to.
LEMMA OnWordIs ==
  ASSUME NEW q, NEW pos, NEW lo, NEW hi, NEW m, NEW c, NEW k, Listed(q, pos, lo, hi, m, c, k)
  PROVE  OnWord = {q[i] : i \in lo .. hi}
  <1>1. lo \in Nat /\ hi \in Nat /\ m \in Nat
    BY DEF Listed, Ghosts
  <1>2. CASE ~word.waiting
    <2>1. ~(lo <= hi)
      BY <1>2 DEF Listed, Ends
    <2>2. lo .. hi = {}
      BY <1>1, <2>1
    <2> QED BY <1>2, <2>2 DEF OnWord
  <1>3. CASE word.waiting
    <2>1. lo <= m /\ m <= hi /\ next[q[hi]] = Null
      BY <1>3 DEF Listed, Ends
    <2>2. \A i \in lo .. hi : q[i] \in Thread
      BY DEF Listed, Live, On
    <2>3. \A i \in lo .. hi : /\ i < m => next[q[i]] = q[i+1]
                              /\ i < hi => next[q[i]] \in {Null, q[i+1]}
      BY DEF Listed, Linked, LinkAt
    <2> DEFINE Last1 == {i \in lo .. hi : next[q[i]] = Null}
    <2>4. Last1 \in SUBSET Nat /\ hi \in Last1
      BY <1>1, <2>1
    <2>5. PICK n \in Last1 : \A i \in Last1 : n <= i
      BY <2>4, LeastNumber
    <2>6. n \in lo .. hi /\ next[q[n]] = Null
      BY <2>5
    <2>7. m <= n
      <3> SUFFICES ASSUME n < m PROVE FALSE
        BY <1>1, <2>6
      <3>1. n + 1 \in lo .. hi
        BY <1>1, <2>1, <2>6
      <3> QED BY <2>2, <2>3, <2>6, <3>1
    <2>8. ASSUME NEW i \in lo .. n
          PROVE  q[i] \in Thread /\ (i < n => next[q[i]] = q[i+1])
      <3>1. i \in lo .. hi /\ (i < n => i < hi /\ ~(n <= i))
        BY <1>1, <2>6
      <3>2. i < n => i \notin Last1
        BY <2>5, <3>1
      <3> QED BY <2>2, <2>3, <3>1, <3>2
    <2>9. Follow(next, q[lo]) = {q[i] : i \in lo .. n}
      <3>1. n \in Nat /\ lo <= n
        BY <1>1, <2>6
      <3> HIDE DEF Last1
      <3>2. Forward(q, lo, n)
        BY <1>1, <2>6, <2>8, <3>1 DEF Forward
      <3> QED BY <3>2, NextFollowed
    <2>10. OnWord = {q[i] : i \in m .. hi} \cup {q[i] : i \in lo .. n}
      BY <1>3, <2>9, OldestIs DEF OnWord
    <2>11. \A i : i \in lo .. hi <=> i \in m .. hi \/ i \in lo .. n
      BY <1>1, <2>1, <2>6, <2>7
    <2> HIDE DEF Last1
    <2> QED BY <2>10, <2>11
  <1> QED BY <1>2, <1>3

\* The list that a waker has taken.
LEMMA TakenIs ==
  ASSUME NEW q, NEW pos, NEW lo, NEW hi, NEW m, NEW c, NEW k, Listed(q, pos, lo, hi, m, c, k),
         NEW t \in Thread, pc[t] = "release"
  PROVE  /\ Follow(next, p[t]) = {q[i] : i \in c[t] .. k[t]}
         /\ \A i \in c[t] .. k[t] : On(q, pos, i) /\ i < lo
  <1>1. c[t] \in Nat /\ k[t] \in Nat /\ lo \in Nat
    BY DEF Listed, Ghosts
  <1>2. WakeAt(q, pos, lo, c[t], k[t], t)
    BY DEF Listed, Cursors, Cursor
  <1>3. /\ c[t] <= k[t] /\ k[t] < lo /\ p[t] = q[c[t]] /\ next[q[k[t]]] = Null
        /\ \A i \in Nat : c[t] <= i /\ i < k[t] => next[q[i]] = q[i+1]
        /\ \A i \in c[t] .. k[t] : On(q, pos, i)
    BY <1>2 DEF WakeAt, Strung
  <1>4. \A i \in c[t] .. k[t] : i \in Nat /\ c[t] <= i /\ i < lo
    BY <1>1, <1>3
  <1>5. \A i \in c[t] .. k[t] : q[i] \in Thread /\ (i < k[t] => next[q[i]] = q[i+1])
    BY <1>3, <1>4 DEF On
  <1>6. PICK a, b : a = c[t] /\ b = k[t]
    OBVIOUS
  <1>7. Forward(q, a, b)
    BY <1>1, <1>3, <1>5, <1>6 DEF Forward
  <1>8. Follow(next, q[a]) = {q[i] : i \in a .. b}
    BY <1>7, NextFollowed
  <1> QED BY <1>3, <1>4, <1>6, <1>8

\* The numbered blocks are all there is.
LEMMA OneListEach ==
  ASSUME NEW q, NEW pos, NEW lo, NEW hi, NEW m, NEW c, NEW k, Listed(q, pos, lo, hi, m, c, k)
  PROVE  WaitersOnOneList
  <1> DEFINE waiting == {b \in Thread : Queued(b)}
             wakers == {u \in Thread : pc[u] = "release"}
             taken == [t \in wakers |-> Follow(next, p[t])]
  <1>1. lo \in Nat /\ hi \in Nat /\ \A t \in Thread : c[t] \in Nat /\ k[t] \in Nat
    BY DEF Listed, Ghosts
  <1>2. OnWord = {q[i] : i \in lo .. hi}
    BY OnWordIs
  <1>3. \A t \in wakers : /\ taken[t] = {q[i] : i \in c[t] .. k[t]}
                          /\ \A i \in c[t] .. k[t] : On(q, pos, i) /\ i < lo
    BY TakenIs
  <1>4. \A i \in lo .. hi : On(q, pos, i)
    BY DEF Listed, Live
  <1> HIDE DEF taken
  <1>5. waiting \subseteq OnWord \cup UNION {taken[t] : t \in wakers}
    <2> SUFFICES ASSUME NEW b \in Thread, Queued(b), b \notin OnWord
                 PROVE  \E t \in wakers : b \in taken[t]
      OBVIOUS
    <2>1. q[pos[b]] = b /\ (pos[b] \in lo .. hi \/ \E t \in Thread : pc[t] = "release" /\ pos[b] \in c[t] .. k[t])
      BY DEF Listed, Known, KnownAt
    <2>2. pos[b] \notin lo .. hi
      BY <1>2, <2>1
    <2>3. PICK t \in wakers : pos[b] \in c[t] .. k[t]
      BY <2>1, <2>2
    <2> QED BY <1>3, <2>1, <2>3
  <1>6. OnWord \cup UNION {taken[t] : t \in wakers} \subseteq waiting
    <2>1. OnWord \subseteq waiting
      BY <1>2, <1>4 DEF On
    <2>2. ASSUME NEW t \in wakers PROVE taken[t] \subseteq waiting
      BY <1>3 DEF On
    <2> QED BY <2>1, <2>2
  <1>7. ASSUME NEW t \in wakers PROVE taken[t] \cap OnWord = {}
    <2> SUFFICES ASSUME NEW i \in c[t] .. k[t], NEW j \in lo .. hi, q[i] = q[j]
                 PROVE  FALSE
      BY <1>2, <1>3
    <2>1. pos[q[i]] = i /\ pos[q[j]] = j /\ i < lo
      BY <1>3, <1>4 DEF On
    <2> QED BY <1>1, <2>1
  <1>8. ASSUME NEW t \in wakers, NEW u \in wakers, t # u PROVE taken[t] \cap taken[u] = {}
    <2> SUFFICES ASSUME NEW i \in c[t] .. k[t], NEW j \in c[u] .. k[u], q[i] = q[j]
                 PROVE  FALSE
      BY <1>3
    <2>1. pos[q[i]] = i /\ pos[q[j]] = j
      BY <1>3 DEF On
    <2>2. k[t] < c[u] \/ k[u] < c[t]
      BY <1>8 DEF Listed, Apart
    <2>3. t \in Thread /\ u \in Thread /\ i = j
      BY <2>1
    <2> QED BY <1>1, <2>2, <2>3
  <1>9. waiting = OnWord \cup UNION {taken[t] : t \in wakers}
    BY <1>5, <1>6
  <1>10. DOMAIN taken = wakers
    BY DEF taken
  <1> QED BY <1>7, <1>8, <1>9, <1>10 DEF WaitersOnOneList, taken

\* Every waiting thread is on the word's list or on that of exactly one waker, and
\* nobody else is: no waiter is forgotten and none is woken twice.
THEOREM EveryWaiterListed == Spec => []WaitersOnOneList
  <1>1. IInv => WaitersOnOneList
    BY OneListEach DEF IInv, ListInv
  <1> QED BY <1>1, LockInvariance, PTL

-----------------------------------------------------------------------------
(* The two side by side.                                                   *)

\* Each part behaves as its own specification says, the other one stands still.
THEOREM BothRun == BothSpec => Spec /\ Once!Spec
  <1>1. BothInit => Init /\ Once!Init
    BY DEF BothInit
  <1>2. [BothNext]_<<part, vars, onceVars>> => [Next]_vars /\ [Once!Next]_(Once!vars)
    BY DEF BothNext, onceVars, Once!vars
  <1> QED BY <1>1, <1>2, PTL DEF BothSpec, Spec, Once!Spec

-----------------------------------------------------------------------------
(* The synchronization barrier.                                            *)

USE BarrierAssumption DEF Barrier!ThreadsApart

BarrierStep(t) ==
  \/ Barrier!Enter(t) \/ Barrier!Prepare(t) \/ Barrier!LookEarly(t) \/ Barrier!Publish(t)
  \/ Barrier!Look(t) \/ Barrier!Set(t) \/ Barrier!Spin(t) \/ Barrier!GiveUp(t)
  \/ Barrier!CheckEarly(t) \/ Barrier!Mark(t) \/ Barrier!Check(t) \/ Barrier!Wait(t)
  \/ Barrier!Leave(t) \/ Barrier!Delete(t) \/ Barrier!Close(t)

BarrierTyping ==
  /\ sign \in {0, 1} /\ count \in Int /\ total \in Int
  /\ marked \in [0 .. 1 -> BOOLEAN] /\ signalled \in [0 .. 1 -> BOOLEAN]
  /\ open \in BOOLEAN /\ noDelete \in BOOLEAN /\ inOrder \in BOOLEAN
  /\ barrierPc \in [Thread -> {"out", "prepare", "publish", "publishLate", "look", "set", "spin",
                        "spinOnly", "mark", "markLate", "check", "wait", "leave", "deleting"}]
  /\ group \in [Thread -> {0, 1}]
  /\ seen \in [Thread -> BOOLEAN]
  /\ result \in [Thread -> BOOLEAN]

\* The last thread of a round, until it opens it.
BarrierLast(t) == barrierPc[t] \in {"prepare", "publish", "publishLate"}

\* The threads of the round that fills, and those still to count themselves out of the one before.
Filling == {t \in Thread : Barrier!Entered(t) /\ ~Barrier!Through(t)}
Leaving == {t \in Thread : Barrier!Through(t) /\ ~Barrier!Leader(t)}

\* What a thread knows of the round by its place.
BarrierLocalInv ==
  \A t \in Thread :
    /\ BarrierLast(t) => count = 0 /\ group[t] = sign
    /\ Barrier!Leader(t) \/ barrierPc[t] = "leave" => group[t] # sign
    /\ barrierPc[t] = "markLate" /\ seen[t] => group[t] # sign

OneLast == \A s, t \in Thread : BarrierLast(s) /\ BarrierLast(t) => s = t
OneLeader == \A s, t \in Thread : Barrier!Leader(s) /\ Barrier!Leader(t) => s = t

\* An event is set only if its handle is marked, so that the marker tells Prepare whether to reset it; the
\* event of the round that fills is not set, nor is the next one's once the last thread has prepared it.
EventsInv ==
  /\ ~signalled[Barrier!Event(sign)]
  /\ \A e \in 0 .. 1 : signalled[e] => marked[e]
  /\ \A t \in Thread :
       /\ barrierPc[t] \in {"publish", "publishLate"} => ~signalled[Barrier!Event(1 - group[t])]
       /\ barrierPc[t] \in {"publishLate", "set"} /\ seen[t] => marked[Barrier!Event(group[t])]

\* lRemainderThreads counts who is still to come, lTotalThreads who is not still leaving.
CountsInv ==
  /\ count = Barrier!N - Cardinality(Filling)
  /\ total = Barrier!N - (IF noDelete THEN 0 ELSE Cardinality(Leaving))

\* While the barrier is deleted, and afterwards, nobody waits for a round.
DeletedInv ==
  /\ (~open \/ \E t \in Thread : barrierPc[t] = "deleting") => Filling = {} /\ ~noDelete
  /\ Barrier!LeaversWaitedFor

BarrierIInv == BarrierTyping /\ BarrierLocalInv /\ OneLast /\ OneLeader /\ EventsInv /\ CountsInv /\ DeletedInv

-----------------------------------------------------------------------------
(* Cardinality.                                                            *)

LEMMA CardinalityInBarrier == \A S : Barrier!Cardinality(S) = Cardinality(S)
  BY Zenon DEF Barrier!Cardinality, Cardinality

LEMMA ThreadsCounted == Barrier!N = Cardinality(Thread) /\ IsFiniteSet(Thread)
  BY CardinalityInBarrier, ThreadsAssumption DEF Barrier!N

LEMMA FillingFinite ==
  /\ IsFiniteSet(Filling) /\ IsFiniteSet(Leaving)
  /\ Cardinality(Filling) \in Nat /\ Cardinality(Leaving) \in Nat /\ Barrier!N \in Nat
<1>1. Filling \subseteq Thread /\ Leaving \subseteq Thread
  BY DEF Filling, Leaving
<1>2. IsFiniteSet(Filling) /\ IsFiniteSet(Leaving) /\ IsFiniteSet(Thread)
  BY <1>1, ThreadsCounted, FS_Subset
<1> QED BY <1>2, ThreadsCounted, FS_CardinalityType

LEMMA OneJoins ==
  ASSUME NEW S, IsFiniteSet(S), NEW e, e \notin S, NEW T, T = S \cup {e}
  PROVE  Cardinality(T) = Cardinality(S) + 1
<1>1. Cardinality(S \cup {e}) = Cardinality(S) + 1
  BY FS_AddElement
<1> QED BY <1>1, Zenon

LEMMA BarrierOneLeaves ==
  ASSUME NEW S, IsFiniteSet(S), NEW e, e \in S, NEW T, T = S \ {e}
  PROVE  Cardinality(T) = Cardinality(S) - 1
<1>1. Cardinality(S \ {e}) = Cardinality(S) - 1
  BY FS_RemoveElement
<1> QED BY <1>1, Zenon

\* When the count has come to 0, everybody has entered.
LEMMA AllInside ==
  ASSUME CountsInv, count = 0
  PROVE  Filling = Thread
<1>1. Cardinality(Filling) = Cardinality(Thread)
  BY FillingFinite, ThreadsCounted DEF CountsInv
<1>2. Filling \in SUBSET Thread
  BY DEF Filling
<1> QED BY <1>1, <1>2, ThreadsCounted, FS_Subset

\* So whoever is about to open the round has nobody of the round before beside it.
LEMMA LastAlone ==
  ASSUME BarrierLocalInv, CountsInv, OneLast, NEW t \in Thread, BarrierLast(t)
  PROVE  /\ Filling = Thread /\ \A u \in Thread : Barrier!Entered(u) /\ group[u] = sign
         /\ \A u \in Thread : ~Barrier!Leader(u) /\ barrierPc[u] # "deleting" /\ (u # t => ~BarrierLast(u))
         /\ Leaving = {}
<1>1. Filling = Thread
  BY AllInside DEF BarrierLocalInv
<1>2. \A u \in Thread : Barrier!Entered(u) /\ ~Barrier!Through(u)
  BY <1>1 DEF Filling
<1> QED BY <1>1, <1>2 DEF BarrierLocalInv, OneLast, Barrier!Through, Barrier!Entered, Leaving

-----------------------------------------------------------------------------
(* Places and events.                                                      *)

LEMMA BarrierTypingStep ==
  ASSUME BarrierTyping, NEW t \in Thread, BarrierStep(t)
  PROVE  BarrierTyping'
<1> USE DEF BarrierTyping, Barrier!Goto, Barrier!Return, Barrier!fixed, Barrier!events
<1>1. CASE Barrier!Enter(t)
  BY <1>1 DEF Barrier!Enter
<1>2. CASE Barrier!Prepare(t)
  BY <1>2 DEF Barrier!Prepare, Barrier!Event
<1>3. CASE Barrier!LookEarly(t)
  BY <1>3 DEF Barrier!LookEarly, Barrier!Event
<1>4. CASE Barrier!Publish(t)
  BY <1>4 DEF Barrier!Publish, Barrier!Flip
<1>5. CASE Barrier!Look(t)
  BY <1>5 DEF Barrier!Look, Barrier!Event
<1>6. CASE Barrier!Set(t)
  BY <1>6 DEF Barrier!Set, Barrier!Event
<1>7. CASE Barrier!Spin(t) \/ Barrier!GiveUp(t)
  BY <1>7 DEF Barrier!Spin, Barrier!GiveUp
<1>8. CASE Barrier!CheckEarly(t)
  BY <1>8 DEF Barrier!CheckEarly
<1>9. CASE Barrier!Mark(t)
  BY <1>9 DEF Barrier!Mark, Barrier!Event
<1>10. CASE Barrier!Check(t) \/ Barrier!Wait(t)
  BY <1>10 DEF Barrier!Check, Barrier!Wait
<1>11. CASE Barrier!Leave(t)
  BY <1>11 DEF Barrier!Leave
<1>12. CASE Barrier!Delete(t) \/ Barrier!Close(t)
  BY <1>12 DEF Barrier!Delete, Barrier!Close
<1> QED
  BY <1>1, <1>2, <1>3, <1>4, <1>5, <1>6, <1>7, <1>8, <1>9, <1>10, <1>11, <1>12 DEF BarrierStep

LEMMA BarrierLocalStep ==
  ASSUME BarrierTyping, BarrierLocalInv, OneLast, EventsInv, CountsInv, NEW t \in Thread, BarrierStep(t)
  PROVE  BarrierLocalInv'
<1> USE DEF BarrierTyping, BarrierLocalInv, BarrierLast, Barrier!Leader, Barrier!Goto, Barrier!Return,
    Barrier!fixed, Barrier!events
<1>1. CASE Barrier!Enter(t)
  <2>1. \A u \in Thread : ~BarrierLast(u)
    <3>1. ~Barrier!Entered(t)
      BY <1>1 DEF Barrier!Enter, Barrier!Entered
    <3> QED BY <3>1, LastAlone
  <2> QED BY <1>1, <2>1 DEF Barrier!Enter
<1>2. CASE Barrier!Prepare(t)
  BY <1>2 DEF Barrier!Prepare
<1>3. CASE Barrier!LookEarly(t)
  BY <1>3 DEF Barrier!LookEarly
<1>4. CASE Barrier!Publish(t)
  <2>1. \A u \in Thread : group[u] = sign /\ (u # t => ~BarrierLast(u))
    BY <1>4, LastAlone DEF Barrier!Publish
  <2> QED BY <1>4, <2>1 DEF Barrier!Publish, Barrier!Flip
<1>5. CASE Barrier!Look(t)
  BY <1>5 DEF Barrier!Look
<1>6. CASE Barrier!Set(t)
  BY <1>6 DEF Barrier!Set
<1>7. CASE Barrier!Spin(t) \/ Barrier!GiveUp(t)
  BY <1>7 DEF Barrier!Spin, Barrier!GiveUp
<1>8. CASE Barrier!CheckEarly(t)
  BY <1>8 DEF Barrier!CheckEarly
<1>9. CASE Barrier!Mark(t)
  BY <1>9 DEF Barrier!Mark
<1>10. CASE Barrier!Check(t)
  BY <1>10 DEF Barrier!Check
<1>11. CASE Barrier!Wait(t)
  BY <1>11 DEF Barrier!Wait, EventsInv
<1>12. CASE Barrier!Leave(t)
  BY <1>12 DEF Barrier!Leave
<1>13. CASE Barrier!Delete(t) \/ Barrier!Close(t)
  BY <1>13 DEF Barrier!Delete, Barrier!Close
<1> QED
  BY <1>1, <1>2, <1>3, <1>4, <1>5, <1>6, <1>7, <1>8, <1>9, <1>10, <1>11, <1>12, <1>13 DEF BarrierStep

LEMMA BarrierOnesStep ==
  ASSUME BarrierTyping, BarrierLocalInv, OneLast, OneLeader, CountsInv, NEW t \in Thread, BarrierStep(t)
  PROVE  OneLast' /\ OneLeader'
<1> USE DEF BarrierTyping, OneLast, OneLeader, BarrierLast, Barrier!Leader, Barrier!Goto, Barrier!Return,
    Barrier!fixed, Barrier!events
<1>1. CASE Barrier!Enter(t)
  <2>1. \A u \in Thread : ~BarrierLast(u)
    <3>1. ~Barrier!Entered(t)
      BY <1>1 DEF Barrier!Enter, Barrier!Entered
    <3> QED BY <3>1, LastAlone
  <2> QED BY <1>1, <2>1 DEF Barrier!Enter
<1>2. CASE Barrier!Publish(t)
  <2>1. \A u \in Thread : ~Barrier!Leader(u)
    BY <1>2, LastAlone DEF Barrier!Publish
  <2> QED BY <1>2, <2>1 DEF Barrier!Publish
<1>3. CASE Barrier!Prepare(t) \/ Barrier!LookEarly(t) \/ Barrier!Look(t) \/ Barrier!Set(t)
  BY <1>3 DEF Barrier!Prepare, Barrier!LookEarly, Barrier!Look, Barrier!Set
<1>4. CASE Barrier!Spin(t) \/ Barrier!GiveUp(t) \/ Barrier!CheckEarly(t) \/ Barrier!Mark(t)
  BY <1>4 DEF Barrier!Spin, Barrier!GiveUp, Barrier!CheckEarly, Barrier!Mark
<1>5. CASE Barrier!Check(t) \/ Barrier!Wait(t) \/ Barrier!Leave(t) \/ Barrier!Delete(t) \/ Barrier!Close(t)
  BY <1>5 DEF Barrier!Check, Barrier!Wait, Barrier!Leave, Barrier!Delete, Barrier!Close
<1> QED BY <1>1, <1>2, <1>3, <1>4, <1>5 DEF BarrierStep

LEMMA BarrierEventsStep ==
  ASSUME BarrierTyping, BarrierLocalInv, OneLast, EventsInv, CountsInv, NEW t \in Thread, BarrierStep(t)
  PROVE  EventsInv'
<1> USE DEF BarrierTyping, EventsInv, Barrier!Event, Barrier!Goto, Barrier!Return, Barrier!fixed, Barrier!events
<1>1. CASE Barrier!Enter(t)
  BY <1>1 DEF Barrier!Enter
<1>2. CASE Barrier!Prepare(t)
  <2>1. \A u \in Thread : group[u] = sign /\ ~Barrier!Leader(u) /\ (u # t => ~BarrierLast(u))
    BY <1>2, LastAlone DEF Barrier!Prepare, BarrierLast
  <2> QED BY <1>2, <2>1 DEF Barrier!Prepare, BarrierLast, Barrier!Leader
<1>3. CASE Barrier!LookEarly(t)
  BY <1>3 DEF Barrier!LookEarly
<1>4. CASE Barrier!Publish(t)
  <2>1. \A u \in Thread : group[u] = sign /\ (u # t => ~BarrierLast(u))
    BY <1>4, LastAlone DEF Barrier!Publish, BarrierLast
  <2> QED BY <1>4, <2>1 DEF Barrier!Publish, Barrier!Flip, BarrierLast
<1>5. CASE Barrier!Look(t)
  BY <1>5 DEF Barrier!Look
<1>6. CASE Barrier!Set(t)
  <2>1. group[t] # sign /\ \A u \in Thread : ~BarrierLast(u)
    BY <1>6, LastAlone DEF Barrier!Set, Barrier!Leader, BarrierLocalInv
  <2> QED BY <1>6, <2>1 DEF Barrier!Set, BarrierLast
<1>7. CASE Barrier!Spin(t) \/ Barrier!GiveUp(t) \/ Barrier!CheckEarly(t)
  BY <1>7 DEF Barrier!Spin, Barrier!GiveUp, Barrier!CheckEarly
<1>8. CASE Barrier!Mark(t)
  BY <1>8 DEF Barrier!Mark
<1>9. CASE Barrier!Check(t) \/ Barrier!Wait(t) \/ Barrier!Leave(t)
  BY <1>9 DEF Barrier!Check, Barrier!Wait, Barrier!Leave
<1>10. CASE Barrier!Delete(t) \/ Barrier!Close(t)
  BY <1>10 DEF Barrier!Delete, Barrier!Close
<1> QED BY <1>1, <1>2, <1>3, <1>4, <1>5, <1>6, <1>7, <1>8, <1>9, <1>10 DEF BarrierStep

-----------------------------------------------------------------------------
(* Counts, and deletion.                                                   *)

\* Where nobody enters, leaves or opens the round.
LEMMA Stays ==
  ASSUME NEW t \in Thread,
         \A u \in Thread \ {t} : barrierPc'[u] = barrierPc[u] /\ group'[u] = group[u],
         sign' = sign, Barrier!Entered(t)' <=> Barrier!Entered(t),
         Barrier!Through(t)' <=> Barrier!Through(t), Barrier!Leader(t)' <=> Barrier!Leader(t)
  PROVE  Filling' = Filling /\ Leaving' = Leaving
  BY DEF Filling, Leaving, Barrier!Entered, Barrier!Through, Barrier!Leader

LEMMA BarrierCountsStep ==
  ASSUME BarrierTyping, BarrierLocalInv, OneLast, CountsInv, NEW t \in Thread, BarrierStep(t)
  PROVE  CountsInv'
<1> USE DEF BarrierTyping, Barrier!Goto, Barrier!Return, Barrier!fixed, Barrier!events
<1>1. CASE Barrier!Enter(t)
  <2>1. Filling' = Filling \cup {t} /\ t \notin Filling
    BY <1>1 DEF Barrier!Enter, Filling, Barrier!Entered, Barrier!Through
  <2>2. Leaving' = Leaving
    BY <1>1 DEF Barrier!Enter, Leaving, Barrier!Entered, Barrier!Through, Barrier!Leader
  <2>3. Cardinality(Filling') = Cardinality(Filling) + 1
    BY <2>1, FillingFinite, OneJoins
  <2>4. count' = count - 1 /\ total' = total /\ noDelete' = noDelete
    BY <1>1 DEF Barrier!Enter
  <2> QED BY <2>2, <2>3, <2>4, FillingFinite DEF CountsInv
<1>2. CASE Barrier!Publish(t)
  <2>1. /\ \A u \in Thread : Barrier!Entered(u) /\ group[u] = sign /\ ~Barrier!Leader(u)
        /\ Leaving = {}
    BY <1>2, LastAlone DEF Barrier!Publish, BarrierLast
  <2>2. sign' # sign /\ group' = group /\ Barrier!Leader(t)' /\ \A u \in Thread \ {t} : barrierPc'[u] = barrierPc[u]
    BY <1>2, <2>1 DEF Barrier!Publish, Barrier!Flip, Barrier!Leader
  <2>3. \A u \in Thread : Barrier!Entered(u)'
    BY <1>2, <2>1 DEF Barrier!Publish, Barrier!Entered
  <2>4. Filling' = {}
    BY <2>1, <2>2, <2>3 DEF Filling, Barrier!Through
  <2>5. Leaving' = Thread \ {t}
    BY <2>1, <2>2, <2>3 DEF Leaving, Barrier!Through, Barrier!Leader
  <2>6. Cardinality(Filling') = 0
    BY <2>4, FS_EmptySet
  <2>7. Cardinality(Leaving') = Barrier!N - 1
    BY <2>5, ThreadsCounted, BarrierOneLeaves
  <2>8. total = Barrier!N
    BY <2>1, FS_EmptySet, FillingFinite DEF CountsInv
  <2>9. count' = total /\ noDelete' = noDelete /\ total' = IF noDelete THEN total ELSE 1
    BY <1>2 DEF Barrier!Publish, Barrier!Flip
  <2> QED BY <2>6, <2>7, <2>8, <2>9, FillingFinite DEF CountsInv
<1>3. CASE Barrier!Leave(t)
  <2>1. Leaving' = Leaving \ {t} /\ t \in Leaving /\ Filling' = Filling
    BY <1>3 DEF Barrier!Leave, BarrierLocalInv, Leaving, Filling, Barrier!Entered, Barrier!Through, Barrier!Leader
  <2>2. Cardinality(Leaving') = Cardinality(Leaving) - 1
    BY <2>1, FillingFinite, BarrierOneLeaves
  <2>3. count' = count /\ noDelete' = noDelete /\ total' = IF noDelete THEN total ELSE total + 1
    BY <1>3 DEF Barrier!Leave
  <2> QED BY <2>1, <2>2, <2>3, FillingFinite DEF CountsInv
<1>4. CASE Barrier!Set(t)
  <2>1. Filling' = Filling /\ Leaving' = Leaving
    BY <1>4 DEF Barrier!Set, BarrierLocalInv, Filling, Leaving, Barrier!Entered, Barrier!Through, Barrier!Leader
  <2> QED BY <1>4, <2>1 DEF Barrier!Set, CountsInv
<1>5. CASE Barrier!Delete(t) \/ Barrier!Close(t)
  <2>1. Filling' = Filling /\ Leaving' = Leaving
    BY <1>5 DEF Barrier!Delete, Barrier!Close, Filling, Leaving, Barrier!Entered, Barrier!Through, Barrier!Leader
  <2> QED BY <1>5, <2>1 DEF Barrier!Delete, Barrier!Close, CountsInv
<1>6. CASE Barrier!Prepare(t) \/ Barrier!LookEarly(t) \/ Barrier!Look(t)
  <2>1. Filling' = Filling /\ Leaving' = Leaving
    BY <1>6, Stays DEF Barrier!Prepare, Barrier!LookEarly, Barrier!Look, Barrier!Entered, Barrier!Through,
        Barrier!Leader
  <2> QED BY <1>6, <2>1 DEF Barrier!Prepare, Barrier!LookEarly, Barrier!Look, CountsInv
<1>7. CASE Barrier!Spin(t) \/ Barrier!GiveUp(t) \/ Barrier!CheckEarly(t)
  <2>1. Filling' = Filling /\ Leaving' = Leaving
    BY <1>7, Stays DEF Barrier!Spin, Barrier!GiveUp, Barrier!CheckEarly, Barrier!Entered, Barrier!Through,
        Barrier!Leader
  <2> QED BY <1>7, <2>1 DEF Barrier!Spin, Barrier!GiveUp, Barrier!CheckEarly, CountsInv
<1>8. CASE Barrier!Mark(t) \/ Barrier!Check(t) \/ Barrier!Wait(t)
  <2>1. Filling' = Filling /\ Leaving' = Leaving
    BY <1>8, Stays DEF Barrier!Mark, Barrier!Check, Barrier!Wait, Barrier!Entered, Barrier!Through, Barrier!Leader
  <2> QED BY <1>8, <2>1 DEF Barrier!Mark, Barrier!Check, Barrier!Wait, CountsInv
<1> QED BY <1>1, <1>2, <1>3, <1>4, <1>5, <1>6, <1>7, <1>8 DEF BarrierStep

LEMMA BarrierDeletedStep ==
  ASSUME BarrierTyping, BarrierLocalInv, OneLast, CountsInv, DeletedInv, NEW t \in Thread, BarrierStep(t)
  PROVE  DeletedInv'
<1> USE DEF BarrierTyping, Barrier!Goto, Barrier!Return, Barrier!fixed, Barrier!events
<1> DEFINE Deleted == ~open \/ \E u \in Thread : barrierPc[u] = "deleting"
<1>1. CASE Barrier!Enter(t)
  <2>1. open /\ open' /\ \A u \in Thread : barrierPc'[u] # "deleting"
    BY <1>1 DEF Barrier!Enter, Barrier!Usable
  <2> QED BY <2>1 DEF DeletedInv, Barrier!LeaversWaitedFor
<1>2. CASE Barrier!Publish(t)
  <2>1. Filling = Thread /\ \A u \in Thread : barrierPc[u] # "deleting"
    BY <1>2, LastAlone DEF Barrier!Publish, BarrierLast
  <2>2. open
    BY <2>1 DEF DeletedInv
  <2>3. open' /\ \A u \in Thread : barrierPc'[u] # "deleting"
    BY <1>2, <2>1, <2>2 DEF Barrier!Publish, Barrier!Flip
  <2> QED BY <2>3 DEF DeletedInv, Barrier!LeaversWaitedFor
<1>3. CASE Barrier!Delete(t)
  <2>1. open' /\ ~noDelete'
    BY <1>3 DEF Barrier!Delete, Barrier!Usable
  <2>2. Filling' = {}
    BY <1>3 DEF Barrier!Delete, Filling, Barrier!Entered, Barrier!Through
  <2> QED BY <2>1, <2>2 DEF DeletedInv, Barrier!LeaversWaitedFor
<1>4. CASE Barrier!Close(t)
  <2>1. Filling = {} /\ ~noDelete /\ total = count /\ barrierPc[t] = "deleting"
    BY <1>4 DEF Barrier!Close, DeletedInv
  <2>2. Leaving = {}
    <3>1. count = Barrier!N /\ total = Barrier!N - Cardinality(Leaving)
      BY <2>1, FillingFinite, FS_EmptySet DEF CountsInv
    <3>2. Cardinality(Leaving) = 0
      BY <2>1, <3>1, FillingFinite
    <3> QED BY <3>2, FillingFinite, FS_EmptySet
  <2>3. \A u \in Thread : Barrier!Entered(u) => Barrier!Leader(u)
    BY <2>1, <2>2 DEF Filling, Leaving, Barrier!Through
  <2>4. Filling' = {} /\ \A u \in Thread : Barrier!Entered(u)' => Barrier!Leader(u)'
    BY <1>4, <2>1, <2>3 DEF Barrier!Close, Filling, Barrier!Entered, Barrier!Through, Barrier!Leader
  <2> QED BY <1>4, <2>1, <2>4 DEF Barrier!Close, DeletedInv, Barrier!LeaversWaitedFor
<1>5. ASSUME open' = open, noDelete' = noDelete,
             \A u \in Thread : barrierPc'[u] = "deleting" => barrierPc[u] = "deleting",
             \A u \in Thread : Barrier!Entered(u)' => Barrier!Entered(u) /\ (Barrier!Leader(u) => Barrier!Leader(u)'),
             Filling' \subseteq Filling
      PROVE  DeletedInv'
  BY <1>5 DEF DeletedInv, Barrier!LeaversWaitedFor
<1>6. CASE Barrier!Leave(t) \/ Barrier!Set(t)
  <2>1. /\ open' = open /\ noDelete' = noDelete
        /\ \A u \in Thread : barrierPc'[u] = "deleting" => barrierPc[u] = "deleting"
    BY <1>6 DEF Barrier!Leave, Barrier!Set
  <2>2. \A u \in Thread : Barrier!Entered(u)' => Barrier!Entered(u) /\ (Barrier!Leader(u) => Barrier!Leader(u)')
    BY <1>6 DEF Barrier!Leave, Barrier!Set, Barrier!Entered, Barrier!Leader
  <2>3. Filling' \subseteq Filling
    BY <1>6 DEF Barrier!Leave, Barrier!Set, Filling, Barrier!Entered, Barrier!Through
  <2> QED BY <1>5, <2>1, <2>2, <2>3
<1>7. CASE Barrier!Prepare(t) \/ Barrier!LookEarly(t) \/ Barrier!Look(t) \/ Barrier!Spin(t) \/ Barrier!GiveUp(t)
  <2>1. /\ open' = open /\ noDelete' = noDelete
        /\ \A u \in Thread : barrierPc'[u] = "deleting" => barrierPc[u] = "deleting"
    BY <1>7 DEF Barrier!Prepare, Barrier!LookEarly, Barrier!Look, Barrier!Spin, Barrier!GiveUp
  <2>2. \A u \in Thread : Barrier!Entered(u)' => Barrier!Entered(u) /\ (Barrier!Leader(u) => Barrier!Leader(u)')
    BY <1>7 DEF Barrier!Prepare, Barrier!LookEarly, Barrier!Look, Barrier!Spin, Barrier!GiveUp, Barrier!Entered,
        Barrier!Leader
  <2>3. Filling' \subseteq Filling
    BY <1>7, <2>2 DEF Barrier!Prepare, Barrier!LookEarly, Barrier!Look, Barrier!Spin, Barrier!GiveUp, Filling,
        Barrier!Through
  <2> QED BY <1>5, <2>1, <2>2, <2>3
<1>8. CASE Barrier!CheckEarly(t) \/ Barrier!Mark(t) \/ Barrier!Check(t) \/ Barrier!Wait(t)
  <2>1. /\ open' = open /\ noDelete' = noDelete
        /\ \A u \in Thread : barrierPc'[u] = "deleting" => barrierPc[u] = "deleting"
    BY <1>8 DEF Barrier!CheckEarly, Barrier!Mark, Barrier!Check, Barrier!Wait
  <2>2. \A u \in Thread : Barrier!Entered(u)' => Barrier!Entered(u) /\ (Barrier!Leader(u) => Barrier!Leader(u)')
    BY <1>8 DEF Barrier!CheckEarly, Barrier!Mark, Barrier!Check, Barrier!Wait, Barrier!Entered, Barrier!Leader
  <2>3. Filling' \subseteq Filling
    BY <1>8, <2>2 DEF Barrier!CheckEarly, Barrier!Mark, Barrier!Check, Barrier!Wait, Filling, Barrier!Through
  <2> QED BY <1>5, <2>1, <2>2, <2>3
<1> QED BY <1>1, <1>2, <1>3, <1>4, <1>6, <1>7, <1>8 DEF BarrierStep

-----------------------------------------------------------------------------
(* The invariant.                                                          *)

LEMMA InitBarrierIInv == Barrier!Init => BarrierIInv
<1> SUFFICES ASSUME Barrier!Init
             PROVE  BarrierIInv
  OBVIOUS
<1>1. BarrierTyping /\ BarrierLocalInv /\ OneLast /\ OneLeader
  BY FillingFinite DEF Barrier!Init, BarrierTyping, BarrierLocalInv, OneLast, OneLeader, BarrierLast, Barrier!Leader
<1>2. EventsInv
  BY DEF Barrier!Init, EventsInv, Barrier!Event
<1>3. Filling = {} /\ Leaving = {}
  BY DEF Barrier!Init, Filling, Leaving, Barrier!Entered, Barrier!Through
<1>4. CountsInv
  BY <1>3, FillingFinite, FS_EmptySet DEF Barrier!Init, CountsInv
<1>5. DeletedInv
  BY DEF Barrier!Init, DeletedInv, Barrier!LeaversWaitedFor
<1> QED BY <1>1, <1>2, <1>4, <1>5 DEF BarrierIInv

LEMMA NextBarrierIInv == BarrierIInv /\ [Barrier!Next]_(Barrier!vars) => BarrierIInv'
<1> SUFFICES ASSUME BarrierIInv, [Barrier!Next]_(Barrier!vars)
             PROVE  BarrierIInv'
  OBVIOUS
<1>1. CASE UNCHANGED Barrier!vars
  BY <1>1
  DEF Barrier!vars, Barrier!events, Barrier!fixed, BarrierIInv, BarrierTyping, BarrierLocalInv, OneLast, OneLeader,
      EventsInv, CountsInv, DeletedInv, Filling,
      Leaving, BarrierLast, Barrier!LeaversWaitedFor, Barrier!Entered, Barrier!Through, Barrier!Leader
<1>2. CASE Barrier!Next
  <2>1. PICK t \in Thread : BarrierStep(t)
    BY <1>2 DEF Barrier!Next, Barrier!Inside, BarrierStep
  <2> QED
    BY <2>1, BarrierTypingStep, BarrierLocalStep, BarrierOnesStep, BarrierEventsStep, BarrierCountsStep,
        BarrierDeletedStep DEF BarrierIInv
<1> QED BY <1>1, <1>2

\* The counts and events mean what the code takes them to mean, in every round and with the accesses in
\* either order (synch.hpp:2590-2691).
THEOREM BarrierInvariance == Barrier!Spec => []BarrierIInv
<1>1. Barrier!Init => BarrierIInv
  BY InitBarrierIInv
<1>2. BarrierIInv /\ [Barrier!Next]_(Barrier!vars) => BarrierIInv'
  BY NextBarrierIInv
<1> QED BY <1>1, <1>2, PTL DEF Barrier!Spec

\* DeleteSynchronizationBarrier returns only when everybody is out of EnterSynchronizationBarrier but perhaps
\* the thread that opened the last round (synch.hpp:2716).
THEOREM DeletionWaits == Barrier!Spec => []LeaversWaitedFor
<1>1. BarrierIInv => LeaversWaitedFor
  BY DEF BarrierIInv, DeletedInv, LeaversWaitedFor
<1> QED BY <1>1, BarrierInvariance, PTL

\* The event of a round that fills is not set (synch.hpp:2605-2613).
THEOREM RoundsApart == Barrier!Spec => []Barrier!RoundsKeptApart
<1>1. BarrierIInv => Barrier!RoundsKeptApart
  BY DEF BarrierIInv, EventsInv, Barrier!RoundsKeptApart, Barrier!Through
<1> QED BY <1>1, BarrierInvariance, PTL

-----------------------------------------------------------------------------
(* The barrier is a rendezvous.                                            *)

LEMMA LeaderIs ==
  ASSUME OneLeader, NEW t \in Thread, Barrier!Leader(t)
  PROVE  Barrier!TheLeader = t
  BY DEF OneLeader, Barrier!TheLeader

LEMMA NoLeaderIs ==
  ASSUME \A t \in Thread : ~Barrier!Leader(t)
  PROVE  Barrier!TheLeader = Null
  BY DEF Barrier!TheLeader

LEMMA LeaderWas ==
  ASSUME NEW t \in Thread, ~Barrier!Leader(t)
  PROVE  Barrier!TheLeader # t
  BY DEF Barrier!TheLeader

\* What nobody outside can tell from doing nothing.
LEMMA Unseen ==
  ASSUME OneLeader, OneLeader', result' = result,
         \A u \in Thread : /\ Barrier!Entered(u)' <=> Barrier!Entered(u)
                           /\ Barrier!Through(u)' <=> Barrier!Through(u)
                           /\ Barrier!Leader(u)' <=> Barrier!Leader(u)
  PROVE  UNCHANGED Barrier!Promise!vars
<1>1. Barrier!Place' = Barrier!Place
  BY DEF Barrier!Place
<1>2. Barrier!TheLeader' = Barrier!TheLeader
  <2>1. CASE \E u \in Thread : Barrier!Leader(u)
    <3>1. PICK u \in Thread : Barrier!Leader(u)
      BY <2>1
    <3>2. Barrier!TheLeader = u
      BY <3>1, LeaderIs
    <3>3. Barrier!TheLeader' = u
      BY <3>1 DEF OneLeader, Barrier!TheLeader
    <3> QED BY <3>2, <3>3
  <2>2. CASE \A u \in Thread : ~Barrier!Leader(u)
    BY <2>2 DEF Barrier!TheLeader
  <2> QED BY <2>1, <2>2
<1> QED BY <1>1, <1>2 DEF Barrier!Promise!vars

LEMMA BarrierRefinementStep ==
  ASSUME BarrierIInv, OneLeader', NEW t \in Thread, BarrierStep(t)
  PROVE  Barrier!Promise!Next \/ UNCHANGED Barrier!Promise!vars
<1> USE DEF BarrierIInv, BarrierTyping, Barrier!Goto, Barrier!Return, Barrier!fixed, Barrier!events
<1>0. ASSUME NEW u \in Thread, Barrier!Promise!Enter(u) \/ Barrier!Promise!Open(u) \/ Barrier!Promise!Leave(u)
      PROVE  Barrier!Promise!Next
  BY <1>0 DEF Barrier!Promise!Next
<1>1. CASE Barrier!Enter(t)
  <2>1. /\ ~Barrier!Entered(t) /\ Barrier!Entered(t)' /\ ~Barrier!Through(t)'
        /\ \A u \in Thread : Barrier!Leader(u)' <=> Barrier!Leader(u)
        /\ \A u \in Thread \ {t} : /\ Barrier!Entered(u)' <=> Barrier!Entered(u)
                                   /\ Barrier!Through(u)' <=> Barrier!Through(u)
    BY <1>1 DEF Barrier!Enter, Barrier!Entered, Barrier!Through, Barrier!Leader
  <2>2. Barrier!Place[t] = "out" /\ Barrier!Place' = [Barrier!Place EXCEPT ![t] = "in"]
    BY <2>1 DEF Barrier!Place
  <2>3. Barrier!TheLeader' = Barrier!TheLeader
    <3>1. CASE \E u \in Thread : Barrier!Leader(u)
      <4>1. PICK u \in Thread : Barrier!Leader(u) /\ Barrier!Leader(u)'
        BY <2>1, <3>1
      <4> QED BY <4>1 DEF OneLeader, Barrier!TheLeader
    <3>2. CASE \A u \in Thread : ~Barrier!Leader(u)
      BY <2>1, <3>2 DEF Barrier!TheLeader
    <3> QED BY <3>1, <3>2
  <2>4. result' = result
    BY <1>1 DEF Barrier!Enter
  <2>5. Barrier!Promise!Enter(t)
    BY <2>2, <2>3, <2>4 DEF Barrier!Promise!Enter
  <2> QED BY <1>0, <2>5
<1>2. CASE Barrier!Publish(t)
  <2>1. \A u \in Thread : Barrier!Entered(u) /\ group[u] = sign
    BY <1>2, LastAlone DEF Barrier!Publish, BarrierLast
  <2>2. sign' # sign /\ group' = group /\ Barrier!Leader(t)' /\ result' = result
    BY <1>2, <2>1 DEF Barrier!Publish, Barrier!Flip, Barrier!Leader
  <2>3. \A u \in Thread : Barrier!Entered(u)'
    BY <1>2, <2>1 DEF Barrier!Publish, Barrier!Entered
  <2>4. \A u \in Thread : Barrier!Place[u] = "in"
    BY <2>1 DEF Barrier!Place, Barrier!Through
  <2>5. Barrier!Place' = [u \in Thread |-> "through"]
    BY <2>1, <2>2, <2>3 DEF Barrier!Place, Barrier!Through
  <2>6. Barrier!TheLeader' = t
    BY <2>2 DEF OneLeader, Barrier!TheLeader
  <2>7. Barrier!Promise!Open(t)
    BY <2>2, <2>4, <2>5, <2>6 DEF Barrier!Promise!Open
  <2> QED BY <1>0, <2>7
<1>3. CASE Barrier!Set(t) \/ Barrier!Leave(t)
  <2>1. Barrier!Through(t)
    BY <1>3 DEF Barrier!Set, Barrier!Leave, BarrierLocalInv, Barrier!Leader, Barrier!Through, Barrier!Entered
  <2>2. /\ ~Barrier!Entered(t)' /\ ~Barrier!Leader(t)'
        /\ \A u \in Thread \ {t} : /\ Barrier!Entered(u)' <=> Barrier!Entered(u)
                                   /\ Barrier!Through(u)' <=> Barrier!Through(u)
                                   /\ Barrier!Leader(u)' <=> Barrier!Leader(u)
    BY <1>3 DEF Barrier!Set, Barrier!Leave, Barrier!Entered, Barrier!Through, Barrier!Leader
  <2>3. Barrier!Place[t] = "through" /\ Barrier!Place' = [Barrier!Place EXCEPT ![t] = "out"]
    BY <2>1, <2>2 DEF Barrier!Place, Barrier!Through
  <2>4. CASE Barrier!Set(t)
    <3>1. Barrier!Leader(t) /\ result' = [result EXCEPT ![t] = TRUE]
      BY <2>4 DEF Barrier!Set, Barrier!Leader
    <3>2. Barrier!TheLeader = t
      BY <3>1, LeaderIs
    <3>3. \A u \in Thread : ~Barrier!Leader(u)'
      BY <2>2, <3>1 DEF OneLeader
    <3>4. Barrier!TheLeader' = Null
      BY <3>3 DEF Barrier!TheLeader
    <3>5. Barrier!Promise!Leave(t)
      BY <2>3, <3>1, <3>2, <3>4 DEF Barrier!Promise!Leave
    <3> QED BY <1>0, <3>5
  <2>5. CASE Barrier!Leave(t)
    <3>1. ~Barrier!Leader(t) /\ result' = [result EXCEPT ![t] = FALSE]
      BY <2>5 DEF Barrier!Leave, Barrier!Leader
    <3>2. Barrier!TheLeader # t
      BY <3>1, LeaderWas
    <3>3. Barrier!TheLeader' = Barrier!TheLeader
      <4>1. CASE \E u \in Thread : Barrier!Leader(u)
        <5>1. PICK u \in Thread : Barrier!Leader(u) /\ Barrier!Leader(u)'
          BY <2>2, <3>1, <4>1
        <5> QED BY <5>1 DEF OneLeader, Barrier!TheLeader
      <4>2. CASE \A u \in Thread : ~Barrier!Leader(u)
        BY <2>2, <4>2 DEF Barrier!TheLeader
      <4> QED BY <4>1, <4>2
    <3>4. (t = Barrier!TheLeader) = FALSE
      BY <3>2
    <3>5. Barrier!Promise!Leave(t)
      BY <2>3, <3>1, <3>2, <3>3, <3>4 DEF Barrier!Promise!Leave
    <3> QED BY <1>0, <3>5
  <2> QED BY <1>3, <2>4, <2>5
<1>4. CASE Barrier!Prepare(t) \/ Barrier!LookEarly(t) \/ Barrier!Look(t) \/ Barrier!Spin(t) \/ Barrier!GiveUp(t)
  <2>1. result' = result
    BY <1>4 DEF Barrier!Prepare, Barrier!LookEarly, Barrier!Look, Barrier!Spin, Barrier!GiveUp
  <2>2. \A u \in Thread : /\ Barrier!Entered(u)' <=> Barrier!Entered(u)
                          /\ Barrier!Through(u)' <=> Barrier!Through(u)
                          /\ Barrier!Leader(u)' <=> Barrier!Leader(u)
    BY <1>4 DEF Barrier!Prepare, Barrier!LookEarly, Barrier!Look, Barrier!Spin, Barrier!GiveUp, Barrier!Entered,
        Barrier!Through, Barrier!Leader
  <2> QED BY <2>1, <2>2, Unseen
<1>5. CASE \/ Barrier!CheckEarly(t) \/ Barrier!Mark(t) \/ Barrier!Check(t) \/ Barrier!Wait(t)
           \/ Barrier!Delete(t) \/ Barrier!Close(t)
  <2>1. result' = result
    BY <1>5 DEF Barrier!CheckEarly, Barrier!Mark, Barrier!Check, Barrier!Wait, Barrier!Delete, Barrier!Close
  <2>2. \A u \in Thread : /\ Barrier!Entered(u)' <=> Barrier!Entered(u)
                          /\ Barrier!Through(u)' <=> Barrier!Through(u)
                          /\ Barrier!Leader(u)' <=> Barrier!Leader(u)
    BY <1>5 DEF Barrier!CheckEarly, Barrier!Mark, Barrier!Check, Barrier!Wait, Barrier!Delete, Barrier!Close,
        Barrier!Entered, Barrier!Through, Barrier!Leader
  <2> QED BY <2>1, <2>2, Unseen
<1> QED BY <1>1, <1>2, <1>3, <1>4, <1>5 DEF BarrierStep

\* Seen from outside the barrier is a rendezvous: nobody leaves a round before everybody has come, and exactly
\* one thread of each returns TRUE; also where the processor reorders (synch.hpp:2625-2691).
THEOREM BarrierImplementation == Barrier!Spec => ImplementsRendezvous
<1>1. Barrier!Init => Barrier!Promise!Init
  <2> SUFFICES ASSUME Barrier!Init
               PROVE  Barrier!Promise!Init
    OBVIOUS
  <2>1. \A t \in Thread : ~Barrier!Entered(t) /\ ~Barrier!Leader(t)
    BY DEF Barrier!Init, Barrier!Entered, Barrier!Leader
  <2>2. Barrier!Place = [t \in Thread |-> "out"] /\ Barrier!TheLeader = Null
    BY <2>1, NoLeaderIs DEF Barrier!Place
  <2> QED BY <2>2 DEF Barrier!Init, Barrier!Promise!Init
<1>2. BarrierIInv /\ BarrierIInv' /\ [Barrier!Next]_(Barrier!vars) => [Barrier!Promise!Next]_(Barrier!Promise!vars)
  <2> SUFFICES ASSUME BarrierIInv, BarrierIInv', [Barrier!Next]_(Barrier!vars)
               PROVE  Barrier!Promise!Next \/ UNCHANGED Barrier!Promise!vars
    OBVIOUS
  <2>1. CASE UNCHANGED Barrier!vars
    BY <2>1, Unseen DEF Barrier!vars, Barrier!events, Barrier!fixed, BarrierIInv, Barrier!Entered, Barrier!Through,
        Barrier!Leader
  <2>2. CASE Barrier!Next
    <3>1. PICK t \in Thread : BarrierStep(t)
      BY <2>2 DEF Barrier!Next, Barrier!Inside, BarrierStep
    <3> QED BY <3>1, BarrierRefinementStep DEF BarrierIInv
  <2> QED BY <2>1, <2>2
<1> QED BY <1>1, <1>2, BarrierInvariance, PTL DEF Barrier!Spec, ImplementsRendezvous, Barrier!ImplementsRendezvous, Barrier!Promise!Spec
=============================================================================
