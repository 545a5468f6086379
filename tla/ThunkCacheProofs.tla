-------------------------- MODULE ThunkCacheProofs --------------------------
(***************************************************************************)
(* Proofs about ThunkCache, for any number of threads, functions and DLLs: *)
(* types, right answers, balanced references and no cached pointer into an *)
(* unloaded DLL.                                                           *)
(***************************************************************************)
EXTENDS ThunkCache, FiniteSetTheorems, TLAPS

USE CacheAssumption

\* The named actions that Next is made of, for one thread.
Step(t) ==
  \/ TryInit(t) \/ Spin(t) \/ SetCookie(t) \/ Publish(t) \/ Preloaded(t)
  \/ \E a \in Api : SetSlot(t, a) \/ Preload(t, a) \/ Call(t, a)
  \/ TestSlot(t) \/ ReadSlot(t) \/ ReadModule(t) \/ Load(t) \/ CacheModule(t)
  \/ CacheInvalid(t) \/ FreeDuplicate(t) \/ FindProc(t) \/ Store(t)
  \/ Start(t) \/ Uninitialise(t)
  \/ \E why \in {"unloading", "exiting"} : Stop(t, why)

\* A step of the system is a step of one thread.
LEMMA NextIsStep ==
  ASSUME Next
  PROVE  \E t \in Thread : Step(t)
  BY DEF Next, Step, Work, Initialise, LookUp

\* Everything TypeOK says of the variables but the range of the reference counts,
\* which needs RefsBalanced.
Typing ==
  /\ present \subseteq Module /\ exported \subseteq Api
  /\ s_eThunksStatus \in {"None", "Wait", "Initialised", "Uninitialized"}
  /\ cookie \in {"zero", "set"}
  /\ slot \in [Api -> Word]
  /\ hModule \in [Module -> {"null", "handle", "invalid"}]
  /\ pc \in [Thread -> {"idle", "init", "spin", "cookie", "slots", "preload", "test", "read",
                        "module", "load", "cache", "invalid", "free", "proc", "store"}]
  /\ goal \in [Thread -> Api \cup {None}]
  /\ api \in [Thread -> Api \cup {None}]
  /\ todo \in [Thread -> SUBSET Api]
  /\ word \in [Thread -> Word]
  /\ result \in [Thread -> {"none", "found", "absent", "wild"}]
  /\ preload \in BOOLEAN /\ raced \in BOOLEAN
  /\ host \in {"running", "unloading", "exiting"} /\ last \in Thread \cup {None}

\* What a word of the cache may be, and what encoding makes of a value.
LEMMA WordFacts ==
  /\ Raw \in Word /\ Raw.val = "null" /\ Raw.key = "zero"
  /\ \A w \in Word : w.val \in {"null", "found", "absent"} /\ w.key \in {"zero", "set"}
  /\ \A w \in Word : w.val = "null" /\ w.key = "zero" => w = Raw
  /\ cookie \in {"zero", "set"} =>
       \A v \in {"null", "found", "absent"} :
         Encode(v) \in Word /\ Encode(v).val = v /\ Encode(v).key = cookie
  BY DEF Raw, Word, Encode

\* The result of a lookup is typed.
LEMMA AnswerTypes ==
  ASSUME Typing, NEW t \in Thread, NEW v \in {"found", "absent", "wild"}, Answer(t, v)
  PROVE  /\ pc' \in [Thread -> {"idle", "init", "spin", "cookie", "slots", "preload", "test",
                                "read", "module", "load", "cache", "invalid", "free", "proc",
                                "store"}]
         /\ todo' \in [Thread -> SUBSET Api]
         /\ result' \in [Thread -> {"none", "found", "absent", "wild"}]
  BY DEF Typing, Answer, Goto

\* Every action keeps the types.
LEMMA TypingStep ==
  ASSUME Typing, LocalInv, NEW t \in Thread, Step(t)
  PROVE  Typing'
<1> USE WordFacts DEF Typing, Goto, world, caches, locals, Lookups
<1>2. CASE TryInit(t)
  BY <1>2 DEF TryInit, AfterInit
<1>3. CASE Spin(t)
  BY <1>3 DEF Spin, AfterInit
<1>4. CASE SetCookie(t)
  BY <1>4 DEF SetCookie
<1>5. CASE Publish(t)
  BY <1>5 DEF Publish
<1>6. CASE Preloaded(t)
  BY <1>6 DEF Preloaded
<1>7. ASSUME NEW a \in Api, SetSlot(t, a) PROVE Typing'
  BY <1>7 DEF SetSlot
<1>8. ASSUME NEW a \in Api, Preload(t, a) PROVE Typing'
  BY <1>8 DEF Preload
<1>9. ASSUME NEW a \in Api, Call(t, a) PROVE Typing'
  BY <1>9 DEF Call
<1>10. CASE TestSlot(t)
  BY <1>10 DEF TestSlot
<1>11. CASE ReadSlot(t)
  <2>1. api[t] \in Api
    BY <1>11 DEF ReadSlot, At, LocalInv
  <2>2. Decode(slot[api[t]]) \in {"null", "found", "absent", "wild"}
    BY <2>1 DEF Decode
  <2>3. CASE Decode(slot[api[t]]) = "null"
    BY <1>11, <2>3 DEF ReadSlot
  <2>4. CASE Decode(slot[api[t]]) # "null"
    BY <1>11, <2>2, <2>4, AnswerTypes DEF ReadSlot
  <2> QED BY <2>3, <2>4
<1>12. CASE ReadModule(t)
  BY <1>12 DEF ReadModule
<1>13. CASE Load(t)
  BY <1>13 DEF Load
<1>14. CASE CacheModule(t)
  BY <1>14 DEF CacheModule
<1>15. CASE CacheInvalid(t)
  BY <1>15 DEF CacheInvalid
<1>16. CASE FreeDuplicate(t)
  BY <1>16 DEF FreeDuplicate
<1>17. CASE FindProc(t)
  BY <1>17 DEF FindProc, Right
<1>18. CASE Store(t)
  <2>1. word[t].val \in {"found", "absent"} /\ api[t] \in Api
    BY <1>18 DEF Store, At, LocalInv
  <2>2. Answer(t, word[t].val)
    BY <1>18 DEF Store
  <2> QED BY <1>18, <2>1, <2>2, AnswerTypes DEF Store
<1>19. CASE Start(t)
  BY <1>19 DEF Start
<1>20. CASE Uninitialise(t)
  BY <1>20 DEF Uninitialise, GiveUpModules
<1>21. ASSUME NEW why \in {"unloading", "exiting"}, Stop(t, why) PROVE Typing'
  BY <1>21 DEF Stop
<1> QED
  BY <1>2, <1>3, <1>4, <1>5, <1>6, <1>7, <1>8, <1>9, <1>10, <1>11, <1>12, <1>13, <1>14,
     <1>15, <1>16, <1>17, <1>18, <1>19, <1>20, <1>21 DEF Step

\* ... what a thread knows of its own lookup,
LEMMA LocalStep ==
  ASSUME Typing, LocalInv, NEW t \in Thread, Step(t)
  PROVE  LocalInv'
<1> USE DEF Typing, LocalInv, Goto, At, world, caches, locals, Lookups
<1>2. CASE TryInit(t)
  BY <1>2 DEF TryInit, AfterInit
<1>3. CASE Spin(t)
  BY <1>3 DEF Spin, AfterInit
<1>4. CASE SetCookie(t)
  BY <1>4 DEF SetCookie
<1>5. CASE Publish(t)
  BY <1>5 DEF Publish
<1>6. CASE Preloaded(t)
  BY <1>6 DEF Preloaded
<1>7. ASSUME NEW a \in Api, SetSlot(t, a) PROVE LocalInv'
  BY <1>7 DEF SetSlot
<1>8. ASSUME NEW a \in Api, Preload(t, a) PROVE LocalInv'
  BY <1>8 DEF Preload
<1>9. ASSUME NEW a \in Api, Call(t, a) PROVE LocalInv'
  BY <1>9 DEF Call
<1>10. CASE TestSlot(t)
  BY <1>10 DEF TestSlot
<1>11. CASE ReadSlot(t)
  <2>3. CASE Decode(slot[api[t]]) = "null"
    BY <1>11, <2>3 DEF ReadSlot
  <2>4. CASE Decode(slot[api[t]]) # "null"
    BY <1>11, <2>4 DEF ReadSlot, Answer
  <2> QED BY <2>3, <2>4
<1>12. CASE ReadModule(t)
  BY <1>12, WordFacts DEF ReadModule
<1>13. CASE Load(t)
  BY <1>13 DEF Load
<1>14. CASE CacheModule(t)
  BY <1>14 DEF CacheModule
<1>15. CASE CacheInvalid(t)
  BY <1>15, WordFacts DEF CacheInvalid
<1>16. CASE FreeDuplicate(t)
  BY <1>16 DEF FreeDuplicate
<1>17. CASE FindProc(t)
  BY <1>17, WordFacts DEF FindProc, Right
<1>18. CASE Store(t)
  BY <1>18 DEF Store, Answer
<1>19. CASE Start(t)
  BY <1>19 DEF Start
<1>20. CASE Uninitialise(t)
  BY <1>20 DEF Uninitialise
<1>21. ASSUME NEW why \in {"unloading", "exiting"}, Stop(t, why) PROVE LocalInv'
  BY <1>21 DEF Stop
<1> QED
  BY <1>2, <1>3, <1>4, <1>5, <1>6, <1>7, <1>8, <1>9, <1>10, <1>11, <1>12, <1>13, <1>14,
     <1>15, <1>16, <1>17, <1>18, <1>19, <1>20, <1>21 DEF Step

\* ... what is known of the DLLs,
LEMMA ModulesStep ==
  ASSUME Typing, LocalInv, ModulesInv, NEW t \in Thread, Step(t)
  PROVE  ModulesInv'
<1> USE DEF Typing, LocalInv, ModulesInv, Goto, At, world, caches, locals, Lookups
<1>2. CASE TryInit(t)
  BY <1>2 DEF TryInit, AfterInit
<1>3. CASE Spin(t)
  BY <1>3 DEF Spin, AfterInit
<1>4. CASE SetCookie(t)
  BY <1>4 DEF SetCookie
<1>5. CASE Publish(t)
  BY <1>5 DEF Publish
<1>6. CASE Preloaded(t)
  BY <1>6 DEF Preloaded
<1>7. ASSUME NEW a \in Api, SetSlot(t, a) PROVE ModulesInv'
  BY <1>7 DEF SetSlot
<1>8. ASSUME NEW a \in Api, Preload(t, a) PROVE ModulesInv'
  BY <1>8 DEF Preload
<1>9. ASSUME NEW a \in Api, Call(t, a) PROVE ModulesInv'
  BY <1>9 DEF Call
<1>10. CASE TestSlot(t)
  BY <1>10 DEF TestSlot
<1>11. CASE ReadSlot(t)
  BY <1>11 DEF ReadSlot, Answer
<1>12. CASE ReadModule(t)
  BY <1>12 DEF ReadModule
<1>13. CASE Load(t)
  BY <1>13 DEF Load
<1>14. CASE CacheModule(t)
  BY <1>14 DEF CacheModule
<1>15. CASE CacheInvalid(t)
  BY <1>15 DEF CacheInvalid
<1>16. CASE FreeDuplicate(t)
  BY <1>16 DEF FreeDuplicate
<1>17. CASE FindProc(t)
  BY <1>17 DEF FindProc
<1>18. CASE Store(t)
  BY <1>18 DEF Store, Answer
<1>19. CASE Start(t)
  BY <1>19 DEF Start
<1>20. CASE Uninitialise(t)
  BY <1>20 DEF Uninitialise, GiveUpModules
<1>21. ASSUME NEW why \in {"unloading", "exiting"}, Stop(t, why) PROVE ModulesInv'
  BY <1>21 DEF Stop
<1> QED
  BY <1>2, <1>3, <1>4, <1>5, <1>6, <1>7, <1>8, <1>9, <1>10, <1>11, <1>12, <1>13, <1>14,
     <1>15, <1>16, <1>17, <1>18, <1>19, <1>20, <1>21 DEF Step

\* ... and the handle in the cache of every function that is cached or nearly so.
LEMMA CachedStep ==
  ASSUME Typing, LocalInv, ModulesInv, CachedInv, NEW t \in Thread, Step(t)
  PROVE  CachedInv'
<1> USE WordFacts DEF Typing, LocalInv, ModulesInv, CachedInv, Goto, At, world, caches, locals, Lookups
<1>2. CASE TryInit(t)
  BY <1>2 DEF TryInit, AfterInit
<1>3. CASE Spin(t)
  BY <1>3 DEF Spin, AfterInit
<1>4. CASE SetCookie(t)
  BY <1>4 DEF SetCookie
<1>5. CASE Publish(t)
  BY <1>5 DEF Publish
<1>6. CASE Preloaded(t)
  BY <1>6 DEF Preloaded
<1>7. ASSUME NEW a \in Api, SetSlot(t, a) PROVE CachedInv'
  BY <1>7 DEF SetSlot
<1>8. ASSUME NEW a \in Api, Preload(t, a) PROVE CachedInv'
  BY <1>8 DEF Preload
<1>9. ASSUME NEW a \in Api, Call(t, a) PROVE CachedInv'
  BY <1>9 DEF Call
<1>10. CASE TestSlot(t)
  BY <1>10 DEF TestSlot
<1>11. CASE ReadSlot(t)
  BY <1>11 DEF ReadSlot, Answer
<1>12. CASE ReadModule(t)
  BY <1>12 DEF ReadModule
<1>13. CASE Load(t)
  BY <1>13 DEF Load
<1>14. CASE CacheModule(t)
  BY <1>14 DEF CacheModule
<1>15. CASE CacheInvalid(t)
  BY <1>15 DEF CacheInvalid
<1>16. CASE FreeDuplicate(t)
  BY <1>16 DEF FreeDuplicate
<1>17. CASE FindProc(t)
  BY <1>17 DEF FindProc, Right
<1>18. CASE Store(t)
  BY <1>18 DEF Store, Answer
<1>19. CASE Start(t)
  BY <1>19 DEF Start
<1>20. CASE Uninitialise(t)
  BY <1>20 DEF Uninitialise, GiveUpModules
<1>21. ASSUME NEW why \in {"unloading", "exiting"}, Stop(t, why) PROVE CachedInv'
  BY <1>21 DEF Stop
<1> QED
  BY <1>2, <1>3, <1>4, <1>5, <1>6, <1>7, <1>8, <1>9, <1>10, <1>11, <1>12, <1>13, <1>14,
     <1>15, <1>16, <1>17, <1>18, <1>19, <1>20, <1>21 DEF Step

\* Threads are finitely many, so those that hold a handle not yet cached can be counted.
LEMMA HoldingFinite ==
  ASSUME NEW m
  PROVE  IsFiniteSet(Holding(m)) /\ Cardinality(Holding(m)) \in Nat
<1>1. IsFiniteSet(Holding(m))
  BY FS_Subset DEF Holding
<1> QED BY <1>1, FS_CardinalityType

\* One thread more, or one less, holds a handle.
LEMMA OneMore ==
  ASSUME NEW S, IsFiniteSet(S), NEW t, t \notin S, NEW T, T = S \cup {t}
  PROVE  Cardinality(T) = Cardinality(S) + 1
<1>1. Cardinality(S \cup {t}) = Cardinality(S) + 1
  BY FS_AddElement
<1> QED BY <1>1, Zenon

LEMMA OneLess ==
  ASSUME NEW S, IsFiniteSet(S), NEW t, t \in S, NEW T, T = S \ {t}
  PROVE  Cardinality(T) = Cardinality(S) - 1
<1>1. Cardinality(S \ {t}) = Cardinality(S) - 1
  BY FS_RemoveElement
<1> QED BY <1>1, Zenon

\* Unless the thread takes, hands over or gives back a handle, nothing changes hands.
LEMMA RefsUnmoved ==
  ASSUME RefsBalanced, \A m \in Module : Holding(m)' = Holding(m), UNCHANGED <<refs, hModule>>
  PROVE  RefsBalanced'
  BY DEF RefsBalanced

\* Every action keeps the balance of references: loading adds one and a thread that
\* holds it, caching turns the thread's into the cache's or leaves two, and so on.
LEMMA RefsStep ==
  ASSUME Typing, TypeOK, LocalInv, ModulesInv, RefsBalanced, NEW t \in Thread, Step(t)
  PROVE  RefsBalanced'
<1> USE DEF Typing, LocalInv, Goto, At, world, caches, locals, Lookups
<1>2. CASE TryInit(t)
  <2>1. \A m \in Module : Holding(m)' = Holding(m)
    BY <1>2 DEF Holding, TryInit, AfterInit
  <2> QED BY <1>2, <2>1, RefsUnmoved DEF TryInit, AfterInit
<1>3. CASE Spin(t)
  <2>1. \A m \in Module : Holding(m)' = Holding(m)
    BY <1>3 DEF Holding, Spin, AfterInit
  <2> QED BY <1>3, <2>1, RefsUnmoved DEF Spin, AfterInit
<1>4. CASE SetCookie(t)
  <2>1. \A m \in Module : Holding(m)' = Holding(m)
    BY <1>4 DEF Holding, SetCookie
  <2> QED BY <1>4, <2>1, RefsUnmoved DEF SetCookie
<1>5. CASE Publish(t)
  <2>1. \A m \in Module : Holding(m)' = Holding(m)
    BY <1>5 DEF Holding, Publish
  <2> QED BY <1>5, <2>1, RefsUnmoved DEF Publish
<1>6. CASE Preloaded(t)
  <2>1. \A m \in Module : Holding(m)' = Holding(m)
    BY <1>6 DEF Holding, Preloaded
  <2> QED BY <1>6, <2>1, RefsUnmoved DEF Preloaded
<1>7. ASSUME NEW a \in Api, SetSlot(t, a) PROVE RefsBalanced'
  <2>1. \A m \in Module : Holding(m)' = Holding(m)
    BY <1>7 DEF Holding, SetSlot
  <2> QED BY <1>7, <2>1, RefsUnmoved DEF SetSlot
<1>8. ASSUME NEW a \in Api, Preload(t, a) PROVE RefsBalanced'
  <2>1. \A m \in Module : Holding(m)' = Holding(m)
    BY <1>8 DEF Holding, Preload
  <2> QED BY <1>8, <2>1, RefsUnmoved DEF Preload
<1>9. ASSUME NEW a \in Api, Call(t, a) PROVE RefsBalanced'
  <2>1. \A m \in Module : Holding(m)' = Holding(m)
    BY <1>9 DEF Holding, Call
  <2> QED BY <1>9, <2>1, RefsUnmoved DEF Call
<1>10. CASE TestSlot(t)
  <2>1. \A m \in Module : Holding(m)' = Holding(m)
    BY <1>10 DEF Holding, TestSlot
  <2> QED BY <1>10, <2>1, RefsUnmoved DEF TestSlot
<1>11. CASE ReadSlot(t)
  <2>1. \A m \in Module : Holding(m)' = Holding(m)
    BY <1>11 DEF Holding, ReadSlot, Answer
  <2> QED BY <1>11, <2>1, RefsUnmoved DEF ReadSlot, Answer
<1>12. CASE ReadModule(t)
  <2>1. \A m \in Module : Holding(m)' = Holding(m)
    BY <1>12 DEF Holding, ReadModule
  <2> QED BY <1>12, <2>1, RefsUnmoved DEF ReadModule
<1>13. CASE Load(t)
  <2>1. PICK k \in Module : pc[t] = "load" /\ api[t] \in Api /\ k = ModuleOf[api[t]]
    BY <1>13 DEF Load
  <2>2. CASE k \notin present
    <3>1. \A m \in Module : Holding(m)' = Holding(m)
      BY <1>13, <2>1, <2>2 DEF Holding, Load
    <3> QED BY <1>13, <2>1, <2>2, <3>1, RefsUnmoved DEF Load
  <2>3. CASE k \in present
    <3>1. /\ t \notin Holding(k) /\ Holding(k)' = Holding(k) \cup {t}
          /\ \A m \in Module \ {k} : Holding(m)' = Holding(m)
      BY <1>13, <2>1, <2>3 DEF Holding, Load
    <3>2. Count(k, 1) /\ UNCHANGED hModule
      BY <1>13, <2>1, <2>3 DEF Load
    <3>3. ASSUME NEW m \in Module \ Pinned
          PROVE  refs'[m] = Cardinality(Holding(m)') + (IF hModule'[m] = "handle" THEN 1 ELSE 0)
      <4>1. CASE m = k
        <5>1. refs[m] \in Nat /\ refs'[m] = refs[m] + 1 /\ hModule'[m] = hModule[m]
          BY <3>2, <4>1 DEF Count, TypeOK
        <5>2. refs[m] = Cardinality(Holding(m)) + (IF hModule[m] = "handle" THEN 1 ELSE 0)
          BY DEF RefsBalanced
        <5>3. /\ Cardinality(Holding(m)) \in Nat
              /\ Cardinality(Holding(m)') = Cardinality(Holding(m)) + 1
          <6>1. t \notin Holding(m) /\ Holding(m)' = Holding(m) \cup {t}
            BY <3>1, <4>1
          <6> QED BY <6>1, HoldingFinite, OneMore
        <5> QED BY <5>1, <5>2, <5>3
      <4>2. CASE m # k
        BY <3>1, <3>2, <4>2 DEF RefsBalanced, Count, TypeOK
      <4> QED BY <4>1, <4>2
    <3> QED BY <3>3 DEF RefsBalanced
  <2> QED BY <2>2, <2>3
<1>14. CASE CacheModule(t)
  <2>1. PICK k \in Module : /\ pc[t] = "cache" /\ api[t] \in Api
                            /\ k = ModuleOf[api[t]] /\ t \in Holding(k)
    BY <1>14 DEF Holding, CacheModule
  <2>2. hModule' = [hModule EXCEPT ![k] = "handle"] /\ UNCHANGED <<refs, api>>
    BY <1>14, <2>1 DEF CacheModule
  <2>3. \A m \in Module \ {k} : Holding(m)' = Holding(m)
    BY <1>14, <2>1 DEF Holding, CacheModule
  <2>4. CASE hModule[k] = "null"
    <3>1. Holding(k)' = Holding(k) \ {t}
      BY <1>14, <2>1, <2>4 DEF Holding, CacheModule
    <3>2. ASSUME NEW m \in Module \ Pinned
          PROVE  refs'[m] = Cardinality(Holding(m)') + (IF hModule'[m] = "handle" THEN 1 ELSE 0)
      <4>1. CASE m = k
        <5>1. refs[m] \in Nat /\ refs'[m] = refs[m] /\ hModule'[m] = "handle"
          BY <2>2, <4>1 DEF TypeOK
        <5>2. refs[m] = Cardinality(Holding(m)) + (IF hModule[m] = "handle" THEN 1 ELSE 0)
          BY DEF RefsBalanced
        <5>3. t \in Holding(m) /\ Holding(m)' = Holding(m) \ {t}
          BY <2>1, <3>1, <4>1
        <5>4. /\ Cardinality(Holding(m)) \in Nat
              /\ Cardinality(Holding(m)') = Cardinality(Holding(m)) - 1
          BY <5>3, HoldingFinite, OneLess
        <5> QED BY <2>4, <4>1, <5>1, <5>2, <5>4
      <4>2. CASE m # k
        BY <2>2, <2>3, <4>2 DEF RefsBalanced, TypeOK
      <4> QED BY <4>1, <4>2
    <3> QED BY <3>2 DEF RefsBalanced
  <2>5. CASE hModule[k] # "null"
    <3>1. hModule[k] = "handle"
      BY <2>1, <2>5 DEF ModulesInv
    <3>2. hModule' = hModule
      BY <2>1, <2>2, <3>1
    <3>3. Holding(k)' = Holding(k)
      BY <1>14, <2>1, <2>5 DEF Holding, CacheModule
    <3> QED BY <2>2, <2>3, <3>2, <3>3, RefsUnmoved
  <2> QED BY <2>4, <2>5
<1>15. CASE CacheInvalid(t)
  <2>1. \A m \in Module : Holding(m)' = Holding(m)
    BY <1>15 DEF Holding, CacheInvalid
  <2>2. \A m \in Module : hModule'[m] = "handle" <=> hModule[m] = "handle"
    BY <1>15 DEF CacheInvalid, ModulesInv
  <2>3. UNCHANGED refs
    BY <1>15 DEF CacheInvalid
  <2> QED BY <2>1, <2>2, <2>3 DEF RefsBalanced
<1>16. CASE FreeDuplicate(t)
  <2>1. PICK k \in Module : /\ pc[t] = "free" /\ api[t] \in Api
                            /\ k = ModuleOf[api[t]] /\ t \in Holding(k)
    BY <1>16 DEF Holding, FreeDuplicate
  <2>2. Count(k, -1) /\ UNCHANGED hModule
    BY <1>16, <2>1 DEF FreeDuplicate
  <2>3. Holding(k)' = Holding(k) \ {t} /\ \A m \in Module \ {k} : Holding(m)' = Holding(m)
    BY <1>16, <2>1 DEF Holding, FreeDuplicate
  <2>4. ASSUME NEW m \in Module \ Pinned
        PROVE  refs'[m] = Cardinality(Holding(m)') + (IF hModule'[m] = "handle" THEN 1 ELSE 0)
    <3>1. CASE m = k
      <4>1. refs[m] \in Nat /\ refs'[m] = refs[m] - 1 /\ hModule'[m] = hModule[m]
        BY <2>2, <3>1 DEF Count, TypeOK
      <4>2. refs[m] = Cardinality(Holding(m)) + (IF hModule[m] = "handle" THEN 1 ELSE 0)
        BY DEF RefsBalanced
      <4>3. /\ Cardinality(Holding(m)) \in Nat
            /\ Cardinality(Holding(m)') = Cardinality(Holding(m)) - 1
        <5>1. t \in Holding(m) /\ Holding(m)' = Holding(m) \ {t}
          BY <2>1, <2>3, <3>1
        <5> QED BY <5>1, HoldingFinite, OneLess
      <4> QED BY <4>1, <4>2, <4>3
    <3>2. CASE m # k
      BY <2>2, <2>3, <3>2 DEF RefsBalanced, Count, TypeOK
    <3> QED BY <3>1, <3>2
  <2> QED BY <2>4 DEF RefsBalanced
<1>17. CASE FindProc(t)
  <2>1. \A m \in Module : Holding(m)' = Holding(m)
    BY <1>17 DEF Holding, FindProc
  <2> QED BY <1>17, <2>1, RefsUnmoved DEF FindProc
<1>18. CASE Store(t)
  <2>1. \A m \in Module : Holding(m)' = Holding(m)
    BY <1>18 DEF Holding, Store, Answer
  <2> QED BY <1>18, <2>1, RefsUnmoved DEF Store, Answer
<1>19. CASE Start(t)
  <2>1. \A m \in Module : Holding(m)' = Holding(m)
    BY <1>19 DEF Holding, Start
  <2> QED BY <1>19, <2>1, RefsUnmoved DEF Start
<1>20. CASE Uninitialise(t)
  <2>1. \A m \in Module : Holding(m)' = Holding(m)
    BY <1>20 DEF Holding, Uninitialise
  <2>2. CASE GiveUpModules
    <3>1. ASSUME NEW m \in Module \ Pinned
          PROVE  refs'[m] = Cardinality(Holding(m)') + (IF hModule'[m] = "handle" THEN 1 ELSE 0)
      <4>1. /\ refs[m] \in Nat /\ hModule'[m] = "null"
            /\ refs'[m] = IF hModule[m] = "handle" THEN refs[m] - 1 ELSE refs[m]
        BY <2>2 DEF GiveUpModules, TypeOK
      <4>2. refs[m] = Cardinality(Holding(m)) + (IF hModule[m] = "handle" THEN 1 ELSE 0)
        BY DEF RefsBalanced
      <4>3. Cardinality(Holding(m)) \in Nat
        BY HoldingFinite
      <4> QED BY <2>1, <4>1, <4>2, <4>3
    <3> QED BY <3>1 DEF RefsBalanced
  <2>3. CASE UNCHANGED <<hModule, refs>>
    BY <2>1, <2>3, RefsUnmoved
  <2> QED BY <1>20, <2>2, <2>3 DEF Uninitialise
<1>21. ASSUME NEW why \in {"unloading", "exiting"}, Stop(t, why) PROVE RefsBalanced'
  <2>1. \A m \in Module : Holding(m)' = Holding(m)
    BY <1>21 DEF Holding, Stop
  <2> QED BY <1>21, <2>1, RefsUnmoved DEF Stop
<1> QED
  BY <1>2, <1>3, <1>4, <1>5, <1>6, <1>7, <1>8, <1>9, <1>10, <1>11, <1>12, <1>13, <1>14,
     <1>15, <1>16, <1>17, <1>18, <1>19, <1>20, <1>21 DEF Step

\* Once a thread has run into another's initialisation, that is remembered.
LEMMA RacedStays ==
  ASSUME NEW t \in Thread, Step(t), raced
  PROVE  raced'
<1> USE DEF world, caches, locals
<1>1. CASE TryInit(t)
  BY <1>1 DEF TryInit
<1>2. CASE ~TryInit(t)
  BY <1>2 DEF Step, Spin, SetCookie, Publish, Preloaded, SetSlot, Preload, Call, TestSlot, ReadSlot,
     ReadModule, Load, CacheModule, CacheInvalid, FreeDuplicate, FindProc, Store, Start,
     Uninitialise, Stop
<1> QED BY <1>1, <1>2

\* A thread goes on within its lookup, the others keep what they rely on.
LEMMA ThreadGoesOn ==
  ASSUME Typing, ThreadInv, NEW t \in Thread, NEW where, Goto(t, where),
         UNCHANGED <<s_eThunksStatus, cookie, slot, api, todo, exported>>,
         word' = [word EXCEPT ![t] = word'[t]],
         where \notin {"spin", "cookie", "slots", "preload"},
         where \in Lookups \ {"test"} => cookie = "set" /\ Set(api[t]),
         where = "store" => word'[t] = [val |-> Right(api[t]), key |-> "set"],
         todo[t] # {} => Settled /\ where \in Lookups
  PROVE  ThreadInv'
<1> SUFFICES ASSUME NEW u \in Thread
    PROVE  (/\ pc[u] # "spin"
            /\ pc[u] \in {"cookie", "slots"} =>
                 /\ s_eThunksStatus \in {"Wait", "Uninitialized"}
                 /\ \A v \in Thread : pc[v] \in {"cookie", "slots"} => v = u
            /\ pc[u] = "cookie" => cookie = "zero"
            /\ pc[u] = "slots" => cookie = "set" /\ \A a \in Api \ todo[u] : Set(a)
            /\ pc[u] = "preload" => Settled
            /\ todo[u] # {} => pc[u] = "slots" \/ (Settled /\ pc[u] \in Lookups \cup {"preload"})
            /\ pc[u] \in Lookups \ {"test"} => cookie = "set" /\ Set(api[u])
            /\ pc[u] = "store" => word[u] = [val |-> Right(api[u]), key |-> "set"])'
  BY DEF ThreadInv
<1>1. /\ pc'[t] = where /\ \A v \in Thread : v # t => pc'[v] = pc[v] /\ word'[v] = word[v]
      /\ \A a : Right(a)' = Right(a) /\ Set(a)' = Set(a)
  BY DEF Goto, Typing, Right, Set
<1>2. CASE u = t
  BY <1>1, <1>2 DEF Right, Set, Settled, Lookups
<1>3. CASE u # t
  BY <1>1, <1>3 DEF ThreadInv, Settled, Set, Right
<1> QED BY <1>2, <1>3

\* As long as nobody has run into an initialisation under way, status, cookie and slots
\* go together ...
LEMMA StatusStep ==
  ASSUME Typing, LocalInv, ModulesInv, StatusInv, SlotsInv, ThreadInv, ~raced', NEW t \in Thread, Step(t)
  PROVE  StatusInv'
<1> USE WordFacts DEF Typing, LocalInv, StatusInv, SlotsInv, ThreadInv, Settled, Set, Goto, At, Alive, Right,
        world, caches, locals, Lookups
<1>2. CASE TryInit(t)
  BY <1>2 DEF TryInit, AfterInit
<1>3. CASE Spin(t)
  BY <1>3 DEF Spin, AfterInit
<1>4. CASE SetCookie(t)
  BY <1>4 DEF SetCookie
<1>5. CASE Publish(t)
  BY <1>5 DEF Publish
<1>6. CASE Preloaded(t)
  BY <1>6 DEF Preloaded
<1>7. ASSUME NEW a \in Api, SetSlot(t, a) PROVE StatusInv'
  BY <1>7 DEF SetSlot
<1>8. ASSUME NEW a \in Api, Preload(t, a) PROVE StatusInv'
  BY <1>8 DEF Preload
<1>9. ASSUME NEW a \in Api, Call(t, a) PROVE StatusInv'
  BY <1>9 DEF Call
<1>10. CASE TestSlot(t)
  BY <1>10 DEF TestSlot
<1>11. CASE ReadSlot(t)
  BY <1>11 DEF ReadSlot, Answer, Decode
<1>12. CASE ReadModule(t)
  BY <1>12 DEF ReadModule
<1>13. CASE Load(t)
  BY <1>13 DEF Load
<1>14. CASE CacheModule(t)
  BY <1>14 DEF CacheModule
<1>15. CASE CacheInvalid(t)
  BY <1>15 DEF CacheInvalid
<1>16. CASE FreeDuplicate(t)
  BY <1>16 DEF FreeDuplicate
<1>17. CASE FindProc(t)
  BY <1>17 DEF FindProc
<1>18. CASE Store(t)
  BY <1>18 DEF Store, Answer
<1>19. CASE Start(t)
  BY <1>19 DEF Start
<1>20. CASE Uninitialise(t)
  BY <1>20 DEF Uninitialise, GiveUpModules
<1>21. ASSUME NEW why \in {"unloading", "exiting"}, Stop(t, why) PROVE StatusInv'
  BY <1>21 DEF Stop
<1> QED
  BY <1>2, <1>3, <1>4, <1>5, <1>6, <1>7, <1>8, <1>9, <1>10, <1>11, <1>12, <1>13, <1>14,
     <1>15, <1>16, <1>17, <1>18, <1>19, <1>20, <1>21 DEF Step

\* ... a slot is raw or holds the right answer ...
LEMMA SlotsStep ==
  ASSUME Typing, LocalInv, ModulesInv, StatusInv, SlotsInv, ThreadInv, ~raced', NEW t \in Thread, Step(t)
  PROVE  SlotsInv'
<1> USE WordFacts DEF Typing, LocalInv, StatusInv, SlotsInv, ThreadInv, Settled, Set, Goto, At, Alive, Right,
        world, caches, locals, Lookups
<1>2. CASE TryInit(t)
  BY <1>2 DEF TryInit, AfterInit
<1>3. CASE Spin(t)
  BY <1>3 DEF Spin, AfterInit
<1>4. CASE SetCookie(t)
  BY <1>4 DEF SetCookie
<1>5. CASE Publish(t)
  BY <1>5 DEF Publish
<1>6. CASE Preloaded(t)
  BY <1>6 DEF Preloaded
<1>7. ASSUME NEW a \in Api, SetSlot(t, a) PROVE SlotsInv'
  BY <1>7 DEF SetSlot
<1>8. ASSUME NEW a \in Api, Preload(t, a) PROVE SlotsInv'
  BY <1>8 DEF Preload
<1>9. ASSUME NEW a \in Api, Call(t, a) PROVE SlotsInv'
  BY <1>9 DEF Call
<1>10. CASE TestSlot(t)
  BY <1>10 DEF TestSlot
<1>11. CASE ReadSlot(t)
  BY <1>11 DEF ReadSlot, Answer, Decode
<1>12. CASE ReadModule(t)
  BY <1>12 DEF ReadModule
<1>13. CASE Load(t)
  BY <1>13 DEF Load
<1>14. CASE CacheModule(t)
  BY <1>14 DEF CacheModule
<1>15. CASE CacheInvalid(t)
  BY <1>15 DEF CacheInvalid
<1>16. CASE FreeDuplicate(t)
  BY <1>16 DEF FreeDuplicate
<1>17. CASE FindProc(t)
  BY <1>17 DEF FindProc
<1>18. CASE Store(t)
  BY <1>18 DEF Store, Answer
<1>19. CASE Start(t)
  BY <1>19 DEF Start
<1>20. CASE Uninitialise(t)
  BY <1>20 DEF Uninitialise, GiveUpModules
<1>21. ASSUME NEW why \in {"unloading", "exiting"}, Stop(t, why) PROVE SlotsInv'
  BY <1>21 DEF Stop
<1> QED
  BY <1>2, <1>3, <1>4, <1>5, <1>6, <1>7, <1>8, <1>9, <1>10, <1>11, <1>12, <1>13, <1>14,
     <1>15, <1>16, <1>17, <1>18, <1>19, <1>20, <1>21 DEF Step

\* ... a thread finds what it needs at each place ...
LEMMA ThreadStep ==
  ASSUME Typing, LocalInv, ModulesInv, StatusInv, SlotsInv, ThreadInv, ~raced', NEW t \in Thread, Step(t)
  PROVE  ThreadInv'
<1> USE WordFacts DEF Typing, LocalInv, StatusInv, SlotsInv, ThreadInv, Settled, Set, Goto, At, Alive, Right,
        world, caches, locals, Lookups
<1>2. CASE TryInit(t)
  BY <1>2 DEF TryInit, AfterInit
<1>3. CASE Spin(t)
  BY <1>3 DEF Spin, AfterInit
<1>4. CASE SetCookie(t)
  BY <1>4 DEF SetCookie
<1>5. CASE Publish(t)
  BY <1>5 DEF Publish
<1>6. CASE Preloaded(t)
  BY <1>6 DEF Preloaded
<1>7. ASSUME NEW a \in Api, SetSlot(t, a) PROVE ThreadInv'
  BY <1>7 DEF SetSlot
<1>8. ASSUME NEW a \in Api, Preload(t, a) PROVE ThreadInv'
  BY <1>8 DEF Preload
<1>9. ASSUME NEW a \in Api, Call(t, a) PROVE ThreadInv'
  BY <1>9 DEF Call
<1>10. CASE TestSlot(t)
  <2>1. api[t] \in Api /\ (slot[api[t]] # Raw => cookie = "set" /\ Set(api[t]))
    BY <1>10 DEF TestSlot
  <2>2. PICK where \in {"init", "read"} :
          Goto(t, where) /\ (where = "read" => slot[api[t]] # Raw)
    BY <1>10 DEF TestSlot
  <2> QED BY <1>10, <2>1, <2>2, ThreadGoesOn DEF TestSlot
<1>11. CASE ReadSlot(t)
  <2>1. api[t] \in Api /\ pc[t] = "read" /\ cookie = "set" /\ Set(api[t])
    BY <1>11 DEF ReadSlot
  <2>2. CASE Decode(slot[api[t]]) = "null"
    <3>1. Goto(t, "module") /\ UNCHANGED <<s_eThunksStatus, cookie, slot, api, todo, exported, word>>
      BY <1>11, <2>2 DEF ReadSlot
    <3> QED BY <2>1, <3>1, ThreadGoesOn
  <2>3. CASE Decode(slot[api[t]]) # "null" /\ todo[t] = {}
    <3>1. Goto(t, "idle") /\ UNCHANGED <<s_eThunksStatus, cookie, slot, api, todo, exported, word>>
      BY <1>11, <2>3 DEF ReadSlot, Answer
    <3> QED BY <2>3, <3>1, ThreadGoesOn
  <2>4. CASE Decode(slot[api[t]]) # "null" /\ todo[t] # {}
    BY <1>11, <2>4 DEF ReadSlot, Answer
  <2> QED BY <2>2, <2>3, <2>4
<1>12. CASE ReadModule(t)
  <2>1. api[t] \in Api /\ cookie = "set" /\ Set(api[t]) /\ ModuleOf[api[t]] \in Module
    BY <1>12 DEF ReadModule
  <2>2. hModule[ModuleOf[api[t]]] = "invalid" => Right(api[t]) = "absent"
    BY <2>1 DEF ModulesInv
  <2>3. PICK where \in {"load", "proc", "store"} :
          /\ Goto(t, where)
          /\ where # "store" => UNCHANGED word
          /\ where = "store" => /\ hModule[ModuleOf[api[t]]] = "invalid"
                                /\ word' = [word EXCEPT ![t] = Encode("absent")]
    BY <1>12 DEF ReadModule
  <2>4. where = "store" => word'[t] = [val |-> Right(api[t]), key |-> "set"]
    BY <2>1, <2>2, <2>3 DEF Encode
  <2> QED BY <1>12, <2>1, <2>3, <2>4, ThreadGoesOn DEF ReadModule
<1>13. CASE Load(t)
  BY <1>13 DEF Load
<1>14. CASE CacheModule(t)
  BY <1>14 DEF CacheModule
<1>15. CASE CacheInvalid(t)
  <2>1. api[t] \in Api /\ cookie = "set" /\ Set(api[t]) /\ Right(api[t]) = "absent"
    BY <1>15 DEF CacheInvalid, ModulesInv
  <2>2. word'[t] = [val |-> Right(api[t]), key |-> "set"]
    BY <1>15, <2>1 DEF CacheInvalid, Encode
  <2> QED BY <1>15, <2>1, <2>2, ThreadGoesOn DEF CacheInvalid
<1>16. CASE FreeDuplicate(t)
  BY <1>16 DEF FreeDuplicate
<1>17. CASE FindProc(t)
  <2>1. api[t] \in Api /\ cookie = "set" /\ Set(api[t])
    BY <1>17 DEF FindProc
  <2>2. word'[t] = [val |-> Right(api[t]), key |-> "set"]
    BY <1>17, <2>1 DEF FindProc, Encode
  <2> QED BY <1>17, <2>1, <2>2, ThreadGoesOn DEF FindProc
<1>18. CASE Store(t)
  <2>1. /\ api[t] \in Api /\ cookie = "set" /\ word[t].key = "set"
        /\ \A a \in Api : Set(a)' <=> (Set(a) \/ a = api[t])
    BY <1>18 DEF Store
  <2>2. CASE todo[t] = {}
    BY <1>18, <2>1, <2>2 DEF Store, Answer
  <2>3. CASE todo[t] # {}
    BY <1>18, <2>1, <2>3 DEF Store, Answer
  <2> QED BY <2>2, <2>3
<1>19. CASE Start(t)
  BY <1>19 DEF Start
<1>20. CASE Uninitialise(t)
  BY <1>20 DEF Uninitialise, GiveUpModules
<1>21. ASSUME NEW why \in {"unloading", "exiting"}, Stop(t, why) PROVE ThreadInv'
  BY <1>21 DEF Stop
<1> QED
  BY <1>2, <1>3, <1>4, <1>5, <1>6, <1>7, <1>8, <1>9, <1>10, <1>11, <1>12, <1>13, <1>14,
     <1>15, <1>16, <1>17, <1>18, <1>19, <1>20, <1>21 DEF Step

\* ... and so every answer is right.
LEMMA GoodStep ==
  ASSUME Typing, LocalInv, ModulesInv, StatusInv, SlotsInv, ThreadInv, ~raced', GoodAnswers, NEW t \in Thread, Step(t)
  PROVE  GoodAnswers'
<1> USE WordFacts DEF Typing, LocalInv, StatusInv, SlotsInv, ThreadInv, Settled, Set, Goto, At, Alive, Right,
        world, caches, locals, Lookups, GoodAnswers
<1>2. CASE TryInit(t)
  BY <1>2 DEF TryInit, AfterInit
<1>3. CASE Spin(t)
  BY <1>3 DEF Spin, AfterInit
<1>4. CASE SetCookie(t)
  BY <1>4 DEF SetCookie
<1>5. CASE Publish(t)
  BY <1>5 DEF Publish
<1>6. CASE Preloaded(t)
  BY <1>6 DEF Preloaded
<1>7. ASSUME NEW a \in Api, SetSlot(t, a) PROVE GoodAnswers'
  BY <1>7 DEF SetSlot
<1>8. ASSUME NEW a \in Api, Preload(t, a) PROVE GoodAnswers'
  BY <1>8 DEF Preload
<1>9. ASSUME NEW a \in Api, Call(t, a) PROVE GoodAnswers'
  BY <1>9 DEF Call
<1>10. CASE TestSlot(t)
  BY <1>10 DEF TestSlot
<1>11. CASE ReadSlot(t)
  BY <1>11 DEF ReadSlot, Answer, Decode
<1>12. CASE ReadModule(t)
  BY <1>12 DEF ReadModule
<1>13. CASE Load(t)
  BY <1>13 DEF Load
<1>14. CASE CacheModule(t)
  BY <1>14 DEF CacheModule
<1>15. CASE CacheInvalid(t)
  BY <1>15 DEF CacheInvalid
<1>16. CASE FreeDuplicate(t)
  BY <1>16 DEF FreeDuplicate
<1>17. CASE FindProc(t)
  BY <1>17 DEF FindProc
<1>18. CASE Store(t)
  BY <1>18 DEF Store, Answer
<1>19. CASE Start(t)
  BY <1>19 DEF Start
<1>20. CASE Uninitialise(t)
  BY <1>20 DEF Uninitialise, GiveUpModules
<1>21. ASSUME NEW why \in {"unloading", "exiting"}, Stop(t, why) PROVE GoodAnswers'
  BY <1>21 DEF Stop
<1> QED
  BY <1>2, <1>3, <1>4, <1>5, <1>6, <1>7, <1>8, <1>9, <1>10, <1>11, <1>12, <1>13, <1>14,
     <1>15, <1>16, <1>17, <1>18, <1>19, <1>20, <1>21 DEF Step

-----------------------------------------------------------------------------
\* The references to a DLL stay numbers: to a counted one because of the balance, to
\* a pinned one because nobody touches them.
LEMMA RefsTyped ==
  ASSUME TypeOK, Typing', RefsBalanced', NEW t \in Thread, Step(t)
  PROVE  refs' \in [Module -> Nat]
<1>1. \A m \in Module : m \in Pinned => refs'[m] = refs[m]
  BY DEF TypeOK, Step, TryInit, Spin, SetCookie, Publish, Preloaded, SetSlot, Preload, Call,
     TestSlot, ReadSlot, ReadModule, Load, CacheModule, CacheInvalid, FreeDuplicate, FindProc,
     Store, Start, Uninitialise, Stop, Count, GiveUpModules, caches
<1>2. DOMAIN refs' = Module /\ refs' = [m \in Module |-> refs'[m]]
  BY DEF TypeOK, Step, TryInit, Spin, SetCookie, Publish, Preloaded, SetSlot, Preload, Call,
     TestSlot, ReadSlot, ReadModule, Load, CacheModule, CacheInvalid, FreeDuplicate, FindProc,
     Store, Start, Uninitialise, Stop, Count, GiveUpModules, caches
<1>3. ASSUME NEW m \in Module \ Pinned
      PROVE  refs'[m] \in Nat
  <2>1. Cardinality(Holding(m)') \in Nat
    <3>1. IsFiniteSet(Holding(m)')
      BY FS_Subset DEF Holding
    <3> QED BY <3>1, FS_CardinalityType
  <2> QED BY <2>1 DEF RefsBalanced
<1> QED BY <1>1, <1>2, <1>3 DEF TypeOK

\* Nothing is cached, nobody is inside, the status is "None".
LEMMA InitIInv ==
  ASSUME Init
  PROVE  IInv
<1>1. TypeOK
  BY WordFacts DEF Init, TypeOK
<1>2. LocalInv /\ ModulesInv /\ CachedInv /\ GoodAnswers
  BY DEF Init, LocalInv, ModulesInv, CachedInv, GoodAnswers, Lookups, Raw
<1>3. AnswersInv
  BY DEF Init, AnswersInv, StatusInv, SlotsInv, ThreadInv, Settled, Lookups
<1>4. RefsBalanced
  <2>1. ASSUME NEW m \in Module \ Pinned
        PROVE  refs[m] = 0 /\ Holding(m) = {} /\ hModule[m] # "handle"
    BY <2>1 DEF Init, Holding
  <2> QED BY <2>1, FS_EmptySet DEF RefsBalanced
<1> QED BY <1>1, <1>2, <1>3, <1>4 DEF IInv

\* Every step keeps the inductive invariant.
LEMMA NextIInv ==
  ASSUME IInv, [Next]_vars
  PROVE  IInv'
<1>1. CASE UNCHANGED vars
  BY <1>1 DEF IInv, vars, world, caches, locals, TypeOK, LocalInv, ModulesInv, CachedInv,
     AnswersInv, StatusInv, SlotsInv, ThreadInv, Settled, Set, At, Alive, Right, GoodAnswers,
     RefsBalanced, Holding
<1>2. ASSUME NEW t \in Thread, Step(t)
      PROVE  IInv'
  <2>1. TypeOK /\ LocalInv /\ ModulesInv /\ CachedInv /\ AnswersInv /\ GoodAnswers /\ RefsBalanced
    BY DEF IInv
  <2>2. Typing
    BY <2>1 DEF Typing, TypeOK
  <2>3. Typing' /\ LocalInv' /\ ModulesInv' /\ CachedInv' /\ RefsBalanced'
    BY <1>2, <2>1, <2>2, TypingStep, LocalStep, ModulesStep, CachedStep, RefsStep
  <2>4. TypeOK'
    BY <1>2, <2>1, <2>3, RefsTyped DEF Typing, TypeOK
  <2>5. AnswersInv' /\ GoodAnswers'
    <3>1. CASE raced'
      BY <3>1 DEF AnswersInv, GoodAnswers
    <3>2. CASE ~raced'
      <4>1. StatusInv /\ SlotsInv /\ ThreadInv
        BY <1>2, <2>1, <3>2, RacedStays DEF AnswersInv
      <4> QED
        BY <1>2, <2>1, <2>2, <3>2, <4>1, StatusStep, SlotsStep, ThreadStep, GoodStep
        DEF AnswersInv
    <3> QED BY <3>1, <3>2
  <2> QED BY <2>3, <2>4, <2>5 DEF IInv
<1> QED BY <1>1, <1>2, NextIsStep

-----------------------------------------------------------------------------
\* The inductive invariant holds throughout, whatever the number of threads,
\* functions and DLLs.
THEOREM Invariance == Spec => []IInv
<1>1. Init => IInv
  BY InitIInv
<1>2. IInv /\ [Next]_vars => IInv'
  BY NextIInv
<1> QED BY <1>1, <1>2, PTL DEF Spec

\* Types are kept, and no DLL is given back more often than it was loaded.
THEOREM TypeCorrect == Spec => []TypeOK
<1>1. IInv => TypeOK
  BY DEF IInv
<1> QED BY <1>1, Invariance, PTL

\* While no thread has run into an initialisation under way, try_get_function returns
\* what the system exports, in every interleaving of calls, preloading and set-up.
THEOREM AnswersRight == Spec => []GoodAnswers
<1>1. IInv => GoodAnswers
  BY DEF IInv
<1> QED BY <1>1, Invariance, PTL

\* The references to each DLL are one per cached handle and one per thread on its way
\* to cache or to free one, also when the image is being unloaded.
THEOREM ReferencesBalanced == Spec => []RefsBalanced
<1>1. IInv => RefsBalanced
  BY DEF IInv
<1> QED BY <1>1, Invariance, PTL

\* A cached function pointer, and one being looked up, is backed by a reference to its DLL.
THEOREM CachedPointersAlive == Spec => []PointersAlive
<1>1. IInv => PointersAlive
  <2> SUFFICES ASSUME IInv, host # "unloading"
               PROVE  PointersAlive
    BY DEF PointersAlive
  <2>1. ASSUME NEW m \in Module \ Pinned, hModule[m] = "handle"
        PROVE  refs[m] > 0
    BY <2>1, HoldingFinite DEF IInv, RefsBalanced
  <2>2. \A a \in Api : slot[a].val = "found" => hModule[ModuleOf[a]] = "handle"
    BY DEF IInv, CachedInv
  <2>3. \A t \in Thread : pc[t] = "proc" => hModule[ModuleOf[api[t]]] = "handle"
    BY DEF IInv, CachedInv
  <2>4. \A t \in Thread : pc[t] = "proc" => ModuleOf[api[t]] \in Module
    BY DEF IInv, LocalInv, Lookups
  <2> QED BY <2>1, <2>2, <2>3, <2>4 DEF PointersAlive
<1> QED BY <1>1, Invariance, PTL
=============================================================================
