----------------------------- MODULE ThunkCache -----------------------------
(***************************************************************************)
(* The heart of the library, src/Thunks/YY_Thunks.h and YY_Thunks.cpp: a   *)
(* thunk asks try_get_function for the system's implementation of an API   *)
(* and falls back to its own if there is none.  The answer is cached, as   *)
(* is the handle of the DLL it was looked up in; both caches are set up by *)
(* _YY_initialize_winapi_thunks, on the first call, from the CRT or from   *)
(* DllMain, and given up by __YY_uninitialize_winapi_thunks.               *)
(*                                                                         *)
(* A cached pointer is encoded with a cookie that initialisation chooses.  *)
(* A word of the cache is a record of the value and the cookie it was      *)
(* encoded with; decoded with another cookie it is a wild pointer.         *)
(*                                                                         *)
(* Loading a DLL either always works or never does.  LoadLibraryExW is the *)
(* system's own, as in a build whose target has no thunk of it, and there  *)
(* is no custom loader.  The uninitialisers of other parts are left out.   *)
(***************************************************************************)
EXTENDS Integers, FiniteSets

CONSTANTS
  Thread,
  Api,        \* the functions looked up
  Module,     \* the DLLs they are looked up in
  ModuleOf,   \* the DLL of each function
  Pinned,     \* DLLs found with GetModuleHandleW (ntdll, kernel32, kernelbase),
              \* which the loader never unloads and nobody counts
  None

ASSUME CacheAssumption ==
  /\ IsFiniteSet(Thread)
  /\ ModuleOf \in [Api -> Module]
  /\ Pinned \subseteq Module
  /\ None \notin Api \cup Thread

VARIABLES
  present,          \* the DLLs this system has
  exported,         \* the functions they export
  preload,          \* ~__YY_Thunks_Disable_Rreload_Dlls
  s_eThunksStatus,  \* "Initialised" stands for InitByDllMain, InitByCRT and InitByAPI
  cookie,           \* __security_cookie_yy_thunks
  slot,             \* pFun_X of each function
  hModule,          \* hModule of each DLL
  refs,             \* references this image holds to each DLL that is not pinned
  pc,
  goal,             \* the function the thread was asked for; None: the loader or CRT
  api,              \* the function it is looking up
  todo,             \* slots still to be set, then functions still to be preloaded
  word,             \* the encoded pointer it is about to store
  result,           \* what its last call returned
  raced,            \* some thread found another one initialising
  host,             \* "running", "unloading" the image or "exiting" the process
  last              \* the thread that does so

caches == <<s_eThunksStatus, cookie, slot, hModule, refs>>
world == <<present, exported, preload, host, last>>
locals == <<goal, api, todo, word, result>>
vars == <<world, caches, pc, locals, raced>>

Word == [val : {"null", "found", "absent"}, key : {"zero", "set"}]

\* A pointer nobody has stored yet: 0, which is what 0 encodes to without a cookie.
Raw == [val |-> "null", key |-> "zero"]

\* __crt_fast_encode_pointer and __crt_fast_decode_pointer.
Encode(v) == [val |-> v, key |-> cookie]
Decode(w) == IF w.key = cookie THEN w.val ELSE "wild"

\* What a lookup of function a ought to find.
Right(a) == IF a \in exported THEN "found" ELSE "absent"

Init ==
  /\ present \in SUBSET Module
  /\ exported \in SUBSET {a \in Api : ModuleOf[a] \in present}
  /\ preload \in BOOLEAN
  /\ s_eThunksStatus = "None" /\ cookie = "zero"
  /\ slot = [a \in Api |-> Raw]
  /\ hModule = [m \in Module |-> "null"]
  /\ refs = [m \in Module |-> 0]
  /\ pc = [t \in Thread |-> "idle"]
  /\ goal = [t \in Thread |-> None]
  /\ api = [t \in Thread |-> None]
  /\ todo = [t \in Thread |-> {}]
  /\ word = [t \in Thread |-> Raw]
  /\ result = [t \in Thread |-> "none"]
  /\ raced = FALSE
  /\ host = "running" /\ last = None

\* Others have left the image before it is unloaded and are gone once the process exits.
Alive(t) == host = "running" \/ t = last

At(t, where) == Alive(t) /\ pc[t] = where
Goto(t, where) == pc' = [pc EXCEPT ![t] = where]

-----------------------------------------------------------------------------
(* _YY_initialize_winapi_thunks.                                           *)

\* DllMain or the CRT calls it.
Start(t) ==
  /\ At(t, "idle") /\ host = "running"
  /\ goal' = [goal EXCEPT ![t] = None]
  /\ api' = [api EXCEPT ![t] = None]
  /\ result' = [result EXCEPT ![t] = "none"]
  /\ Goto(t, "init")
  /\ UNCHANGED <<world, caches, todo, word, raced>>

\* It returns: to the loader or CRT, or to try_get_function.
AfterInit(t) == Goto(t, IF api[t] = None THEN "idle" ELSE "read")

TryInit(t) ==
  /\ At(t, "init")
  /\ \/ /\ s_eThunksStatus = "None"
        /\ s_eThunksStatus' = "Wait" /\ Goto(t, "cookie") /\ UNCHANGED raced
     \/ /\ s_eThunksStatus = "Wait"
        /\ Goto(t, "spin") /\ raced' = TRUE /\ UNCHANGED s_eThunksStatus
     \/ /\ s_eThunksStatus \notin {"None", "Wait"}
        /\ AfterInit(t) /\ UNCHANGED <<s_eThunksStatus, raced>>
  /\ UNCHANGED <<world, cookie, slot, hModule, refs, locals>>

\* do { } while (status != Wait): it is the finished initialisation that is waited on.
Spin(t) ==
  /\ At(t, "spin") /\ s_eThunksStatus = "Wait"
  /\ AfterInit(t)
  /\ UNCHANGED <<world, caches, locals, raced>>

\* Mutant: opens the caches before the slots are set.
SetCookieOpen(t) ==
  /\ At(t, "cookie")
  /\ cookie' = "set"
  /\ s_eThunksStatus' = "Initialised"
  /\ todo' = [todo EXCEPT ![t] = Api]
  /\ Goto(t, "slots")
  /\ UNCHANGED <<world, slot, hModule, refs, goal, api, word, result, raced>>

SetCookie(t) ==
  /\ At(t, "cookie")
  /\ cookie' = "set"
  /\ todo' = [todo EXCEPT ![t] = Api]
  /\ Goto(t, "slots")
  /\ UNCHANGED <<world, s_eThunksStatus, slot, hModule, refs, goal, api, word, result,
                 raced>>

SetSlot(t, a) ==
  /\ At(t, "slots") /\ a \in todo[t]
  /\ slot' = [slot EXCEPT ![a] = Encode("null")]
  /\ todo' = [todo EXCEPT ![t] = @ \ {a}]
  /\ UNCHANGED <<world, s_eThunksStatus, cookie, hModule, refs, pc, goal, api, word,
                 result, raced>>

Publish(t) ==
  /\ At(t, "slots") /\ todo[t] = {}
  /\ s_eThunksStatus' = "Initialised"
  /\ todo' = [todo EXCEPT ![t] = IF preload THEN Api ELSE {}]
  /\ Goto(t, "preload")
  /\ UNCHANGED <<world, cookie, slot, hModule, refs, goal, api, word, result, raced>>

\* Looks up the next function in advance.
Preload(t, a) ==
  /\ At(t, "preload") /\ a \in todo[t]
  /\ api' = [api EXCEPT ![t] = a]
  /\ Goto(t, "test")
  /\ UNCHANGED <<world, caches, goal, todo, word, result, raced>>

\* All preloaded, back to what the thread was asked for.
Preloaded(t) ==
  /\ At(t, "preload") /\ todo[t] = {}
  /\ api' = [api EXCEPT ![t] = goal[t]]
  /\ Goto(t, IF goal[t] = None THEN "idle" ELSE "read")
  /\ UNCHANGED <<world, caches, goal, todo, word, result, raced>>

-----------------------------------------------------------------------------
(* try_get_function, and within it try_get_module.                         *)

\* A thunk of function a is called.
Call(t, a) ==
  /\ At(t, "idle") /\ s_eThunksStatus # "Uninitialized"
  /\ goal' = [goal EXCEPT ![t] = a]
  /\ api' = [api EXCEPT ![t] = a]
  /\ result' = [result EXCEPT ![t] = "none"]
  /\ Goto(t, "test")
  /\ UNCHANGED <<world, caches, todo, word, raced>>

\* The lookup ends with value v: one of those done in advance, or the call's own.
Answer(t, v) ==
  IF todo[t] # {}
  THEN /\ todo' = [todo EXCEPT ![t] = @ \ {api[t]}]
       /\ Goto(t, "preload") /\ UNCHANGED result
  ELSE /\ result' = [result EXCEPT ![t] = v]
       /\ Goto(t, "idle") /\ UNCHANGED todo

TestSlot(t) ==
  /\ At(t, "test")
  /\ Goto(t, IF slot[api[t]] = Raw THEN "init" ELSE "read")
  /\ UNCHANGED <<world, caches, locals, raced>>

ReadSlot(t) ==
  /\ At(t, "read")
  /\ LET v == Decode(slot[api[t]]) IN
       IF v = "null" THEN Goto(t, "module") /\ UNCHANGED <<todo, result>> ELSE Answer(t, v)
  /\ UNCHANGED <<world, caches, goal, api, word, raced>>

ReadModule(t) ==
  /\ At(t, "module")
  /\ \/ hModule[ModuleOf[api[t]]] = "null" /\ Goto(t, "load") /\ UNCHANGED word
     \/ hModule[ModuleOf[api[t]]] = "handle" /\ Goto(t, "proc") /\ UNCHANGED word
     \/ /\ hModule[ModuleOf[api[t]]] = "invalid" /\ Goto(t, "store")
        /\ word' = [word EXCEPT ![t] = Encode("absent")]
  /\ UNCHANGED <<world, caches, goal, api, todo, result, raced>>

\* A reference is counted unless the DLL is pinned.
Count(m, change) == refs' = [refs EXCEPT ![m] = @ + (IF m \in Pinned THEN 0 ELSE change)]

Load(t) ==
  /\ At(t, "load")
  /\ IF ModuleOf[api[t]] \in present
     THEN Count(ModuleOf[api[t]], 1) /\ Goto(t, "cache")
     ELSE UNCHANGED refs /\ Goto(t, "invalid")
  /\ UNCHANGED <<world, s_eThunksStatus, cookie, slot, hModule, locals, raced>>

\* Mutant: gives its reference back though the cache has none.
CacheModuleFree(t) ==
  /\ At(t, "cache")
  /\ hModule' = [hModule EXCEPT ![ModuleOf[api[t]]] = "handle"]
  /\ Goto(t, "free")
  /\ UNCHANGED <<world, s_eThunksStatus, cookie, slot, refs, locals, raced>>

CacheModule(t) ==
  /\ At(t, "cache")
  /\ hModule' = [hModule EXCEPT ![ModuleOf[api[t]]] = "handle"]
  /\ Goto(t, IF hModule[ModuleOf[api[t]]] = "null" THEN "proc" ELSE "free")
  /\ UNCHANGED <<world, s_eThunksStatus, cookie, slot, refs, locals, raced>>

CacheInvalid(t) ==
  /\ At(t, "invalid")
  /\ hModule' = [hModule EXCEPT ![ModuleOf[api[t]]] = "invalid"]
  /\ word' = [word EXCEPT ![t] = Encode("absent")]
  /\ Goto(t, "store")
  /\ UNCHANGED <<world, s_eThunksStatus, cookie, slot, refs, goal, api, todo, result, raced>>

\* Mutant: keeps the second reference.
KeepDuplicate(t) ==
  /\ At(t, "free")
  /\ Goto(t, "proc")
  /\ UNCHANGED <<world, caches, locals, raced>>

\* Another thread has cached the handle, one reference is enough.
FreeDuplicate(t) ==
  /\ At(t, "free")
  /\ Count(ModuleOf[api[t]], -1)
  /\ Goto(t, "proc")
  /\ UNCHANGED <<world, s_eThunksStatus, cookie, slot, hModule, locals, raced>>

\* GetProcAddress, and the pointer to cache.
FindProc(t) ==
  /\ At(t, "proc")
  /\ word' = [word EXCEPT ![t] = Encode(Right(api[t]))]
  /\ Goto(t, "store")
  /\ UNCHANGED <<world, caches, goal, api, todo, result, raced>>

Store(t) ==
  /\ At(t, "store")
  /\ slot' = [slot EXCEPT ![api[t]] = word[t]]
  /\ Answer(t, word[t].val)
  /\ word' = [word EXCEPT ![t] = Raw]
  /\ UNCHANGED <<world, s_eThunksStatus, cookie, hModule, refs, goal, api, raced>>

-----------------------------------------------------------------------------
(* __YY_uninitialize_winapi_thunks.                                        *)

\* The image is unloaded once nobody is inside it any more; the process exits at any time.
Stop(t, why) ==
  /\ host = "running" /\ pc[t] = "idle"
  /\ why = "unloading" => \A u \in Thread : pc[u] = "idle"
  /\ host' = why /\ last' = t
  /\ UNCHANGED <<present, exported, preload, caches, pc, locals, raced>>

GiveUpModules ==
  /\ refs' = [m \in Module |-> IF hModule[m] # "handle" \/ m \in Pinned THEN refs[m]
                                                                        ELSE refs[m] - 1]
  /\ hModule' = [m \in Module |-> "null"]

\* Nothing is touched if the process exits.  Called from the CRT and from DllMain;
\* nobody else is left to see it half done, so it is one step.
Uninitialise(t) ==
  /\ At(t, "idle") /\ host # "running"
  /\ s_eThunksStatus' = "Uninitialized"
  /\ IF s_eThunksStatus = "Initialised" /\ host = "unloading"
     THEN GiveUpModules ELSE UNCHANGED <<hModule, refs>>
  /\ UNCHANGED <<world, cookie, slot, pc, locals, raced>>

-----------------------------------------------------------------------------
Initialise(t) == \/ TryInit(t) \/ Spin(t) \/ SetCookie(t) \/ Publish(t) \/ Preloaded(t)
                 \/ \E a \in Api : SetSlot(t, a) \/ Preload(t, a)
LookUp(t) == \/ TestSlot(t) \/ ReadSlot(t) \/ ReadModule(t) \/ Load(t) \/ CacheModule(t)
             \/ CacheInvalid(t) \/ FreeDuplicate(t) \/ FindProc(t) \/ Store(t)
Work(t) == Initialise(t) \/ LookUp(t)

Next ==
  \E t \in Thread :
    \/ Work(t)
    \/ \E a \in Api : Call(t, a)
    \/ Start(t)
    \/ \E why \in {"unloading", "exiting"} : Stop(t, why)
    \/ Uninitialise(t)

Spec == Init /\ [][Next]_vars

-----------------------------------------------------------------------------
(* Properties.                                                             *)

\* The types of the variables; a reference count is never below 0, so
\* FreeLibrary is never called for a reference the image does not hold.
TypeOK ==
  /\ present \subseteq Module /\ exported \subseteq Api /\ preload \in BOOLEAN
  /\ s_eThunksStatus \in {"None", "Wait", "Initialised", "Uninitialized"}
  /\ cookie \in {"zero", "set"}
  /\ slot \in [Api -> Word]
  /\ hModule \in [Module -> {"null", "handle", "invalid"}]
  /\ refs \in [Module -> Nat]
  /\ pc \in [Thread -> {"idle", "init", "spin", "cookie", "slots", "preload", "test", "read",
                        "module", "load", "cache", "invalid", "free", "proc", "store"}]
  /\ goal \in [Thread -> Api \cup {None}]
  /\ api \in [Thread -> Api \cup {None}]
  /\ todo \in [Thread -> SUBSET Api]
  /\ word \in [Thread -> Word]
  /\ result \in [Thread -> {"none", "found", "absent", "wild"}]
  /\ raced \in BOOLEAN
  /\ host \in {"running", "unloading", "exiting"}
  /\ last \in Thread \cup {None}

\* Unless a thread ran into another one's initialisation, every call returns the
\* system's function where the system has it and nothing where it has not, for
\* callers that race with the slots being set, with preloading and with each other.
GoodAnswers ==
  ~raced => \A t \in Thread :
    (pc[t] = "idle" /\ goal[t] # None /\ result[t] # "none") => result[t] = Right(goal[t])

Holding(m) == {t \in Thread : pc[t] \in {"cache", "free"} /\ ModuleOf[api[t]] = m}

\* References match what is cached and what is on its way there or back, so that
\* after uninitialisation none is left.
RefsBalanced ==
  \A m \in Module \ Pinned :
    refs[m] = Cardinality(Holding(m)) + (IF hModule[m] = "handle" THEN 1 ELSE 0)

\* Until the image is unloaded, the DLL of a cached function pointer, and of one
\* being looked up, stays loaded: also while the process exits.
PointersAlive ==
  host # "unloading" =>
    /\ \A a \in Api : (slot[a].val = "found" /\ ModuleOf[a] \notin Pinned) => refs[ModuleOf[a]] > 0
    /\ \A t \in Thread : (pc[t] = "proc" /\ ModuleOf[api[t]] \notin Pinned)
                            => refs[ModuleOf[api[t]]] > 0

\* What YY_Thunks.h:733 says of the end of _YY_initialize_winapi_thunks, "initialisation
\* is complete by now": no caller ever gets a pointer decoded with the wrong cookie.
NoWildPointer == \A t \in Thread : result[t] # "wild"

-----------------------------------------------------------------------------
(* The inductive invariant behind these properties.                        *)

Lookups == {"test", "read", "module", "load", "cache", "invalid", "free", "proc", "store"}

\* A thread looks something up: for itself, or in advance.
LocalInv ==
  \A t \in Thread :
    /\ pc[t] \in Lookups => api[t] \in Api /\ (todo[t] = {} => api[t] = goal[t])
    /\ pc[t] \in {"init", "spin"} =>
         IF api[t] = None THEN goal[t] = None ELSE todo[t] = {} => api[t] = goal[t]
    /\ (pc[t] # "idle" /\ goal[t] # None) => result[t] = "none"
    /\ pc[t] = "store" => word[t].val # "null"

\* What is known of a DLL is true, and a pointer that may be cached keeps it loaded.
ModulesInv ==
  /\ exported \subseteq {a \in Api : ModuleOf[a] \in present}
  /\ \A m \in Module : /\ hModule[m] = "handle" => m \in present
                       /\ hModule[m] = "invalid" => m \notin present
  /\ \A t \in Thread :
       /\ pc[t] \in {"cache", "free", "proc"} => ModuleOf[api[t]] \in present
       /\ pc[t] = "invalid" => ModuleOf[api[t]] \notin present

CachedInv ==
  host # "unloading" =>
    /\ \A a \in Api : slot[a].val = "found" => hModule[ModuleOf[a]] = "handle"
    /\ \A t \in Thread :
         (pc[t] \in {"free", "proc"} \/ (pc[t] = "store" /\ word[t].val = "found"))
           => hModule[ModuleOf[api[t]]] = "handle"

\* How far initialisation has come, and what a thread may rely on at each place.
Set(a) == slot[a].key = "set"
Settled == cookie = "set" /\ \A a \in Api : Set(a)

StatusInv ==
  /\ s_eThunksStatus = "None" =>
       /\ cookie = "zero" /\ \A a \in Api : slot[a] = Raw
       /\ \A t \in Thread : pc[t] \in {"idle", "test", "init"}
  /\ s_eThunksStatus = "Initialised" => Settled
  /\ s_eThunksStatus = "Uninitialized" => host # "running" /\ \A t \in Thread : t = last => pc[t] = "idle"

SlotsInv ==
  \A a \in Api : \/ slot[a] = Raw
                 \/ Set(a) /\ cookie = "set" /\ slot[a].val \in {"null", Right(a)}

ThreadInv ==
  \A t \in Thread :
    /\ pc[t] # "spin"
    /\ pc[t] \in {"cookie", "slots"} =>
         /\ s_eThunksStatus \in {"Wait", "Uninitialized"}
         /\ \A u \in Thread : pc[u] \in {"cookie", "slots"} => u = t
    /\ pc[t] = "cookie" => cookie = "zero"
    /\ pc[t] = "slots" => cookie = "set" /\ \A a \in Api \ todo[t] : Set(a)
    /\ pc[t] = "preload" => Settled
    /\ todo[t] # {} => pc[t] = "slots" \/ (Settled /\ pc[t] \in Lookups \cup {"preload"})
    /\ pc[t] \in Lookups \ {"test"} => cookie = "set" /\ Set(api[t])
    /\ pc[t] = "store" => word[t] = [val |-> Right(api[t]), key |-> "set"]

AnswersInv == ~raced => StatusInv /\ SlotsInv /\ ThreadInv

IInv == /\ TypeOK /\ LocalInv /\ ModulesInv /\ CachedInv /\ AnswersInv
        /\ GoodAnswers /\ RefsBalanced
=============================================================================
